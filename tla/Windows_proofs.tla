--------------------------- MODULE Windows_proofs ---------------------------
(***************************************************************************)
(* Windows and what hangs on them, for any surfaces, buffers, tokens and   *)
(* offers: an invariant that every step keeps for each of the modules      *)
(* MCWindows runs side by side.                                            *)
(***************************************************************************)
EXTENDS XdgToplevels, Positioner, DragAndDrop, SyncPoints, XdgConfigure,
        Subsurfaces, ActivationTokens, Queues_proofs, TLAPS

---------------------------------------------------------------------------
(***************************************************************************)
(* XdgToplevels: type, parent, dialog and decoration, and the cache of     *)
(* window ids. What keeps them is that a surface that is gone has nothing  *)
(* left and a toplevel has one dialog at a time.                           *)
(***************************************************************************)

\* A surface that is gone has nothing, and there is one dialog for a toplevel.
OneDialogEach ==
  \A d, e \in Dialog :
    dialog[d] # None /\ dialog[e] # None /\ dialog[d].for = dialog[e].for => d = e

GoneHasNothing ==
  \A s \in Surface : ~surf[s].live =>
    surf[s].top = None /\ surf[s].window = 0 /\ surf[s].parent = None /\ ~surf[s].modal

\* What Plexy knows of one window
Follows(s) ==
  surf[s].window # 0 =>
    /\ <<s, "type">> \notin behind => told[s].type = ProtocolType(surf[s])
    /\ <<s, "parent">> \notin behind => told[s].parent = ParentWindow(surf, s)
    /\ <<s, "server">> \notin behind => told[s].server = (surf[s].mode = "server")

\* What its dialog makes of one surface
ModalByDialog(s) ==
  surf[s].modal <=>
    \E d \in Dialog : /\ dialog[d] # None /\ dialog[d].modal
                      /\ surf[s].top = dialog[d].for

ToplevelsInv ==
  /\ ToplevelsTypeOK /\ OneDialogEach /\ GoneHasNothing
  /\ CacheIsLive /\ ParentIsLive
  /\ \A s \in Surface : Follows(s) /\ (s \notin odd => ModalByDialog(s))

\* The fields of a surface
LEMMA SurfIs ==
  ASSUME NEW r \in Surfaces
  PROVE  /\ r.live \in BOOLEAN /\ r.top \in Toplevel \cup {None} /\ r.window \in Ids
         /\ r.parent \in Surface \cup {None} /\ r.modal \in BOOLEAN /\ r.splash \in BOOLEAN
         /\ r.deco \in BOOLEAN /\ r.mode \in {"client", "server"}
BY DEF Surfaces

\* Of the surfaces whose window stays, the one that changes is the only one of
\* which Plexy's knowledge can be out of date.
LEMMA OthersFollow ==
  ASSUME ToplevelsInv, NEW s \in Surface, surf'[s].window = surf[s].window,
         \A o \in Surface \ {s} : surf'[o] = surf[o] /\ told'[o] = told[o],
         \A o \in Surface \ {s} : \A what : <<o, what>> \in behind => <<o, what>> \in behind'
  PROVE  \A o \in Surface \ {s} : Follows(o)'
<1> SUFFICES ASSUME NEW o \in Surface \ {s} PROVE Follows(o)'
  OBVIOUS
<1>1. surf'[o] = surf[o] /\ told'[o] = told[o] /\ Follows(o)
  BY DEF ToplevelsInv
<1>2. surf[o] \in Surfaces
  BY DEF ToplevelsInv, ToplevelsTypeOK
<1>3. surf[o].parent \in Surface \cup {None}
  BY <1>2, SurfIs
<1>4. ParentWindow(surf, o)' = ParentWindow(surf, o)
  BY <1>1, <1>3 DEF ParentWindow
<1>5. ProtocolType(surf'[o]) = ProtocolType(surf[o])
  BY <1>1
<1> QED BY <1>1, <1>4, <1>5 DEF Follows

\* The same step leaves every other surface as modal as it was.
LEMMA OthersModal ==
  ASSUME ToplevelsInv, NEW s \in Surface, UNCHANGED dialog,
         \A o \in Surface \ {s} : surf'[o] = surf[o],
         \A o \in Surface \ {s} : o \in odd => o \in odd'
  PROVE  \A o \in Surface \ {s} : o \notin odd' => ModalByDialog(o)'
BY DEF ToplevelsInv, ModalByDialog

\* Caches and parents of surfaces none of which goes or loses its window or
\* gets another parent.
LEMMA LiveStay ==
  ASSUME ToplevelsInv, UNCHANGED cache,
         \A o \in Surface : /\ surf'[o].live = surf[o].live /\ surf'[o].window = surf[o].window
                            /\ surf'[o].parent = surf[o].parent
  PROVE  CacheIsLive' /\ ParentIsLive'
<1>1. ToplevelsTypeOK /\ CacheIsLive /\ ParentIsLive
  BY DEF ToplevelsInv
<1>2. cache.surface \in Surface \cup {None} /\ cache'.surface = cache.surface /\ cache'.id = cache.id
  BY <1>1 DEF ToplevelsTypeOK
<1>3. CacheIsLive'
  BY <1>1, <1>2 DEF CacheIsLive
<1>4. \A s \in Surface : surf[s].parent \in Surface \cup {None}
  BY <1>1, SurfIs DEF ToplevelsTypeOK
<1>5. ParentIsLive'
  BY <1>1, <1>4 DEF ParentIsLive
<1> QED BY <1>3, <1>5

\* A step that changes title, mode or modality of one surface, and what Plexy
\* knows of it, keeps all of the invariant but what is said of that surface.
LEMMA OneChanges ==
  ASSUME ToplevelsInv, NEW s \in Surface, UNCHANGED <<dialog, odd, cache, windows>>,
         surf' \in [Surface -> Surfaces], told' \in [Surface -> Known],
         behind' \subseteq Surface \X {"type", "parent", "server"},
         \A o \in Surface \ {s} : surf'[o] = surf[o] /\ told'[o] = told[o],
         \A o \in Surface \ {s} : \A what : <<o, what>> \in behind => <<o, what>> \in behind',
         /\ surf'[s].live = surf[s].live /\ surf'[s].window = surf[s].window
         /\ surf'[s].parent = surf[s].parent /\ surf'[s].top = surf[s].top
         /\ surf'[s].modal = surf[s].modal,
         Follows(s)'
  PROVE  ToplevelsInv'
<1>1. ToplevelsTypeOK /\ OneDialogEach /\ GoneHasNothing
  BY DEF ToplevelsInv
<1>2. ToplevelsTypeOK'
  BY <1>1 DEF ToplevelsTypeOK
<1>3. OneDialogEach'
  BY <1>1 DEF OneDialogEach
<1>4. GoneHasNothing'
  BY <1>1 DEF GoneHasNothing
<1>5. CacheIsLive' /\ ParentIsLive'
  <2>1. \A o \in Surface : /\ surf'[o].live = surf[o].live /\ surf'[o].window = surf[o].window
                           /\ surf'[o].parent = surf[o].parent
    OBVIOUS
  <2> QED BY <2>1, LiveStay
<1>6. \A o \in Surface \ {s} : Follows(o)'
  BY OthersFollow
<1>7. \A o \in Surface : o \notin odd' => ModalByDialog(o)'
  BY DEF ToplevelsInv, ModalByDialog
<1> QED BY <1>2, <1>3, <1>4, <1>5, <1>6, <1>7 DEF ToplevelsInv

\* A step in which a dialog comes, changes or goes touches only the modality
\* of surfaces and the type Plexy knows of them.
LEMMA DialogChanges ==
  ASSUME ToplevelsInv, UNCHANGED <<odd, cache, windows>>,
         surf' \in [Surface -> Surfaces], told' \in [Surface -> Known],
         behind' \subseteq Surface \X {"type", "parent", "server"},
         dialog' \in [Dialog -> Dialogs \cup {None}], OneDialogEach',
         \A o \in Surface :
           /\ surf'[o].live = surf[o].live /\ surf'[o].window = surf[o].window
           /\ surf'[o].parent = surf[o].parent /\ surf'[o].top = surf[o].top
           /\ surf'[o].mode = surf[o].mode
           /\ surf'[o].modal => surf[o].live
           /\ told'[o].parent = told[o].parent /\ told'[o].server = told[o].server
           /\ <<o, "parent">> \in behind => <<o, "parent">> \in behind'
           /\ <<o, "server">> \in behind => <<o, "server">> \in behind',
         \A o \in Surface : surf[o].window # 0 /\ <<o, "type">> \notin behind' =>
           told'[o].type = ProtocolType(surf'[o]),
         \A o \in Surface : o \notin odd => ModalByDialog(o)'
  PROVE  ToplevelsInv'
<1>1. ToplevelsTypeOK /\ GoneHasNothing /\ \A o \in Surface : Follows(o)
  BY DEF ToplevelsInv
<1>2. ToplevelsTypeOK'
  BY <1>1 DEF ToplevelsTypeOK
<1>3. GoneHasNothing'
  BY <1>1 DEF GoneHasNothing
<1>4. CacheIsLive' /\ ParentIsLive'
  BY LiveStay
<1>5. ASSUME NEW o \in Surface PROVE Follows(o)'
  <2>1. surf[o].parent \in Surface \cup {None}
    BY <1>1, SurfIs DEF ToplevelsTypeOK
  <2>2. ParentWindow(surf, o)' = ParentWindow(surf, o)
    BY <2>1 DEF ParentWindow
  <2> QED BY <1>1, <2>2 DEF Follows
<1> QED BY <1>2, <1>3, <1>4, <1>5 DEF ToplevelsInv

\* The end of modality, by request or with the dialog, keeps the invariant.
LEMMA ReleasedKeeps ==
  ASSUME ToplevelsInv, NEW d \in Dialog, dialog[d] # None, Released(d),
         UNCHANGED <<odd, cache, windows>>,
         dialog' \in [Dialog -> Dialogs \cup {None}],
         \A e \in Dialog \ {d} : dialog'[e] = dialog[e],
         dialog'[d] # None => dialog'[d].for = dialog[d].for /\ ~dialog'[d].modal
  PROVE  ToplevelsInv'
<1>0. /\ ToplevelsTypeOK /\ OneDialogEach /\ GoneHasNothing /\ CacheIsLive /\ ParentIsLive
      /\ \A s \in Surface : Follows(s) /\ (s \notin odd => ModalByDialog(s))
  BY DEF ToplevelsInv
<1>1. \A s \in Surface : surf[s] \in Surfaces /\ told[s] \in Known
  BY <1>0 DEF ToplevelsTypeOK
<1>2. dialog[d] \in Dialogs /\ dialog[d].for \in Toplevel /\ None \notin Toplevel
  BY <1>0, ToplevelsAssumption DEF ToplevelsTypeOK, Dialogs
<1> DEFINE plain == {s \in Of(d) : surf[s].parent = None}
<1>3. /\ surf' = [s \in Surface |-> IF s \in Of(d) THEN [surf[s] EXCEPT !.modal = FALSE]
                                  ELSE surf[s]]
      /\ told' = [s \in Surface |-> IF s \in plain THEN [told[s] EXCEPT !.type = "normal"]
                                  ELSE told[s]]
      /\ behind' = (behind \ (plain \X {"type"}))
                   \cup ({s \in plain : surf[s].splash} \X {"type"})
  BY DEF Released
<1>4. \A s \in Surface : s \in Of(d) <=> surf[s].top = dialog[d].for
  BY DEF Of
<1>4a. \A s \in Surface : s \in plain <=> s \in Of(d) /\ surf[s].parent = None
  BY DEF Of
<1>4b. plain \subseteq Surface
  BY DEF Of
<1> HIDE DEF plain
<1>5. ASSUME NEW o \in Surface
      PROVE  /\ surf'[o] \in Surfaces
             /\ surf'[o].live = surf[o].live /\ surf'[o].window = surf[o].window
             /\ surf'[o].parent = surf[o].parent /\ surf'[o].top = surf[o].top
             /\ surf'[o].mode = surf[o].mode /\ surf'[o].splash = surf[o].splash
             /\ surf'[o].modal = (IF o \in Of(d) THEN FALSE ELSE surf[o].modal)
  <2>1. surf'[o] = (IF o \in Of(d) THEN [surf[o] EXCEPT !.modal = FALSE] ELSE surf[o])
    BY <1>3
  <2>2. surf[o] \in Surfaces
    BY <1>1
  <2> QED BY <2>1, <2>2 DEF Surfaces
<1>6. ASSUME NEW o \in Surface
      PROVE  /\ told'[o] \in Known
             /\ told'[o].parent = told[o].parent /\ told'[o].server = told[o].server
             /\ told'[o].type = (IF o \in plain THEN "normal" ELSE told[o].type)
  <2>1. told'[o] = (IF o \in plain THEN [told[o] EXCEPT !.type = "normal"] ELSE told[o])
    BY <1>3
  <2>2. told[o] \in Known
    BY <1>1
  <2> QED BY <2>1, <2>2 DEF Known
<1>7. surf' \in [Surface -> Surfaces]
  BY <1>3, <1>5
<1>8. told' \in [Surface -> Known]
  BY <1>3, <1>6
<1>9. behind' \subseteq Surface \X {"type", "parent", "server"}
  BY <1>0, <1>3, <1>4b DEF ToplevelsTypeOK
<1>10. \A o \in Surface :
         /\ <<o, "parent">> \in behind => <<o, "parent">> \in behind'
         /\ <<o, "server">> \in behind => <<o, "server">> \in behind'
  BY <1>3
<1>11. OneDialogEach'
  BY <1>0 DEF OneDialogEach
<1>12. ASSUME NEW o \in Surface, surf[o].window # 0, <<o, "type">> \notin behind'
       PROVE  told'[o].type = ProtocolType(surf'[o])
  <2>1. CASE o \in plain
    <3>1. ~surf[o].splash
      BY <1>3, <1>12, <2>1
    <3> QED BY <1>4a, <1>5, <1>6, <2>1, <3>1 DEF ProtocolType
  <2>2. CASE o \notin plain
    <3>1. <<o, "type">> \notin behind
      BY <1>3, <1>12, <2>2
    <3>2. told[o].type = ProtocolType(surf[o])
      BY <1>0, <1>12, <3>1 DEF Follows
    <3> QED BY <1>4a, <1>5, <1>6, <2>2, <3>2 DEF ProtocolType
  <2> QED BY <2>1, <2>2
<1>13. ASSUME NEW o \in Surface, o \notin odd PROVE ModalByDialog(o)'
  <2>1. ModalByDialog(o)
    BY <1>0, <1>13
  <2>2. CASE o \in Of(d)
    <3>1. \A e \in Dialog \ {d} : dialog[e] # None => dialog[e].for # surf[o].top
      BY <1>0, <1>4, <2>2 DEF OneDialogEach
    <3>2. ~(surf'[o].modal)
      BY <1>5, <2>2
    <3> QED BY <1>5, <3>1, <3>2 DEF ModalByDialog
  <2>3. CASE o \notin Of(d)
    <3>1. surf[o].top # dialog[d].for
      BY <1>4, <2>3
    <3> QED BY <1>5, <2>1, <2>3, <3>1 DEF ModalByDialog
  <2> QED BY <2>2, <2>3
<1>14. \A o \in Surface : surf'[o].modal => surf[o].live
  BY <1>0, <1>5 DEF GoneHasNothing
<1> QED BY <1>5, <1>6, <1>7, <1>8, <1>9, <1>10, <1>11, <1>12, <1>13, <1>14, DialogChanges

\* A surface just made and one that is gone
LEMMA BlankSurfaces ==
  /\ Fresh \in Surfaces /\ Fresh.live /\ Fresh.top = None /\ Fresh.window = 0
  /\ Fresh.parent = None /\ Fresh.modal = FALSE
  /\ Gone \in Surfaces /\ Gone.live = FALSE /\ Gone.top = None /\ Gone.window = 0
  /\ Gone.parent = None /\ Gone.modal = FALSE
  /\ Nothing \in Known
<1>1. 0 \in Ids
  BY ToplevelsAssumption DEF Ids
<1>2. /\ Fresh \in Surfaces /\ Fresh.live /\ Fresh.top = None /\ Fresh.window = 0
      /\ Fresh.parent = None /\ Fresh.modal = FALSE
  BY <1>1 DEF Fresh, Surfaces
<1>3. Gone = [Fresh EXCEPT !.live = FALSE]
  BY DEF Gone
<1>4. /\ Gone \in Surfaces /\ Gone.live = FALSE /\ Gone.top = None /\ Gone.window = 0
      /\ Gone.parent = None /\ Gone.modal = FALSE
  BY <1>2, <1>3 DEF Surfaces
<1>5. Nothing \in Known
  BY <1>1 DEF Nothing, Known
<1> QED BY <1>2, <1>4, <1>5

\* The windows and what belongs to them stay together through every request of
\* the client and every look-up of an event (bridge_surface_destroy,
\* xdg_toplevel_destroy, xdg_toplevel_set_parent, dialog_resource_destroy,
\* bridge_surface_from_window_id and the requests between them).
THEOREM ToplevelsHangTogether == ToplevelsSpec => []ToplevelsOK
<1>1. ToplevelsInit => ToplevelsInv
  <2> SUFFICES ASSUME ToplevelsInit PROVE ToplevelsInv
    OBVIOUS
  <2>1. Gone \in Surfaces /\ Nothing \in Known
        /\ Gone.top = None /\ Gone.window = 0 /\ Gone.parent = None /\ Gone.modal = FALSE
    BY BlankSurfaces
  <2>2. ToplevelsTypeOK
    BY <2>1, ToplevelsAssumption DEF ToplevelsInit, ToplevelsTypeOK, Ids
  <2>3. \A s \in Surface : surf[s] = Gone
    BY DEF ToplevelsInit
  <2>4. CacheIsLive
    BY DEF ToplevelsInit, CacheIsLive
  <2>5. ParentIsLive
    BY <2>1, <2>3 DEF ParentIsLive
  <2>6. \A s \in Surface : Follows(s) /\ ModalByDialog(s)
    BY <2>1, <2>3 DEF Follows, ModalByDialog, ToplevelsInit
  <2>7. OneDialogEach /\ GoneHasNothing
    BY <2>1, <2>3 DEF ToplevelsInit, OneDialogEach, GoneHasNothing
  <2> QED BY <2>2, <2>4, <2>5, <2>6, <2>7 DEF ToplevelsInv
<1>2. ToplevelsInv /\ [ToplevelsNext]_toplevelVars => ToplevelsInv'
  <2> SUFFICES ASSUME ToplevelsInv, [ToplevelsNext]_toplevelVars PROVE ToplevelsInv'
    OBVIOUS
  <2>0. /\ ToplevelsTypeOK /\ OneDialogEach /\ GoneHasNothing /\ CacheIsLive /\ ParentIsLive
        /\ \A s \in Surface : Follows(s) /\ (s \notin odd => ModalByDialog(s))
    BY DEF ToplevelsInv
  <2>t. /\ surf \in [Surface -> Surfaces]
        /\ dialog \in [Dialog -> Dialogs \cup {None}]
        /\ told \in [Surface -> Known]
        /\ behind \subseteq Surface \X {"type", "parent", "server"}
        /\ odd \subseteq Surface
        /\ cache \in [surface : Surface \cup {None}, id : Ids]
        /\ windows \in Ids
    BY <2>0 DEF ToplevelsTypeOK
  <2>f. \A s \in Surface :
          /\ surf[s] \in Surfaces /\ told[s] \in Known
          /\ surf[s].live \in BOOLEAN /\ surf[s].top \in Toplevel \cup {None}
          /\ surf[s].window \in Ids /\ surf[s].parent \in Surface \cup {None}
          /\ surf[s].modal \in BOOLEAN /\ surf[s].splash \in BOOLEAN
          /\ surf[s].deco \in BOOLEAN /\ surf[s].mode \in {"client", "server"}
    BY <2>t, SurfIs
  <2>n. None \notin Surface /\ None \notin Toplevel /\ None \notin Dialogs /\ MaxWindow \in Nat
    BY ToplevelsAssumption
  <2>1. ASSUME NEW s \in Surface, CreateSurface(s) PROVE ToplevelsInv'
    <3>0. ~surf[s].live /\ surf' = [surf EXCEPT ![s] = Fresh]
          /\ UNCHANGED <<told, behind, dialog, odd, cache, windows>>
      BY <2>1 DEF CreateSurface, Rest
    <3>1. Fresh \in Surfaces /\ Fresh.live /\ Fresh.top = None /\ Fresh.window = 0
          /\ Fresh.parent = None /\ ~Fresh.modal
      BY BlankSurfaces
    <3>2. surf' \in [Surface -> Surfaces] /\ surf'[s] = Fresh
          /\ \A o \in Surface \ {s} : surf'[o] = surf[o]
      BY <2>t, <3>0, <3>1
    <3>3. surf[s].top = None /\ surf[s].window = 0 /\ surf[s].parent = None /\ ~surf[s].modal
      BY <2>0, <3>0 DEF GoneHasNothing
    <3>4. ToplevelsTypeOK'
      BY <2>t, <3>0, <3>2 DEF ToplevelsTypeOK
    <3>5. CacheIsLive'
      BY <2>0, <2>t, <3>0, <3>2 DEF CacheIsLive
    <3>6. ParentIsLive'
      BY <2>0, <2>f, <3>0, <3>1, <3>2, <3>3 DEF ParentIsLive
    <3>7. OneDialogEach' /\ GoneHasNothing'
      BY <2>0, <3>0, <3>1, <3>2 DEF OneDialogEach, GoneHasNothing
    <3>8. \A o \in Surface \ {s} : Follows(o)'
      BY <3>0, <3>1, <3>2, <3>3, OthersFollow
    <3>9. Follows(s)'
      BY <3>1, <3>2 DEF Follows
    <3>10. \A o \in Surface : o \notin odd' => ModalByDialog(o)'
      BY <2>0, <3>0, <3>1, <3>2, <3>3 DEF ModalByDialog
    <3> QED BY <3>4, <3>5, <3>6, <3>7, <3>8, <3>9, <3>10 DEF ToplevelsInv
  <2>2. ASSUME NEW s \in Surface, DestroySurface(s) PROVE ToplevelsInv'
    <3>0. /\ surf[s].live /\ surf[s].top = None
          /\ surf' = [o \in Surface |->
                        IF o = s THEN Gone
                        ELSE IF surf[o].parent = s THEN [surf[o] EXCEPT !.parent = None]
                        ELSE surf[o]]
          /\ behind' = (behind \ ({s} \X {"type", "parent", "server"}))
                       \cup ({o \in Surface : surf[o].parent = s} \X {"type", "parent"})
          /\ odd' = odd \ {s}
          /\ told' = [told EXCEPT ![s] = Nothing]
          /\ UNCHANGED <<dialog, windows>>
      BY <2>2 DEF DestroySurface
    <3>1. Gone \in Surfaces /\ Nothing \in Known /\ Gone.live = FALSE
          /\ Gone.top = None /\ Gone.window = 0 /\ Gone.parent = None /\ Gone.modal = FALSE
      BY BlankSurfaces
    <3>2. /\ surf'[s] = Gone
          /\ \A o \in Surface \ {s} :
               /\ surf'[o] \in Surfaces
               /\ surf'[o].live = surf[o].live /\ surf'[o].top = surf[o].top
               /\ surf'[o].window = surf[o].window /\ surf'[o].modal = surf[o].modal
               /\ surf'[o].splash = surf[o].splash /\ surf'[o].mode = surf[o].mode
               /\ surf'[o].parent = IF surf[o].parent = s THEN None ELSE surf[o].parent
      <4>1. ASSUME NEW o \in Surface \ {s}, surf[o].parent = s
            PROVE  /\ surf'[o] \in Surfaces
                   /\ surf'[o].live = surf[o].live /\ surf'[o].top = surf[o].top
                   /\ surf'[o].window = surf[o].window /\ surf'[o].modal = surf[o].modal
                   /\ surf'[o].splash = surf[o].splash /\ surf'[o].mode = surf[o].mode
                   /\ surf'[o].parent = None
        <5>1. surf'[o] = [surf[o] EXCEPT !.parent = None] /\ surf[o] \in Surfaces
          BY <2>f, <3>0, <4>1
        <5> QED BY <5>1 DEF Surfaces
      <4>2. ASSUME NEW o \in Surface \ {s}, surf[o].parent # s PROVE surf'[o] = surf[o]
        BY <3>0, <4>2
      <4> QED BY <2>f, <3>0, <4>1, <4>2
    <3>3. surf' \in [Surface -> Surfaces]
      BY <3>0, <3>1, <3>2
    <3>4. /\ cache' \in [surface : Surface \cup {None}, id : Ids]
          /\ \/ cache' = cache /\ cache.surface # s
             \/ cache'.surface = None
      <4>1. CASE surf[s].window # 0
        <5>1. SetWindow(s, 0)
          BY <2>2, <4>1 DEF DestroySurface, Windowed
        <5>2. cache' = IF cache.surface = s THEN [surface |-> None, id |-> 0] ELSE cache
          BY <5>1 DEF SetWindow
        <5> QED BY <2>t, <2>n, <5>2 DEF Ids
      <4>2. CASE surf[s].window = 0
        <5>1. cache' = cache
          BY <2>2, <4>2 DEF DestroySurface, Windowed
        <5>2. cache.surface # s
          BY <2>0, <2>n, <4>2 DEF CacheIsLive
        <5> QED BY <2>t, <5>1, <5>2
      <4> QED BY <4>1, <4>2
    <3>5. ToplevelsTypeOK'
      BY <2>t, <3>0, <3>1, <3>3, <3>4 DEF ToplevelsTypeOK
    <3>6. CacheIsLive'
      <4> SUFFICES ASSUME cache'.surface # None PROVE CacheIsLive'
        BY DEF CacheIsLive
      <4>1. cache' = cache /\ cache.surface \in Surface \ {s}
        BY <2>t, <3>4
      <4> QED BY <2>0, <3>2, <4>1 DEF CacheIsLive
    <3>7. ParentIsLive'
      BY <2>0, <2>f, <3>1, <3>2 DEF ParentIsLive
    <3>8. OneDialogEach' /\ GoneHasNothing'
      BY <2>0, <3>0, <3>1, <3>2 DEF OneDialogEach, GoneHasNothing
    <3>9. ASSUME NEW o \in Surface \ {s} PROVE Follows(o)'
      <4>1. Follows(o) /\ told'[o] = told[o]
        BY <2>0, <2>t, <3>0
      <4>2. \A what : <<o, what>> \in behind => <<o, what>> \in behind'
        BY <3>0
      <4>3. surf[o].parent # s => /\ ProtocolType(surf'[o]) = ProtocolType(surf[o])
                                  /\ ParentWindow(surf, o)' = ParentWindow(surf, o)
        BY <2>f, <3>2 DEF ProtocolType, ParentWindow
      <4>4. surf[o].parent = s => <<o, "type">> \in behind' /\ <<o, "parent">> \in behind'
        BY <3>0
      <4> QED BY <3>2, <4>1, <4>2, <4>3, <4>4 DEF Follows
    <3>10. Follows(s)'
      BY <3>1, <3>2 DEF Follows
    <3>11. \A o \in Surface \ {s} : o \notin odd' => ModalByDialog(o)'
      BY <2>0, <3>0, <3>2 DEF ModalByDialog
    <3>12. ModalByDialog(s)'
      <4>1. \A d \in Dialog : dialog[d] # None => dialog[d].for \in Toplevel
        BY <2>t DEF Dialogs
      <4> QED BY <2>n, <3>0, <3>1, <3>2, <4>1 DEF ModalByDialog
    <3> QED BY <3>5, <3>6, <3>7, <3>8, <3>9, <3>10, <3>11, <3>12 DEF ToplevelsInv
  <2>3. ASSUME NEW s \in Surface, ToplevelDestroy(s) PROVE ToplevelsInv'
    <3> DEFINE r == [surf[s] EXCEPT !.top = None, !.mode = "client"]
    <3>0. surf[s].top # None /\ surf' = [surf EXCEPT ![s] = r]
          /\ odd' = (IF surf[s].modal THEN odd \cup {s} ELSE odd)
          /\ behind' = (IF surf[s].mode = "server" THEN behind \cup {<<s, "server">>} ELSE behind)
          /\ UNCHANGED <<dialog, told, cache, windows>>
      <4>1. surf' = [surf EXCEPT ![s].top = None, ![s].mode = "client"]
        BY <2>3 DEF ToplevelDestroy
      <4>2. surf' = [surf EXCEPT ![s] = r]
        BY <2>t, <4>1
      <4> QED BY <2>3, <4>2 DEF ToplevelDestroy
    <3>1. r \in Surfaces /\ r.top = None /\ r.mode = "client" /\ r.live = surf[s].live
          /\ r.window = surf[s].window /\ r.parent = surf[s].parent /\ r.modal = surf[s].modal
          /\ r.splash = surf[s].splash
      BY <2>f DEF Surfaces
    <3> HIDE DEF r
    <3>2. surf' \in [Surface -> Surfaces] /\ surf'[s] = r
          /\ \A o \in Surface \ {s} : surf'[o] = surf[o]
      BY <2>t, <3>0, <3>1
    <3>3. ToplevelsTypeOK'
      BY <2>t, <3>0, <3>2 DEF ToplevelsTypeOK
    <3>4. CacheIsLive' /\ ParentIsLive'
      BY <3>0, <3>1, <3>2, LiveStay
    <3>5. OneDialogEach' /\ GoneHasNothing'
      BY <2>0, <3>0, <3>1, <3>2 DEF OneDialogEach, GoneHasNothing
    <3>6. \A o \in Surface \ {s} : Follows(o)'
      <4>1. \A o \in Surface \ {s} : \A what : <<o, what>> \in behind => <<o, what>> \in behind'
        BY <3>0
      <4> QED BY <3>0, <3>1, <3>2, <4>1, OthersFollow
    <3>7. Follows(s)'
      <4>1. ProtocolType(surf'[s]) = ProtocolType(surf[s])
        BY <3>1, <3>2 DEF ProtocolType
      <4>2. ParentWindow(surf, s)' = ParentWindow(surf, s)
        BY <2>f, <3>1, <3>2 DEF ParentWindow
      <4>3. Follows(s) /\ surf[s].mode \in {"client", "server"} /\ told'[s] = told[s]
        BY <2>0, <2>f, <3>0
      <4>4. /\ <<s, "type">> \notin behind' => <<s, "type">> \notin behind
            /\ <<s, "parent">> \notin behind' => <<s, "parent">> \notin behind
            /\ <<s, "server">> \notin behind' => <<s, "server">> \notin behind /\ surf[s].mode # "server"
        BY <3>0
      <4> QED BY <3>1, <3>2, <4>1, <4>2, <4>3, <4>4 DEF Follows
    <3>8. \A o \in Surface \ {s} : o \notin odd' => ModalByDialog(o)'
      BY <3>0, <3>2, OthersModal
    <3>9. s \notin odd' => ModalByDialog(s)'
      <4> SUFFICES ASSUME s \notin odd' PROVE ModalByDialog(s)'
        OBVIOUS
      <4>1. ~surf[s].modal
        BY <3>0
      <4>2. \A d \in Dialog : dialog[d] # None => dialog[d].for \in Toplevel
        BY <2>t DEF Dialogs
      <4> QED BY <2>n, <3>0, <3>1, <3>2, <4>1, <4>2 DEF ModalByDialog
    <3> QED BY <3>3, <3>4, <3>5, <3>6, <3>7, <3>8, <3>9 DEF ToplevelsInv
  <2>4. ASSUME NEW s \in Surface, NEW t \in Toplevel, GetToplevel(s, t) PROVE ToplevelsInv'
    <3> DEFINE r == [surf[s] EXCEPT !.top = t, !.window = windows + 1]
    <3>u. [surf EXCEPT ![s].top = t, ![s].window = windows + 1] = [surf EXCEPT ![s] = r]
      BY <2>t
    <3> DEFINE u == [surf EXCEPT ![s] = r]
    <3>0. /\ surf[s].live /\ surf[s].top = None /\ windows < MaxWindow
          /\ surf' = u /\ windows' = windows + 1
          /\ told' = [told EXCEPT ![s] = [type |-> ProtocolType(u[s]),
                                          parent |-> ParentWindow(u, s),
                                          server |-> u[s].mode = "server"]]
          /\ behind' = (behind \ ({s} \X {"type", "parent", "server"}))
                       \cup ({o \in Surface : surf[o].parent = s} \X {"parent"})
          /\ SetWindow(s, windows + 1)
          /\ odd' = (IF \E d \in Dialog : dialog[d] # None /\ dialog[d].for = t
                     THEN odd \cup {s} ELSE odd)
          /\ UNCHANGED dialog
      BY <2>4, <3>u DEF GetToplevel
    <3>1. windows + 1 \in Ids /\ windows + 1 # 0
      BY <2>t, <2>n, <3>0 DEF Ids
    <3>2. r \in Surfaces /\ r.top = t /\ r.window = windows + 1 /\ r.live = surf[s].live
          /\ r.parent = surf[s].parent /\ r.modal = surf[s].modal
      BY <2>f, <3>1 DEF Surfaces
    <3> HIDE DEF r
    <3>3. surf' \in [Surface -> Surfaces] /\ surf'[s] = r
          /\ \A o \in Surface \ {s} : surf'[o] = surf[o]
      BY <2>t, <3>0, <3>2
    <3>4. /\ told'[s] = [type |-> ProtocolType(surf'[s]), parent |-> ParentWindow(surf', s),
                         server |-> surf'[s].mode = "server"]
          /\ \A o \in Surface \ {s} : told'[o] = told[o]
      BY <2>t, <3>0
    <3> HIDE DEF u
    <3>5. ProtocolType(surf'[s]) \in {"normal", "dialog", "splash"} /\ ParentWindow(surf', s) \in Ids
      <4>1. \A o \in Surface : surf'[o].window \in Ids
        BY <2>f, <3>1, <3>2, <3>3
      <4>2. surf'[s].parent \in Surface \cup {None} /\ 0 \in Ids
        BY <2>f, <2>n, <3>2, <3>3 DEF Ids
      <4> QED BY <4>1, <4>2 DEF ProtocolType, ParentWindow
    <3>6. told' \in [Surface -> Known]
      <4>1. told'[s] \in Known
        BY <3>4, <3>5 DEF Known
      <4> QED BY <2>t, <3>0, <4>1
    <3>7. cache' = [surface |-> s, id |-> windows + 1]
      BY <3>0, <3>1 DEF SetWindow
    <3>8. ToplevelsTypeOK'
      BY <2>t, <3>0, <3>1, <3>3, <3>6, <3>7 DEF ToplevelsTypeOK
    <3>9. CacheIsLive'
      BY <3>0, <3>1, <3>2, <3>3, <3>7 DEF CacheIsLive
    <3>10. ParentIsLive'
      BY <2>0, <2>f, <3>2, <3>3 DEF ParentIsLive
    <3>11. OneDialogEach' /\ GoneHasNothing'
      BY <2>0, <3>0, <3>2, <3>3 DEF OneDialogEach, GoneHasNothing
    <3>12. ASSUME NEW o \in Surface \ {s} PROVE Follows(o)'
      <4>1. Follows(o) /\ surf'[o] = surf[o] /\ told'[o] = told[o]
        BY <2>0, <3>3, <3>4
      <4>2. \A what : <<o, what>> \in behind => <<o, what>> \in behind'
        BY <3>0
      <4>3. surf[o].parent # s => ParentWindow(surf, o)' = ParentWindow(surf, o)
        BY <2>f, <3>3 DEF ParentWindow
      <4>4. surf[o].parent = s => <<o, "parent">> \in behind'
        BY <3>0
      <4>5. ProtocolType(surf'[o]) = ProtocolType(surf[o])
        BY <4>1
      <4> QED BY <4>1, <4>2, <4>3, <4>4, <4>5 DEF Follows
    <3>13. Follows(s)'
      <4>1. /\ told'[s].type = ProtocolType(surf'[s])
            /\ told'[s].parent = ParentWindow(surf', s)
            /\ told'[s].server = (surf'[s].mode = "server")
        BY <3>4
      <4>2. ParentWindow(surf, s)' = ParentWindow(surf', s)
        BY DEF ParentWindow
      <4> QED BY <4>1, <4>2 DEF Follows
    <3>14. \A o \in Surface \ {s} : o \notin odd' => ModalByDialog(o)'
      BY <3>0, <3>3, OthersModal
    <3>15. s \notin odd' => ModalByDialog(s)'
      <4> SUFFICES ASSUME s \notin odd' PROVE ModalByDialog(s)'
        OBVIOUS
      <4>1. /\ ModalByDialog(s)
            /\ \A d \in Dialog : dialog[d] # None => dialog[d].for # t
        BY <2>0, <3>0
      <4>2. \A d \in Dialog : dialog[d] # None => dialog[d].for \in Toplevel
        BY <2>t DEF Dialogs
      <4>3. ~surf[s].modal
        BY <2>n, <3>0, <4>1, <4>2 DEF ModalByDialog
      <4> QED BY <3>0, <3>2, <3>3, <4>1, <4>3 DEF ModalByDialog
    <3> QED BY <3>8, <3>9, <3>10, <3>11, <3>12, <3>13, <3>14, <3>15 DEF ToplevelsInv
  <2>5. ASSUME NEW s \in Surface, NEW p \in Surface \cup {None}, SetParent(s, p)
        PROVE  ToplevelsInv'
    <3> DEFINE r == [surf[s] EXCEPT !.parent = p]
    <3>u. [surf EXCEPT ![s].parent = p] = [surf EXCEPT ![s] = r]
      BY <2>t
    <3> DEFINE u == [surf EXCEPT ![s] = r]
    <3>0. /\ surf[s].top # None /\ p # s /\ (p # None => surf[p].top # None)
          /\ surf' = u
          /\ told' = [told EXCEPT ![s] = IF Windowed(s) THEN Adopted(u, s) ELSE @]
          /\ behind' = behind \ ({s} \X {"type", "parent"})
          /\ UNCHANGED <<dialog, odd, cache, windows>>
      BY <2>5, <3>u DEF SetParent, UpToDate, Rest
    <3>2. r \in Surfaces /\ r.top = surf[s].top /\ r.window = surf[s].window /\ r.live = surf[s].live
          /\ r.parent = p /\ r.modal = surf[s].modal /\ r.mode = surf[s].mode
      BY <2>f DEF Surfaces
    <3> HIDE DEF r
    <3>3. surf' \in [Surface -> Surfaces] /\ surf'[s] = r
          /\ \A o \in Surface \ {s} : surf'[o] = surf[o]
      BY <2>t, <3>0, <3>2
    <3>4. /\ told'[s] = (IF Windowed(s) THEN Adopted(surf', s) ELSE told[s])
          /\ \A o \in Surface \ {s} : told'[o] = told[o]
      BY <2>t, <3>0
    <3> HIDE DEF u
    <3>5. ProtocolType(surf'[s]) \in {"normal", "dialog", "splash"} /\ ParentWindow(surf', s) \in Ids
      <4>1. \A o \in Surface : surf'[o].window \in Ids
        BY <2>f, <3>2, <3>3
      <4>2. surf'[s].parent \in Surface \cup {None} /\ 0 \in Ids
        BY <2>f, <2>n, <3>2, <3>3 DEF Ids
      <4> QED BY <4>1, <4>2 DEF ProtocolType, ParentWindow
    <3>6. /\ Adopted(surf', s) \in Known /\ Adopted(surf', s).type = ProtocolType(surf'[s])
          /\ Adopted(surf', s).parent = ParentWindow(surf', s)
          /\ Adopted(surf', s).server = told[s].server
      <4>1. told[s] \in Known
        BY <2>f
      <4> QED BY <3>5, <4>1 DEF Adopted, Typed, Known
    <3>7. told' \in [Surface -> Known]
      <4>1. told'[s] \in Known
        BY <2>f, <3>4, <3>6
      <4> QED BY <2>t, <3>0, <4>1
    <3>8. ToplevelsTypeOK'
      BY <2>t, <3>0, <3>3, <3>7 DEF ToplevelsTypeOK
    <3>9. CacheIsLive'
      BY <2>0, <2>t, <3>0, <3>2, <3>3 DEF CacheIsLive
    <3>10. ParentIsLive'
      <4>1. surf[s].live /\ (p # None => surf[p].live)
        BY <2>0, <3>0 DEF GoneHasNothing
      <4>2. \A q \in Surface : surf'[q].live = surf[q].live
        BY <3>2, <3>3
      <4>3. ASSUME NEW q \in Surface \ {s}, surf'[q].parent # None
            PROVE  surf'[q].live /\ surf'[q].parent # q /\ surf'[surf'[q].parent].live
        BY <2>0, <2>f, <3>3, <4>2, <4>3 DEF ParentIsLive
      <4>4. ASSUME surf'[s].parent # None
            PROVE  surf'[s].live /\ surf'[s].parent # s /\ surf'[surf'[s].parent].live
        BY <3>0, <3>2, <3>3, <4>1, <4>2, <4>4
      <4> QED BY <4>3, <4>4 DEF ParentIsLive
    <3>11. OneDialogEach' /\ GoneHasNothing'
      BY <2>0, <3>0, <3>2, <3>3 DEF OneDialogEach, GoneHasNothing
    <3>12. \A o \in Surface \ {s} : Follows(o)'
      <4>1. \A o \in Surface \ {s} : \A what : <<o, what>> \in behind => <<o, what>> \in behind'
        BY <3>0
      <4> QED BY <3>2, <3>3, <3>4, <4>1, OthersFollow
    <3>13. Follows(s)'
      <4> SUFFICES ASSUME surf[s].window # 0 PROVE Follows(s)'
        BY <3>2, <3>3 DEF Follows
      <4>1. told'[s] = Adopted(surf', s)
        BY <3>4 DEF Windowed
      <4>2. ParentWindow(surf, s)' = ParentWindow(surf', s)
        BY DEF ParentWindow
      <4>3. <<s, "server">> \notin behind' => <<s, "server">> \notin behind
        BY <3>0
      <4>4. Follows(s)
        BY <2>0
      <4> QED BY <3>2, <3>3, <3>6, <4>1, <4>2, <4>3, <4>4 DEF Follows
    <3>14. \A o \in Surface : o \notin odd' => ModalByDialog(o)'
      BY <2>0, <3>0, <3>2, <3>3 DEF ModalByDialog
    <3> QED BY <3>8, <3>9, <3>10, <3>11, <3>12, <3>13, <3>14 DEF ToplevelsInv
  <2>6. ASSUME NEW s \in Surface, NEW on \in BOOLEAN, SetSplash(s, on) PROVE ToplevelsInv'
    <3> DEFINE r == [surf[s] EXCEPT !.splash = on]
    <3>u. [surf EXCEPT ![s].splash = on] = [surf EXCEPT ![s] = r]
      BY <2>t
    <3> DEFINE u == [surf EXCEPT ![s] = r]
               tell == surf[s].parent = None /\ ~surf[s].modal /\ Windowed(s)
    <3>0. /\ surf' = u
          /\ tell => told' = [told EXCEPT ![s] = Typed(u, s)] /\ behind' = behind \ ({s} \X {"type"})
          /\ ~tell => UNCHANGED <<told, behind>>
          /\ UNCHANGED <<dialog, odd, cache, windows>>
      BY <2>6, <3>u DEF SetSplash, UpToDate, Rest
    <3>2. r \in Surfaces /\ r.top = surf[s].top /\ r.window = surf[s].window /\ r.live = surf[s].live
          /\ r.parent = surf[s].parent /\ r.modal = surf[s].modal /\ r.mode = surf[s].mode
      BY <2>f DEF Surfaces
    <3> HIDE DEF r
    <3>3. surf' \in [Surface -> Surfaces] /\ surf'[s] = r
          /\ \A o \in Surface \ {s} : surf'[o] = surf[o]
      BY <2>t, <3>0, <3>2
    <3>4. u = surf'
      BY <3>0
    <3> HIDE DEF u
    <3>5. /\ Typed(surf', s) \in Known /\ Typed(surf', s).type = ProtocolType(surf'[s])
          /\ Typed(surf', s).parent = told[s].parent /\ Typed(surf', s).server = told[s].server
      <4>1. told[s] \in Known /\ ProtocolType(surf'[s]) \in {"normal", "dialog", "splash"}
        BY <2>f DEF ProtocolType
      <4> QED BY <4>1 DEF Typed, Known
    <3>6. told' \in [Surface -> Known] /\ (\A o \in Surface \ {s} : told'[o] = told[o])
          /\ told'[s] = (IF tell THEN Typed(surf', s) ELSE told[s])
      BY <2>t, <3>0, <3>4, <3>5
    <3>7. behind' \subseteq Surface \X {"type", "parent", "server"}
          /\ \A o \in Surface \ {s} : \A what : <<o, what>> \in behind => <<o, what>> \in behind'
      BY <2>t, <3>0
    <3>8. Follows(s)'
      <4> SUFFICES ASSUME surf[s].window # 0 PROVE Follows(s)'
        BY <3>2, <3>3 DEF Follows
      <4>1. ParentWindow(surf, s)' = ParentWindow(surf, s)
        BY <2>f, <3>2, <3>3 DEF ParentWindow
      <4>2. Follows(s)
        BY <2>0
      <4>3. CASE tell
        <5>1. /\ <<s, "parent">> \notin behind' => <<s, "parent">> \notin behind
              /\ <<s, "server">> \notin behind' => <<s, "server">> \notin behind
          BY <3>0, <4>3
        <5> QED BY <3>2, <3>3, <3>5, <3>6, <4>1, <4>2, <4>3, <5>1 DEF Follows
      <4>4. CASE ~tell
        <5>1. surf[s].parent # None \/ surf[s].modal
          BY <4>4 DEF Windowed
        <5>2. ProtocolType(surf'[s]) = ProtocolType(surf[s])
          BY <3>2, <3>3, <5>1 DEF ProtocolType
        <5> QED BY <3>0, <3>2, <3>3, <4>1, <4>2, <4>4, <5>2 DEF Follows
      <4> QED BY <4>3, <4>4
    <3> QED BY <3>0, <3>2, <3>3, <3>6, <3>7, <3>8, OneChanges
  <2>7. ASSUME NEW s \in Surface, NEW mode \in {"client", "server", "other"}, SetMode(s, mode)
        PROVE  ToplevelsInv'
    <3> DEFINE actual == IF mode = "client" THEN "client" ELSE "server"
               r == [surf[s] EXCEPT !.mode = actual]
    <3>u. [surf EXCEPT ![s].mode = actual] = [surf EXCEPT ![s] = r]
      BY <2>t
    <3>0. /\ surf' = [surf EXCEPT ![s] = r]
          /\ Windowed(s) => told' = [told EXCEPT ![s].server = (actual = "server")]
                            /\ behind' = behind \ ({s} \X {"server"})
          /\ ~Windowed(s) => UNCHANGED <<told, behind>>
          /\ UNCHANGED <<dialog, odd, cache, windows>>
      BY <2>7, <3>u DEF SetMode, UpToDate, Rest
    <3>1. actual \in {"client", "server"}
      OBVIOUS
    <3> HIDE DEF actual
    <3>2. r \in Surfaces /\ r.top = surf[s].top /\ r.window = surf[s].window /\ r.live = surf[s].live
          /\ r.parent = surf[s].parent /\ r.modal = surf[s].modal /\ r.splash = surf[s].splash
          /\ r.mode = actual
      BY <2>f, <3>1 DEF Surfaces
    <3> HIDE DEF r
    <3>3. surf' \in [Surface -> Surfaces] /\ surf'[s] = r
          /\ \A o \in Surface \ {s} : surf'[o] = surf[o]
      BY <2>t, <3>0, <3>2
    <3> DEFINE k == [told[s] EXCEPT !.server = (actual = "server")]
    <3>4. k \in Known /\ k.type = told[s].type /\ k.parent = told[s].parent
          /\ k.server = (actual = "server")
      <4>1. told[s] \in Known /\ (actual = "server") \in BOOLEAN
        BY <2>f
      <4> QED BY <4>1 DEF Known
    <3>5. Windowed(s) => told' = [told EXCEPT ![s] = k]
      BY <2>t, <3>0
    <3> HIDE DEF k
    <3>6. told' \in [Surface -> Known] /\ (\A o \in Surface \ {s} : told'[o] = told[o])
          /\ (Windowed(s) => told'[s] = k)
      BY <2>t, <3>0, <3>4, <3>5
    <3>7. behind' \subseteq Surface \X {"type", "parent", "server"}
          /\ \A o \in Surface \ {s} : \A what : <<o, what>> \in behind => <<o, what>> \in behind'
      BY <2>t, <3>0
    <3>8. Follows(s)'
      <4> SUFFICES ASSUME Windowed(s) PROVE Follows(s)'
        BY <3>2, <3>3 DEF Follows, Windowed
      <4>1. ParentWindow(surf, s)' = ParentWindow(surf, s)
        BY <2>f, <3>2, <3>3 DEF ParentWindow
      <4>2. ProtocolType(surf'[s]) = ProtocolType(surf[s])
        BY <3>2, <3>3 DEF ProtocolType
      <4>3. /\ <<s, "parent">> \notin behind' => <<s, "parent">> \notin behind
            /\ <<s, "type">> \notin behind' => <<s, "type">> \notin behind
        BY <3>0
      <4>4. Follows(s)
        BY <2>0
      <4> QED BY <3>2, <3>3, <3>4, <3>6, <4>1, <4>2, <4>3, <4>4 DEF Follows
    <3> QED BY <3>0, <3>2, <3>3, <3>6, <3>7, <3>8, OneChanges
  <2>8. ASSUME NEW s \in Surface, GetDecoration(s) PROVE ToplevelsInv'
    <3> DEFINE r == [surf[s] EXCEPT !.deco = TRUE, !.mode = "client"]
    <3>u. [surf EXCEPT ![s].deco = TRUE, ![s].mode = "client"] = [surf EXCEPT ![s] = r]
      BY <2>t
    <3>0. /\ surf' = [surf EXCEPT ![s] = r]
          /\ behind' = (IF surf[s].mode = "server" THEN behind \cup {<<s, "server">>} ELSE behind)
          /\ UNCHANGED <<told, dialog, odd, cache, windows>>
      BY <2>8, <3>u DEF GetDecoration, Rest
    <3>2. r \in Surfaces /\ r.top = surf[s].top /\ r.window = surf[s].window /\ r.live = surf[s].live
          /\ r.parent = surf[s].parent /\ r.modal = surf[s].modal /\ r.splash = surf[s].splash
          /\ r.mode = "client"
      BY <2>f DEF Surfaces
    <3> HIDE DEF r
    <3>3. surf' \in [Surface -> Surfaces] /\ surf'[s] = r
          /\ \A o \in Surface \ {s} : surf'[o] = surf[o]
      BY <2>t, <3>0, <3>2
    <3>4. behind' \subseteq Surface \X {"type", "parent", "server"}
          /\ \A o \in Surface \ {s} : \A what : <<o, what>> \in behind => <<o, what>> \in behind'
      BY <2>t, <3>0
    <3>5. Follows(s)'
      <4>1. ParentWindow(surf, s)' = ParentWindow(surf, s)
        BY <2>f, <3>2, <3>3 DEF ParentWindow
      <4>2. ProtocolType(surf'[s]) = ProtocolType(surf[s])
        BY <3>2, <3>3 DEF ProtocolType
      <4>3. /\ <<s, "parent">> \notin behind' => <<s, "parent">> \notin behind
            /\ <<s, "type">> \notin behind' => <<s, "type">> \notin behind
            /\ <<s, "server">> \notin behind' => <<s, "server">> \notin behind /\ surf[s].mode # "server"
        BY <3>0
      <4>4. Follows(s) /\ told'[s] = told[s] /\ surf[s].mode \in {"client", "server"}
        BY <2>0, <2>f, <3>0
      <4> QED BY <3>2, <3>3, <4>1, <4>2, <4>3, <4>4 DEF Follows
    <3>6. told' \in [Surface -> Known] /\ \A o \in Surface \ {s} : told'[o] = told[o]
      BY <2>t, <3>0
    <3> QED BY <3>0, <3>2, <3>3, <3>4, <3>5, <3>6, OneChanges
  <2>9. ASSUME NEW s \in Surface, DestroyDecoration(s) PROVE ToplevelsInv'
    <3> DEFINE r == [surf[s] EXCEPT !.deco = FALSE, !.mode = "client"]
    <3>u. [surf EXCEPT ![s].deco = FALSE, ![s].mode = "client"] = [surf EXCEPT ![s] = r]
      BY <2>t
    <3>0. /\ surf' = [surf EXCEPT ![s] = r]
          /\ behind' = (IF surf[s].mode = "server" THEN behind \cup {<<s, "server">>} ELSE behind)
          /\ UNCHANGED <<told, dialog, odd, cache, windows>>
      BY <2>9, <3>u DEF DestroyDecoration, Rest
    <3>2. r \in Surfaces /\ r.top = surf[s].top /\ r.window = surf[s].window /\ r.live = surf[s].live
          /\ r.parent = surf[s].parent /\ r.modal = surf[s].modal /\ r.splash = surf[s].splash
          /\ r.mode = "client"
      BY <2>f DEF Surfaces
    <3> HIDE DEF r
    <3>3. surf' \in [Surface -> Surfaces] /\ surf'[s] = r
          /\ \A o \in Surface \ {s} : surf'[o] = surf[o]
      BY <2>t, <3>0, <3>2
    <3>4. behind' \subseteq Surface \X {"type", "parent", "server"}
          /\ \A o \in Surface \ {s} : \A what : <<o, what>> \in behind => <<o, what>> \in behind'
      BY <2>t, <3>0
    <3>5. Follows(s)'
      <4>1. ParentWindow(surf, s)' = ParentWindow(surf, s)
        BY <2>f, <3>2, <3>3 DEF ParentWindow
      <4>2. ProtocolType(surf'[s]) = ProtocolType(surf[s])
        BY <3>2, <3>3 DEF ProtocolType
      <4>3. /\ <<s, "parent">> \notin behind' => <<s, "parent">> \notin behind
            /\ <<s, "type">> \notin behind' => <<s, "type">> \notin behind
            /\ <<s, "server">> \notin behind' => <<s, "server">> \notin behind /\ surf[s].mode # "server"
        BY <3>0
      <4>4. Follows(s) /\ told'[s] = told[s] /\ surf[s].mode \in {"client", "server"}
        BY <2>0, <2>f, <3>0
      <4> QED BY <3>2, <3>3, <4>1, <4>2, <4>3, <4>4 DEF Follows
    <3>6. told' \in [Surface -> Known] /\ \A o \in Surface \ {s} : told'[o] = told[o]
      BY <2>t, <3>0
    <3> QED BY <3>0, <3>2, <3>3, <3>4, <3>5, <3>6, OneChanges
  <2>10. ASSUME NEW s \in Surface, NEW d \in Dialog, GetDialog(d, s) PROVE ToplevelsInv'
    <3> DEFINE r == [for |-> surf[s].top, modal |-> FALSE]
    <3>0. /\ dialog[d] = None /\ surf[s].top # None
          /\ \A e \in Dialog : dialog[e] # None => dialog[e].for # surf[s].top
          /\ dialog' = [dialog EXCEPT ![d] = r]
          /\ UNCHANGED <<surf, told, behind, odd, cache, windows>>
      BY <2>10 DEF GetDialog
    <3>1. r \in Dialogs /\ r.for = surf[s].top /\ ~r.modal
      BY <2>f, <3>0 DEF Dialogs
    <3> HIDE DEF r
    <3>2. dialog' \in [Dialog -> Dialogs \cup {None}] /\ dialog'[d] = r
          /\ \A e \in Dialog \ {d} : dialog'[e] = dialog[e]
      BY <2>t, <3>0, <3>1
    <3>3. ToplevelsTypeOK'
      BY <2>t, <3>0, <3>2 DEF ToplevelsTypeOK
    <3>4. OneDialogEach'
      BY <2>0, <3>0, <3>1, <3>2 DEF OneDialogEach
    <3>5. GoneHasNothing' /\ CacheIsLive' /\ ParentIsLive'
      BY <2>0, <3>0 DEF GoneHasNothing, CacheIsLive, ParentIsLive
    <3>6. \A o \in Surface : Follows(o)'
      BY <2>0, <3>0 DEF Follows, ParentWindow
    <3>7. \A o \in Surface : o \notin odd' => ModalByDialog(o)'
      BY <2>0, <3>0, <3>1, <3>2 DEF ModalByDialog
    <3> QED BY <3>3, <3>4, <3>5, <3>6, <3>7 DEF ToplevelsInv
  <2>11. ASSUME NEW d \in Dialog, SetModal(d) PROVE ToplevelsInv'
    <3> DEFINE r == [dialog[d] EXCEPT !.modal = TRUE]
    <3>0. /\ dialog[d] # None
          /\ dialog' = [dialog EXCEPT ![d].modal = TRUE]
          /\ surf' = [s \in Surface |-> IF s \in Of(d) THEN [surf[s] EXCEPT !.modal = TRUE]
                                        ELSE surf[s]]
          /\ told' = [s \in Surface |-> IF s \in Of(d) THEN [told[s] EXCEPT !.type = "dialog"]
                                        ELSE told[s]]
          /\ behind' = behind \ (Of(d) \X {"type"})
          /\ UNCHANGED <<odd, cache, windows>>
      BY <2>11 DEF SetModal
    <3>1. dialog[d] \in Dialogs
      BY <2>t, <3>0
    <3>2. r \in Dialogs /\ r.for = dialog[d].for /\ r.modal /\ dialog' = [dialog EXCEPT ![d] = r]
      BY <2>t, <3>0, <3>1 DEF Dialogs
    <3> HIDE DEF r
    <3>3. dialog' \in [Dialog -> Dialogs \cup {None}] /\ dialog'[d] = r
          /\ \A e \in Dialog \ {d} : dialog'[e] = dialog[e]
      BY <2>t, <3>2
    <3>4. \A s \in Surface : s \in Of(d) <=> surf[s].top = dialog[d].for
      BY DEF Of
    <3>5. ASSUME NEW o \in Surface
          PROVE  /\ surf'[o] \in Surfaces
                 /\ surf'[o].live = surf[o].live /\ surf'[o].window = surf[o].window
                 /\ surf'[o].parent = surf[o].parent /\ surf'[o].top = surf[o].top
                 /\ surf'[o].mode = surf[o].mode /\ surf'[o].splash = surf[o].splash
                 /\ surf'[o].modal = (IF o \in Of(d) THEN TRUE ELSE surf[o].modal)
      <4>1. surf'[o] = (IF o \in Of(d) THEN [surf[o] EXCEPT !.modal = TRUE] ELSE surf[o])
        BY <3>0
      <4>2. surf[o] \in Surfaces
        BY <2>f
      <4> QED BY <4>1, <4>2 DEF Surfaces
    <3>6. ASSUME NEW o \in Surface
          PROVE  /\ told'[o] \in Known
                 /\ told'[o].parent = told[o].parent /\ told'[o].server = told[o].server
                 /\ told'[o].type = (IF o \in Of(d) THEN "dialog" ELSE told[o].type)
      <4>1. told'[o] = (IF o \in Of(d) THEN [told[o] EXCEPT !.type = "dialog"] ELSE told[o])
        BY <3>0
      <4>2. told[o] \in Known
        BY <2>f
      <4> QED BY <4>1, <4>2 DEF Known
    <3>7. surf' \in [Surface -> Surfaces]
      BY <3>0, <3>5
    <3>8. told' \in [Surface -> Known]
      BY <3>0, <3>6
    <3>9. behind' \subseteq Surface \X {"type", "parent", "server"}
      BY <2>t, <3>0
    <3>10. \A o \in Surface :
             /\ <<o, "parent">> \in behind => <<o, "parent">> \in behind'
             /\ <<o, "server">> \in behind => <<o, "server">> \in behind'
      BY <3>0
    <3>11. OneDialogEach'
      BY <2>0, <2>n, <3>0, <3>2, <3>3 DEF OneDialogEach
    <3>12. ASSUME NEW o \in Surface, surf[o].window # 0, <<o, "type">> \notin behind'
           PROVE  told'[o].type = ProtocolType(surf'[o])
      <4>1. CASE o \in Of(d)
        BY <3>5, <3>6, <4>1 DEF ProtocolType
      <4>2. CASE o \notin Of(d)
        <5>1. <<o, "type">> \notin behind
          BY <3>0, <3>12, <4>2
        <5>2. told[o].type = ProtocolType(surf[o])
          BY <2>0, <3>12, <5>1 DEF Follows
        <5> QED BY <3>5, <3>6, <4>2, <5>2 DEF ProtocolType
      <4> QED BY <4>1, <4>2
    <3>13. ASSUME NEW o \in Surface, o \notin odd PROVE ModalByDialog(o)'
      <4>1. ModalByDialog(o)
        BY <2>0, <3>13
      <4>2. r # None
        BY <2>n, <3>2
      <4>3. CASE o \in Of(d)
        BY <3>2, <3>3, <3>4, <3>5, <4>2, <4>3 DEF ModalByDialog
      <4>4. CASE o \notin Of(d)
        <5>1. surf[o].top # dialog[d].for
          BY <3>4, <4>4
        <5> QED BY <3>2, <3>3, <3>5, <4>1, <4>4, <5>1 DEF ModalByDialog
      <4> QED BY <4>3, <4>4
    <3>14. ASSUME NEW o \in Surface, surf'[o].modal PROVE surf[o].live
      <4>1. dialog[d].for \in Toplevel
        BY <3>1 DEF Dialogs
      <4>2. CASE o \in Of(d)
        BY <2>0, <2>n, <3>4, <4>1, <4>2 DEF GoneHasNothing
      <4>3. CASE o \notin Of(d)
        <5>1. surf'[o].modal = surf[o].modal
          BY <3>5, <4>3
        <5> QED BY <2>0, <3>14, <5>1 DEF GoneHasNothing
      <4> QED BY <4>2, <4>3
    <3> QED BY <3>0, <3>3, <3>5, <3>6, <3>7, <3>8, <3>9, <3>10, <3>11, <3>12, <3>13, <3>14,
               DialogChanges
  <2>12. ASSUME NEW d \in Dialog, UnsetModal(d) PROVE ToplevelsInv'
    <3> DEFINE r == [dialog[d] EXCEPT !.modal = FALSE]
    <3>0. /\ dialog[d] # None /\ Released(d)
          /\ dialog' = [dialog EXCEPT ![d].modal = FALSE]
          /\ UNCHANGED <<odd, cache, windows>>
      BY <2>12 DEF UnsetModal
    <3>1. dialog[d] \in Dialogs
      BY <2>t, <3>0
    <3>2. r \in Dialogs /\ r.for = dialog[d].for /\ ~r.modal /\ dialog' = [dialog EXCEPT ![d] = r]
      BY <2>t, <3>0, <3>1 DEF Dialogs
    <3> HIDE DEF r
    <3>3. dialog' \in [Dialog -> Dialogs \cup {None}] /\ dialog'[d] = r
          /\ \A e \in Dialog \ {d} : dialog'[e] = dialog[e]
      BY <2>t, <3>2
    <3> QED BY <3>0, <3>2, <3>3, ReleasedKeeps
  <2>13. ASSUME NEW d \in Dialog, DestroyDialog(d) PROVE ToplevelsInv'
    <3>0. /\ dialog[d] # None /\ dialog' = [dialog EXCEPT ![d] = None]
          /\ UNCHANGED <<odd, cache, windows>>
      BY <2>13 DEF DestroyDialog
    <3>1. dialog' \in [Dialog -> Dialogs \cup {None}] /\ dialog'[d] = None
          /\ \A e \in Dialog \ {d} : dialog'[e] = dialog[e]
      BY <2>t, <3>0
    <3>2. CASE dialog[d].modal
      <4>1. Released(d)
        BY <2>13, <3>2 DEF DestroyDialog
      <4> QED BY <3>0, <3>1, <4>1, ReleasedKeeps
    <3>3. CASE ~dialog[d].modal
      <4>1. UNCHANGED <<surf, told, behind>>
        BY <2>13, <3>3 DEF DestroyDialog
      <4>2. ToplevelsTypeOK'
        BY <2>t, <3>0, <3>1, <4>1 DEF ToplevelsTypeOK
      <4>3. OneDialogEach'
        BY <2>0, <3>1 DEF OneDialogEach
      <4>4. GoneHasNothing' /\ CacheIsLive' /\ ParentIsLive'
        BY <2>0, <3>0, <4>1 DEF GoneHasNothing, CacheIsLive, ParentIsLive
      <4>5. \A o \in Surface : Follows(o)'
        BY <2>0, <4>1 DEF Follows, ParentWindow
      <4>6. \A o \in Surface : o \notin odd' => ModalByDialog(o)'
        BY <2>0, <3>0, <3>1, <3>3, <4>1 DEF ModalByDialog
      <4> QED BY <4>2, <4>3, <4>4, <4>5, <4>6 DEF ToplevelsInv
    <3> QED BY <3>2, <3>3
  <2>14. ASSUME NEW w \in 1..MaxWindow, FromWindowId(w) PROVE ToplevelsInv'
    <3>0. /\ UNCHANGED <<surf, dialog, told, behind, odd, windows>>
          /\ cache' = IF Having(w) # {} THEN [surface |-> CHOOSE s \in Having(w) : TRUE, id |-> w]
                      ELSE IF cache.id = w THEN [surface |-> None, id |-> 0]
                      ELSE cache
      BY <2>14 DEF FromWindowId
    <3>1. w \in Ids /\ w # 0 /\ 0 \in Ids
      BY <2>n DEF Ids
    <3>2. cache' \in [surface : Surface \cup {None}, id : Ids] /\ CacheIsLive'
      <4>1. CASE Having(w) # {}
        <5> DEFINE s == CHOOSE q \in Having(w) : TRUE
        <5>1. s \in Having(w)
          BY <4>1
        <5>2. cache' = [surface |-> s, id |-> w]
          BY <3>0, <4>1
        <5> HIDE DEF s
        <5>3. s \in Surface /\ surf[s].window = w
          BY <5>1 DEF Having
        <5>4. surf[s].live
          BY <2>0, <3>1, <5>3 DEF GoneHasNothing
        <5>5. cache' \in [surface : Surface \cup {None}, id : Ids]
          BY <3>1, <5>2, <5>3
        <5>6. cache'.surface = s /\ cache'.id = w /\ surf' = surf
          BY <3>0, <5>2
        <5>7. CacheIsLive'
          BY <3>1, <5>3, <5>4, <5>6 DEF CacheIsLive
        <5> QED BY <5>5, <5>7
      <4>2. CASE Having(w) = {} /\ cache.id = w
        BY <3>0, <3>1, <4>2 DEF CacheIsLive
      <4>3. CASE Having(w) = {} /\ cache.id # w
        BY <2>0, <2>t, <3>0, <4>3 DEF CacheIsLive
      <4> QED BY <4>1, <4>2, <4>3
    <3>3. ToplevelsTypeOK'
      BY <2>t, <3>0, <3>2 DEF ToplevelsTypeOK
    <3>4. OneDialogEach' /\ GoneHasNothing' /\ ParentIsLive'
      BY <2>0, <3>0 DEF OneDialogEach, GoneHasNothing, ParentIsLive
    <3>5. \A o \in Surface : Follows(o)' /\ (o \notin odd' => ModalByDialog(o)')
      BY <2>0, <3>0 DEF Follows, ParentWindow, ModalByDialog
    <3> QED BY <3>2, <3>3, <3>4, <3>5 DEF ToplevelsInv
  <2>15. CASE UNCHANGED toplevelVars
    BY <2>0, <2>15 DEF toplevelVars, ToplevelsInv, ToplevelsTypeOK, OneDialogEach, GoneHasNothing,
       CacheIsLive, ParentIsLive, Follows, ParentWindow, ModalByDialog
  <2> QED BY <2>1, <2>2, <2>3, <2>4, <2>5, <2>6, <2>7, <2>8, <2>9, <2>10, <2>11, <2>12, <2>13,
             <2>14, <2>15, Zenon DEF ToplevelsNext
<1>3. ToplevelsInv => ToplevelsOK
  BY DEF ToplevelsInv, ToplevelsOK, ModalHasDialog, ModalByDialog, WindowFollows, Follows
<1> QED BY <1>1, <1>2, <1>3, PTL DEF ToplevelsSpec

---------------------------------------------------------------------------
(***************************************************************************)
(* Positioner: a popup is at its anchor.                                   *)
(***************************************************************************)

Positioners == [w : Int, h : Int, x : Int, y : Int, aw : Int, ah : Int,
                anchor : Edge, gravity : Edge, dx : Int, dy : Int]

\* The place of a popup is that of the positioner as it is, and so is its size,
\* where that was set.
PopupInv ==
  /\ pos \in Positioners
  /\ at # NoPopup => /\ at = Position(pos)
                     /\ pos.w > 0 => popup.w = pos.w
                     /\ pos.h > 0 => popup.h = pos.h

\* Half of a number, rounded towards zero
LEMMA HalfIs ==
  ASSUME NEW n \in Int
  PROVE  Half(n) \in Int /\ (n >= 0 => n - 2 * Half(n) \in {0, 1})
  BY DEF Half

\* Twice the way to the middle of n, or to one of its ends.
LEMMA WayTo ==
  ASSUME NEW s \in {-1, 0, 1}, NEW n \in Int
  PROVE  (1 + s) * n = IF s = -1 THEN 0 ELSE IF s = 0 THEN n ELSE 2 * n
<1>1. CASE s = -1
  BY <1>1
<1>2. CASE s = 0
  BY <1>2
<1>3. CASE s = 1
  BY <1>3
<1> QED BY <1>1, <1>2, <1>3

\* The point p is at side s of what goes from r for len, the middle rounded down.
AtSide(p, s, r, len) ==
  2 * p - (2 * r + (1 + s) * len) \in IF s = 0 THEN {-1, 0} ELSE {0}

\* By going back, len is put on the far side, or half of it on each.
Back(back, g, len) == (1 - g) * len - 2 * back \in IF g = 0 THEN {0, 1} ELSE {0}

Side(p, s, r, len, half) == p = IF s = 0 THEN r + half ELSE IF s = 1 THEN r + len ELSE r

\* A point that is at a side of something is a number.
LEMMA SideOf ==
  ASSUME NEW s \in {-1, 0, 1}, NEW r \in Int, NEW len \in Int, NEW half \in Int,
         len - 2 * half \in {0, 1},
         NEW p, Side(p, s, r, len, half)
  PROVE  p \in Int /\ AtSide(p, s, r, len)
  BY WayTo DEF AtSide, Side

\* The point of the rectangle at an anchor, for each axis: the middle rounded down.
LEMMA AnchorIs ==
  ASSUME NEW p \in Positioners, p.aw >= 0, p.ah >= 0
  PROVE  /\ AnchorPoint(p)[1] \in Int /\ AnchorPoint(p)[2] \in Int
         /\ AtSide(AnchorPoint(p)[1], SideX(p.anchor), p.x, p.aw)
         /\ AtSide(AnchorPoint(p)[2], SideY(p.anchor), p.y, p.ah)
<1>1. /\ p.x \in Int /\ p.y \in Int /\ p.aw \in Int /\ p.ah \in Int
      /\ p.anchor \in Edge
  BY DEF Positioners
<1>2. /\ Half(p.aw) \in Int /\ p.aw - 2 * Half(p.aw) \in {0, 1}
      /\ Half(p.ah) \in Int /\ p.ah - 2 * Half(p.ah) \in {0, 1}
  BY <1>1, HalfIs
<1> DEFINE hw == Half(p.aw)
           hh == Half(p.ah)
<1>3. AnchorPoint(p) = CASE p.anchor = "top"          -> <<p.x + hw, p.y>>
    [] p.anchor = "bottom"       -> <<p.x + hw, p.y + p.ah>>
    [] p.anchor = "left"         -> <<p.x, p.y + hh>>
    [] p.anchor = "right"        -> <<p.x + p.aw, p.y + hh>>
    [] p.anchor = "top_left"     -> <<p.x, p.y>>
    [] p.anchor = "bottom_left"  -> <<p.x, p.y + p.ah>>
    [] p.anchor = "top_right"    -> <<p.x + p.aw, p.y>>
    [] p.anchor = "bottom_right" -> <<p.x + p.aw, p.y + p.ah>>
    [] OTHER                     -> <<p.x + hw, p.y + hh>>
  BY DEF AnchorPoint
<1>4. hw \in Int /\ p.aw - 2 * hw \in {0, 1} /\ hh \in Int /\ p.ah - 2 * hh \in {0, 1}
  BY <1>2
<1> HIDE DEF hw, hh
<1>5. Side(AnchorPoint(p)[1], SideX(p.anchor), p.x, p.aw, hw)
  BY <1>1, <1>3 DEF Side, Edge, SideX
<1>6. Side(AnchorPoint(p)[2], SideY(p.anchor), p.y, p.ah, hh)
  BY <1>1, <1>3 DEF Side, Edge, SideY
<1>7. SideX(p.anchor) \in {-1, 0, 1} /\ SideY(p.anchor) \in {-1, 0, 1}
  BY DEF SideX, SideY
<1>8. /\ AnchorPoint(p)[1] \in Int
      /\ AtSide(AnchorPoint(p)[1], SideX(p.anchor), p.x, p.aw)
  BY <1>1, <1>4, <1>5, <1>7, SideOf
<1>9. /\ AnchorPoint(p)[2] \in Int
      /\ AtSide(AnchorPoint(p)[2], SideY(p.anchor), p.y, p.ah)
  BY <1>1, <1>4, <1>6, <1>7, SideOf
<1> QED BY <1>8, <1>9

\* How far a popup lies before its anchor point, for each axis.
LEMMA ShiftIs ==
  ASSUME NEW p \in Positioners, p.w > 0, p.h > 0
  PROVE  /\ Shift(p)[1] \in Int /\ Shift(p)[2] \in Int
         /\ Back(Shift(p)[1], SideX(p.gravity), p.w)
         /\ Back(Shift(p)[2], SideY(p.gravity), p.h)
<1>1. p.w \in Int /\ p.h \in Int /\ p.gravity \in Edge
  BY DEF Positioners
<1>2. /\ Half(p.w) \in Int /\ p.w - 2 * Half(p.w) \in {0, 1}
      /\ Half(p.h) \in Int /\ p.h - 2 * Half(p.h) \in {0, 1}
  BY <1>1, HalfIs
<1> DEFINE hw == Half(p.w)
           hh == Half(p.h)
<1>3. Shift(p) = CASE p.gravity = "top"         -> <<hw, p.h>>
    [] p.gravity = "bottom"      -> <<hw, 0>>
    [] p.gravity = "left"        -> <<p.w, hh>>
    [] p.gravity = "right"       -> <<0, hh>>
    [] p.gravity = "top_left"    -> <<p.w, p.h>>
    [] p.gravity = "bottom_left" -> <<p.w, 0>>
    [] p.gravity = "top_right"   -> <<0, p.h>>
    [] p.gravity = "bottom_right" -> <<0, 0>>
    [] OTHER                     -> <<hw, hh>>
  BY DEF Shift
<1>4. hw \in Int /\ p.w - 2 * hw \in {0, 1} /\ hh \in Int /\ p.h - 2 * hh \in {0, 1}
  BY <1>2
<1> HIDE DEF hw, hh
<1> QED BY <1>1, <1>3, <1>4 DEF Edge, SideX, SideY, Back

\* The two together, on one axis
LEMMA AxisTouches ==
  ASSUME NEW point \in Int, NEW shift \in Int, NEW low \in Int, low = point - shift, NEW len \in Int,
         NEW r \in Int, NEW rlen \in Int, NEW a \in Int, NEW g \in Int, a \in {-1, 0, 1}, g \in {-1, 0, 1},
         AtSide(point, a, r, rlen), Back(shift, g, len)
  PROVE  Touches(low, len, g, r, rlen, a)
<1> DEFINE u == (1 + a) * rlen
           v == (1 - g) * len
<1>1. u \in Int /\ v \in Int
  OBVIOUS
<1>2. Touches(low, len, g, r, rlen, a) <=>
        (2 * low + v) - (2 * r + u)
          \in IF a = 0 /\ g = 0 THEN {-1, 0, 1}
              ELSE IF a = 0 THEN {-1, 0} ELSE IF g = 0 THEN {0, 1} ELSE {0}
  BY DEF Touches
<1>3. 2 * point - (2 * r + u) \in IF a = 0 THEN {-1, 0} ELSE {0}
  BY DEF AtSide
<1>4. v - 2 * shift \in IF g = 0 THEN {0, 1} ELSE {0}
  BY DEF Back
<1> HIDE DEF u, v
<1> QED BY <1>1, <1>2, <1>3, <1>4

\* Whatever the sizes, offsets and rectangles, a popup touches its anchor with the
\* side opposite to its gravity, after every popup_reposition too
\* (positioner_calculate_position in xdg_shell.c).
THEOREM PopupsTouchTheirAnchors == PopupSpec => []PopupTouchesAnchor
<1>1. PopupInit => PopupInv
  BY DEF PopupInit, PopupInv, Positioners, Edge
<1>2. PopupInv /\ [PopupNext]_popupVars => PopupInv'
  <2> SUFFICES ASSUME PopupInv, [PopupNext]_popupVars PROVE PopupInv'
    OBVIOUS
  <2> USE PopupAssumption DEF PopupInv, Changed
  <2>1. ASSUME NEW w \in Length, NEW h \in Length, SetSize(w, h) PROVE PopupInv'
    BY <2>1 DEF SetSize, Positioners
  <2>2. ASSUME NEW x \in Coord, NEW w \in Length, NEW h \in Length, SetAnchorRect(x, x, w, h)
        PROVE  PopupInv'
    BY <2>2 DEF SetAnchorRect, Positioners
  <2>3. ASSUME NEW e \in Edge, SetAnchor(e) PROVE PopupInv'
    BY <2>3 DEF SetAnchor, Positioners
  <2>4. ASSUME NEW e \in Edge, SetGravity(e) PROVE PopupInv'
    BY <2>4 DEF SetGravity, Positioners
  <2>5. ASSUME NEW x \in Coord, SetOffset(x, x) PROVE PopupInv'
    BY <2>5 DEF SetOffset, Positioners
  <2>6. CASE PlacePopup
    BY <2>6 DEF PlacePopup
  <2>7. CASE Reposition
    BY <2>7 DEF Reposition
  <2>8. CASE UNCHANGED popupVars
    BY <2>8 DEF popupVars
  <2> QED BY <2>1, <2>2, <2>3, <2>4, <2>5, <2>6, <2>7, <2>8 DEF PopupNext
<1>3. PopupInv => PopupTouchesAnchor
  <2> SUFFICES ASSUME PopupInv, at # NoPopup, pos.w > 0, pos.h > 0, pos.aw >= 0, pos.ah >= 0
               PROVE  /\ Touches(at.x - pos.dx, popup.w, SideX(pos.gravity),
                                 pos.x, pos.aw, SideX(pos.anchor))
                      /\ Touches(at.y - pos.dy, popup.h, SideY(pos.gravity),
                                 pos.y, pos.ah, SideY(pos.anchor))
    BY DEF PopupTouchesAnchor
  <2>1. pos \in Positioners /\ at = Position(pos) /\ popup.w = pos.w /\ popup.h = pos.h
    BY DEF PopupInv
  <2>2. /\ pos.w \in Int /\ pos.h \in Int /\ pos.x \in Int /\ pos.y \in Int
        /\ pos.aw \in Int /\ pos.ah \in Int /\ pos.dx \in Int /\ pos.dy \in Int
    BY <2>1 DEF Positioners
  <2>3. /\ at.x = AnchorPoint(pos)[1] - Shift(pos)[1] + pos.dx
        /\ at.y = AnchorPoint(pos)[2] - Shift(pos)[2] + pos.dy
    BY <2>1 DEF Position
  <2>4. /\ SideX(pos.anchor) \in {-1, 0, 1} /\ SideY(pos.anchor) \in {-1, 0, 1}
        /\ SideX(pos.gravity) \in {-1, 0, 1} /\ SideY(pos.gravity) \in {-1, 0, 1}
    BY DEF SideX, SideY
  <2>5. Touches(at.x - pos.dx, pos.w, SideX(pos.gravity), pos.x, pos.aw, SideX(pos.anchor))
    <3> DEFINE point == AnchorPoint(pos)[1]
               shift == Shift(pos)[1]
               a == SideX(pos.anchor)
               g == SideX(pos.gravity)
               low == at.x - pos.dx
    <3>1. point \in Int /\ AtSide(point, a, pos.x, pos.aw)
      BY <2>1, AnchorIs
    <3>2. shift \in Int /\ Back(shift, g, pos.w)
      BY <2>1, ShiftIs
    <3>3. a \in {-1, 0, 1} /\ g \in {-1, 0, 1} /\ a \in Int /\ g \in Int
      BY <2>4
    <3>4. at.x = point - shift + pos.dx
      BY <2>3
    <3> HIDE DEF point, shift, a, g
    <3>5. low \in Int /\ low = point - shift
      BY <2>2, <3>1, <3>2, <3>4
    <3> HIDE DEF low
    <3>6. Touches(low, pos.w, g, pos.x, pos.aw, a)
      BY <2>2, <3>1, <3>2, <3>3, <3>5, AxisTouches
    <3> QED BY <3>6 DEF low, g, a
  <2>6. Touches(at.y - pos.dy, pos.h, SideY(pos.gravity), pos.y, pos.ah, SideY(pos.anchor))
    <3> DEFINE point == AnchorPoint(pos)[2]
               shift == Shift(pos)[2]
               a == SideY(pos.anchor)
               g == SideY(pos.gravity)
               low == at.y - pos.dy
    <3>1. point \in Int /\ AtSide(point, a, pos.y, pos.ah)
      BY <2>1, AnchorIs
    <3>2. shift \in Int /\ Back(shift, g, pos.h)
      BY <2>1, ShiftIs
    <3>3. a \in {-1, 0, 1} /\ g \in {-1, 0, 1} /\ a \in Int /\ g \in Int
      BY <2>4
    <3>4. at.y = point - shift + pos.dy
      BY <2>3
    <3> HIDE DEF point, shift, a, g
    <3>5. low \in Int /\ low = point - shift
      BY <2>2, <3>1, <3>2, <3>4
    <3> HIDE DEF low
    <3>6. Touches(low, pos.h, g, pos.y, pos.ah, a)
      BY <2>2, <3>1, <3>2, <3>3, <3>5, AxisTouches
    <3> QED BY <3>6 DEF low, g, a
  <2> QED BY <2>1, <2>5, <2>6
<1> QED BY <1>1, <1>2, <1>3, PTL DEF PopupSpec

---------------------------------------------------------------------------
(***************************************************************************)
(* DragAndDrop: a drag is one dialogue.                                    *)
(***************************************************************************)

\* The action of an enter is one of the source, or copy if it named none.
LEMMA ActionOfEnter ==
  ASSUME DragOK, active_drag_source # Nowhere, NEW c \in dragDevices
  PROVE  ActionAt(c) \subseteq dragActions \/ (dragActions = {} /\ ActionAt(c) = {"copy"})
  BY DragAssumption DEF DragOK, DragTypeOK, ActionIsOffered, ActionAt

\* The action sent with an enter is an action.
LEMMA ActionsAreTyped ==
  ASSUME DragTypeOK, NEW c PROVE ActionAt(c) \subseteq Action
  BY DEF DragTypeOK, ActionAt, Action

\* The action chosen is one the source offers.
LEMMA ChoiceIsShared ==
  ASSUME NEW theirs \in SUBSET Action, NEW preferred \in Action, DragTypeOK
  PROVE  Choice(theirs, preferred) \subseteq dragActions /\ Choice(theirs, preferred) \subseteq Action
  BY DEF DragTypeOK, Choice, Action

\* A drag is over at most one client, which was told of it, and the action is
\* one both sides offered (bridge_data_device_pointer_motion,
\* bridge_data_device_pointer_button and data_offer_set_actions).
THEOREM DragIsOneDialogue == DragSpec => []DragOK
<1>1. DragInit => DragOK
  BY DragAssumption DEF DragInit, DragOK, DragTypeOK, TargetIsEntered, ActionIsOffered
<1>2. DragOK /\ [DragNext]_dragVars => DragOK'
  <2> SUFFICES ASSUME DragOK, [DragNext]_dragVars PROVE DragOK'
    OBVIOUS
  <2>0. DragTypeOK /\ TargetIsEntered /\ ActionIsOffered
    BY DEF DragOK
  <2> USE DragAssumption DEF DragOK, DragTypeOK, TargetIsEntered, ActionIsOffered
  <2>1. ASSUME NEW c \in Dropper, GetDragDevice(c) PROVE DragOK'
    BY <2>0, <2>1 DEF GetDragDevice
  <2>2. ASSUME NEW c \in Dropper, PointerMotion(c) PROVE DragOK'
    BY <2>0, <2>2, ActionOfEnter, ActionsAreTyped DEF PointerMotion, Motion
  <2>3. ASSUME NEW c \in Dropper, Release(c) PROVE DragOK'
    BY <2>0, <2>3, ActionsAreTyped DEF Release
  <2>4. ASSUME NEW s \in DragSource, NEW actions \in SUBSET Action, StartDrag(s, actions)
        PROVE  DragOK'
    BY <2>0, <2>4 DEF StartDrag
  <2>5. ASSUME NEW theirs \in SUBSET Action, NEW preferred \in Action,
               SetActions(theirs, preferred)
        PROVE  DragOK'
    BY <2>0, <2>5, ChoiceIsShared DEF SetActions
  <2>6. CASE UNCHANGED dragVars
    BY <2>0, <2>6 DEF dragVars
  <2> QED BY <2>1, <2>2, <2>3, <2>4, <2>5, <2>6 DEF DragNext
<1> QED BY <1>1, <1>2, PTL DEF DragSpec

---------------------------------------------------------------------------
(***************************************************************************)
(* SyncPoints: points are signalled in the order of their commits and, as  *)
(* long as they move together with the buffers, with the release of the    *)
(* buffer they were set for.                                               *)
(***************************************************************************)

\* Every point there is was made by the client.
PointsAreMade ==
  /\ release <= latest /\ currentPoint <= latest /\ previousPoint <= latest
  /\ \A b \in SyncBuffer : pointOf[b] <= latest

(***************************************************************************)
(* The points of the two slots are those their buffers were committed      *)
(* with.  A destroyed buffer leaves its point behind: without the last     *)
(* line the next commit without points would take it for another's.        *)
(***************************************************************************)
PointsFollowBuffers ==
  /\ currentBuf # NoBuffer => pointOf[currentBuf] = currentPoint
  /\ previousBuf # NoBuffer => pointOf[previousBuf] = previousPoint
  /\ currentPoint = 0 => previousPoint = 0

SyncInv ==
  /\ SyncTypeOK /\ PointsAreMade /\ PointsInOrder /\ PointsMatchReleases
  /\ currentBuf # NoBuffer => currentBuf # previousBuf
  /\ ~apart => PointsFollowBuffers

LEMMA PointRange == 0 \in Point /\ \A p : p \in Point <=> p \in Nat /\ p <= MaxPoint
  BY SyncAssumption DEF Point

LEMMA SyncInitInv == SyncInit => SyncInv
<1> SUFFICES ASSUME SyncInit PROVE SyncInv
  OBVIOUS
<1>1. SyncTypeOK
  BY PointRange DEF SyncInit, SyncTypeOK, Slot
<1>2. /\ PointsAreMade /\ PointsInOrder /\ PointsMatchReleases /\ PointsFollowBuffers
      /\ currentBuf = NoBuffer
  BY DEF SyncInit, PointsAreMade, PointsInOrder, PointsMatchReleases, PointsFollowBuffers
<1>3. QED
  BY <1>1, <1>2 DEF SyncInv

---------------------------------------------------------------------------
(* What a release of a buffer with its point, or with none, adds *)

LEMMA ReleaseTypes ==
  ASSUME SyncTypeOK, PointsAreMade, NEW b \in Slot, NEW p \in Point, p <= latest
  PROVE  /\ ReleasedWith(b) \subseteq 1..latest
         /\ SignalledWith(b, p) \subseteq 1..latest
         /\ PointLeft(b, p) \in Point /\ PointLeft(b, p) <= latest
  BY SyncAssumption
     DEF SyncTypeOK, PointsAreMade, ReleasedWith, SignalledWith, PointLeft, Slot, Point

LEMMA ReleaseMatches ==
  ASSUME NEW b, NEW p, b # NoBuffer => pointOf[b] = p
  PROVE  ReleasedWith(b) = SignalledWith(b, p)
  BY DEF ReleasedWith, SignalledWith

---------------------------------------------------------------------------
(* The requests that move no buffer *)

LEMMA RequestInv ==
  ASSUME SyncInv,
         GetSyncSurface \/ DestroySyncSurface \/ SetAcquirePoint \/ SetReleasePoint
         \/ \E b \in SyncBuffer : AttachBuffer(b)
  PROVE  SyncInv'
<1>1. latest \in Nat /\ latest' \in Nat /\ latest <= latest'
  BY SyncAssumption
     DEF SyncInv, SyncTypeOK, Point, GetSyncSurface, DestroySyncSurface,
         SetAcquirePoint, SetReleasePoint, AttachBuffer
<1>2. UNCHANGED slots
  BY DEF GetSyncSurface, DestroySyncSurface, SetAcquirePoint, SetReleasePoint,
         AttachBuffer
<1>3. /\ syncSurface' \in BOOLEAN /\ acquire' \in BOOLEAN
      /\ latest' \in Point /\ release' \in Point /\ release' <= latest'
      /\ pendingBuf' \in Slot
      /\ ~syncSurface' => ~acquire' /\ release' = 0
  <2>1. CASE GetSyncSurface \/ DestroySyncSurface \/ SetAcquirePoint
    <3>1. /\ UNCHANGED <<latest, pendingBuf>> /\ release' \in {release, 0}
          /\ syncSurface' \in BOOLEAN /\ acquire' \in BOOLEAN
          /\ ~syncSurface' => ~acquire' /\ release' = 0
      BY <2>1
         DEF SyncInv, SyncTypeOK, GetSyncSurface, DestroySyncSurface, SetAcquirePoint
    <3>2. latest \in Nat /\ 0 <= latest
      BY PointRange DEF SyncInv, SyncTypeOK
    <3>3. QED
      BY <3>1, <3>2, PointRange DEF SyncInv, SyncTypeOK, PointsAreMade
  <2>2. CASE SetReleasePoint
    BY <2>2, PointRange, SyncAssumption
       DEF SyncInv, SyncTypeOK, Slot, SetReleasePoint
  <2>3. CASE \E b \in SyncBuffer : AttachBuffer(b)
    BY <2>3 DEF SyncInv, SyncTypeOK, PointsAreMade, Slot, AttachBuffer
  <2>4. QED
    BY <2>1, <2>2, <2>3
<1>4. SyncTypeOK'
  BY <1>1, <1>2, <1>3 DEF SyncInv, SyncTypeOK, slots
<1>5. PointsAreMade'
  BY <1>1, <1>2, <1>3, SyncAssumption
     DEF SyncInv, SyncTypeOK, PointsAreMade, Point, slots
<1>6. PointsMatchReleases' /\ (~apart' => PointsFollowBuffers')
  BY <1>2 DEF SyncInv, PointsMatchReleases, PointsFollowBuffers, slots
<1>7. release' # 0 => currentPoint' < release'
  <2>1. release' \in {release, 0, latest + 1}
    BY DEF GetSyncSurface, DestroySyncSurface, SetAcquirePoint, SetReleasePoint,
           AttachBuffer
  <2>2. currentPoint' = currentPoint /\ currentPoint \in Nat /\ currentPoint <= latest
    BY <1>2, PointRange DEF SyncInv, SyncTypeOK, PointsAreMade, slots
  <2>3. QED
    BY <1>1, <2>1, <2>2 DEF SyncInv, PointsInOrder
<1>8. PointsInOrder' /\ (currentBuf' # NoBuffer => currentBuf' # previousBuf')
  BY <1>2, <1>7 DEF SyncInv, PointsInOrder, slots
<1>9. QED
  BY <1>4, <1>5, <1>6, <1>8 DEF SyncInv

---------------------------------------------------------------------------
(* Commits *)

\* Where the points go, when points and buffers are not yet apart.
LEMMA MovedTypes ==
  ASSUME SyncInv
  PROVE  /\ PointsMoved[1] \in Point /\ PointsMoved[1] <= latest
         /\ PointsMoved[2] \in Point /\ PointsMoved[2] <= latest
  BY DEF SyncInv, SyncTypeOK, PointsAreMade, PointsMoved

\* Where they go they are in order, and above all that are signalled.
LEMMA MovedInOrder ==
  ASSUME SyncInv, MayCommit
  PROVE  /\ \A p \in signalled :
              p < PointsMoved[2] /\ (PointsMoved[1] # 0 => p < PointsMoved[1])
         /\ PointsMoved[1] # 0 => PointsMoved[1] < PointsMoved[2]
<1>1. /\ release \in Nat /\ currentPoint \in Nat /\ previousPoint \in Nat
      /\ \A p \in signalled : p \in Nat /\ p < currentPoint
  BY PointRange DEF SyncInv, SyncTypeOK, PointsInOrder
<1>2. CASE acquire
  <2>1. PointsMoved = <<currentPoint, release>> /\ currentPoint < release
    BY <1>2 DEF PointsMoved, MayCommit, SyncInv, PointsInOrder
  <2>2. QED
    BY <1>1, <2>1
<1>3. CASE ~acquire
  BY <1>1, <1>3 DEF PointsMoved, SyncInv, PointsInOrder
<1>4. QED
  BY <1>2, <1>3

LEMMA CommitBufferInv ==
  ASSUME SyncInv, NEW shown \in BOOLEAN, CommitBuffer(shown)
  PROVE  SyncInv'
<1> DEFINE moved == PointsMoved
           again == pendingBuf = currentBuf
           out == IF again THEN NoBuffer ELSE previousBuf
           prev == IF again THEN previousBuf ELSE currentBuf
           left == PointLeft(out, moved[1])
<1>1. /\ pendingBuf \in SyncBuffer /\ pendingBuf # NoBuffer
      /\ MayCommit /\ syncSurface' = syncSurface /\ latest' = latest
      /\ acquire' = FALSE /\ release' = 0 /\ pendingBuf' = NoBuffer
      /\ pointOf' = [pointOf EXCEPT ![pendingBuf] = release]
  BY DEF CommitBuffer, Consume, SyncInv, SyncTypeOK, Slot
<1>2. /\ currentBuf' = pendingBuf
      /\ previousBuf' = IF shown THEN prev ELSE NoBuffer
      /\ currentPoint' = moved[2]
      /\ previousPoint' = IF shown THEN left ELSE PointLeft(prev, left)
      /\ released' = released \cup ReleasedWith(out)
                     \cup IF shown THEN {} ELSE ReleasedWith(prev)
      /\ signalled' = signalled \cup SignalledWith(out, moved[1])
                      \cup IF shown THEN {} ELSE SignalledWith(prev, left)
      /\ apart' = (apart \/ /\ currentPoint # 0
                            /\ ~acquire \/ again \/ previousBuf # NoBuffer)
  BY DEF CommitBuffer
<1>3. out \in Slot /\ prev \in Slot
  BY DEF SyncInv, SyncTypeOK, Slot
<1>4. /\ moved[1] \in Point /\ moved[1] <= latest
      /\ moved[2] \in Point /\ moved[2] <= latest
  BY MovedTypes
<1>5. /\ ReleasedWith(out) \subseteq 1..latest
      /\ SignalledWith(out, moved[1]) \subseteq 1..latest
      /\ left \in Point /\ left <= latest
  BY <1>3, <1>4, ReleaseTypes DEF SyncInv
<1>6. /\ ReleasedWith(prev) \subseteq 1..latest
      /\ SignalledWith(prev, left) \subseteq 1..latest
      /\ PointLeft(prev, left) \in Point /\ PointLeft(prev, left) <= latest
  BY <1>3, <1>5, ReleaseTypes DEF SyncInv
<1>7. ~apart' => /\ ~apart /\ PointsFollowBuffers
                 /\ \/ acquire /\ ~again /\ previousBuf = NoBuffer
                    \/ currentPoint = 0 /\ previousPoint = 0
  BY <1>2 DEF SyncInv, SyncTypeOK, PointsFollowBuffers
<1>8. ~apart' => /\ out # NoBuffer => pointOf[out] = moved[1]
                 /\ prev # NoBuffer => pointOf[prev] = left
                 /\ moved[2] = release
                 /\ moved[2] = 0 => left = 0
  <2> SUFFICES ASSUME ~apart'
               PROVE  /\ out # NoBuffer => pointOf[out] = moved[1]
                      /\ prev # NoBuffer => pointOf[prev] = left
                      /\ moved[2] = release
                      /\ moved[2] = 0 => left = 0
    OBVIOUS
  <2>1. acquire <=> release # 0
    BY <1>1 DEF SyncInv, MayCommit, SyncTypeOK
  <2>2. CASE acquire /\ ~again /\ previousBuf = NoBuffer
    BY <1>7, <2>1, <2>2 DEF PointsMoved, PointsFollowBuffers, PointLeft
  <2>3. CASE currentPoint = 0 /\ previousPoint = 0
    <3>1. moved[1] = 0 /\ left = 0 /\ moved[2] = release
      BY <2>1, <2>3 DEF PointsMoved, PointLeft
    <3>2. out \in {NoBuffer, previousBuf} /\ prev \in {previousBuf, currentBuf}
      OBVIOUS
    <3>3. QED
      BY <1>7, <2>3, <3>1, <3>2 DEF PointsFollowBuffers
  <2>4. QED
    BY <1>7, <2>2, <2>3
<1>81. prev # NoBuffer => prev # pendingBuf
  BY DEF SyncInv
<1>82. \/ signalled' = signalled /\ previousPoint' \in {moved[1], 0}
       \/ /\ signalled' = signalled \cup {moved[1]} /\ moved[1] # 0
          /\ previousPoint' = 0
  <2>1. CASE out # NoBuffer
    <3>1. left = 0 /\ previousPoint' = 0
      BY <1>2, <2>1 DEF PointLeft
    <3>2. signalled' = signalled \cup SignalledWith(out, moved[1])
      BY <1>2, <3>1 DEF SignalledWith
    <3>3. QED
      BY <2>1, <3>1, <3>2 DEF SignalledWith
  <2>2. CASE out = NoBuffer
    <3>1. left = moved[1] /\ SignalledWith(out, moved[1]) = {}
      BY <2>2 DEF PointLeft, SignalledWith
    <3>2. QED
      BY <1>2, <3>1 DEF PointLeft, SignalledWith
  <2>3. QED
    BY <2>1, <2>2
<1>83. /\ \A p \in signalled : p < moved[2] /\ (moved[1] # 0 => p < moved[1])
       /\ moved[1] # 0 => moved[1] < moved[2]
  BY <1>1, MovedInOrder
<1> HIDE DEF moved, again, out, prev, left
<1>9. SyncTypeOK'
  <2>1. /\ currentBuf' \in Slot /\ previousBuf' \in Slot /\ pendingBuf' \in Slot
        /\ currentPoint' \in Point /\ previousPoint' \in Point
    BY <1>1, <1>2, <1>3, <1>4, <1>5, <1>6 DEF SyncInv, SyncTypeOK, Slot
  <2>2. /\ syncSurface' \in BOOLEAN /\ acquire' \in BOOLEAN /\ apart' \in BOOLEAN
        /\ latest' \in Point /\ release' \in Point
        /\ ~syncSurface' => ~acquire' /\ release' = 0
    <3>1. apart' \in BOOLEAN
      BY <1>2 DEF again
    <3>2. QED
      BY <1>1, <3>1, PointRange DEF SyncInv, SyncTypeOK
  <2>3. released' \subseteq 1..latest' /\ signalled' \subseteq 1..latest'
    BY <1>1, <1>2, <1>5, <1>6 DEF SyncInv, SyncTypeOK
  <2>4. pointOf' \in [SyncBuffer -> Point]
    BY <1>1 DEF SyncInv, SyncTypeOK
  <2>5. QED
    BY <2>1, <2>2, <2>3, <2>4 DEF SyncTypeOK
<1>10. PointsAreMade'
  <2>1. release' <= latest'
    BY <1>1, SyncAssumption DEF SyncInv, SyncTypeOK, Point
  <2>2. currentPoint' <= latest' /\ previousPoint' <= latest'
    BY <1>1, <1>2, <1>4, <1>5, <1>6
  <2>3. \A b \in SyncBuffer : pointOf'[b] <= latest'
    BY <1>1 DEF SyncInv, SyncTypeOK, PointsAreMade
  <2>4. QED
    BY <2>1, <2>2, <2>3 DEF PointsAreMade
<1>11. PointsMatchReleases'
  <2> SUFFICES ASSUME ~apart' PROVE signalled' = released'
    BY DEF PointsMatchReleases
  <2>1. signalled = released
    BY <1>7 DEF SyncInv, PointsMatchReleases
  <2>2. ReleasedWith(out) = SignalledWith(out, moved[1])
    BY <1>8, ReleaseMatches
  <2>3. ReleasedWith(prev) = SignalledWith(prev, left)
    BY <1>8, ReleaseMatches
  <2>4. QED
    BY <1>2, <2>1, <2>2, <2>3
<1>12. ~apart' => PointsFollowBuffers'
  <2> SUFFICES ASSUME ~apart' PROVE PointsFollowBuffers'
    OBVIOUS
  <2>1. pointOf'[currentBuf'] = currentPoint'
    BY <1>1, <1>2, <1>8 DEF SyncInv, SyncTypeOK
  <2>2. previousBuf' # NoBuffer => pointOf'[previousBuf'] = previousPoint'
    <3>1. SUFFICES ASSUME shown, prev # NoBuffer
                   PROVE  pointOf'[prev] = left
      BY <1>2
    <3>2. QED
      BY <1>1, <1>3, <1>8, <1>81, <3>1 DEF SyncInv, SyncTypeOK, Slot
  <2>3. currentPoint' = 0 => previousPoint' = 0
    BY <1>2, <1>8 DEF PointLeft
  <2>4. QED
    BY <2>1, <2>2, <2>3 DEF PointsFollowBuffers
<1>13. PointsInOrder'
  <2>1. release' = 0 /\ currentPoint' = moved[2]
    BY <1>1, <1>2
  <2>2. CASE signalled' = signalled /\ previousPoint' \in {moved[1], 0}
    BY <1>83, <2>1, <2>2 DEF PointsInOrder
  <2>3. CASE /\ signalled' = signalled \cup {moved[1]} /\ moved[1] # 0
             /\ previousPoint' = 0
    BY <1>83, <2>1, <2>3 DEF PointsInOrder
  <2>4. QED
    BY <1>82, <2>2, <2>3
<1>14. currentBuf' # previousBuf'
  BY <1>1, <1>2, <1>81
<1>15. QED
  BY <1>9, <1>10, <1>11, <1>12, <1>13, <1>14 DEF SyncInv

LEMMA CommitDroppedInv ==
  ASSUME SyncInv, NEW keeps \in BOOLEAN, CommitDropped(keeps)
  PROVE  SyncInv'
<1>1. /\ PointsMoved[1] \in Point /\ PointsMoved[1] <= latest
      /\ PointsMoved[2] \in Point /\ PointsMoved[2] <= latest
  BY MovedTypes
<1>2. SyncTypeOK'
  <2>1. /\ syncSurface' \in BOOLEAN /\ acquire' \in BOOLEAN /\ apart' \in BOOLEAN
        /\ ~syncSurface' => ~acquire' /\ release' = 0
    BY DEF CommitDropped, Consume, SyncInv, SyncTypeOK
  <2>2. /\ release' \in Point /\ latest' \in Point
        /\ currentPoint' \in Point /\ previousPoint' \in Point
    BY <1>1, PointRange DEF CommitDropped, Consume, SyncInv, SyncTypeOK
  <2>3. /\ {pendingBuf, currentBuf, previousBuf}' \subseteq Slot
        /\ pointOf' \in [SyncBuffer -> Point]
        /\ released' \subseteq 1..latest' /\ signalled' \subseteq 1..latest'
    BY DEF CommitDropped, Consume, SyncInv, SyncTypeOK, Slot
  <2>4. QED
    BY <2>1, <2>2, <2>3 DEF SyncTypeOK
<1>3. PointsAreMade'
  BY <1>1, SyncAssumption
     DEF CommitDropped, Consume, SyncInv, SyncTypeOK, PointsAreMade, Point
<1>4. ~apart' => ~apart /\ ~acquire
  BY DEF CommitDropped, SyncInv, SyncTypeOK
<1>5. PointsMatchReleases' /\ (~apart' => PointsFollowBuffers')
  BY <1>4
     DEF CommitDropped, SyncInv, PointsMatchReleases, PointsFollowBuffers, PointsMoved
<1>6. /\ currentPoint' = PointsMoved[2] /\ previousPoint' = PointsMoved[1]
      /\ release' = 0 /\ UNCHANGED <<signalled, currentBuf, previousBuf>>
  BY DEF CommitDropped, Consume
<1>7. PointsInOrder'
  BY <1>6, MovedInOrder DEF CommitDropped, PointsInOrder
<1>8. QED
  BY <1>2, <1>3, <1>5, <1>6, <1>7 DEF SyncInv

\* A commit without a buffer and frame_done release the previous one.
LEMMA PreviousGoesInv ==
  ASSUME SyncInv, CommitNothing \/ FrameDoneSignals
  PROVE  SyncInv'
<1>1. /\ previousBuf' = NoBuffer
      /\ previousPoint' = PointLeft(previousBuf, previousPoint)
      /\ released' = released \cup ReleasedWith(previousBuf)
      /\ signalled' = signalled \cup SignalledWith(previousBuf, previousPoint)
      /\ UNCHANGED <<syncSurface, acquire, release, latest, pendingBuf, currentBuf,
                     currentPoint, pointOf, apart>>
  BY DEF CommitNothing, FrameDoneSignals, PointLeft
<1>2. /\ ReleasedWith(previousBuf) \subseteq 1..latest
      /\ SignalledWith(previousBuf, previousPoint) \subseteq 1..latest
      /\ PointLeft(previousBuf, previousPoint) \in Point
      /\ PointLeft(previousBuf, previousPoint) <= latest
  BY ReleaseTypes DEF SyncInv, SyncTypeOK, PointsAreMade
<1>3. SyncTypeOK' /\ PointsAreMade'
  BY <1>1, <1>2 DEF SyncInv, SyncTypeOK, PointsAreMade, Slot
<1>4. ~apart => ReleasedWith(previousBuf) = SignalledWith(previousBuf, previousPoint)
  BY ReleaseMatches DEF SyncInv, PointsFollowBuffers
<1>5. PointsMatchReleases'
  BY <1>1, <1>4 DEF SyncInv, PointsMatchReleases
<1>6. ~apart' => PointsFollowBuffers'
  BY <1>1 DEF SyncInv, PointsFollowBuffers, PointLeft
<1>7. PointsInOrder'
  BY <1>1 DEF SyncInv, PointsInOrder, SignalledWith, PointLeft
<1>8. currentBuf' # NoBuffer => currentBuf' # previousBuf'
  BY <1>1
<1>9. QED
  BY <1>3, <1>5, <1>6, <1>7, <1>8 DEF SyncInv

LEMMA ForgetInv ==
  ASSUME SyncInv, NEW b \in SyncBuffer, ForgetBuffer(b)
  PROVE  SyncInv'
<1>1. SyncTypeOK'
  BY DEF ForgetBuffer, SyncInv, SyncTypeOK, Slot
<1>2. PointsAreMade' /\ PointsMatchReleases'
  BY DEF ForgetBuffer, SyncInv, PointsAreMade, PointsMatchReleases
<1>3. ~apart' => PointsFollowBuffers'
  BY DEF ForgetBuffer, SyncInv, PointsFollowBuffers
<1>4. PointsInOrder' /\ (currentBuf' # NoBuffer => currentBuf' # previousBuf')
  BY DEF ForgetBuffer, SyncInv, PointsInOrder
<1>5. QED
  BY <1>1, <1>2, <1>3, <1>4 DEF SyncInv

---------------------------------------------------------------------------
(***************************************************************************)
(* In every reachable state points have their type and are signalled in    *)
(* the order of their commits, once, and never the last one; unless a      *)
(* commit parted points and buffers, those signalled are those of the      *)
(* buffers released (wl_drm_syncobj.c).                                    *)
(***************************************************************************)
THEOREM PointsInStep == SyncSpec => []SyncOK
<1>1. SyncInv /\ [SyncNext]_syncVars => SyncInv'
  <2> SUFFICES ASSUME SyncInv, [SyncNext]_syncVars PROVE SyncInv'
    OBVIOUS
  <2>1. CASE UNCHANGED syncVars
    BY <2>1 DEF syncVars, SyncInv, SyncTypeOK, PointsAreMade, PointsInOrder,
                PointsMatchReleases, PointsFollowBuffers
  <2>2. CASE SyncNext
    BY <2>2, RequestInv, CommitBufferInv, CommitDroppedInv, PreviousGoesInv,
       ForgetInv DEF SyncNext
  <2>3. QED
    BY <2>1, <2>2
<1>2. SyncInv => SyncOK
  BY DEF SyncInv, SyncOK
<1>3. QED
  BY SyncInitInv, <1>1, <1>2, PTL DEF SyncSpec

---------------------------------------------------------------------------
(***************************************************************************)
(* XdgConfigure: what a window is in settles at what Plexy has it in.      *)
(***************************************************************************)

\* The last configure under way has Plexy's states.
LastIsPlexys == events # <<>> => events[Len(events)].states = wm

\* A request for x is under way that Plexy has yet to grant.
WillGrant(x) == \E i \in 1..Len(requests) : requests[i] = <<x, x \notin wm>>

\* Where surface or client disagree with Plexy and no configure is under way, a request is that
\* will bring one.
GrantIsComing ==
  events = <<>> => \A x \in Asked :
    /\ (x \in flags) # (x \in wm) => WillGrant(x)
    /\ role = "toplevel" /\ known /\ (x \in said) # (x \in wm) => WillGrant(x)

ConfigureInv ==
  /\ ConfigureTypeOK /\ PendingIsUnanswered /\ highest <= serial
  /\ LastIsPlexys /\ GrantIsComing

\* The part about serials and the part about states
SerialsInv ==
  /\ serial \in 0..MaxSerial /\ acked \in 0..MaxSerial /\ highest \in 0..MaxSerial
  /\ pending \in Seq(1..serial) /\ listed \subseteq 1..serial
  /\ PendingIsUnanswered /\ highest <= serial

AgreementInv ==
  /\ role \in {"none", "xdg_surface", "toplevel"}
  /\ flags \subseteq State /\ said \subseteq State /\ wm \subseteq State
  /\ known \in BOOLEAN
  /\ requests \in Seq(Asked \X BOOLEAN)
  /\ events \in Seq([states : SUBSET State, sized : BOOLEAN])
  /\ LastIsPlexys /\ GrantIsComing

LEMMA ConfigureInvIs == ConfigureInv <=> SerialsInv /\ AgreementInv
BY DEF ConfigureInv, ConfigureTypeOK, SerialsInv, AgreementInv

---------------------------------------------------------------------------
(* Serials *)

\* A queue of serials is one of more serials.
LEMMA MoreSerials ==
  ASSUME NEW n \in Nat, NEW q \in Seq(1..n)
  PROVE  q \in Seq(1..(n + 1)) /\ q \in Seq(Nat)
<1>1. \A i \in 1..Len(q) : q[i] \in 1..n
  BY LenProperties
<1>2. \A i \in 1..Len(q) : q[i] \in 1..(n + 1) /\ q[i] \in Nat
  BY <1>1
<1>3. Len(q) \in Nat /\ q = [i \in 1..Len(q) |-> q[i]]
  BY LenProperties
<1>4. q \in [1..Len(q) -> 1..(n + 1)] /\ q \in [1..Len(q) -> Nat]
  BY <1>2, <1>3
<1> QED BY <1>3, <1>4, SeqDef

\* A configure that is sent and kept
LEMMA ListedKeeps ==
  ASSUME SerialsInv, NEW states, SendListed(states), acked' = acked, highest' = highest
  PROVE  SerialsInv'
<1>1. /\ serial \in Nat /\ MaxSerial \in Nat /\ highest \in Nat /\ serial + 1 \in 0..MaxSerial
      /\ serial' = serial + 1
      /\ pending' = Append(pending, serial + 1) /\ listed' = listed \cup {serial + 1}
  BY ConfigureAssumption DEF SerialsInv, SendListed
<1> DEFINE k == serial + 1
           m == Len(pending)
<1>2. pending \in Seq(1..k) /\ k \in 1..k
  BY <1>1, MoreSerials DEF SerialsInv
<1>3. /\ m \in Nat /\ pending' \in Seq(1..k) /\ Len(pending') = m + 1 /\ DOMAIN pending = 1..m
      /\ DOMAIN pending' = 1..(m + 1) /\ pending'[m + 1] = k
      /\ \A i \in 1..m : pending'[i] = pending[i]
  BY <1>1, <1>2, AppendIs
<1>4. \A i \in 1..m : pending[i] \in 1..serial
  BY <1>3 DEF SerialsInv
<1>5. Elements(pending') = Elements(pending) \cup {k}
  BY <1>1, <1>2, AppendKeeps
<1>6. Elements(pending) = {n \in listed : n > highest} /\ highest <= serial
  BY DEF SerialsInv, PendingIsUnanswered, Elements, ToSet
<1>7. \A i, j \in 1..m : i < j => pending[i] < pending[j]
  BY <1>3 DEF SerialsInv, PendingIsUnanswered
<1>8. k > highest /\ serial < k /\ k = serial + 1 /\ k \in Nat
  BY <1>1, <1>6
<1> HIDE DEF k, m
<1>9. Elements(pending') = {n \in listed \cup {k} : n > highest}
  BY <1>5, <1>6, <1>8
<1>10. ASSUME NEW i \in 1..(m + 1), NEW j \in 1..(m + 1), i < j
       PROVE  pending'[i] < pending'[j]
  <2>1. i \in 1..m /\ pending'[i] = pending[i] /\ pending[i] \in 1..serial
    BY <1>3, <1>4, <1>10
  <2>2. CASE j \in 1..m
    BY <1>3, <1>7, <1>10, <2>1, <2>2
  <2>3. CASE j \notin 1..m
    <3>1. j = m + 1
      BY <1>3, <2>3
    <3> QED BY <1>1, <1>3, <1>8, <2>1, <3>1
  <2> QED BY <2>2, <2>3
<1>11. PendingIsUnanswered'
  BY <1>1, <1>3, <1>8, <1>9, <1>10 DEF PendingIsUnanswered, Elements, ToSet
<1>12. listed' \subseteq 1..k
  BY <1>1, <1>8 DEF SerialsInv
<1> QED BY <1>1, <1>3, <1>8, <1>11, <1>12 DEF SerialsInv

\* One that is not kept
LEMMA UnlistedKeeps ==
  ASSUME SerialsInv, NEW states, SendUnlisted(states), acked' = acked, highest' = highest
  PROVE  SerialsInv'
<1>1. /\ serial \in Nat /\ MaxSerial \in Nat /\ highest \in Nat /\ serial + 1 \in 0..MaxSerial
      /\ serial' = serial + 1 /\ pending' = pending /\ listed' = listed
  BY ConfigureAssumption DEF SerialsInv, SendUnlisted
<1>2. pending \in Seq(1..(serial + 1)) /\ listed \subseteq 1..(serial + 1)
  BY <1>1, MoreSerials DEF SerialsInv
<1> QED BY <1>1, <1>2 DEF SerialsInv, PendingIsUnanswered

\* An acknowledgement, of the newest configure or of an old one
LEMMA AckKeeps ==
  ASSUME SerialsInv, NEW n, AckConfigure(n)
  PROVE  SerialsInv'
<1>1. /\ n \in 1..serial /\ n \in Nat /\ pending' = Without(pending, 1..n)
      /\ acked' = n /\ highest' = IF n > highest THEN n ELSE highest
      /\ serial' = serial /\ listed' = listed
  BY DEF AckConfigure, SerialsInv
<1>2. serial \in Nat /\ MaxSerial \in Nat /\ highest \in Nat /\ serial \in 0..MaxSerial
      /\ pending \in Seq(1..serial) /\ listed \subseteq 1..serial /\ highest <= serial
  BY ConfigureAssumption DEF SerialsInv
<1>3. pending' \in Seq(1..serial) /\ Elements(pending') = Elements(pending) \ (1..n)
  BY <1>1, <1>2, DroppedKeeps
<1>4. Elements(pending) = {m \in listed : m > highest}
  BY DEF SerialsInv, PendingIsUnanswered, Elements, ToSet
<1>5. Elements(pending') = {m \in listed : m > highest'}
  <2>1. \A m \in 1..serial : m > highest' <=> m > highest /\ m \notin 1..n
    BY <1>1, <1>2
  <2>2. \A m \in listed : m \in 1..serial
    BY <1>2
  <2>3. Elements(pending') = {m \in listed : m > highest} \ (1..n)
    BY <1>3, <1>4
  <2> QED BY <2>1, <2>2, <2>3
<1>6. pending \in Seq(Nat) /\ DOMAIN pending = 1..Len(pending)
  BY <1>2, MoreSerials, LenProperties
<1>7. \A i, j \in 1..Len(pending) : i < j => pending[i] < pending[j]
  BY <1>6 DEF SerialsInv, PendingIsUnanswered
<1>8. \A i, j \in 1..Len(pending') : i < j => pending'[i] < pending'[j]
  BY <1>1, <1>6, <1>7, DroppedIsSorted
<1>9. DOMAIN pending' = 1..Len(pending')
  BY <1>3, LenProperties
<1>10. PendingIsUnanswered'
  BY <1>1, <1>5, <1>8, <1>9 DEF PendingIsUnanswered, Elements, ToSet
<1>11. acked' \in 0..MaxSerial /\ highest' \in 0..MaxSerial /\ highest' <= serial
  BY <1>1, <1>2
<1> QED BY <1>1, <1>2, <1>3, <1>10, <1>11 DEF SerialsInv

\* The list is emptied.
LEMMA EmptyKeeps ==
  ASSUME SerialsInv, pending' = <<>>, listed' = {}, serial' = serial, acked' = acked, highest' = highest
  PROVE  SerialsInv'
<1>1. <<>> \in Seq(1..serial) /\ DOMAIN <<>> = {}
  OBVIOUS
<1>2. ToSet(pending') = {} /\ DOMAIN pending' = {}
  BY <1>1 DEF ToSet
<1>3. PendingIsUnanswered'
  BY <1>2 DEF PendingIsUnanswered
<1> QED BY <1>1, <1>3 DEF SerialsInv

---------------------------------------------------------------------------
(* States *)

\* What a window may be asked is one of the states.
LEMMA AskedIs == Asked \subseteq State /\ "resizing" \notin Asked /\ "resizing" \in State
BY DEF Asked, State

\* A request more
LEMMA RequestKeeps ==
  ASSUME NEW x \in Asked, NEW on \in BOOLEAN, requests \in Seq(Asked \X BOOLEAN),
         requests' = Append(requests, <<x, on>>), wm' = wm
  PROVE  /\ requests' \in Seq(Asked \X BOOLEAN)
         /\ \A y : WillGrant(y) => WillGrant(y)'
         /\ on # (x \in wm) => WillGrant(x)'
<1> DEFINE m == Len(requests)
<1>1. /\ m \in Nat /\ requests' \in Seq(Asked \X BOOLEAN) /\ Len(requests') = m + 1
      /\ requests'[m + 1] = <<x, on>>
      /\ \A i \in 1..m : requests'[i] = requests[i]
  BY AppendIs
<1> HIDE DEF m
<1>2. m + 1 \in 1..(m + 1) /\ 1..m \subseteq 1..(m + 1)
  BY <1>1
<1>3. ASSUME NEW y, WillGrant(y) PROVE WillGrant(y)'
  <2>1. PICK i \in 1..m : requests[i] = <<y, y \notin wm>>
    BY <1>3 DEF WillGrant, m
  <2>2. i \in 1..(m + 1) /\ requests'[i] = <<y, y \notin wm>>
    BY <1>1, <1>2, <2>1
  <2> QED BY <1>1, <2>2 DEF WillGrant
<1>4. ASSUME on # (x \in wm) PROVE WillGrant(x)'
  <2>1. on = (x \notin wm)
    BY <1>4
  <2> QED BY <1>1, <1>2, <2>1 DEF WillGrant
<1> QED BY <1>1, <1>3, <1>4

\* The client asks for a state; the surface takes it at once.
LEMMA AskKeeps ==
  ASSUME AgreementInv, NEW x \in Asked, NEW on \in BOOLEAN,
         flags' = With(flags, x, on), requests' = Append(requests, <<x, on>>),
         role' = role, known' = known, wm' = wm, events' = events,
         said' \in {said, flags'}
  PROVE  AgreementInv'
<1>1. /\ requests' \in Seq(Asked \X BOOLEAN)
      /\ \A y : WillGrant(y) => WillGrant(y)'
      /\ on # (x \in wm) => WillGrant(x)'
  BY RequestKeeps DEF AgreementInv
<1>2. flags' \subseteq State /\ said' \subseteq State
  BY AskedIs DEF AgreementInv, With
<1>3. \A y : y # x => (y \in flags' <=> y \in flags)
  BY DEF With
<1>4. x \in flags' <=> on
  BY DEF With
<1>5. ASSUME events = <<>>, NEW y \in Asked, (y \in flags') # (y \in wm) PROVE WillGrant(y)'
  BY <1>1, <1>3, <1>4, <1>5 DEF AgreementInv, GrantIsComing
<1>6. ASSUME events = <<>>, NEW y \in Asked, role = "toplevel", known, (y \in said') # (y \in wm)
      PROVE  WillGrant(y)'
  <2>1. CASE said' = flags'
    BY <1>5, <1>6, <2>1
  <2>2. CASE said' = said
    BY <1>1, <1>6, <2>2 DEF AgreementInv, GrantIsComing
  <2> QED BY <2>1, <2>2
<1>7. GrantIsComing'
  BY <1>5, <1>6 DEF GrantIsComing
<1> QED BY <1>1, <1>2, <1>7 DEF AgreementInv, LastIsPlexys

\* A configure more, with Plexy's states
LEMMA AnnounceKeeps ==
  ASSUME NEW E, E = [states : SUBSET State, sized : BOOLEAN], events \in Seq(E),
         NEW states \in SUBSET State, NEW must \in BOOLEAN, Announce(states, must)
  PROVE  /\ events' \in Seq(E)
         /\ \/ events' # <<>> /\ events'[Len(events')].states = states
            \/ ~must /\ events' = events
<1>1. CASE ~must /\ UNCHANGED events
  BY <1>1
<1>2. ASSUME NEW sized \in BOOLEAN,
             events' = Append(events, [states |-> states, sized |-> sized])
      PROVE  events' \in Seq(E) /\ events' # <<>> /\ events'[Len(events')].states = states
  <2> DEFINE e == [states |-> states, sized |-> sized]
  <2>1. e \in E /\ e.states = states
    OBVIOUS
  <2> HIDE DEF e
  <2>2. events' = Append(events, e)
    BY <1>2 DEF e
  <2>3. /\ events' \in Seq(E) /\ events' # <<>> /\ Len(events') = Len(events) + 1
        /\ events'[Len(events) + 1] = e
    BY <2>1, <2>2, AppendIs
  <2> QED BY <2>1, <2>3
<1> QED BY <1>1, <1>2 DEF Announce

LEMMA GrantKeeps ==
  ASSUME AgreementInv, Grant
  PROVE  AgreementInv'
<1> DEFINE E == [states : SUBSET State, sized : BOOLEAN]
           R == Asked \X BOOLEAN
           h == Head(requests)
           m == Len(requests)
<1>1. /\ role' = role /\ flags' = flags /\ known' = known /\ said' = said
      /\ requests # <<>> /\ requests' = Tail(requests)
      /\ wm' = With(wm, h[1], h[2]) /\ Announce(wm', wm' # wm)
  BY DEF Grant, client
<1>2. /\ requests' \in Seq(R) /\ Len(requests') = m - 1 /\ m \in Nat /\ m >= 1
      /\ h = requests[1] /\ h \in R
      /\ \A i \in 1..(m - 1) : requests'[i] = requests[i + 1]
  BY <1>1, TailIs DEF AgreementInv
<1> DEFINE x == h[1]
           on == h[2]
<1>3. x \in Asked /\ on \in BOOLEAN /\ h = <<x, on>>
  BY <1>2
<1> HIDE DEF h, m, x, on
<1>4. wm' = With(wm, x, on) /\ wm' \subseteq State
  BY <1>1, <1>3, AskedIs DEF AgreementInv, With, x, on
<1>5. events' \in Seq(E) /\ (\/ events' # <<>> /\ events'[Len(events')].states = wm'
                             \/ wm' = wm /\ events' = events)
  <2>1. events \in Seq(E) /\ wm' \in SUBSET State /\ (wm' # wm) \in BOOLEAN
    BY <1>4 DEF AgreementInv
  <2>2. Announce(wm', wm' # wm)
    BY <1>1
  <2> QED BY <2>1, <2>2, AnnounceKeeps
<1>6. LastIsPlexys'
  BY <1>5 DEF AgreementInv, LastIsPlexys
<1>7. ASSUME wm' = wm, NEW y \in Asked, WillGrant(y) PROVE WillGrant(y)'
  <2>1. PICK i \in 1..m : requests[i] = <<y, y \notin wm>>
    BY <1>7 DEF WillGrant, m
  <2>2. i # 1
    <3>1. x \in wm <=> on
      BY <1>3, <1>4, <1>7 DEF With
    <3>2. SUFFICES ASSUME i = 1 PROVE FALSE
      OBVIOUS
    <3>3. <<x, on>> = <<y, y \notin wm>>
      BY <1>2, <1>3, <2>1, <3>2
    <3>4. x = y /\ on = (y \notin wm)
      BY <3>3
    <3> QED BY <1>3, <3>1, <3>4
  <2> DEFINE j == i - 1
  <2>3. j \in 1..(m - 1) /\ j + 1 = i
    BY <1>2, <2>2
  <2> HIDE DEF j
  <2>4. requests'[j] = <<y, y \notin wm>>
    BY <1>2, <2>1, <2>3
  <2>5. requests'[j] = <<y, y \notin wm'>>
    BY <1>7, <2>4
  <2> QED BY <1>2, <2>3, <2>5 DEF WillGrant
<1>8. GrantIsComing'
  <2> SUFFICES ASSUME events' = <<>> PROVE GrantIsComing'
    BY DEF GrantIsComing
  <2>1. wm' = wm /\ events = <<>>
    BY <1>5
  <2>2. ASSUME NEW y \in Asked, (y \in flags') # (y \in wm') PROVE WillGrant(y)'
    <3>1. WillGrant(y)
      BY <1>1, <2>1, <2>2 DEF AgreementInv, GrantIsComing
    <3> QED BY <1>7, <2>1, <3>1
  <2>3. ASSUME NEW y \in Asked, role' = "toplevel", known', (y \in said') # (y \in wm')
        PROVE  WillGrant(y)'
    <3>1. WillGrant(y)
      BY <1>1, <2>1, <2>3 DEF AgreementInv, GrantIsComing
    <3> QED BY <1>7, <2>1, <3>1
  <2> QED BY <2>2, <2>3 DEF GrantIsComing
<1> QED BY <1>1, <1>2, <1>4, <1>5, <1>6, <1>8 DEF AgreementInv

LEMMA UserKeeps ==
  ASSUME AgreementInv, NEW states \in SUBSET State, UserChanges(states)
  PROVE  AgreementInv'
<1> DEFINE E == [states : SUBSET State, sized : BOOLEAN]
<1>1. /\ role' = role /\ flags' = flags /\ known' = known /\ said' = said
      /\ requests' = requests /\ wm' = states /\ Announce(states, TRUE)
  BY DEF UserChanges, client
<1>2. events' \in Seq(E) /\ events' # <<>> /\ events'[Len(events')].states = states
  BY <1>1, AnnounceKeeps DEF AgreementInv
<1> QED BY <1>1, <1>2 DEF AgreementInv, LastIsPlexys, GrantIsComing

LEMMA ForwardKeeps ==
  ASSUME AgreementInv, ForwardConfigure
  PROVE  AgreementInv'
<1> DEFINE E == [states : SUBSET State, sized : BOOLEAN]
           e == Head(events)
           m == Len(events)
<1>1. /\ role' = role /\ requests' = requests /\ wm' = wm
      /\ events # <<>> /\ events' = Tail(events) /\ flags' = e.states
      /\ known' = (known \/ e.sized)
      /\ known' /\ role = "toplevel" => said' = flags'
      /\ ~(known' /\ role = "toplevel") => said' = said
  BY DEF ForwardConfigure, SendUnlisted, client
<1>2. /\ events' \in Seq(E) /\ Len(events') = m - 1 /\ m \in Nat /\ m >= 1
      /\ e = events[1] /\ e \in E
      /\ \A i \in 1..(m - 1) : events'[i] = events[i + 1]
      /\ events' = <<>> <=> m = 1
  BY <1>1, TailIs DEF AgreementInv
<1> HIDE DEF e, m
<1>3. e.states \subseteq State /\ e.sized \in BOOLEAN
  BY <1>2
<1>4. LastIsPlexys'
  <2> SUFFICES ASSUME events' # <<>> PROVE events'[m - 1].states = wm
    BY <1>1, <1>2 DEF LastIsPlexys
  <2>1. m - 1 \in 1..(m - 1) /\ (m - 1) + 1 = m
    BY <1>2
  <2>2. events'[m - 1] = events[m]
    BY <1>2, <2>1
  <2> QED BY <1>1, <2>2 DEF AgreementInv, LastIsPlexys, m
<1>5. events' = <<>> => flags' = wm
  <2>1. m = 1 => e.states = wm
    BY <1>1, <1>2 DEF AgreementInv, LastIsPlexys, m
  <2> QED BY <1>1, <1>2, <2>1
<1>6. GrantIsComing'
  BY <1>1, <1>5 DEF GrantIsComing
<1>7. flags' \subseteq State /\ said' \subseteq State /\ known' \in BOOLEAN
  BY <1>1, <1>3 DEF AgreementInv
<1> QED BY <1>1, <1>2, <1>4, <1>6, <1>7 DEF AgreementInv

---------------------------------------------------------------------------
LEMMA ConfigureStart == ConfigureInit => ConfigureInv
<1> SUFFICES ASSUME ConfigureInit PROVE ConfigureInv
  OBVIOUS
<1>1. /\ <<>> \in Seq(1..0) /\ DOMAIN <<>> = {} /\ <<>> \in Seq(Asked \X BOOLEAN)
      /\ <<>> \in Seq([states : SUBSET State, sized : BOOLEAN])
  OBVIOUS
<1>2. SerialsInv
  BY <1>1, ConfigureAssumption DEF ConfigureInit, SerialsInv, PendingIsUnanswered, ToSet
<1>3. AgreementInv
  BY <1>1 DEF ConfigureInit, AgreementInv, LastIsPlexys, GrantIsComing
<1> QED BY <1>2, <1>3, ConfigureInvIs

LEMMA ConfigureStep == ConfigureInv /\ [ConfigureNext]_configureVars => ConfigureInv'
<1> SUFFICES ASSUME ConfigureInv, [ConfigureNext]_configureVars PROVE SerialsInv' /\ AgreementInv'
  BY DEF ConfigureInv, ConfigureTypeOK, SerialsInv, AgreementInv
<1>0. SerialsInv /\ AgreementInv
  BY ConfigureInvIs
<1>1. CASE GetXdgSurface
  <2>1. listed = {} /\ serial = 0
    BY <1>0, <1>1 DEF GetXdgSurface, SerialsInv
  <2>2. SerialsInv'
    BY <1>0, <1>1, <2>1, EmptyKeeps DEF GetXdgSurface
  <2>3. AgreementInv'
    BY <1>0, <1>1 DEF GetXdgSurface, AgreementInv, LastIsPlexys, GrantIsComing, WillGrant, plexy
  <2> QED BY <2>2, <2>3
<1>2. CASE OpenToplevel
  <2>1. SerialsInv'
    BY <1>0, <1>2, ListedKeeps DEF OpenToplevel
  <2>2. AgreementInv'
    BY <1>0, <1>2 DEF OpenToplevel, SendListed, AgreementInv, LastIsPlexys, GrantIsComing, WillGrant, plexy
  <2> QED BY <2>1, <2>2
<1>3. CASE CloseToplevel
  <2>1. SerialsInv'
    BY <1>0, <1>3 DEF CloseToplevel, SerialsInv, PendingIsUnanswered, client
  <2>2. AgreementInv'
    BY <1>0, <1>3 DEF CloseToplevel, AgreementInv, LastIsPlexys, GrantIsComing, WillGrant, plexy, client
  <2> QED BY <2>1, <2>2
<1>4. CASE DestroyXdgSurface
  <2>1. SerialsInv'
    BY <1>0, <1>4, EmptyKeeps DEF DestroyXdgSurface
  <2>2. AgreementInv'
    BY <1>0, <1>4 DEF DestroyXdgSurface, AgreementInv, LastIsPlexys, GrantIsComing, WillGrant, plexy
  <2> QED BY <2>1, <2>2
<1>5. ASSUME NEW on \in BOOLEAN, SetMaximized(on) PROVE SerialsInv' /\ AgreementInv'
  <2>1. SerialsInv'
    BY <1>0, <1>5 DEF SetMaximized, SerialsInv, PendingIsUnanswered, client
  <2>2. "maximized" \in Asked
    BY DEF Asked
  <2>3. AgreementInv'
    BY <1>0, <1>5, <2>2, AskKeeps DEF SetMaximized, client
  <2> QED BY <2>1, <2>3
<1>6. ASSUME NEW on \in BOOLEAN, SetFullscreen(on) PROVE SerialsInv' /\ AgreementInv'
  <2>1. SerialsInv'
    BY <1>0, <1>6, ListedKeeps DEF SetFullscreen
  <2>2. "fullscreen" \in Asked
    BY DEF Asked
  <2>3. AgreementInv'
    BY <1>0, <1>6, <2>2, AskKeeps DEF SetFullscreen, SendListed
  <2> QED BY <2>1, <2>3
<1>7. ASSUME NEW n \in 1..MaxSerial, AckConfigure(n) PROVE SerialsInv' /\ AgreementInv'
  <2>1. SerialsInv'
    BY <1>0, <1>7, AckKeeps
  <2>2. /\ role' = role /\ known' = known /\ said' = said /\ wm' = wm
        /\ requests' = requests /\ events' = events /\ flags' = flags \ {"resizing"}
    BY <1>7 DEF AckConfigure, plexy
  <2>3. \A x \in Asked : x \in flags' <=> x \in flags
    BY <2>2, AskedIs
  <2>4. GrantIsComing'
    BY <1>0, <2>2, <2>3 DEF AgreementInv, GrantIsComing, WillGrant
  <2> QED BY <1>0, <2>1, <2>2, <2>4 DEF AgreementInv, LastIsPlexys
<1>8. CASE Grant
  <2>1. SerialsInv'
    BY <1>0, <1>8 DEF Grant, SerialsInv, PendingIsUnanswered, client
  <2> QED BY <1>0, <1>8, <2>1, GrantKeeps
<1>9. CASE ForwardConfigure
  <2>1. acked' = acked /\ highest' = highest /\ ((\E states : SendUnlisted(states)) \/ UNCHANGED client)
    BY <1>9 DEF ForwardConfigure
  <2>2. SerialsInv'
    BY <1>0, <2>1, UnlistedKeeps DEF SerialsInv, PendingIsUnanswered, client
  <2> QED BY <1>0, <1>9, <2>2, ForwardKeeps
<1>10. ASSUME NEW states \in SUBSET State, UserChanges(states) PROVE SerialsInv' /\ AgreementInv'
  <2>1. SerialsInv'
    BY <1>0, <1>10 DEF UserChanges, SerialsInv, PendingIsUnanswered, client
  <2> QED BY <1>0, <1>10, <2>1, UserKeeps
<1>11. CASE UNCHANGED configureVars
  BY <1>0, <1>11 DEF configureVars, client, plexy, SerialsInv, PendingIsUnanswered, AgreementInv,
     LastIsPlexys, GrantIsComing, WillGrant
<1> QED BY <1>1, <1>2, <1>3, <1>4, <1>5, <1>6, <1>7, <1>8, <1>9, <1>10, <1>11 DEF ConfigureNext

(***************************************************************************)
(* Client, bridge and Plexy agree on configures: what is pending is what   *)
(* was not acknowledged, in order, and with nothing under way all three    *)
(* have the same states, for any number of configures and any queues.      *)
(***************************************************************************)
THEOREM ConfiguresSettle == ConfigureSpec => []ConfigureOK
<1>1. ConfigureInv => ConfigureOK
  <2> SUFFICES ASSUME ConfigureInv PROVE StatesAgree
    BY DEF ConfigureInv, ConfigureOK
  <2> SUFFICES ASSUME role = "toplevel", known, requests = <<>>, events = <<>>
               PROVE  flags \cap Asked = wm \cap Asked /\ said \cap Asked = wm \cap Asked
    BY DEF StatesAgree
  <2>1. 1..Len(requests) = {}
    OBVIOUS
  <2>2. \A x \in Asked : ~WillGrant(x)
    BY <2>1 DEF WillGrant
  <2>3. \A x \in Asked : (x \in flags <=> x \in wm) /\ (x \in said <=> x \in wm)
    BY <2>2 DEF ConfigureInv, GrantIsComing
  <2> QED BY <2>3
<1> QED BY <1>1, ConfigureStart, ConfigureStep, PTL DEF ConfigureSpec

---------------------------------------------------------------------------
(***************************************************************************)
(* Subsurfaces: the surfaces are a forest, drawn in one order.             *)
(***************************************************************************)

\* No surface is reached from itself.
Acyclic(f) == \A n \in Node : n \notin Ancestors(f, n)

\* The parent of a surface is that of its wl_subsurface, if it still exists.
ParentIsObjects == \A n \in Node : parentOf[n] = IF object[n] \in Node THEN object[n] ELSE Nil

\* Surfaces with objects exist, and so do the parents of these.
ObjectsExist == \A n \in Node : /\ object[n] # Nil => n \in nodes
                                /\ object[n] \in Node => object[n] \in nodes

\* Each list has the children, each once.
ListsHold(st, par) ==
  /\ st \in [Node -> Seq(Node)]
  /\ \A p \in Node : Elements(st[p]) = {n \in Node : par[n] = p} /\ Once(st[p])

TreeInv ==
  /\ TreeTypeOK /\ ParentIsObjects /\ ObjectsExist
  /\ ListsHold(stack, parentOf) /\ Acyclic(object)

---------------------------------------------------------------------------
(* The way up.  A set that is closed keeps what leads into it from leading out, so one such set
   for each surface shows that there is no way back to it. *)

LEMMA AcyclicIs ==
  ASSUME NEW f
  PROVE  Acyclic(f) <=> \A n \in Node : \E S \in SUBSET Node :
                          LeadsInto(f, n, S) /\ Closed(f, S) /\ n \notin S
BY DEF Acyclic, Ancestors

\* A surface gets a parent it does not lead to.
LEMMA AdoptKeeps ==
  ASSUME NEW f, NEW g, NEW n \in Node, NEW p \in Node, n # p, Acyclic(f), n \notin Ancestors(f, p),
         \A m \in Node : g[m] = IF m = n THEN p ELSE f[m]
  PROVE  Acyclic(g)
<1>1. PICK U \in SUBSET Node : LeadsInto(f, p, U) /\ Closed(f, U) /\ n \notin U
  BY DEF Ancestors
<1> DEFINE V == U \cup {p}
<1>2. /\ V \in SUBSET Node /\ p \in V /\ n \notin V
      /\ Closed(f, V) /\ Closed(g, V)
  BY <1>1 DEF Closed, LeadsInto
<1> HIDE DEF V
<1>3. ASSUME NEW x \in Node
      PROVE  \E S \in SUBSET Node : LeadsInto(g, x, S) /\ Closed(g, S) /\ x \notin S
  <2>1. PICK T \in SUBSET Node : LeadsInto(f, x, T) /\ Closed(f, T) /\ x \notin T
    BY AcyclicIs
  <2>2. CASE x = n
    BY <1>2, <2>2 DEF LeadsInto
  <2>3. CASE x # n /\ x \in V
    <3> DEFINE S == V \cap T
    <3>1. S \in SUBSET Node /\ x \notin S /\ n \notin S
      BY <1>2, <2>1
    <3>2. LeadsInto(g, x, S)
      BY <1>2, <2>1, <2>3 DEF LeadsInto, Closed
    <3>3. Closed(g, S)
      BY <1>2, <2>1 DEF LeadsInto, Closed
    <3> QED BY <3>1, <3>2, <3>3
  <2>4. CASE x # n /\ x \notin V
    <3> DEFINE S == V \cup T
    <3>1. S \in SUBSET Node /\ x \notin S
      BY <1>2, <2>1, <2>4
    <3>2. LeadsInto(g, x, S)
      BY <2>1, <2>4 DEF LeadsInto
    <3>3. Closed(g, S)
      BY <1>2, <2>1 DEF LeadsInto, Closed
    <3> QED BY <3>1, <3>2, <3>3
  <2> QED BY <2>2, <2>3, <2>4
<1> QED BY <1>3, AcyclicIs

\* Surfaces lose their parents.
LEMMA LessIsAcyclic ==
  ASSUME NEW f, NEW g, Acyclic(f), \A m \in Node : g[m] \in Node => g[m] = f[m]
  PROVE  Acyclic(g)
<1>1. ASSUME NEW n, NEW S, LeadsInto(f, n, S), n \in Node PROVE LeadsInto(g, n, S)
  BY <1>1 DEF LeadsInto
<1>2. ASSUME NEW S \in SUBSET Node, Closed(f, S) PROVE Closed(g, S)
  BY <1>2 DEF Closed, LeadsInto
<1>3. ASSUME NEW n \in Node
      PROVE  \E S \in SUBSET Node : LeadsInto(g, n, S) /\ Closed(g, S) /\ n \notin S
  <2>1. PICK S \in SUBSET Node : LeadsInto(f, n, S) /\ Closed(f, S) /\ n \notin S
    BY AcyclicIs
  <2> QED BY <1>1, <1>2, <2>1
<1> QED BY <1>3, AcyclicIs

---------------------------------------------------------------------------
(* The lists *)

LEMMA UnlinkedIs ==
  ASSUME NEW st \in [Node -> Seq(Node)], NEW n
  PROVE  /\ Unlinked(st, n) \in [Node -> Seq(Node)]
         /\ \A p \in Node : /\ Elements(Unlinked(st, n)[p]) = Elements(st[p]) \ {n}
                            /\ Once(st[p]) => Once(Unlinked(st, n)[p])
<1>1. ASSUME NEW p \in Node
      PROVE  /\ Unlinked(st, n)[p] = Without(st[p], {n}) /\ Without(st[p], {n}) \in Seq(Node)
             /\ Elements(Without(st[p], {n})) = Elements(st[p]) \ {n}
             /\ Once(st[p]) => Once(Without(st[p], {n}))
  <2>1. st[p] \in Seq(Node)
    OBVIOUS
  <2>2. Unlinked(st, n)[p] = Without(st[p], {n})
    BY DEF Unlinked
  <2> QED BY <2>1, <2>2, DroppedKeeps
<1>2. Unlinked(st, n) \in [Node -> Seq(Node)]
  BY <1>1 DEF Unlinked
<1> QED BY <1>1, <1>2

\* One element more, in some place
LEMMA InsertKeeps ==
  ASSUME NEW T, NEW q \in Seq(T), NEW i \in 1..(Len(q) + 1), NEW x \in T
  PROVE  /\ InsertAt(q, i, x) \in Seq(T)
         /\ Elements(InsertAt(q, i, x)) = Elements(q) \cup {x}
         /\ Once(q) /\ x \notin Elements(q) => Once(InsertAt(q, i, x))
<1> DEFINE lo == SubSeq(q, 1, i - 1)
           hi == SubSeq(q, i, Len(q))
           one == <<x>>
           mid == lo \o one
<1>1. /\ lo \in Seq(T) /\ hi \in Seq(T)
      /\ Elements(lo) \cup Elements(hi) = Elements(q)
      /\ Once(q) => Once(lo) /\ Once(hi) /\ Elements(lo) \cap Elements(hi) = {}
  BY SplitKeeps
<1>2. one \in Seq(T) /\ Elements(one) = {x} /\ Once(one)
  BY OneKeeps
<1>3. InsertAt(q, i, x) = mid \o hi
  BY DEF InsertAt
<1> HIDE DEF lo, hi, one
<1>4. /\ mid \in Seq(T) /\ Elements(mid) = Elements(lo) \cup {x}
      /\ Once(lo) /\ x \notin Elements(lo) => Once(mid)
  <2>1. /\ mid \in Seq(T) /\ Elements(mid) = Elements(lo) \cup Elements(one)
        /\ Once(lo) /\ Once(one) /\ Elements(lo) \cap Elements(one) = {} => Once(mid)
    BY <1>1, <1>2, ConcatKeeps
  <2> QED BY <1>2, <2>1
<1> HIDE DEF mid
<1>5. /\ mid \o hi \in Seq(T) /\ Elements(mid \o hi) = Elements(mid) \cup Elements(hi)
      /\ Once(mid) /\ Once(hi) /\ Elements(mid) \cap Elements(hi) = {} => Once(mid \o hi)
  BY <1>1, <1>4, ConcatKeeps
<1> QED BY <1>1, <1>3, <1>4, <1>5

\* A member of a list is put beside another.
LEMMA BesideKeeps ==
  ASSUME NEW q \in Seq(Node), Once(q), NEW n \in Elements(q), NEW m \in Elements(q), m # n,
         NEW above \in BOOLEAN
  PROVE  /\ Beside(q, n, m, above) \in Seq(Node) /\ Once(Beside(q, n, m, above))
         /\ Elements(Beside(q, n, m, above)) = Elements(q)
<1> DEFINE r == Without(q, {n})
           i == CHOOSE j \in DOMAIN r : r[j] = m
           k == IF above THEN i + 1 ELSE i
<1>1. r \in Seq(Node) /\ Elements(r) = Elements(q) \ {n} /\ Once(r)
  BY DroppedKeeps
<1>2. n \in Node
  BY ElementsAre
<1>3. Beside(q, n, m, above) = InsertAt(r, k, n)
  BY DEF Beside
<1> HIDE DEF r
<1>4. i \in 1..Len(r)
  <2>1. DOMAIN r = 1..Len(r)
    BY <1>1, LenProperties
  <2>2. m \in Elements(r)
    BY <1>1
  <2>3. \E j \in DOMAIN r : r[j] = m
    BY <2>2 DEF Elements
  <2> QED BY <2>1, <2>3
<1> HIDE DEF i
<1>5. k \in 1..(Len(r) + 1)
  BY <1>1, <1>4
<1> HIDE DEF k
<1>6. /\ InsertAt(r, k, n) \in Seq(Node)
      /\ Elements(InsertAt(r, k, n)) = Elements(r) \cup {n}
      /\ Once(InsertAt(r, k, n))
  BY <1>1, <1>2, <1>5, InsertKeeps
<1> QED BY <1>1, <1>3, <1>6

---------------------------------------------------------------------------
LEMMA CreateKeeps ==
  ASSUME TreeInv, NEW n \in Node, CreateNode(n)
  PROVE  TreeInv'
BY DEF CreateNode, TreeInv, TreeTypeOK, ParentIsObjects, ObjectsExist

LEMMA DestroyNodeKeeps ==
  ASSUME TreeInv, NEW n \in Node, DestroyNode(n)
  PROVE  TreeInv'
<1>1. /\ nodes' = nodes \ {n} /\ sync' = sync \ {n}
      /\ object' = Orphaned(n)
      /\ parentOf' = [c \in Node |-> IF c = n \/ parentOf[c] = n THEN Nil ELSE parentOf[c]]
      /\ stack' = [Unlinked(stack, n) EXCEPT ![n] = <<>>]
  BY DEF DestroyNode
<1>2. \A c \in Node : object'[c] = IF c = n THEN Nil ELSE IF object[c] = n THEN Lost ELSE object[c]
  BY <1>1 DEF Orphaned
<1>3. \A c \in Node : parentOf'[c] = IF c = n \/ parentOf[c] = n THEN Nil ELSE parentOf[c]
  BY <1>1
<1>4. /\ Unlinked(stack, n) \in [Node -> Seq(Node)]
      /\ \A p \in Node : /\ Elements(Unlinked(stack, n)[p]) = Elements(stack[p]) \ {n}
                         /\ Once(Unlinked(stack, n)[p])
  BY UnlinkedIs DEF TreeInv, ListsHold
<1>5. <<>> \in Seq(Node) /\ Elements(<<>>) = {} /\ Once(<<>>)
  <2>1. <<>> \in Seq(Node) /\ Len(<<>>) = 0
    OBVIOUS
  <2>2. Once(<<>>)
    BY <2>1 DEF Once
  <2> QED BY <2>1, <2>2, ElementsAre
<1>6. /\ stack' \in [Node -> Seq(Node)]
      /\ \A p \in Node : stack'[p] = IF p = n THEN <<>> ELSE Unlinked(stack, n)[p]
  BY <1>1, <1>4, <1>5
<1>7. ASSUME NEW p \in Node
      PROVE  Elements(stack'[p]) = {c \in Node : parentOf'[c] = p} /\ Once(stack'[p])
  <2>1. CASE p = n
    <3>1. \A c \in Node : parentOf'[c] # n
      BY <1>3, TreeAssumption
    <3> QED BY <1>5, <1>6, <2>1, <3>1
  <2>2. CASE p # n
    <3>1. \A c \in Node : parentOf'[c] = p <=> parentOf[c] = p /\ c # n
      BY <1>3, <2>2, TreeAssumption
    <3>2. Elements(stack[p]) = {c \in Node : parentOf[c] = p}
      BY DEF TreeInv, ListsHold
    <3> QED BY <1>4, <1>6, <2>2, <3>1, <3>2
  <2> QED BY <2>1, <2>2
<1>8. ListsHold(stack', parentOf')
  BY <1>6, <1>7 DEF ListsHold
<1>9. Acyclic(object')
  <2>1. \A c \in Node : object'[c] \in Node => object'[c] = object[c]
    BY <1>2, TreeAssumption
  <2> QED BY <2>1, LessIsAcyclic DEF TreeInv
<1>10. TreeTypeOK'
  BY <1>1, <1>2, <1>3, <1>6 DEF TreeInv, TreeTypeOK, Orphaned
<1>11. ParentIsObjects'
  BY <1>2, <1>3, TreeAssumption DEF TreeInv, ParentIsObjects
<1>12. ObjectsExist'
  BY <1>1, <1>2, TreeAssumption DEF TreeInv, ObjectsExist
<1> QED BY <1>8, <1>9, <1>10, <1>11, <1>12 DEF TreeInv

LEMMA MakeKeeps ==
  ASSUME TreeInv, NEW n \in Node, NEW p \in Node, MakeSubsurface(n, p)
  PROVE  TreeInv'
<1>1. /\ n \in nodes /\ p \in nodes /\ n # p /\ n \notin Ancestors(object, p)
      /\ object[n] = Nil /\ nodes' = nodes /\ sync' = sync \cup {n}
      /\ object' = [object EXCEPT ![n] = p]
      /\ parentOf' = [parentOf EXCEPT ![n] = p]
      /\ stack' = [stack EXCEPT ![p] = <<n>> \o @]
  BY DEF MakeSubsurface
<1>2. \A c \in Node : /\ object'[c] = IF c = n THEN p ELSE object[c]
                      /\ parentOf'[c] = IF c = n THEN p ELSE parentOf[c]
  BY <1>1 DEF TreeInv, TreeTypeOK
<1>3. parentOf[n] = Nil
  BY <1>1, TreeAssumption DEF TreeInv, ParentIsObjects
<1>4. /\ stack \in [Node -> Seq(Node)]
      /\ \A q \in Node : Elements(stack[q]) = {c \in Node : parentOf[c] = q} /\ Once(stack[q])
  BY DEF TreeInv, ListsHold
<1>5. n \notin Elements(stack[p])
  BY <1>3, <1>4, TreeAssumption
<1>6. /\ <<n>> \o stack[p] \in Seq(Node)
      /\ Elements(<<n>> \o stack[p]) = Elements(stack[p]) \cup {n}
      /\ Once(<<n>> \o stack[p])
  <2>1. stack[p] \in Seq(Node) /\ Once(stack[p])
    BY <1>4
  <2> QED BY <1>5, <2>1, PushKeeps
<1>7. /\ stack' \in [Node -> Seq(Node)]
      /\ \A q \in Node : stack'[q] = IF q = p THEN <<n>> \o stack[p] ELSE stack[q]
  BY <1>1, <1>4, <1>6
<1>8. ASSUME NEW q \in Node
      PROVE  Elements(stack'[q]) = {c \in Node : parentOf'[c] = q} /\ Once(stack'[q])
  <2>1. Elements(stack[q]) = {c \in Node : parentOf[c] = q} /\ Once(stack[q])
    BY <1>4
  <2>2. CASE q = p
    <3>1. stack'[q] = <<n>> \o stack[p]
      BY <1>7, <2>2
    <3>2. \A c \in Node : parentOf'[c] = q <=> c = n \/ parentOf[c] = p
      BY <1>2, <2>2
    <3>3. Elements(stack[p]) = {c \in Node : parentOf[c] = p} /\ Once(stack[p])
      BY <1>4
    <3> DEFINE longer == <<n>> \o stack[p]
    <3>4. /\ stack'[q] = longer /\ Elements(longer) = Elements(stack[p]) \cup {n}
          /\ Once(longer)
      BY <1>6, <3>1
    <3> HIDE DEF longer
    <3> QED BY <3>2, <3>3, <3>4
  <2>3. CASE q # p
    BY <1>2, <1>3, <1>7, <2>1, <2>3, TreeAssumption
  <2> QED BY <2>2, <2>3
<1>9. Acyclic(object')
  <2>1. Acyclic(object) /\ n # p /\ n \notin Ancestors(object, p)
    BY <1>1 DEF TreeInv
  <2>2. \A c \in Node : object'[c] = IF c = n THEN p ELSE object[c]
    BY <1>2
  <2> QED BY <2>1, <2>2, AdoptKeeps
<1>10. TreeTypeOK'
  BY <1>1, <1>7 DEF TreeInv, TreeTypeOK
<1>11. ParentIsObjects' /\ ObjectsExist'
  BY <1>1, <1>2 DEF TreeInv, ParentIsObjects, ObjectsExist
<1> QED BY <1>7, <1>8, <1>9, <1>10, <1>11 DEF TreeInv, ListsHold

LEMMA DestroyObjectKeeps ==
  ASSUME TreeInv, NEW n \in Node, DestroySubsurface(n)
  PROVE  TreeInv'
<1>1. /\ nodes' = nodes /\ sync' = sync /\ n \in nodes
      /\ object' = [object EXCEPT ![n] = Nil]
      /\ parentOf' = [parentOf EXCEPT ![n] = Nil]
      /\ stack' = IF parentOf[n] = Nil THEN stack ELSE Unlinked(stack, n)
  BY DEF DestroySubsurface
<1>2. \A c \in Node : /\ object'[c] = IF c = n THEN Nil ELSE object[c]
                      /\ parentOf'[c] = IF c = n THEN Nil ELSE parentOf[c]
  BY <1>1 DEF TreeInv, TreeTypeOK
<1>3. /\ stack \in [Node -> Seq(Node)]
      /\ \A q \in Node : Elements(stack[q]) = {c \in Node : parentOf[c] = q} /\ Once(stack[q])
  BY DEF TreeInv, ListsHold
<1>4. /\ Unlinked(stack, n) \in [Node -> Seq(Node)]
      /\ \A p \in Node : /\ Elements(Unlinked(stack, n)[p]) = Elements(stack[p]) \ {n}
                         /\ Once(Unlinked(stack, n)[p])
  BY <1>3, UnlinkedIs
<1>5. stack' \in [Node -> Seq(Node)]
  BY <1>1, <1>3, <1>4
<1>6. ASSUME NEW p \in Node
      PROVE  Elements(stack'[p]) = {c \in Node : parentOf'[c] = p} /\ Once(stack'[p])
  <2>1. \A c \in Node : parentOf'[c] = p <=> parentOf[c] = p /\ c # n
    BY <1>2, TreeAssumption
  <2>2. CASE parentOf[n] = Nil
    <3>1. stack'[p] = stack[p] /\ parentOf[n] # p
      BY <1>1, <2>2, TreeAssumption
    <3> QED BY <1>3, <2>1, <3>1
  <2>3. CASE parentOf[n] # Nil
    <3>1. stack'[p] = Unlinked(stack, n)[p]
      BY <1>1, <2>3
    <3> QED BY <1>3, <1>4, <2>1, <3>1
  <2> QED BY <2>2, <2>3
<1>7. Acyclic(object')
  <2>1. \A c \in Node : object'[c] \in Node => object'[c] = object[c]
    BY <1>2, TreeAssumption
  <2> QED BY <2>1, LessIsAcyclic DEF TreeInv
<1>8. TreeTypeOK'
  BY <1>1, <1>5 DEF TreeInv, TreeTypeOK
<1>9. ParentIsObjects' /\ ObjectsExist'
  BY <1>1, <1>2, TreeAssumption DEF TreeInv, ParentIsObjects, ObjectsExist
<1> QED BY <1>5, <1>6, <1>7, <1>8, <1>9 DEF TreeInv, ListsHold

LEMMA PlaceKeeps ==
  ASSUME TreeInv, NEW n \in Node, NEW m \in Node, NEW above \in BOOLEAN, Place(n, m, above)
  PROVE  TreeInv'
<1> DEFINE p == object[n]
           q == stack[p]
           r == Without(q, {n})
           new == IF m # p THEN Beside(q, n, m, above)
                  ELSE IF above THEN Append(r, n) ELSE <<n>> \o r
<1>1. /\ p \in Node /\ (m = p \/ (m # n /\ parentOf[m] = p))
      /\ stack' = [stack EXCEPT ![p] = new]
      /\ nodes' = nodes /\ object' = object /\ parentOf' = parentOf /\ sync' = sync
  BY DEF Place
<1>2. /\ stack \in [Node -> Seq(Node)]
      /\ \A o \in Node : Elements(stack[o]) = {c \in Node : parentOf[c] = o} /\ Once(stack[o])
  BY DEF TreeInv, ListsHold
<1>3. q \in Seq(Node) /\ Elements(q) = {c \in Node : parentOf[c] = p} /\ Once(q)
  BY <1>1, <1>2
<1>4. parentOf[n] = p
  BY <1>1 DEF TreeInv, ParentIsObjects
<1> HIDE DEF p, q
<1>5. n \in Elements(q) /\ (m # p => m \in Elements(q) /\ m # n)
  BY <1>1, <1>3, <1>4
<1>6. r \in Seq(Node) /\ Elements(r) = Elements(q) \ {n} /\ Once(r)
  BY <1>3, DroppedKeeps
<1> HIDE DEF r
<1>7. new \in Seq(Node) /\ Elements(new) = Elements(q) /\ Once(new)
  <2>1. CASE m # p
    BY <1>3, <1>5, <2>1, BesideKeeps
  <2>2. CASE m = p /\ above
    <3>1. new = Append(r, n)
      BY <2>2
    <3>2. n \notin Elements(r) /\ Elements(q) = Elements(r) \cup {n}
      BY <1>5, <1>6
    <3> HIDE DEF new
    <3> QED BY <1>6, <3>1, <3>2, AppendKeeps
  <2>3. CASE m = p /\ ~above
    <3>1. new = <<n>> \o r
      BY <2>3
    <3>2. n \notin Elements(r) /\ Elements(q) = Elements(r) \cup {n}
      BY <1>5, <1>6
    <3> HIDE DEF new
    <3> QED BY <1>6, <3>1, <3>2, PushKeeps
  <2> QED BY <2>1, <2>2, <2>3
<1> HIDE DEF new
<1>8. /\ stack' \in [Node -> Seq(Node)]
      /\ \A o \in Node : stack'[o] = IF o = p THEN new ELSE stack[o]
  BY <1>1, <1>2, <1>7
<1>9. ListsHold(stack', parentOf')
  BY <1>1, <1>2, <1>3, <1>7, <1>8 DEF ListsHold
<1> QED BY <1>1, <1>8, <1>9 DEF TreeInv, TreeTypeOK, ParentIsObjects, ObjectsExist

LEMMA SyncKeeps ==
  ASSUME TreeInv, NEW n \in Node, NEW on \in BOOLEAN, SetSync(n, on)
  PROVE  TreeInv'
BY DEF SetSync, TreeInv, TreeTypeOK, ParentIsObjects, ObjectsExist

LEMMA TreeStart == TreeInit => TreeInv
<1> SUFFICES ASSUME TreeInit PROVE TreeInv
  OBVIOUS
<1>1. /\ object = [n \in Node |-> Nil] /\ parentOf = [n \in Node |-> Nil]
      /\ stack = [n \in Node |-> <<>>] /\ nodes = {} /\ sync = {}
  BY DEF TreeInit
<1>2. <<>> \in Seq(Node) /\ Elements(<<>>) = {} /\ Once(<<>>)
  <2>1. <<>> \in Seq(Node) /\ Len(<<>>) = 0
    OBVIOUS
  <2>2. Once(<<>>)
    BY <2>1 DEF Once
  <2> QED BY <2>1, <2>2, ElementsAre
<1>3. stack \in [Node -> Seq(Node)] /\ \A p \in Node : stack[p] = <<>> /\ parentOf[p] = Nil
  BY <1>1, <1>2
<1>4. ListsHold(stack, parentOf)
  BY <1>2, <1>3, TreeAssumption DEF ListsHold
<1>5. Acyclic(object)
  <2>1. \A n \in Node : LeadsInto(object, n, {}) /\ Closed(object, {}) /\ n \notin {}
    BY <1>1, TreeAssumption DEF LeadsInto, Closed
  <2> QED BY <2>1, AcyclicIs
<1>6. TreeTypeOK /\ ParentIsObjects /\ ObjectsExist
  BY <1>1, <1>3, TreeAssumption DEF TreeTypeOK, ParentIsObjects, ObjectsExist
<1> QED BY <1>4, <1>5, <1>6 DEF TreeInv

LEMMA TreeStep == TreeInv /\ [TreeNext]_treeVars => TreeInv'
<1> SUFFICES ASSUME TreeInv, [TreeNext]_treeVars PROVE TreeInv'
  OBVIOUS
<1>1. ASSUME NEW n \in Node, CreateNode(n) PROVE TreeInv'
  BY <1>1, CreateKeeps
<1>2. ASSUME NEW n \in Node, DestroyNode(n) PROVE TreeInv'
  BY <1>2, DestroyNodeKeeps
<1>3. ASSUME NEW n \in Node, DestroySubsurface(n) PROVE TreeInv'
  BY <1>3, DestroyObjectKeeps
<1>4. ASSUME NEW n \in Node, NEW p \in Node, MakeSubsurface(n, p) PROVE TreeInv'
  BY <1>4, MakeKeeps
<1>5. ASSUME NEW n \in Node, NEW m \in Node, NEW above \in BOOLEAN, Place(n, m, above) PROVE TreeInv'
  BY <1>5, PlaceKeeps
<1>6. ASSUME NEW n \in Node, NEW on \in BOOLEAN, SetSync(n, on) PROVE TreeInv'
  BY <1>6, SyncKeeps
<1>7. CASE UNCHANGED treeVars
  BY <1>7 DEF treeVars, TreeInv, TreeTypeOK, ParentIsObjects, ObjectsExist
<1> QED BY <1>1, <1>2, <1>3, <1>4, <1>5, <1>6, <1>7 DEF TreeNext

(***************************************************************************)
(* The stack of a surface has its children, each once, and the way up from *)
(* any surface ends, for any number of surfaces.                           *)
(***************************************************************************)
THEOREM TreesStayTrees == TreeSpec => []TreeOK
<1>1. TreeInv => TreeOK
  <2> SUFFICES ASSUME TreeInv PROVE TreeOK
    OBVIOUS
  <2>1. /\ stack \in [Node -> Seq(Node)]
        /\ \A p \in Node : Elements(stack[p]) = {n \in Node : parentOf[n] = p} /\ Once(stack[p])
    BY DEF TreeInv, ListsHold
  <2>2. ASSUME NEW p \in Node
        PROVE  /\ ToSet(stack[p]) = {n \in Node : parentOf[n] = p} /\ IsInjective(stack[p])
               /\ p \notin nodes => stack[p] = <<>>
    <3>1. stack[p] \in Seq(Node)
      BY <2>1
    <3>2. IsInjective(stack[p])
      BY <2>1, <3>1, OnceIsInjective DEF IsInjective
    <3>3. ToSet(stack[p]) = {n \in Node : parentOf[n] = p}
      BY <2>1 DEF ToSet, Elements
    <3>4. ASSUME p \notin nodes PROVE stack[p] = <<>>
      <4>1. \A n \in Node : parentOf[n] # p
        BY <3>4, TreeAssumption DEF TreeInv, ParentIsObjects, ObjectsExist
      <4>2. Elements(stack[p]) = {}
        BY <2>1, <4>1
      <4> QED BY <3>1, <4>2, ElementsAre
    <3> QED BY <3>2, <3>3, <3>4
  <2>3. StackHoldsChildren
    BY <2>2 DEF StackHoldsChildren
  <2>4. Acyclic(parentOf)
    <3>1. \A n \in Node : parentOf[n] \in Node => parentOf[n] = object[n]
      BY TreeAssumption DEF TreeInv, ParentIsObjects
    <3> QED BY <3>1, LessIsAcyclic DEF TreeInv
  <2> QED BY <2>3, <2>4 DEF TreeInv, TreeOK, ParentsEnd, Acyclic
<1> QED BY <1>1, TreeStart, TreeStep, PTL DEF TreeSpec

---------------------------------------------------------------------------
(***************************************************************************)
(* ActivationTokens: a token is good for one activation.                   *)
(***************************************************************************)

\* A token that is listed was good for one activation if it is used and for none if not.
UseIsCounted == \A t \in Listed : uses[t] = IF tokenOf[t].used THEN 1 ELSE 0

TokensInv == TokensTypeOK /\ UsedOnce /\ OrphansMayBeUsed /\ UseIsCounted

\* Listed is what the list names.
LEMMA ListedIs ==
  ASSUME activation_tokens \in Seq(Token)
  PROVE  /\ Listed = Elements(activation_tokens) /\ Listed \subseteq Token
         /\ \A n \in DOMAIN activation_tokens : activation_tokens[n] \in Listed
<1>1. Listed = Elements(activation_tokens)
  BY DEF Listed, ToSet, Elements
<1> QED BY <1>1, ElementsAre

\* What the list names in the next state
LEMMA ListedNext ==
  ASSUME activation_tokens' \in Seq(Token)
  PROVE  Listed' = Elements(activation_tokens')
BY DEF Listed, ToSet, Elements

\* TokensWithout takes tokens off the list, and does nothing else to it.
LEMMA WithoutIs ==
  ASSUME activation_tokens \in Seq(Token), IsInjective(activation_tokens), NEW S,
         activation_tokens' = TokensWithout(S)
  PROVE  /\ activation_tokens' \in Seq(Token) /\ IsInjective(activation_tokens')
         /\ Listed' = Listed \ S
<1>1. Once(activation_tokens)
  BY OnceIsInjective DEF IsInjective
<1>2. /\ activation_tokens' \in Seq(Token) /\ Once(activation_tokens')
      /\ Elements(activation_tokens') = Elements(activation_tokens) \ S
  BY <1>1, DroppedKeeps DEF TokensWithout
<1>3. IsInjective(activation_tokens')
  BY <1>2, OnceIsInjective DEF IsInjective
<1> QED BY <1>2, <1>3, ListedIs, ListedNext

LEMMA GetKeeps ==
  ASSUME TokensInv, NEW t \in Token, NEW c \in Activator, GetToken(t, c)
  PROVE  TokensInv'
<1>1. activation_tokens \in Seq(Token) /\ Once(activation_tokens) /\ Listed = Elements(activation_tokens)
  BY OnceIsInjective, ListedIs DEF TokensInv, TokensTypeOK, IsInjective
<1>2. /\ activation_tokens' \in Seq(Token) /\ Once(activation_tokens')
      /\ Elements(activation_tokens') = Elements(activation_tokens) \cup {t}
  BY <1>1, PushKeeps DEF GetToken
<1>3. IsInjective(activation_tokens') /\ Listed' = Listed \cup {t}
  BY <1>1, <1>2, OnceIsInjective, ListedNext DEF IsInjective
<1>4. tokenOf' \in [Token -> TokenFields] /\ uses' \in [Token -> Nat]
  BY TokenAssumption DEF TokensInv, TokensTypeOK, GetToken, TokenFields
<1> QED BY <1>2, <1>3, <1>4, ListedIs DEF TokensInv, TokensTypeOK, UsedOnce, OrphansMayBeUsed, UseIsCounted, GetToken

LEMMA CommitKeeps ==
  ASSUME TokensInv, NEW t \in Token, CommitToken(t)
  PROVE  TokensInv'
<1>1. Listed' = Listed /\ Listed \subseteq Token
  BY ListedIs DEF CommitToken, Listed, TokensInv, TokensTypeOK
<1>2. tokenOf' \in [Token -> TokenFields]
  BY DEF TokensInv, TokensTypeOK, CommitToken, TokenFields
<1> QED BY <1>1, <1>2 DEF TokensInv, TokensTypeOK, UsedOnce, OrphansMayBeUsed, UseIsCounted, CommitToken

\* Tokens that wait to be used lose their resource, the others of S go.
LEMMA DestroyKeeps ==
  ASSUME TokensInv, NEW S \in SUBSET Token, Destroyed(S)
  PROVE  TokensInv'
<1> DEFINE waits == {t \in S : tokenOf[t].committed /\ ~tokenOf[t].used}
<1>1. /\ activation_tokens' = TokensWithout(S \ waits)
      /\ tokenOf' = [t \in Token |-> IF t \in waits
                       THEN [tokenOf[t] EXCEPT !.resource = FALSE] ELSE tokenOf[t]]
      /\ uses' = uses
  BY DEF Destroyed
<1>2. /\ activation_tokens' \in Seq(Token) /\ IsInjective(activation_tokens')
      /\ Listed' = Listed \ (S \ waits) /\ Listed \subseteq Token
  BY <1>1, WithoutIs, ListedIs DEF TokensInv, TokensTypeOK
<1>3. tokenOf' \in [Token -> TokenFields]
  BY <1>1 DEF TokensInv, TokensTypeOK, TokenFields
<1>4. ASSUME NEW t \in Token
      PROVE  /\ tokenOf'[t].used = tokenOf[t].used /\ tokenOf'[t].committed = tokenOf[t].committed
             /\ t \notin waits => tokenOf'[t] = tokenOf[t]
  BY <1>1 DEF TokensInv, TokensTypeOK, TokenFields
<1>5. \A t \in waits : tokenOf[t].committed /\ ~tokenOf[t].used
  OBVIOUS
<1> HIDE DEF waits
<1> QED BY <1>1, <1>2, <1>3, <1>4, <1>5 DEF TokensInv, TokensTypeOK, UsedOnce, OrphansMayBeUsed, UseIsCounted

LEMMA ActivateKeeps ==
  ASSUME TokensInv, NEW n, NEW c \in Activator, Activate(n, c)
  PROVE  TokensInv'
<1> DEFINE t == activation_tokens[n]
<1>1. /\ t \in Listed /\ Listed \subseteq Token
      /\ activation_tokens \in Seq(Token) /\ IsInjective(activation_tokens)
      /\ ~tokenOf[t].used /\ tokenOf[t].committed
  BY ListedIs DEF TokensInv, TokensTypeOK, Activate, Good
<1>2. CASE c # tokenOf[t].client
  <2>1. activation_tokens' = TokensWithout(Swept(n)) /\ tokenOf' = tokenOf /\ uses' = uses
    BY <1>2 DEF Activate, UseToken
  <2>2. /\ activation_tokens' \in Seq(Token) /\ IsInjective(activation_tokens')
        /\ Listed' = Listed \ Swept(n)
    BY <1>1, <2>1, WithoutIs
  <2> QED BY <1>1, <2>1, <2>2 DEF TokensInv, TokensTypeOK, UsedOnce, OrphansMayBeUsed, UseIsCounted
<1>3. CASE c = tokenOf[t].client
  <2> DEFINE S == Swept(n) \cup IF tokenOf[t].resource THEN {} ELSE {t}
  <2>1. /\ activation_tokens' = TokensWithout(S)
        /\ tokenOf' = [tokenOf EXCEPT ![t].used = TRUE]
        /\ uses' = [uses EXCEPT ![t] = @ + 1]
    BY <1>3 DEF Activate, UseToken
  <2>2. /\ activation_tokens' \in Seq(Token) /\ IsInjective(activation_tokens')
        /\ Listed' = Listed \ S
    BY <1>1, <2>1, WithoutIs
  <2>3. ~tokenOf[t].resource => t \in S
    OBVIOUS
  <2>a. t \in Token /\ tokenOf \in [Token -> TokenFields] /\ uses \in [Token -> Nat]
    BY <1>1 DEF TokensInv, TokensTypeOK
  <2> HIDE DEF S, t
  <2>b. tokenOf[t] \in TokenFields /\ [tokenOf[t] EXCEPT !.used = TRUE] \in TokenFields
    BY <2>a DEF TokenFields
  <2>4. tokenOf' \in [Token -> TokenFields] /\ uses' \in [Token -> Nat]
    BY <2>1, <2>a, <2>b
  <2>5. uses[t] = 0 /\ uses'[t] = 1 /\ tokenOf'[t].used /\ tokenOf'[t].resource = tokenOf[t].resource
    <3>1. uses[t] = 0
      BY <1>1 DEF TokensInv, UseIsCounted
    <3>2. uses'[t] = 1 /\ tokenOf'[t] = [tokenOf[t] EXCEPT !.used = TRUE]
      BY <2>1, <2>a, <3>1
    <3> QED BY <2>b, <3>1, <3>2 DEF TokenFields
  <2>6. \A u \in Token : u # t => uses'[u] = uses[u] /\ tokenOf'[u] = tokenOf[u]
    BY <1>1, <2>1 DEF TokensInv, TokensTypeOK
  <2>7. UsedOnce' /\ UseIsCounted'
    BY <1>1, <2>2, <2>5, <2>6 DEF TokensInv, UsedOnce, UseIsCounted
  <2>8. OrphansMayBeUsed'
    BY <1>1, <2>2, <2>3, <2>5, <2>6 DEF TokensInv, OrphansMayBeUsed
  <2> QED BY <2>2, <2>4, <2>7, <2>8 DEF TokensInv, TokensTypeOK
<1> QED BY <1>2, <1>3

\* Whatever a look-up passes and frees, and however much time goes by
LEMMA VainKeeps ==
  ASSUME TokensInv, ActivateInVain
  PROVE  TokensInv'
<1> DEFINE S == Swept(Len(activation_tokens) + 1)
<1>1. activation_tokens' = TokensWithout(S) /\ tokenOf' = tokenOf /\ uses' = uses
  BY DEF ActivateInVain
<1> HIDE DEF S
<1>2. /\ activation_tokens' \in Seq(Token) /\ IsInjective(activation_tokens')
      /\ Listed' = Listed \ S /\ Listed \subseteq Token
  BY <1>1, WithoutIs, ListedIs DEF TokensInv, TokensTypeOK
<1> QED BY <1>1, <1>2 DEF TokensInv, TokensTypeOK, UsedOnce, OrphansMayBeUsed, UseIsCounted

LEMMA SecondKeeps ==
  ASSUME TokensInv, Second
  PROVE  TokensInv'
<1>1. Listed' = Listed /\ Listed \subseteq Token
  BY ListedIs DEF Second, Listed, TokensInv, TokensTypeOK
<1>2. ASSUME NEW t \in Token
      PROVE  /\ tokenOf'[t] \in TokenFields /\ tokenOf'[t].used = tokenOf[t].used
             /\ tokenOf'[t].committed = tokenOf[t].committed
             /\ tokenOf'[t].resource = tokenOf[t].resource
  <2>1. tokenOf[t] \in TokenFields
    BY DEF TokensInv, TokensTypeOK
  <2>2. CASE t \in Listed /\ tokenOf[t].committed /\ ~Expired(t)
    <3>1. tokenOf'[t] = [tokenOf[t] EXCEPT !.age = @ + 1]
      BY <2>2 DEF Second
    <3>2. tokenOf[t].age + 1 \in 0..(Lifetime + 1)
      BY <2>1, <2>2, TokenAssumption DEF TokenFields, Expired
    <3> QED BY <2>1, <3>1, <3>2 DEF TokenFields
  <2>3. CASE ~(t \in Listed /\ tokenOf[t].committed /\ ~Expired(t))
    BY <2>1, <2>3 DEF Second
  <2> QED BY <2>2, <2>3
<1>3. tokenOf' \in [Token -> TokenFields]
  BY <1>2 DEF Second
<1> QED BY <1>1, <1>2, <1>3 DEF TokensInv, TokensTypeOK, UsedOnce, OrphansMayBeUsed, UseIsCounted, Second

LEMMA TokensStart == TokensInit => TokensInv
<1> SUFFICES ASSUME TokensInit PROVE TokensInv
  OBVIOUS
<1>0. activation_tokens = <<>> /\ <<>> \in Seq(Token) /\ DOMAIN <<>> = {}
  BY DEF TokensInit
<1>1. Listed = {} /\ activation_tokens \in Seq(Token) /\ IsInjective(activation_tokens)
  BY <1>0 DEF Listed, ToSet, IsInjective
<1>2. tokenOf \in [Token -> TokenFields]
  <2>1. 0 \in 0..(Lifetime + 1)
    BY TokenAssumption
  <2>2. \A c \in Activator : [client |-> c, resource |-> FALSE, committed |-> FALSE,
                             used |-> FALSE, age |-> 0] \in TokenFields
    BY <2>1 DEF TokenFields
  <2> QED BY <2>2 DEF TokensInit
<1>3. uses \in [Token -> Nat]
  BY DEF TokensInit
<1> QED BY <1>1, <1>2, <1>3 DEF TokensInit, TokensInv, TokensTypeOK, UsedOnce, OrphansMayBeUsed, UseIsCounted

LEMMA TokensStep == TokensInv /\ [TokensNext]_tokenVars => TokensInv'
<1> SUFFICES ASSUME TokensInv, [TokensNext]_tokenVars PROVE TokensInv'
  OBVIOUS
<1>1. ASSUME NEW t \in Token, CommitToken(t) PROVE TokensInv'
  BY <1>1, CommitKeeps
<1>2. ASSUME NEW t \in Token, DestroyToken(t) PROVE TokensInv'
  BY <1>2, DestroyKeeps DEF DestroyToken
<1>3. ASSUME NEW c \in Activator, ActivatorDies(c) PROVE TokensInv'
  <2> DEFINE mine == {t \in Listed : tokenOf[t].resource /\ tokenOf[t].client = c}
  <2>1. mine \in SUBSET Token /\ Destroyed(mine)
    BY <1>3, ListedIs DEF ActivatorDies, TokensInv, TokensTypeOK
  <2> HIDE DEF mine
  <2> QED BY <2>1, DestroyKeeps
<1>4. ASSUME NEW c \in Activator, NEW t \in Token, GetToken(t, c) PROVE TokensInv'
  BY <1>4, GetKeeps
<1>5. ASSUME NEW c \in Activator, NEW n \in 1..Cardinality(Token), Activate(n, c) PROVE TokensInv'
  BY <1>5, ActivateKeeps
<1>6. CASE ActivateInVain
  BY <1>6, VainKeeps
<1>7. CASE Second
  BY <1>7, SecondKeeps
<1>8. CASE UNCHANGED tokenVars
  BY <1>8 DEF tokenVars, TokensInv, TokensTypeOK, UsedOnce, OrphansMayBeUsed, UseIsCounted, Listed
<1> QED BY <1>1, <1>2, <1>3, <1>4, <1>5, <1>6, <1>7, <1>8 DEF TokensNext

(***************************************************************************)
(* A token is good for one activation, and one without a resource is one   *)
(* that may yet be used, for any tokens, clients and lifetime.             *)
(***************************************************************************)
THEOREM TokensWorkOnce == TokensSpec => []TokensOK
<1>1. TokensInv => TokensOK
  BY DEF TokensInv, TokensOK
<1> QED BY <1>1, TokensStart, TokensStep, PTL DEF TokensSpec
=============================================================================
