--------------------------- MODULE XdgToplevels ----------------------------
(***************************************************************************)
(* Toplevels and what hangs on them: the Plexy window and its id, the      *)
(* parent, the modal dialog, the decoration (xdg_shell.c, wl_xdg_dialog.c, *)
(* wl_xdg_decoration.c), and the one-entry cache through which events that *)
(* name a window id find the surface (wayland_bridge.c).                   *)
(*                                                                         *)
(* Type, parent and decoration of a window are told to Plexy by whichever  *)
(* request changes them; `told' is what Plexy knows, `behind' what the     *)
(* code leaves it in the dark about.                                       *)
(*                                                                         *)
(* Left out: sizes and configure events (XdgConfigure), titles beyond      *)
(* whether they, or a small fixed size, suggest a splash screen, icons,    *)
(* and windows of popups and X11 surfaces, which get their ids the same    *)
(* way.  Clients destroy decoration, toplevel and surface in this order, as *)
(* the protocols ask, and make one dialog and one decoration at a time for *)
(* a toplevel; a dialog may outlive its toplevel.                          *)
(***************************************************************************)
EXTENDS Naturals

CONSTANTS
  Surface,   \* addresses of surfaces
  Toplevel,  \* addresses of xdg_toplevel resources
  Dialog,    \* addresses of xdg_dialog resources
  MaxWindow, \* bound on the windows Plexy makes; their ids are 1, 2, ...
  None

VARIABLES
  surf,    \* the surfaces, see Surfaces
  dialog,  \* the dialogs, see Dialogs, or None
  told,    \* what Plexy knows of the window of a surface
  behind,  \* <<surface, what>> Plexy was not told of
  odd,     \* surfaces that met a dialog which outlived its toplevel
  cache,   \* cached_window_id_surface and cached_window_id
  windows  \* windows Plexy has made

toplevelVars == <<surf, dialog, told, behind, odd, cache, windows>>

Ids == 0..MaxWindow

Surfaces ==
  [live    : BOOLEAN,
   top     : Toplevel \cup {None},  \* xdg_toplevel
   window  : Ids,                   \* plexy_window_id, 0: no window
   parent  : Surface \cup {None},   \* toplevel_parent
   modal   : BOOLEAN,               \* is_modal
   splash  : BOOLEAN,               \* title or sizes suggest a splash screen
   deco    : BOOLEAN,               \* xdg_toplevel_decoration is set
   mode    : {"client", "server"}]  \* xdg_decoration_mode

Dialogs == [for : Toplevel, modal : BOOLEAN]

ASSUME ToplevelsAssumption ==
  MaxWindow \in Nat /\ None \notin Surface \cup Toplevel \cup Nat \cup Dialogs

Known == [type : {"normal", "dialog", "splash"}, parent : Ids, server : BOOLEAN]

ToplevelsTypeOK ==
  /\ surf \in [Surface -> Surfaces]
  /\ dialog \in [Dialog -> Dialogs \cup {None}]
  /\ told \in [Surface -> Known]
  /\ behind \subseteq Surface \X {"type", "parent", "server"}
  /\ odd \subseteq Surface
  /\ cache \in [surface : Surface \cup {None}, id : Ids]
  /\ windows \in Ids

Fresh == [live |-> TRUE, top |-> None, window |-> 0, parent |-> None,
          modal |-> FALSE, splash |-> FALSE, deco |-> FALSE, mode |-> "client"]

Gone == [Fresh EXCEPT !.live = FALSE]

Nothing == [type |-> "normal", parent |-> 0, server |-> FALSE]

ToplevelsInit ==
  /\ surf = [s \in Surface |-> Gone]
  /\ dialog = [d \in Dialog |-> None]
  /\ told = [s \in Surface |-> Nothing]
  /\ behind = {} /\ odd = {}
  /\ cache = [surface |-> None, id |-> 0]
  /\ windows = 0

---------------------------------------------------------------------------
(* What Plexy is told *)

\* xdg_toplevel_protocol_type
ProtocolType(r) ==
  IF r.modal \/ r.parent # None THEN "dialog"
  ELSE IF r.splash THEN "splash" ELSE "normal"

\* xdg_toplevel_parent_plexy_window
ParentWindow(u, s) == IF u[s].parent = None THEN 0 ELSE u[u[s].parent].window

Windowed(s) == surf[s].window # 0

\* xdg_toplevel_sync_type, xdg_toplevel_sync_parent for the surfaces u
Typed(u, s) == [told[s] EXCEPT !.type = ProtocolType(u[s])]

Adopted(u, s) == [Typed(u, s) EXCEPT !.parent = ParentWindow(u, s)]

UpToDate(s, what) == behind' = behind \ ({s} \X what)

Rest == UNCHANGED <<dialog, odd, cache, windows>>

---------------------------------------------------------------------------
(* Surfaces and windows *)

\* bridge_surface_create
CreateSurface(s) ==
  /\ ~surf[s].live
  /\ surf' = [surf EXCEPT ![s] = Fresh]
  /\ UNCHANGED <<told, behind>> /\ Rest

\* bridge_surface_set_plexy_window
SetWindow(s, w) ==
  cache' = IF w # 0 THEN [surface |-> s, id |-> w]
           ELSE IF cache.surface = s THEN [surface |-> None, id |-> 0]
           ELSE cache

\* xdg_surface_get_toplevel; a window the surface has already is lost.
GetToplevel(s, t) ==
  LET u == [surf EXCEPT ![s].top = t, ![s].window = windows + 1]
  IN
  /\ surf[s].live /\ surf[s].top = None /\ windows < MaxWindow
  /\ \A o \in Surface : surf[o].top # t
  /\ surf' = u
  /\ windows' = windows + 1
  /\ told' = [told EXCEPT ![s] = [type |-> ProtocolType(u[s]),
                                  parent |-> ParentWindow(u, s),
                                  server |-> u[s].mode = "server"]]
  /\ behind' = (behind \ ({s} \X {"type", "parent", "server"}))
               \cup ({o \in Surface : surf[o].parent = s} \X {"parent"})
  /\ SetWindow(s, windows + 1)
  /\ odd' = IF \E d \in Dialog : dialog[d] # None /\ dialog[d].for = t
            THEN odd \cup {s} ELSE odd
  /\ UNCHANGED dialog

\* xdg_toplevel_destroy; the window stays.
ToplevelDestroy(s) ==
  /\ surf[s].top # None /\ ~surf[s].deco
  /\ surf' = [surf EXCEPT ![s].top = None, ![s].mode = "client"]
  /\ odd' = IF surf[s].modal THEN odd \cup {s} ELSE odd
  /\ behind' = IF surf[s].mode = "server" THEN behind \cup {<<s, "server">>} ELSE behind
  /\ UNCHANGED <<dialog, told, cache, windows>>

\* bridge_surface_destroy
DestroySurface_CacheStays(s) ==
  /\ surf[s].live /\ surf[s].top = None
  /\ surf' = [o \in Surface |->
                IF o = s THEN Gone
                ELSE IF surf[o].parent = s THEN [surf[o] EXCEPT !.parent = None]
                ELSE surf[o]]
  /\ behind' = (behind \ ({s} \X {"type", "parent", "server"}))
               \cup ({o \in Surface : surf[o].parent = s} \X {"type", "parent"})
  /\ odd' = odd \ {s}
  /\ told' = [told EXCEPT ![s] = Nothing]
  /\ UNCHANGED <<dialog, cache, windows>>

DestroySurface_ParentStays(s) ==
  /\ surf[s].live /\ surf[s].top = None
  /\ surf' = [surf EXCEPT ![s] = Gone]
  /\ behind' = (behind \ ({s} \X {"type", "parent", "server"}))
               \cup ({o \in Surface : surf[o].parent = s} \X {"type", "parent"})
  /\ odd' = odd \ {s}
  /\ IF Windowed(s) THEN SetWindow(s, 0) ELSE UNCHANGED cache
  /\ told' = [told EXCEPT ![s] = Nothing]
  /\ UNCHANGED <<dialog, windows>>

DestroySurface(s) ==
  /\ surf[s].live /\ surf[s].top = None
  /\ surf' = [o \in Surface |->
                IF o = s THEN Gone
                ELSE IF surf[o].parent = s THEN [surf[o] EXCEPT !.parent = None]
                ELSE surf[o]]
  /\ behind' = (behind \ ({s} \X {"type", "parent", "server"}))
               \cup ({o \in Surface : surf[o].parent = s} \X {"type", "parent"})
  /\ odd' = odd \ {s}
  /\ IF Windowed(s) THEN SetWindow(s, 0) ELSE UNCHANGED cache
  /\ told' = [told EXCEPT ![s] = Nothing]
  /\ UNCHANGED <<dialog, windows>>

\* The surfaces that have window w
Having(w) == {s \in Surface : surf[s].window = w}

Hit(w) == cache.surface # None /\ cache.id = w /\ cache.surface \in Having(w)

\* bridge_surface_from_window_id, for an event of any window there ever was
FromWindowId(w) ==
  /\ w \in 1..windows /\ ~Hit(w)
  /\ cache' = IF Having(w) # {} THEN [surface |-> CHOOSE s \in Having(w) : TRUE, id |-> w]
              ELSE IF cache.id = w THEN [surface |-> None, id |-> 0]
              ELSE cache
  /\ UNCHANGED <<surf, dialog, told, behind, odd, windows>>

---------------------------------------------------------------------------
(* Requests on a toplevel *)

\* xdg_toplevel_set_parent
SetParent_NoSync(s, p) ==
  LET u == [surf EXCEPT ![s].parent = p]
  IN
  /\ surf[s].top # None /\ p # s
  /\ p # None => surf[p].top # None
  /\ surf' = u
  /\ told' = [told EXCEPT ![s].parent = IF Windowed(s) THEN ParentWindow(u, s) ELSE @]
  /\ UpToDate(s, {"type", "parent"})
  /\ Rest

SetParent(s, p) ==
  LET u == [surf EXCEPT ![s].parent = p]
  IN
  /\ surf[s].top # None /\ p # s
  /\ p # None => surf[p].top # None
  /\ surf' = u
  /\ told' = [told EXCEPT ![s] = IF Windowed(s) THEN Adopted(u, s) ELSE @]
  /\ UpToDate(s, {"type", "parent"})
  /\ Rest

\* xdg_toplevel_set_title, set_app_id, set_min_size and set_max_size
SetSplash(s, splash) ==
  LET u == [surf EXCEPT ![s].splash = splash]
  IN
  /\ surf[s].top # None
  /\ surf' = u
  /\ IF surf[s].parent = None /\ ~surf[s].modal /\ Windowed(s)
     THEN told' = [told EXCEPT ![s] = Typed(u, s)] /\ UpToDate(s, {"type"})
     ELSE UNCHANGED <<told, behind>>
  /\ Rest

---------------------------------------------------------------------------
(* Dialogs *)

\* wm_dialog_get_xdg_dialog
GetDialog(d, s) ==
  /\ dialog[d] = None /\ surf[s].top # None
  /\ \A e \in Dialog : dialog[e] # None => dialog[e].for # surf[s].top
  /\ dialog' = [dialog EXCEPT ![d] = [for |-> surf[s].top, modal |-> FALSE]]
  /\ UNCHANGED <<surf, told, behind, odd, cache, windows>>

\* The surface a dialog acts on: the one whose toplevel has the address.
Of(d) == {s \in Surface : surf[s].top = dialog[d].for}

\* dialog_set_modal
SetModal(d) ==
  /\ dialog[d] # None
  /\ dialog' = [dialog EXCEPT ![d].modal = TRUE]
  /\ surf' = [s \in Surface |-> IF s \in Of(d) THEN [surf[s] EXCEPT !.modal = TRUE]
                                ELSE surf[s]]
  /\ told' = [s \in Surface |-> IF s \in Of(d) THEN [told[s] EXCEPT !.type = "dialog"]
                                ELSE told[s]]
  /\ behind' = behind \ (Of(d) \X {"type"})
  /\ UNCHANGED <<odd, cache, windows>>

\* What unset_modal and the end of a modal dialog do: the type becomes
\* normal, also that of a splash screen.
Released(d) ==
  LET plain == {s \in Of(d) : surf[s].parent = None}
  IN
  /\ surf' = [s \in Surface |-> IF s \in Of(d) THEN [surf[s] EXCEPT !.modal = FALSE]
                                ELSE surf[s]]
  /\ told' = [s \in Surface |-> IF s \in plain THEN [told[s] EXCEPT !.type = "normal"]
                                ELSE told[s]]
  /\ behind' = (behind \ (plain \X {"type"}))
               \cup ({s \in plain : surf[s].splash} \X {"type"})

\* dialog_unset_modal
UnsetModal(d) ==
  /\ dialog[d] # None
  /\ dialog' = [dialog EXCEPT ![d].modal = FALSE]
  /\ Released(d)
  /\ UNCHANGED <<odd, cache, windows>>

\* dialog_resource_destroy
DestroyDialog_StaysModal(d) ==
  /\ dialog[d] # None
  /\ dialog' = [dialog EXCEPT ![d] = None]
  /\ UNCHANGED <<surf, told, behind, odd, cache, windows>>

DestroyDialog(d) ==
  /\ dialog[d] # None
  /\ dialog' = [dialog EXCEPT ![d] = None]
  /\ IF dialog[d].modal THEN Released(d) ELSE UNCHANGED <<surf, told, behind>>
  /\ UNCHANGED <<odd, cache, windows>>

---------------------------------------------------------------------------
(* Decorations *)

\* decoration_manager_get_toplevel_decoration: the mode becomes client side.
GetDecoration(s) ==
  /\ surf[s].top # None /\ ~surf[s].deco
  /\ surf' = [surf EXCEPT ![s].deco = TRUE, ![s].mode = "client"]
  /\ behind' = IF surf[s].mode = "server" THEN behind \cup {<<s, "server">>} ELSE behind
  /\ UNCHANGED told /\ Rest

\* toplevel_decoration_set_mode, with any mode, and unset_mode
SetMode_Unchecked(s, mode) ==
  /\ surf[s].deco
  /\ surf' = [surf EXCEPT ![s].mode = mode]
  /\ IF Windowed(s)
     THEN told' = [told EXCEPT ![s].server = (mode = "server")] /\ UpToDate(s, {"server"})
     ELSE UNCHANGED <<told, behind>>
  /\ Rest

SetMode(s, mode) ==
  LET actual == IF mode = "client" THEN "client" ELSE "server"
  IN
  /\ surf[s].deco
  /\ surf' = [surf EXCEPT ![s].mode = actual]
  /\ IF Windowed(s)
     THEN told' = [told EXCEPT ![s].server = (actual = "server")] /\ UpToDate(s, {"server"})
     ELSE UNCHANGED <<told, behind>>
  /\ Rest

\* toplevel_decoration_resource_destroy: Plexy is not told.
DestroyDecoration(s) ==
  /\ surf[s].deco
  /\ surf' = [surf EXCEPT ![s].deco = FALSE, ![s].mode = "client"]
  /\ behind' = IF surf[s].mode = "server" THEN behind \cup {<<s, "server">>} ELSE behind
  /\ UNCHANGED told /\ Rest

ToplevelsNext ==
  \/ \E s \in Surface :
       \/ CreateSurface(s) \/ DestroySurface(s) \/ ToplevelDestroy(s)
       \/ \E t \in Toplevel : GetToplevel(s, t)
       \/ \E p \in Surface \cup {None} : SetParent(s, p)
       \/ \E on \in BOOLEAN : SetSplash(s, on)
       \/ \E mode \in {"client", "server", "other"} : SetMode(s, mode)
       \/ GetDecoration(s) \/ DestroyDecoration(s)
       \/ \E d \in Dialog : GetDialog(d, s)
  \/ \E d \in Dialog : SetModal(d) \/ UnsetModal(d) \/ DestroyDialog(d)
  \/ \E w \in 1..MaxWindow : FromWindowId(w)

ToplevelsSpec == ToplevelsInit /\ [][ToplevelsNext]_toplevelVars

---------------------------------------------------------------------------
(* Properties *)

(***************************************************************************)
(* The cache never answers for a surface that is gone or lost the window:  *)
(* the freed surface is not even looked at to find that out.               *)
(***************************************************************************)
CacheIsLive ==
  cache.surface # None =>
    /\ surf[cache.surface].live
    /\ cache.id # 0 /\ surf[cache.surface].window = cache.id

\* The parent of a toplevel is a surface that exists and is not itself.
ParentIsLive ==
  \A s \in Surface : surf[s].parent # None =>
    surf[s].live /\ surf[s].parent # s /\ surf[surf[s].parent].live

(***************************************************************************)
(* A surface is modal exactly while a modal dialog of its toplevel exists, *)
(* except for one that met a dialog which outlived its toplevel: the       *)
(* dialog finds its surface by the address of the toplevel.                *)
(***************************************************************************)
ModalHasDialog ==
  \A s \in Surface \ odd :
    surf[s].modal <=>
      \E d \in Dialog : /\ dialog[d] # None /\ dialog[d].modal
                        /\ surf[s].top = dialog[d].for

(***************************************************************************)
(* Plexy's idea of a window is the surface's: type, parent and decoration  *)
(* are told whenever a request changes them, save when the parent is       *)
(* destroyed or gets a new window, when a splash screen stops being modal, *)
(* and when a decoration object comes or goes.                             *)
(***************************************************************************)
WindowFollows ==
  \A s \in Surface : surf[s].window # 0 =>
    /\ <<s, "type">> \notin behind => told[s].type = ProtocolType(surf[s])
    /\ <<s, "parent">> \notin behind => told[s].parent = ParentWindow(surf, s)
    /\ <<s, "server">> \notin behind => told[s].server = (surf[s].mode = "server")

(***************************************************************************)
(* Nothing a toplevel leaves behind is used again: whatever the order in   *)
(* which surfaces, toplevels, dialogs and parents go, the cache of window  *)
(* ids and the parents name surfaces that exist, and the type, parent and  *)
(* mode Plexy was told of are those of the surface.                        *)
(***************************************************************************)
ToplevelsOK ==
  /\ ToplevelsTypeOK /\ CacheIsLive /\ ParentIsLive /\ ModalHasDialog
  /\ WindowFollows
============================================================================
