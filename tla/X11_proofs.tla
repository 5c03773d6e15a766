----------------------------- MODULE X11_proofs -----------------------------
(***************************************************************************)
(* The X11 window manager, for any windows, surfaces and properties. Its   *)
(* modules share nothing but the queues of the two connections.            *)
(***************************************************************************)
EXTENDS XwmWindows, XwmFocus, XwmGeometry, XwmStates, XwmProperties,
        XwmSelections, Queues_proofs, Integers, Sequences,
        SequenceTheorems, TLAPS

---------------------------------------------------------------------------
(***************************************************************************)
(* XwmWindows: windows and surfaces find each other.                       *)
(***************************************************************************)

\* What holds of one window: it has a serial only while it is viewable, that of
\* its last showing, and a surface only with a serial; without one it waits in
\* the list of the unpaired.
WindowWaits(w) ==
  /\ w \notin viewable => serialOf[w] = Nobody
  /\ serialOf[w] # Nobody => serialOf[w] = <<w, shown[w]>>
  /\ serialOf[w] = Nobody => surfaceOf[w] = Nobody
  /\ surfaceOf[w] # Nobody => windowOf[surfaceOf[w]] = w /\ listOf[w] # "unpaired"
  /\ serialOf[w] # Nobody /\ surfaceOf[w] = Nobody => listOf[w] = "unpaired"

\* What holds of one surface: it is paired with the window whose serial it was
\* made for.
SurfacePaired(s) ==
  /\ made[s] = Nobody => xsurf[s] = Nobody /\ plexyOf[s] = "none" /\ windowOf[s] = Nobody
  /\ windowOf[s] # Nobody =>
       surfaceOf[windowOf[s]] = s /\ made[s] = serialOf[windowOf[s]]
  /\ windowOf[s] # Nobody /\ plexyOf[s] = "none" =>
       windowOf[s] \in Override \ (big \cap mapped)
  /\ made[s] # Nobody /\ plexyOf[s] = "popup" /\ made[s][1] \in Override => windowOf[s] # Nobody

\* Its xwayland_surface, if it has one, has the serial it was made for, or none
\* yet. It left the list of the unpaired for a window, or for a showing that is
\* over; and no window it was made for waits for it.
SerialTold(s) ==
  xsurf[s] # Nobody =>
    /\ xsurf[s].serial # Nobody => xsurf[s].serial = made[s]
    /\ ~xsurf[s].listed =>
         \/ windowOf[s] # Nobody
         \/ made[s][2] <= shown[made[s][1]] /\ serialOf[made[s][1]] # made[s]
    /\ xsurf[s].serial # Nobody /\ serialOf[made[s][1]] = made[s]
         => surfaceOf[made[s][1]] # Nobody

XwmTyped ==
  /\ xwins \subseteq XWindow /\ big \subseteq XWindow
  /\ viewable \subseteq xwins /\ mapped \subseteq viewable
  /\ listOf \in [XWindow -> {"windows", "unpaired", "none"}]
  /\ serialOf \in [XWindow -> OrNobody(Serial)]
  /\ surfaceOf \in [XWindow -> OrNobody(XSurface)]
  /\ windowOf \in [XSurface -> OrNobody(XWindow)]
  /\ plexyOf \in [XSurface -> {"none", "toplevel", "popup"}]
  /\ xsurf \in [XSurface -> OrNobody(XSurf)]
  /\ shown \in [XWindow -> 0..MaxShown] /\ begun \in [XWindow -> 0..MaxShown]
  /\ made \in [XSurface -> OrNobody(Serial)]

XwmInv ==
  /\ XwmTyped
  /\ \A w \in XWindow : WindowWaits(w)
  /\ \A s \in XSurface : SurfacePaired(s) /\ SerialTold(s)

\* A serial is a window and a count, and is not Nobody.
LEMMA SerialIs ==
  /\ \A n \in Serial : n # Nobody /\ n[1] \in XWindow /\ n[2] \in 1..MaxShown /\ n = <<n[1], n[2]>>
  /\ \A w \in XWindow, k \in 1..MaxShown :
       <<w, k>> \in Serial /\ <<w, k>>[1] = w /\ <<w, k>>[2] = k
  /\ \A x \in XSurf : x # Nobody /\ x.serial \in OrNobody(Serial) /\ x.listed \in BOOLEAN
  /\ Nobody \notin XWindow /\ Nobody \notin XSurface
<1>1. /\ \A n \in Serial : n # Nobody
      /\ \A x \in XSurf : x # Nobody
      /\ Nobody \notin XWindow /\ Nobody \notin XSurface
  BY XwmAssumption
<1>2. \A n \in Serial : n[1] \in XWindow /\ n[2] \in 1..MaxShown /\ n = <<n[1], n[2]>>
  BY DEF Serial
<1>3. \A w \in XWindow, k \in 1..MaxShown :
        <<w, k>> \in Serial /\ <<w, k>>[1] = w /\ <<w, k>>[2] = k
  BY DEF Serial
<1>4. \A x \in XSurf : x.serial \in OrNobody(Serial) /\ x.listed \in BOOLEAN
  BY DEF XSurf
<1> QED BY <1>1, <1>2, <1>3, <1>4

\* Binding changes the pointers of the two bound and of no others.
LEMMA BindIs ==
  ASSUME XwmTyped, NEW w \in XWindow, NEW s \in XSurface, Bind(w, s)
  PROVE  /\ surfaceOf' \in [XWindow -> OrNobody(XSurface)]
         /\ windowOf' \in [XSurface -> OrNobody(XWindow)]
         /\ plexyOf' \in [XSurface -> {"none", "toplevel", "popup"}]
         /\ surfaceOf'[w] = s /\ windowOf'[s] = w
         /\ plexyOf'[s] = "none" => w \in Override \ big'
         /\ big' \subseteq XWindow
         /\ \A v \in XWindow \ {w} : surfaceOf'[v] = surfaceOf[v]
                                      /\ (v \in big' <=> v \in big)
         /\ \A t \in XSurface \ {s} : windowOf'[t] = windowOf[t] /\ plexyOf'[t] = plexyOf[t]
<1>1. /\ surfaceOf \in [XWindow -> OrNobody(XSurface)]
      /\ windowOf \in [XSurface -> OrNobody(XWindow)]
      /\ plexyOf \in [XSurface -> {"none", "toplevel", "popup"}]
  BY DEF XwmTyped
<1>2. /\ surfaceOf' = [surfaceOf EXCEPT ![w] = s]
      /\ windowOf' = [windowOf EXCEPT ![s] = w]
  BY DEF Bind
<1>3. /\ big' \subseteq XWindow
      /\ \A v \in XWindow \ {w} : v \in big' <=> v \in big
  BY DEF Bind, Measured, XwmTyped
<1>4. s \in OrNobody(XSurface) /\ w \in OrNobody(XWindow)
  BY DEF OrNobody
<1>5. /\ surfaceOf' \in [XWindow -> OrNobody(XSurface)] /\ surfaceOf'[w] = s
      /\ \A v \in XWindow \ {w} : surfaceOf'[v] = surfaceOf[v]
  BY <1>1, <1>2, <1>4
<1>6. /\ windowOf' \in [XSurface -> OrNobody(XWindow)] /\ windowOf'[s] = w
      /\ \A t \in XSurface \ {s} : windowOf'[t] = windowOf[t]
  BY <1>1, <1>2, <1>4
<1>7. /\ plexyOf' \in [XSurface -> {"none", "toplevel", "popup"}]
      /\ plexyOf'[s] = "none" => w \in Override \ big'
      /\ \A t \in XSurface \ {s} : plexyOf'[t] = plexyOf[t]
  <2>1. CASE plexyOf[s] # "none" /\ plexyOf' = plexyOf
    BY <1>1, <2>1
  <2>2. CASE plexyOf' = [plexyOf EXCEPT ![s] = Opened(w)]
    <3>1. Opened(w) \in {"none", "toplevel", "popup"}
          /\ (Opened(w) = "none" => w \in Override \ big')
      BY DEF Opened
    <3> HIDE DEF Opened
    <3> QED BY <1>1, <2>2, <3>1
  <2> QED BY <2>1, <2>2 DEF Bind
<1> QED BY <1>3, <1>5, <1>6, <1>7

\* A window that waits and a surface made for its serial are free for each other.
LEMMA FreeForEachOther ==
  ASSUME XwmInv, NEW w \in XWindow, NEW s \in XSurface,
         surfaceOf[w] = Nobody, made[s] = <<w, shown[w]>> \/ shown[w] < made[s][2],
         made[s] # Nobody, made[s][1] = w
  PROVE  windowOf[s] = Nobody
<1> SUFFICES ASSUME windowOf[s] # Nobody PROVE FALSE
  OBVIOUS
<1> DEFINE v == windowOf[s]
<1>1. v \in XWindow /\ made[s] \in Serial /\ shown[w] \in 0..MaxShown
  BY DEF XwmInv, XwmTyped, OrNobody
<1>2. surfaceOf[v] = s /\ made[s] = serialOf[v]
  BY DEF XwmInv, SurfacePaired
<1>3. serialOf[v] = <<v, shown[v]>>
  BY <1>1, <1>2 DEF XwmInv, WindowWaits
<1>4. v = w
  BY <1>2, <1>3
<1>5. surfaceOf[w] = s
  BY <1>2, <1>4
<1> QED BY <1>5, SerialIs

\* A new surface of a pair: what the two, and all others, have after it.
LEMMA PairedStay ==
  ASSUME XwmInv, NEW w \in XWindow, NEW s \in XSurface, Bind(w, s),
         windowOf[s] = Nobody, surfaceOf[w] = Nobody, w \in viewable, made[s] # Nobody,
         serialOf'[w] = made[s], made[s] = <<w, shown'[w]>>, shown'[w] >= shown[w],
         shown'[w] = shown[w] => serialOf'[w] = serialOf[w],
         shown' \in [XWindow -> 0..MaxShown],
         \A v \in XWindow \ {w} : serialOf'[v] = serialOf[v] /\ shown'[v] = shown[v]
                                  /\ listOf'[v] = listOf[v],
         listOf'[w] = "none", UNCHANGED <<viewable, mapped, made>>,
         \A t \in XSurface \ {s} : xsurf'[t] = xsurf[t],
         xsurf'[s] # Nobody, xsurf'[s].serial = made[s]
  PROVE  /\ \A v \in XWindow : WindowWaits(v)'
         /\ \A t \in XSurface : SurfacePaired(t)' /\ SerialTold(t)'
<1>0. XwmTyped /\ (\A v \in XWindow : WindowWaits(v))
      /\ (\A t \in XSurface : SurfacePaired(t) /\ SerialTold(t))
  BY DEF XwmInv
<1>1. /\ surfaceOf' \in [XWindow -> OrNobody(XSurface)]
      /\ windowOf' \in [XSurface -> OrNobody(XWindow)]
      /\ plexyOf' \in [XSurface -> {"none", "toplevel", "popup"}]
      /\ surfaceOf'[w] = s /\ windowOf'[s] = w
      /\ plexyOf'[s] = "none" => w \in Override \ big'
      /\ \A v \in XWindow \ {w} : surfaceOf'[v] = surfaceOf[v] /\ (v \in big' <=> v \in big)
      /\ \A t \in XSurface \ {s} : windowOf'[t] = windowOf[t] /\ plexyOf'[t] = plexyOf[t]
  BY <1>0, BindIs
<1>t. /\ surfaceOf \in [XWindow -> OrNobody(XSurface)]
      /\ windowOf \in [XSurface -> OrNobody(XWindow)]
      /\ made \in [XSurface -> OrNobody(Serial)]
      /\ shown \in [XWindow -> 0..MaxShown]
      /\ xsurf \in [XSurface -> OrNobody(XSurf)]
  BY <1>0 DEF XwmTyped
<1>2. WindowWaits(w)'
  BY <1>1, SerialIs DEF WindowWaits
<1>3. ASSUME NEW v \in XWindow \ {w} PROVE WindowWaits(v)'
  <2>1. surfaceOf[v] # Nobody => surfaceOf[v] \in XSurface \ {s}
    BY <1>0, <1>t, SerialIs DEF WindowWaits, OrNobody
  <2> QED BY <1>0, <1>1, <2>1 DEF WindowWaits
<1>4. SurfacePaired(s)' /\ SerialTold(s)'
  <2>1. made[s][1] = w
    OBVIOUS
  <2>2. w # Nobody /\ s # Nobody /\ made'[s] # Nobody /\ serialOf'[w] = made'[s]
    BY SerialIs
  <2>3. SurfacePaired(s)'
    BY <1>1, <2>2 DEF SurfacePaired
  <2>4. SerialTold(s)'
    BY <1>1, <2>1, <2>2 DEF SerialTold
  <2> QED BY <2>3, <2>4
<1>5. ASSUME NEW t \in XSurface \ {s} PROVE SurfacePaired(t)'
  <2>1. windowOf[t] # Nobody => windowOf[t] \in XWindow \ {w}
    BY <1>0, <1>t, SerialIs DEF SurfacePaired, OrNobody
  <2> QED BY <1>0, <1>1, <2>1 DEF SurfacePaired
<1>6. ASSUME NEW t \in XSurface \ {s} PROVE SerialTold(t)'
  <2> SUFFICES ASSUME xsurf[t] # Nobody PROVE SerialTold(t)'
    BY DEF SerialTold
  <2>1. made[t] \in Serial /\ made[t] # Nobody
    BY <1>0, <1>t, SerialIs DEF SurfacePaired, OrNobody
  <2>2. made[t][1] \in XWindow /\ made[t][2] \in 1..MaxShown /\ made[t] = <<made[t][1], made[t][2]>>
    BY <2>1, SerialIs
  <2>3. CASE made[t][1] # w
    BY <1>0, <1>1, <2>1, <2>2, <2>3 DEF SerialTold
  <2>4. CASE made[t][1] = w
    <3>1. windowOf[t] = Nobody
      <4>1. ASSUME windowOf[t] # Nobody PROVE FALSE
        <5>1. windowOf[t] \in XWindow /\ surfaceOf[windowOf[t]] = t /\ made[t] = serialOf[windowOf[t]]
          BY <1>0, <1>t, <4>1 DEF SurfacePaired, OrNobody
        <5>2. serialOf[windowOf[t]] = <<windowOf[t], shown[windowOf[t]]>>
          BY <1>0, <2>1, <5>1 DEF WindowWaits
        <5>3. windowOf[t] = w
          BY <2>4, <5>1, <5>2
        <5> QED BY <5>1, <5>3, SerialIs
      <4> QED BY <4>1
    <3>2. ASSUME ~xsurf[t].listed PROVE made[t][2] <= shown'[w] /\ serialOf'[w] # made[t]
      <4>1. made[t][2] <= shown[w] /\ serialOf[w] # made[t]
        BY <1>0, <2>4, <3>1, <3>2 DEF SerialTold
      <4>2. shown[w] \in Nat /\ shown'[w] \in Nat
        BY <1>t
      <4>3. made[t][2] <= shown'[w]
        BY <2>2, <4>1, <4>2
      <4>4. ASSUME serialOf'[w] = made[t] PROVE FALSE
        <5>1. made[t] = <<w, shown'[w]>>
          BY <4>4
        <5>2. made[t][2] = shown'[w]
          BY <5>1
        <5>3. shown'[w] = shown[w]
          BY <4>1, <4>2, <5>2
        <5> QED BY <4>1, <4>4, <5>3
      <4> QED BY <4>3, <4>4
    <3> QED BY <1>0, <1>1, <2>1, <2>4, <3>2, SerialIs DEF SerialTold
  <2> QED BY <2>3, <2>4
<1> QED BY <1>2, <1>3, <1>4, <1>5, <1>6

\* A surface that is paired has a viewable window, the one it was made for.
LEMMA PairedIsViewable ==
  ASSUME XwmInv, NEW s \in XSurface, windowOf[s] # Nobody
  PROVE  LET v == windowOf[s]
         IN /\ v \in viewable /\ v \in XWindow /\ surfaceOf[v] = s
            /\ serialOf[v] = made[s] /\ made[s] = <<v, shown[v]>>
            /\ made[s] # Nobody /\ made[s][1] = v
<1> DEFINE v == windowOf[s]
<1>1. v \in XWindow /\ surfaceOf[v] = s /\ made[s] = serialOf[v] /\ s # Nobody
  BY SerialIs DEF XwmInv, XwmTyped, SurfacePaired, OrNobody
<1>2. serialOf[v] # Nobody
  BY <1>1 DEF XwmInv, WindowWaits
<1> QED BY <1>1, <1>2 DEF XwmInv, WindowWaits

\* The two ends of a pair point to each other.
LEMMA PairsAreMutual ==
  ASSUME XwmInv, NEW w \in XWindow, NEW s \in XSurface
  PROVE  surfaceOf[w] = s <=> windowOf[s] = w
BY SerialIs DEF XwmInv, SurfacePaired, WindowWaits

\* xwm_try_pair_surface_with_window: whichever way it ends, nothing is left to
\* wait for what is there.
LEMMA PairSurfaceKeeps ==
  ASSUME XwmInv, NEW s \in XSurface, made[s] # Nobody, xsurf[s] # Nobody,
         NEW xs \in XSurf, xs.serial = made[s], xs.listed = xsurf[s].listed,
         PairSurface(s, made[s], xs),
         UNCHANGED <<xwins, viewable, mapped, serialOf, shown, begun, made>>
  PROVE  XwmInv'
<1>0. XwmTyped /\ (\A v \in XWindow : WindowWaits(v))
      /\ (\A t \in XSurface : SurfacePaired(t) /\ SerialTold(t))
  BY DEF XwmInv
<1>t. /\ xwins \subseteq XWindow /\ big \subseteq XWindow
      /\ viewable \subseteq xwins /\ mapped \subseteq viewable
      /\ listOf \in [XWindow -> {"windows", "unpaired", "none"}]
      /\ serialOf \in [XWindow -> OrNobody(Serial)]
      /\ surfaceOf \in [XWindow -> OrNobody(XSurface)]
      /\ windowOf \in [XSurface -> OrNobody(XWindow)]
      /\ plexyOf \in [XSurface -> {"none", "toplevel", "popup"}]
      /\ xsurf \in [XSurface -> OrNobody(XSurf)]
      /\ shown \in [XWindow -> 0..MaxShown] /\ begun \in [XWindow -> 0..MaxShown]
      /\ made \in [XSurface -> OrNobody(Serial)]
  BY <1>0 DEF XwmTyped
<1>1. made[s] \in Serial
  BY <1>t DEF OrNobody
<1> DEFINE found == {w \in xwins : listOf[w] = "unpaired" /\ serialOf[w] = made[s]
                                  /\ Bindable(w, s)}
<1>2. CASE found = {} /\ xsurf' = [xsurf EXCEPT ![s] = xs]
           /\ UNCHANGED <<surfaceOf, windowOf, plexyOf, listOf, big>>
  <2>1. xsurf' \in [XSurface -> OrNobody(XSurf)] /\ xsurf'[s] = xs
        /\ \A t \in XSurface \ {s} : xsurf'[t] = xsurf[t]
    BY <1>t, <1>2 DEF OrNobody
  <2>2. XwmTyped'
    BY <1>t, <1>2, <2>1 DEF XwmTyped
  <2>3. ASSUME NEW v \in XWindow PROVE WindowWaits(v)'
    BY <1>0, <1>2 DEF WindowWaits
  <2>4. ASSUME NEW t \in XSurface PROVE SurfacePaired(t)'
    <3>1. t = s \/ xsurf'[t] = xsurf[t]
      BY <2>1
    <3> QED BY <1>0, <1>2, <3>1 DEF SurfacePaired
  <2>5. ASSUME NEW t \in XSurface \ {s} PROVE SerialTold(t)'
    BY <1>0, <1>2, <2>1 DEF SerialTold
  <2>6. SerialTold(s)'
    <3> DEFINE v == made[s][1]
    <3>1. v \in XWindow
      BY <1>1, SerialIs
    <3>2. ASSUME serialOf[v] = made[s] PROVE surfaceOf[v] # Nobody
      <4> SUFFICES ASSUME surfaceOf[v] = Nobody PROVE FALSE
        OBVIOUS
      <4>1. v \in viewable /\ listOf[v] = "unpaired" /\ made[s] = <<v, shown[v]>>
        BY <1>0, <3>1, <3>2 DEF WindowWaits
      <4>2. windowOf[s] = Nobody
        BY <3>1, <4>1, FreeForEachOther
      <4>3. Bindable(v, s)
        BY <1>t, <4>2, SerialIs DEF Bindable
      <4>4. v \in found
        BY <1>t, <3>2, <4>1, <4>3
      <4> QED BY <1>2, <4>4
    <3> HIDE DEF v
    <3>3. SerialTold(s) /\ made'[s] = made[s] /\ windowOf'[s] = windowOf[s]
          /\ shown' = shown /\ serialOf' = serialOf /\ surfaceOf' = surfaceOf
      BY <1>0, <1>2
    <3> QED BY <2>1, <3>2, <3>3 DEF SerialTold, v
  <2> QED BY <2>2, <2>3, <2>4, <2>5, <2>6 DEF XwmInv
<1>3. ASSUME NEW w \in found, Bind(w, s),
             xsurf' = [xsurf EXCEPT ![s] = [xs EXCEPT !.listed = FALSE]],
             listOf' = [listOf EXCEPT ![w] = "none"]
      PROVE  XwmInv'
  <2>1. w \in XWindow /\ listOf[w] = "unpaired" /\ serialOf[w] = made[s]
    BY <1>t
  <2>2. surfaceOf[w] = Nobody /\ w \in viewable /\ made[s] = <<w, shown[w]>>
    BY <1>0, <2>1 DEF WindowWaits
  <2>3. made[s][1] = w
    BY <2>2
  <2>4. windowOf[s] = Nobody
    BY <2>1, <2>2, <2>3, FreeForEachOther
  <2>5. [xs EXCEPT !.listed = FALSE] \in XSurf /\ [xs EXCEPT !.listed = FALSE].serial = made[s]
    BY DEF XSurf
  <2>6. /\ xsurf' \in [XSurface -> OrNobody(XSurf)]
        /\ xsurf'[s] = [xs EXCEPT !.listed = FALSE]
        /\ \A t \in XSurface \ {s} : xsurf'[t] = xsurf[t]
    BY <1>t, <1>3, <2>5 DEF OrNobody
  <2>7. xsurf'[s] # Nobody /\ xsurf'[s].serial = made[s]
    BY <2>5, <2>6, SerialIs
  <2>8. /\ listOf' \in [XWindow -> {"windows", "unpaired", "none"}] /\ listOf'[w] = "none"
        /\ \A v \in XWindow \ {w} : listOf'[v] = listOf[v]
    BY <1>t, <1>3, <2>1
  <2>9. shown'[w] = shown[w] /\ shown'[w] >= shown[w] /\ serialOf'[w] = serialOf[w]
        /\ (\A v \in XWindow \ {w} : serialOf'[v] = serialOf[v] /\ shown'[v] = shown[v]
                                      /\ listOf'[v] = listOf[v])
        /\ shown' \in [XWindow -> 0..MaxShown] /\ UNCHANGED <<viewable, mapped, made>>
    <3>1. shown' = shown /\ serialOf' = serialOf /\ shown[w] \in Nat
      BY <1>t, <2>1
    <3> QED BY <1>t, <2>8, <3>1
  <2>10. /\ \A v \in XWindow : WindowWaits(v)'
         /\ \A t \in XSurface : SurfacePaired(t)' /\ SerialTold(t)'
    BY <1>3, <2>1, <2>2, <2>4, <2>6, <2>7, <2>8, <2>9, PairedStay
  <2>11. XwmTyped'
    <3>1. /\ surfaceOf' \in [XWindow -> OrNobody(XSurface)]
          /\ windowOf' \in [XSurface -> OrNobody(XWindow)]
          /\ plexyOf' \in [XSurface -> {"none", "toplevel", "popup"}]
          /\ big' \subseteq XWindow
      BY <1>0, <1>3, <2>1, BindIs
    <3> QED BY <1>t, <2>6, <2>8, <3>1 DEF XwmTyped
  <2> QED BY <2>10, <2>11 DEF XwmInv
<1>4. \/ found = {} /\ xsurf' = [xsurf EXCEPT ![s] = xs]
         /\ UNCHANGED <<surfaceOf, windowOf, plexyOf, listOf, big>>
      \/ \E w \in found : /\ Bind(w, s)
                          /\ xsurf' = [xsurf EXCEPT ![s] = [xs EXCEPT !.listed = FALSE]]
                          /\ listOf' = [listOf EXCEPT ![w] = "none"]
  BY Zenon DEF PairSurface
<1> HIDE DEF found
<1> QED BY <1>2, <1>3, <1>4, Zenon

\* Every step keeps the invariant.
LEMMA XwmInvHolds ==
  ASSUME Prompt
  PROVE  XwmSpec => []XwmInv
<1>1. XwmInit => XwmInv
  <2> SUFFICES ASSUME XwmInit PROVE XwmInv
    OBVIOUS
  <2>1. XwmTyped
    BY XwmAssumption DEF XwmInit, XwmTyped, OrNobody
  <2>2. ASSUME NEW w \in XWindow PROVE WindowWaits(w)
    BY DEF XwmInit, WindowWaits
  <2>3. ASSUME NEW s \in XSurface PROVE SurfacePaired(s) /\ SerialTold(s)
    BY DEF XwmInit, SurfacePaired, SerialTold
  <2> QED BY <2>1, <2>2, <2>3 DEF XwmInv
<1>2. XwmInv /\ [XwmNext]_xwmVars => XwmInv'
  <2> SUFFICES ASSUME XwmInv, [XwmNext]_xwmVars PROVE XwmInv'
    OBVIOUS
  <2>0. XwmTyped /\ (\A v \in XWindow : WindowWaits(v))
        /\ (\A t \in XSurface : SurfacePaired(t) /\ SerialTold(t))
    BY DEF XwmInv
  <2>t. /\ xwins \subseteq XWindow /\ big \subseteq XWindow
        /\ viewable \subseteq xwins /\ mapped \subseteq viewable
        /\ listOf \in [XWindow -> {"windows", "unpaired", "none"}]
        /\ serialOf \in [XWindow -> OrNobody(Serial)]
        /\ surfaceOf \in [XWindow -> OrNobody(XSurface)]
        /\ windowOf \in [XSurface -> OrNobody(XWindow)]
        /\ plexyOf \in [XSurface -> {"none", "toplevel", "popup"}]
        /\ xsurf \in [XSurface -> OrNobody(XSurf)]
        /\ shown \in [XWindow -> 0..MaxShown] /\ begun \in [XWindow -> 0..MaxShown]
        /\ made \in [XSurface -> OrNobody(Serial)]
    BY <2>0 DEF XwmTyped
  <2>1. ASSUME NEW w \in XWindow, NEW size \in BOOLEAN, CreateNotify(w, size) PROVE XwmInv'
    <3>0. w \notin xwins /\ xwins' = xwins \cup {w}
          /\ big' = (IF size THEN big \cup {w} ELSE big \ {w})
          /\ listOf' = [listOf EXCEPT ![w] = "windows"]
          /\ serialOf' = [serialOf EXCEPT ![w] = Nobody]
          /\ viewable' \in {viewable, viewable \cup {w}}
          /\ UNCHANGED <<mapped, surfaceOf, windowOf, plexyOf, xsurf, shown, begun, made>>
      BY <2>1 DEF CreateNotify, xsurfaceVars
    <3>1. w \notin viewable /\ serialOf[w] = Nobody /\ surfaceOf[w] = Nobody
      BY <2>0, <2>t, <3>0 DEF WindowWaits
    <3>2. serialOf' = serialOf
      BY <2>t, <3>0, <3>1
    <3>3. XwmTyped'
      BY <2>t, <3>0, <3>2 DEF XwmTyped
    <3>4. ASSUME NEW v \in XWindow PROVE WindowWaits(v)'
      <4>1. v # w => listOf'[v] = listOf[v]
        BY <2>t, <3>0
      <4> QED BY <2>0, <3>0, <3>1, <3>2, <4>1 DEF WindowWaits
    <3>5. ASSUME NEW t \in XSurface PROVE SurfacePaired(t)' /\ SerialTold(t)'
      <4>1. windowOf[t] # w
        BY <2>0, <3>1, SerialIs DEF SurfacePaired
      <4>2. windowOf[t] \in big' <=> windowOf[t] \in big
        BY <3>0, <4>1
      <4> QED BY <2>0, <3>0, <3>2, <4>2 DEF SurfacePaired, SerialTold
    <3> QED BY <3>3, <3>4, <3>5 DEF XwmInv
  <2>2. ASSUME NEW w \in XWindow, MapRequest(w) PROVE XwmInv'
    <3>0. w \in xwins \ Override /\ mapped' = mapped \cup {w} /\ viewable' = viewable \cup {w}
          /\ UNCHANGED <<xwins, big, listOf, serialOf, shown, surfaceOf, windowOf,
                         plexyOf, xsurf, begun, made>>
      BY <2>2 DEF MapRequest, xsurfaceVars
    <3>1. XwmTyped'
      BY <2>t, <3>0 DEF XwmTyped
    <3>2. ASSUME NEW v \in XWindow PROVE WindowWaits(v)'
      BY <2>0, <3>0 DEF WindowWaits
    <3>3. ASSUME NEW t \in XSurface PROVE SurfacePaired(t)' /\ SerialTold(t)'
      BY <2>0, <3>0 DEF SurfacePaired, SerialTold
    <3> QED BY <3>1, <3>2, <3>3 DEF XwmInv
  <2>3. ASSUME NEW w \in XWindow, MapNotify(w) PROVE XwmInv'
    <3>0. w \in xwins /\ w \notin viewable /\ OpenLate(w)
          /\ viewable' = viewable \cup {w} /\ mapped' = mapped \cup {w}
          /\ big' \in {big, big \cup {w}}
          /\ UNCHANGED <<xwins, listOf, serialOf, shown, surfaceOf, windowOf,
                         xsurf, begun, made>>
      BY <2>3 DEF MapNotify, Measured, xsurfaceVars
    <3>1. surfaceOf[w] = Nobody
      BY <2>0, <3>0 DEF WindowWaits
    <3>2. plexyOf' = plexyOf
      BY <3>0, <3>1 DEF OpenLate
    <3>3. XwmTyped'
      BY <2>t, <3>0, <3>2 DEF XwmTyped
    <3>4. ASSUME NEW v \in XWindow PROVE WindowWaits(v)'
      BY <2>0, <3>0 DEF WindowWaits
    <3>5. ASSUME NEW t \in XSurface PROVE SurfacePaired(t)' /\ SerialTold(t)'
      <4>1. windowOf[t] # w
        BY <2>0, <3>1, SerialIs DEF SurfacePaired
      <4>2. windowOf[t] \in big' \cap mapped' <=> windowOf[t] \in big \cap mapped
        BY <3>0, <4>1
      <4> QED BY <2>0, <3>0, <3>2, <4>2 DEF SurfacePaired, SerialTold
    <3> QED BY <3>3, <3>4, <3>5 DEF XwmInv
  <2>4. ASSUME NEW w \in XWindow, NEW size \in BOOLEAN, ConfigureNotify(w, size) PROVE XwmInv'
    <3>0. w \in xwins /\ big' = (IF size THEN big \cup {w} ELSE big \ {w})
          /\ (w \in Override \cap mapped => OpenLate(w))
          /\ (w \notin Override \cap mapped => plexyOf' = plexyOf)
          /\ UNCHANGED <<xwins, viewable, mapped, listOf, serialOf, shown, surfaceOf,
                         windowOf, xsurf, begun, made>>
      BY <2>4 DEF ConfigureNotify, xsurfaceVars
    <3>1. /\ plexyOf' \in [XSurface -> {"none", "toplevel", "popup"}]
          /\ \A t \in XSurface : windowOf[t] # w => plexyOf'[t] = plexyOf[t]
          /\ \A t \in XSurface : windowOf[t] = w /\ plexyOf'[t] = "none" =>
                plexyOf[t] = "none" /\ (w \in Override \cap mapped => w \notin big')
          /\ \A t \in XSurface : windowOf[t] = Nobody => plexyOf'[t] = plexyOf[t]
      <4>w. w # Nobody
        BY SerialIs
      <4>1. CASE w \in Override \cap mapped /\ surfaceOf[w] # Nobody /\ w \in big'
        <5>1. plexyOf' = [plexyOf EXCEPT ![surfaceOf[w]] = IF @ = "none" THEN "popup" ELSE @]
          BY <3>0, <4>1 DEF OpenLate
        <5>2. surfaceOf[w] \in XSurface /\ windowOf[surfaceOf[w]] = w
          BY <2>0, <2>t, <4>1 DEF WindowWaits, OrNobody
        <5>3. \A t \in XSurface : windowOf[t] = w => t = surfaceOf[w]
          BY <2>0, <4>w DEF SurfacePaired
        <5> QED BY <2>t, <4>w, <5>1, <5>2, <5>3
      <4>2. CASE w \in Override \cap mapped /\ ~(surfaceOf[w] # Nobody /\ w \in big')
        <5>1. plexyOf' = plexyOf
          BY <3>0, <4>2 DEF OpenLate
        <5>2. \A t \in XSurface : windowOf[t] = w => surfaceOf[w] = t /\ t # Nobody
          BY <2>0, <4>w, SerialIs DEF SurfacePaired
        <5> QED BY <2>t, <4>2, <5>1, <5>2
      <4>3. CASE w \notin Override \cap mapped
        BY <2>t, <3>0, <4>3
      <4> QED BY <4>1, <4>2, <4>3
    <3>2. XwmTyped'
      BY <2>t, <3>0, <3>1 DEF XwmTyped
    <3>3. ASSUME NEW v \in XWindow PROVE WindowWaits(v)'
      BY <2>0, <3>0 DEF WindowWaits
    <3>4. ASSUME NEW t \in XSurface PROVE SurfacePaired(t)' /\ SerialTold(t)'
      <4>1. SerialTold(t)'
        BY <2>0, <3>0 DEF SerialTold
      <4>3. windowOf[t] # w => (windowOf[t] \in big' <=> windowOf[t] \in big)
        BY <3>0
      <4>4. w # Nobody
        BY SerialIs
      <4>5. SurfacePaired(t)
        BY <2>0
      <4>6. made[t] = Nobody => plexyOf'[t] = "none"
        BY <3>1, <4>4, <4>5 DEF SurfacePaired
      <4>7. windowOf[t] # Nobody /\ plexyOf'[t] = "none" =>
              windowOf[t] \in Override \ (big' \cap mapped)
        BY <3>1, <4>3, <4>5 DEF SurfacePaired
      <4>8. made[t] # Nobody /\ plexyOf'[t] = "popup" /\ made[t][1] \in Override => windowOf[t] # Nobody
        BY <3>1, <4>5 DEF SurfacePaired
      <4> QED BY <3>0, <4>1, <4>5, <4>6, <4>7, <4>8 DEF SurfacePaired
    <3> QED BY <3>2, <3>3, <3>4 DEF XwmInv
  <2>5. ASSUME NEW w \in XWindow, SurfaceSerial(w) PROVE XwmInv'
    <3> DEFINE n == <<w, shown[w] + 1>>
               found == {s \in XSurfaces : xsurf[s] # Nobody /\ xsurf[s].listed
                                           /\ xsurf[s].serial = n /\ Bindable(w, s)}
    <3>0. w \in viewable /\ serialOf[w] = Nobody /\ shown[w] < MaxShown
          /\ shown' = [shown EXCEPT ![w] = @ + 1]
          /\ serialOf' = [serialOf EXCEPT ![w] = n] /\ PairWindow(w, n)
          /\ UNCHANGED <<xwins, viewable, mapped, begun, made>>
      BY <2>5 DEF SurfaceSerial, TellsSerial, xsurfaceVars
    <3>1. surfaceOf[w] = Nobody
      BY <2>0, <3>0 DEF WindowWaits
    <3>2. shown[w] + 1 \in 1..MaxShown /\ shown[w] + 1 \in 0..MaxShown /\ shown[w] \in Nat
      BY <2>t, <3>0, XwmAssumption
    <3>3. n \in Serial /\ n # Nobody /\ n[1] = w /\ n[2] = shown[w] + 1
      BY <3>2, SerialIs
    <3>4. /\ shown' \in [XWindow -> 0..MaxShown] /\ shown'[w] = shown[w] + 1
          /\ \A v \in XWindow \ {w} : shown'[v] = shown[v]
      BY <2>t, <3>0, <3>2
    <3>5. /\ serialOf' \in [XWindow -> OrNobody(Serial)] /\ serialOf'[w] = n
          /\ \A v \in XWindow \ {w} : serialOf'[v] = serialOf[v]
      BY <2>t, <3>0, <3>3 DEF OrNobody
    <3>6. \/ /\ found = {}
             /\ listOf' = [listOf EXCEPT ![w] = "unpaired"]
             /\ UNCHANGED <<surfaceOf, windowOf, plexyOf, xsurf, big>>
          \/ \E s \in found : /\ Bind(w, s)
                              /\ xsurf' = [xsurf EXCEPT ![s].listed = FALSE]
                              /\ listOf' = [listOf EXCEPT ![w] = "none"]
      <4> HIDE DEF n
      <4> QED BY <3>0, <3>1, Zenon DEF PairWindow
    <3>n. n = <<w, shown'[w]>>
      BY <3>4
    <3> HIDE DEF n
    <3>7. CASE /\ found = {}
               /\ listOf' = [listOf EXCEPT ![w] = "unpaired"]
               /\ UNCHANGED <<surfaceOf, windowOf, plexyOf, xsurf, big>>
      <4>1. /\ listOf' \in [XWindow -> {"windows", "unpaired", "none"}] /\ listOf'[w] = "unpaired"
            /\ \A v \in XWindow \ {w} : listOf'[v] = listOf[v]
        BY <2>t, <3>7
      <4>2. XwmTyped'
        BY <2>t, <3>0, <3>4, <3>5, <3>7, <4>1 DEF XwmTyped
      <4>3. WindowWaits(w)'
        BY <3>0, <3>1, <3>3, <3>5, <3>7, <3>n, <4>1 DEF WindowWaits
      <4>4. ASSUME NEW v \in XWindow \ {w} PROVE WindowWaits(v)'
        BY <2>0, <3>0, <3>4, <3>5, <3>7, <4>1 DEF WindowWaits
      <4>5. ASSUME NEW t \in XSurface PROVE SurfacePaired(t)'
        <5>1. windowOf[t] # Nobody => windowOf[t] \in XWindow \ {w}
          BY <3>1, PairedIsViewable, SerialIs
        <5> QED BY <2>0, <3>0, <3>5, <3>7, <5>1 DEF SurfacePaired
      <4>6. ASSUME NEW t \in XSurface PROVE SerialTold(t)'
        <5> SUFFICES ASSUME xsurf[t] # Nobody PROVE SerialTold(t)'
          BY <3>7 DEF SerialTold
        <5>1. made[t] \in Serial /\ made[t] # Nobody
          BY <2>0, <2>t DEF SurfacePaired, OrNobody
        <5>2. made[t][1] \in XWindow /\ made[t][2] \in 1..MaxShown
              /\ made[t] = <<made[t][1], made[t][2]>>
          BY <5>1, SerialIs
        <5>3. CASE made[t][1] # w
          <6>1. /\ serialOf'[made[t][1]] = serialOf[made[t][1]]
                /\ shown'[made[t][1]] = shown[made[t][1]]
            BY <3>4, <3>5, <5>2, <5>3
          <6> QED BY <2>0, <3>0, <3>7, <6>1 DEF SerialTold
        <5>4. CASE made[t][1] = w
          <6>1. windowOf[t] = Nobody
            <7>1. ASSUME windowOf[t] # Nobody PROVE FALSE
              <8>1. surfaceOf[windowOf[t]] = t /\ made[t][1] = windowOf[t]
                BY <7>1, PairedIsViewable
              <8> QED BY <3>1, <5>4, <8>1, SerialIs
            <7> QED BY <7>1
          <6>2. ASSUME ~xsurf[t].listed PROVE made[t][2] <= shown'[w] /\ n # made[t]
            <7>1. made[t][2] <= shown[w]
              BY <2>0, <5>4, <6>1, <6>2 DEF SerialTold
            <7> QED BY <3>2, <3>3, <3>4, <5>2, <7>1
          <6>3. ASSUME xsurf[t].serial # Nobody PROVE n # made[t]
            <7> SUFFICES ASSUME n = made[t] PROVE FALSE
              OBVIOUS
            <7>1. xsurf[t].serial = n
              BY <2>0, <6>3 DEF SerialTold
            <7>2. xsurf[t].listed
              BY <6>2
            <7>3. Bindable(w, t)
              BY <2>t, <6>1, SerialIs DEF Bindable
            <7>4. t \in found
              BY <5>1, <7>1, <7>2, <7>3 DEF XSurfaces
            <7> QED BY <3>7, <7>4
          <6>4. SerialTold(t) /\ made'[t] = made[t] /\ xsurf'[t] = xsurf[t]
                /\ serialOf'[w] = n
            BY <2>0, <3>0, <3>5, <3>7
          <6> QED BY <5>4, <6>2, <6>3, <6>4 DEF SerialTold
        <5> QED BY <5>3, <5>4
      <4> QED BY <4>2, <4>3, <4>4, <4>5, <4>6 DEF XwmInv
    <3>8. ASSUME NEW s \in found, Bind(w, s), xsurf' = [xsurf EXCEPT ![s].listed = FALSE],
                 listOf' = [listOf EXCEPT ![w] = "none"]
          PROVE  XwmInv'
      <4>1. s \in XSurface /\ made[s] # Nobody /\ xsurf[s] # Nobody /\ xsurf[s].serial = n
        BY DEF XSurfaces
      <4>2. made[s] = n /\ made[s][1] = w /\ shown[w] < made[s][2]
        BY <2>0, <3>2, <3>3, <4>1 DEF SerialTold
      <4>3. windowOf[s] = Nobody
        BY <3>1, <4>1, <4>2, FreeForEachOther
      <4>4. xsurf[s] \in XSurf
        BY <2>t, <4>1 DEF OrNobody
      <4>5. /\ xsurf' \in [XSurface -> OrNobody(XSurf)]
            /\ xsurf'[s] = [xsurf[s] EXCEPT !.listed = FALSE]
            /\ \A t \in XSurface \ {s} : xsurf'[t] = xsurf[t]
        BY <2>t, <3>8, <4>1, <4>4 DEF OrNobody, XSurf
      <4>6. xsurf'[s] \in XSurf /\ xsurf'[s].serial = made[s]
        BY <4>1, <4>2, <4>4, <4>5 DEF XSurf
      <4>7. xsurf'[s] # Nobody
        BY <4>6, SerialIs
      <4>8. /\ listOf' \in [XWindow -> {"windows", "unpaired", "none"}] /\ listOf'[w] = "none"
            /\ \A v \in XWindow \ {w} : listOf'[v] = listOf[v]
        BY <2>t, <3>8
      <4>9. made[s] = <<w, shown'[w]>> /\ shown'[w] >= shown[w] /\ shown'[w] # shown[w]
            /\ serialOf'[w] = made[s]
        BY <3>2, <3>4, <3>5, <3>n, <4>2
      <4>10. /\ \A v \in XWindow : WindowWaits(v)'
             /\ \A t \in XSurface : SurfacePaired(t)' /\ SerialTold(t)'
        BY <3>0, <3>1, <3>4, <3>5, <3>8, <4>1, <4>3, <4>5, <4>6, <4>7, <4>8, <4>9, PairedStay
      <4>11. XwmTyped'
        <5>1. /\ surfaceOf' \in [XWindow -> OrNobody(XSurface)]
              /\ windowOf' \in [XSurface -> OrNobody(XWindow)]
              /\ plexyOf' \in [XSurface -> {"none", "toplevel", "popup"}]
              /\ big' \subseteq XWindow
          BY <2>0, <3>8, <4>1, BindIs
        <5> QED BY <2>t, <3>0, <3>4, <3>5, <4>5, <4>8, <5>1 DEF XwmTyped
      <4> QED BY <4>10, <4>11 DEF XwmInv
    <3> HIDE DEF found
    <3> QED BY <3>6, <3>7, <3>8, Zenon
  <2>6. ASSUME NEW w \in XWindow, Unmap(w) PROVE XwmInv'
    <3>0. w \in viewable /\ viewable' = viewable \ {w} /\ mapped' = mapped \ {w}
          /\ plexyOf' = [s \in XSurface |->
                           IF s = surfaceOf[w] /\ w \in Override THEN "none" ELSE plexyOf[s]]
          /\ windowOf' = [s \in XSurface |->
                            IF s = surfaceOf[w] /\ windowOf[s] = w THEN Nobody ELSE windowOf[s]]
          /\ surfaceOf' = [surfaceOf EXCEPT ![w] = Nobody]
          /\ serialOf' = [serialOf EXCEPT ![w] = Nobody]
          /\ UNCHANGED <<xwins, big, listOf, shown, xsurf, begun, made>>
      BY <2>6 DEF Unmap, xsurfaceVars
    <3>1. XwmTyped'
      BY <2>t, <3>0 DEF XwmTyped, OrNobody
    <3>2. /\ surfaceOf'[w] = Nobody /\ serialOf'[w] = Nobody
          /\ \A v \in XWindow \ {w} : surfaceOf'[v] = surfaceOf[v] /\ serialOf'[v] = serialOf[v]
      BY <2>t, <3>0 DEF OrNobody
    <3>3. \A t \in XSurface :
            /\ windowOf[t] = w => windowOf'[t] = Nobody /\ (w \in Override => plexyOf'[t] = "none")
            /\ windowOf[t] # w => windowOf'[t] = windowOf[t] /\ plexyOf'[t] = plexyOf[t]
            /\ plexyOf'[t] = "none" \/ plexyOf'[t] = plexyOf[t]
      BY <3>0, PairsAreMutual
    <3>4. ASSUME NEW v \in XWindow PROVE WindowWaits(v)'
      <4>1. CASE v = w
        BY <3>2, <4>1 DEF WindowWaits
      <4>2. CASE v # w
        <5>1. surfaceOf[v] # Nobody => surfaceOf[v] \in XSurface /\ windowOf[surfaceOf[v]] = v
          BY <2>0, <2>t DEF WindowWaits, OrNobody
        <5>2. surfaceOf[v] # Nobody => windowOf'[surfaceOf[v]] = v
          BY <3>3, <4>2, <5>1
        <5> QED BY <2>0, <3>0, <3>2, <4>2, <5>2 DEF WindowWaits
      <4> QED BY <4>1, <4>2
    <3>5. ASSUME NEW t \in XSurface PROVE SurfacePaired(t)'
      <4>1. CASE windowOf[t] = w
        <5>1. w # Nobody
          BY SerialIs
        <5>2. made[t][1] = w /\ made[t] # Nobody
          BY <4>1, <5>1, PairedIsViewable
        <5> QED BY <3>0, <3>3, <4>1, <5>2 DEF SurfacePaired
      <4>2. CASE windowOf[t] # w
        <5>1. windowOf[t] # Nobody => windowOf[t] \in XWindow \ {w}
          BY <2>t, <4>2 DEF OrNobody
        <5> QED BY <2>0, <3>0, <3>2, <3>3, <4>2, <5>1 DEF SurfacePaired
      <4> QED BY <4>1, <4>2
    <3>6. ASSUME NEW t \in XSurface PROVE SerialTold(t)'
      <4> SUFFICES ASSUME xsurf[t] # Nobody PROVE SerialTold(t)'
        BY <3>0 DEF SerialTold
      <4>1. made[t] \in Serial /\ made[t] # Nobody
        BY <2>0, <2>t DEF SurfacePaired, OrNobody
      <4>2. made[t][1] \in XWindow /\ made[t][2] \in 1..MaxShown
        BY <4>1, SerialIs
      <4>3. CASE windowOf[t] = w
        <5>1. w # Nobody
          BY SerialIs
        <5>2. made[t][1] = w /\ made[t] = <<w, shown[w]>>
          BY <4>3, <5>1, PairedIsViewable
        <5>3. made[t][2] = shown[w] /\ shown[w] \in Nat
          BY <2>t, <5>2
        <5>4. made[t][2] <= shown[w]
          BY <5>3
        <5> QED BY <2>0, <3>0, <3>2, <4>1, <5>2, <5>4 DEF SerialTold
      <4>4. CASE windowOf[t] # w
        <5>1. windowOf'[t] = windowOf[t]
          BY <3>3, <4>4
        <5>2. serialOf'[made[t][1]] = made[t] => /\ serialOf'[made[t][1]] = serialOf[made[t][1]]
                                                 /\ surfaceOf'[made[t][1]] = surfaceOf[made[t][1]]
          BY <3>2, <4>1, <4>2
        <5> QED BY <2>0, <3>0, <5>1, <5>2 DEF SerialTold
      <4> QED BY <4>3, <4>4
    <3> QED BY <3>1, <3>4, <3>5, <3>6 DEF XwmInv
  <2>7. ASSUME NEW w \in XWindow, DestroyNotify(w) PROVE XwmInv'
    <3>0. w \in xwins \ viewable /\ xwins' = xwins \ {w}
          /\ listOf' = [listOf EXCEPT ![w] = "none"]
          /\ windowOf' = [s \in XSurface |->
                            IF s = surfaceOf[w] /\ windowOf[s] = w THEN Nobody ELSE windowOf[s]]
          /\ surfaceOf' = [surfaceOf EXCEPT ![w] = Nobody]
          /\ UNCHANGED <<viewable, mapped, big, serialOf, shown, plexyOf, xsurf, begun, made>>
      BY <2>7 DEF DestroyNotify, xsurfaceVars
    <3>1. surfaceOf[w] = Nobody /\ serialOf[w] = Nobody
      BY <2>0, <3>0 DEF WindowWaits
    <3>2. surfaceOf' = surfaceOf
      BY <2>t, <3>0, <3>1
    <3>3. windowOf' = windowOf
      <4>1. \A s \in XSurface : s # Nobody
        BY SerialIs
      <4> QED BY <2>t, <3>0, <3>1, <4>1
    <3>4. XwmTyped'
      BY <2>t, <3>0, <3>2, <3>3 DEF XwmTyped
    <3>5. ASSUME NEW v \in XWindow PROVE WindowWaits(v)'
      <4>1. v # w => listOf'[v] = listOf[v]
        BY <2>t, <3>0
      <4> QED BY <2>0, <3>0, <3>1, <3>2, <3>3, <4>1 DEF WindowWaits
    <3>6. ASSUME NEW t \in XSurface PROVE SurfacePaired(t)' /\ SerialTold(t)'
      BY <2>0, <3>0, <3>2, <3>3 DEF SurfacePaired, SerialTold
    <3> QED BY <3>4, <3>5, <3>6 DEF XwmInv
  <2>8. ASSUME NEW s \in XSurface, NEW w \in XWindow, CreateXSurface(s, w) PROVE XwmInv'
    <3>0. made[s] = Nobody /\ begun[w] < MaxShown
          /\ begun' = [begun EXCEPT ![w] = @ + 1]
          /\ made' = [made EXCEPT ![s] = <<w, begun[w] + 1>>]
          /\ UNCHANGED <<xwins, viewable, mapped, big, listOf, serialOf, shown, surfaceOf, windowOf,
                         plexyOf, xsurf>>
      BY <2>8 DEF CreateXSurface, xwindowVars
    <3>1. begun[w] + 1 \in 1..MaxShown /\ begun[w] + 1 \in 0..MaxShown
      BY <2>t, <3>0, XwmAssumption
    <3>2. <<w, begun[w] + 1>> \in Serial
      BY <3>1, SerialIs
    <3>3. /\ made' \in [XSurface -> OrNobody(Serial)] /\ made'[s] # Nobody
          /\ \A t \in XSurface \ {s} : made'[t] = made[t]
      BY <2>t, <3>0, <3>2, SerialIs DEF OrNobody
    <3>4. XwmTyped'
      BY <2>t, <3>0, <3>1, <3>3 DEF XwmTyped
    <3>5. ASSUME NEW v \in XWindow PROVE WindowWaits(v)'
      BY <2>0, <3>0 DEF WindowWaits
    <3>6. SurfacePaired(s)' /\ SerialTold(s)'
      BY <2>0, <3>0, <3>3 DEF SurfacePaired, SerialTold
    <3>7. ASSUME NEW t \in XSurface \ {s} PROVE SurfacePaired(t)' /\ SerialTold(t)'
      BY <2>0, <3>0, <3>3 DEF SurfacePaired, SerialTold
    <3> QED BY <3>4, <3>5, <3>6, <3>7 DEF XwmInv
  <2>9. ASSUME NEW s \in XSurface, GetXwaylandSurface(s) PROVE XwmInv'
    <3> DEFINE new == [serial |-> Nobody, listed |-> TRUE, listens |-> TRUE]
    <3>0. s \in XSurfaces /\ xsurf' = [xsurf EXCEPT ![s] = new]
          /\ UNCHANGED <<xwins, viewable, mapped, big, listOf, serialOf, shown, surfaceOf, windowOf,
                         plexyOf, begun, made>>
      BY <2>9 DEF GetXwaylandSurface, xwindowVars, xsurfaceVars
    <3>1. new \in XSurf /\ new.serial = Nobody /\ new.listed
      BY DEF XSurf, OrNobody
    <3> HIDE DEF new
    <3>2. /\ xsurf' \in [XSurface -> OrNobody(XSurf)] /\ xsurf'[s] = new
          /\ \A t \in XSurface \ {s} : xsurf'[t] = xsurf[t]
      BY <2>t, <3>0, <3>1 DEF OrNobody
    <3>3. made[s] # Nobody
      BY <3>0 DEF XSurfaces
    <3>4. XwmTyped'
      BY <2>t, <3>0, <3>2 DEF XwmTyped
    <3>5. ASSUME NEW v \in XWindow PROVE WindowWaits(v)'
      BY <2>0, <3>0 DEF WindowWaits
    <3>6. SurfacePaired(s)' /\ SerialTold(s)'
      BY <2>0, <3>0, <3>1, <3>2, <3>3 DEF SurfacePaired, SerialTold
    <3>7. ASSUME NEW t \in XSurface \ {s} PROVE SurfacePaired(t)' /\ SerialTold(t)'
      BY <2>0, <3>0, <3>2 DEF SurfacePaired, SerialTold
    <3> QED BY <3>4, <3>5, <3>6, <3>7 DEF XwmInv
  <2>10. ASSUME NEW s \in XSurface, SetSerial(s) PROVE XwmInv'
    <3> DEFINE xs == [xsurf[s] EXCEPT !.serial = made[s]]
    <3>0. s \in XSurfaces /\ xsurf[s] # Nobody /\ PairSurface(s, made[s], xs)
          /\ UNCHANGED <<xwins, viewable, mapped, serialOf, shown, begun, made>>
      BY <2>10 DEF SetSerial, xsurfaceVars
    <3>1. made[s] # Nobody /\ xsurf[s] \in XSurf /\ made[s] \in OrNobody(Serial)
      BY <2>t, <3>0 DEF XSurfaces, OrNobody
    <3>2. xs \in XSurf /\ xs.serial = made[s] /\ xs.listed = xsurf[s].listed
      BY <3>1 DEF XSurf
    <3> HIDE DEF xs
    <3> QED BY <3>0, <3>1, <3>2, PairSurfaceKeeps
  <2>11. ASSUME NEW s \in XSurface, CommitXSurface(s) PROVE XwmInv'
    <3> DEFINE xs == [xsurf[s] EXCEPT !.listens = FALSE]
    <3>0. s \in XSurfaces /\ xsurf[s] # Nobody /\ xsurf[s].serial # Nobody
          /\ PairSurface(s, xsurf[s].serial, xs)
          /\ UNCHANGED <<xwins, viewable, mapped, serialOf, shown, begun, made>>
      BY <2>11 DEF CommitXSurface, xsurfaceVars
    <3>1. made[s] # Nobody /\ xsurf[s] \in XSurf /\ xsurf[s].serial = made[s]
      BY <2>0, <2>t, <3>0 DEF XSurfaces, OrNobody, SerialTold
    <3>2. xs \in XSurf /\ xs.serial = made[s] /\ xs.listed = xsurf[s].listed
      BY <3>1 DEF XSurf
    <3> HIDE DEF xs
    <3>3. PairSurface(s, made[s], xs)
      BY <3>0, <3>1
    <3> QED BY <3>0, <3>1, <3>2, <3>3, PairSurfaceKeeps
  <2>12. ASSUME NEW s \in XSurface, DestroyXwaylandSurface(s) PROVE XwmInv'
    <3>0. xsurf' = [xsurf EXCEPT ![s] = Nobody]
          /\ UNCHANGED <<xwins, viewable, mapped, big, listOf, serialOf, shown, surfaceOf, windowOf,
                         plexyOf, begun, made>>
      BY <2>12 DEF DestroyXwaylandSurface, xwindowVars, xsurfaceVars
    <3>1. XwmTyped'
      BY <2>t, <3>0 DEF XwmTyped, OrNobody
    <3>2. ASSUME NEW v \in XWindow PROVE WindowWaits(v)'
      BY <2>0, <3>0 DEF WindowWaits
    <3>3. ASSUME NEW t \in XSurface PROVE SurfacePaired(t)' /\ SerialTold(t)'
      <4>1. xsurf'[t] = Nobody \/ xsurf'[t] = xsurf[t]
        BY <2>t, <3>0
      <4> QED BY <2>0, <3>0, <4>1 DEF SurfacePaired, SerialTold
    <3> QED BY <3>1, <3>2, <3>3 DEF XwmInv
  <2>13. ASSUME NEW s \in XSurface, DestroyXSurface(s) PROVE XwmInv'
    <3>0. (\A w \in XWindow : surfaceOf[w] # s)
          /\ made' = [made EXCEPT ![s] = Nobody] /\ xsurf' = [xsurf EXCEPT ![s] = Nobody]
          /\ windowOf' = [windowOf EXCEPT ![s] = Nobody]
          /\ plexyOf' = [plexyOf EXCEPT ![s] = "none"]
          /\ UNCHANGED <<xwins, viewable, mapped, big, listOf, serialOf, shown, surfaceOf, begun>>
      BY <2>13 DEF DestroyXSurface, xwindowVars
    <3>1. XwmTyped'
      BY <2>t, <3>0 DEF XwmTyped, OrNobody
    <3>2. /\ made'[s] = Nobody /\ xsurf'[s] = Nobody /\ windowOf'[s] = Nobody /\ plexyOf'[s] = "none"
          /\ \A t \in XSurface \ {s} : /\ made'[t] = made[t] /\ xsurf'[t] = xsurf[t]
                                       /\ windowOf'[t] = windowOf[t] /\ plexyOf'[t] = plexyOf[t]
      BY <2>t, <3>0
    <3>3. ASSUME NEW v \in XWindow PROVE WindowWaits(v)'
      <4>1. surfaceOf[v] # Nobody => surfaceOf[v] \in XSurface \ {s}
        BY <2>t, <3>0 DEF OrNobody
      <4> QED BY <2>0, <3>0, <3>2, <4>1 DEF WindowWaits
    <3>4. SurfacePaired(s)' /\ SerialTold(s)'
      BY <3>2 DEF SurfacePaired, SerialTold
    <3>5. ASSUME NEW t \in XSurface \ {s} PROVE SurfacePaired(t)' /\ SerialTold(t)'
      BY <2>0, <3>0, <3>2 DEF SurfacePaired, SerialTold
    <3> QED BY <3>1, <3>3, <3>4, <3>5 DEF XwmInv
  <2>14. CASE UNCHANGED xwmVars
    BY <2>0, <2>14 DEF xwmVars, xwindowVars, xsurfaceVars, XwmInv, XwmTyped, WindowWaits,
                       SurfacePaired, SerialTold
  <2> QED BY <2>1, <2>2, <2>3, <2>4, <2>5, <2>6, <2>7, <2>8, <2>9, <2>10, <2>11, <2>12, <2>13,
             <2>14, Zenon DEF XwmNext
<1> QED BY <1>1, <1>2, PTL DEF XwmSpec

\* A window and a surface of Xwayland that belong to the same showing find each
\* other and no others, and the surface has its Plexy window, whatever the order
\* in which the two connections bring serial, role, commit, map, configure and
\* unmap (xwm_try_pair_window_with_surface, xwm_try_pair_surface_with_window,
\* handle_unmap_notify and xwm_xwayland_surface_destroyed). It is assumed that
\* the manager reads of an unmap before the surface goes.
THEOREM WindowsFindSurfaces ==
  ASSUME Prompt
  PROVE  XwmSpec => []XwmOK
<1>1. XwmInv => XwmOK
  <2> SUFFICES ASSUME XwmInv PROVE XwmOK
    OBVIOUS
  <2>0. XwmTyped /\ (\A v \in XWindow : WindowWaits(v))
        /\ (\A t \in XSurface : SurfacePaired(t) /\ SerialTold(t))
    BY DEF XwmInv
  <2>1. XwmTypeOK
    <3>1. windowOf \in [XSurface -> OrNobody(xwins)]
      <4>1. \A s \in XSurface : windowOf[s] \in OrNobody(xwins)
        BY <2>0, PairedIsViewable DEF OrNobody, XwmTyped
      <4>2. windowOf = [s \in XSurface |-> windowOf[s]]
        BY <2>0 DEF XwmTyped
      <4> QED BY <4>1, <4>2
    <3> QED BY <2>0, <3>1 DEF XwmTyped, XwmTypeOK
  <2>2. PairIsMutual
    BY PairsAreMutual DEF PairIsMutual, XSurfaces
  <2>3. PairedAsMade
    BY <2>0, PairsAreMutual, SerialIs DEF PairedAsMade, XSurfaces, SurfacePaired
  <2>4. NoneWaitsForOther
    <3> SUFFICES ASSUME NEW w \in XWindow, NEW s \in XSurface,
                        serialOf[w] # Nobody, surfaceOf[w] = Nobody,
                        xsurf[s] # Nobody, xsurf[s].serial = serialOf[w]
                 PROVE  FALSE
      BY DEF NoneWaitsForOther, XSurfaces
    <3>1. made[s] = serialOf[w]
      BY <2>0 DEF SerialTold
    <3>2. made[s][1] = w
      BY <2>0, <3>1 DEF WindowWaits
    <3> QED BY <2>0, <3>1, <3>2 DEF SerialTold
  <2>5. PairedIsShown
    BY <2>0, PairsAreMutual, SerialIs DEF PairedIsShown, XSurfaces, SurfacePaired
  <2>6. PopupIsViewable
    BY <2>0, PairedIsViewable DEF PopupIsViewable, XSurfaces, SurfacePaired
  <2> QED BY <2>1, <2>2, <2>3, <2>4, <2>5, <2>6 DEF XwmOK
<1> QED BY <1>1, XwmInvHolds, PTL

---------------------------------------------------------------------------
(* X11Pairing is implemented *)

\* Xwayland makes one surface for a window at a time.
OneForEach ==
  \A s, t \in XSurface :
    made[s] # Nobody /\ made[t] # Nobody /\ made[s][1] = made[t][1] => s = t

LEMMA OneForEachHolds ==
  ASSUME Prompt
  PROVE  XwmSpec => []OneForEach
<1>1. XwmInit => OneForEach
  BY DEF XwmInit, OneForEach
<1>2. XwmInv /\ OneForEach /\ [XwmNext]_xwmVars => OneForEach'
  <2> SUFFICES ASSUME XwmInv, OneForEach, [XwmNext]_xwmVars PROVE OneForEach'
    OBVIOUS
  <2>1. made \in [XSurface -> OrNobody(Serial)]
    BY DEF XwmInv, XwmTyped
  <2>2. CASE made' = made
    BY <2>2 DEF OneForEach
  <2>3. ASSUME NEW s \in XSurface, made' = [made EXCEPT ![s] = Nobody] PROVE OneForEach'
    BY <2>1, <2>3 DEF OneForEach
  <2>4. ASSUME NEW s \in XSurface, NEW w \in XWindow, CreateXSurface(s, w) PROVE OneForEach'
    <3>1. /\ \A t \in XSurfaces : made[t][1] # w
          /\ made' = [made EXCEPT ![s] = <<w, begun[w] + 1>>]
      BY <2>4 DEF CreateXSurface
    <3>2. /\ made'[s][1] = w
          /\ \A t \in XSurface \ {s} : made'[t] = made[t]
      BY <2>1, <3>1
    <3> QED BY <3>1, <3>2 DEF OneForEach, XSurfaces
  <2>5. ASSUME NEW w \in XWindow,
               \/ MapRequest(w) \/ MapNotify(w) \/ SurfaceSerial(w) \/ Unmap(w) \/ DestroyNotify(w)
               \/ \E size \in BOOLEAN : CreateNotify(w, size) \/ ConfigureNotify(w, size)
        PROVE  made' = made
    BY <2>5 DEF MapRequest, MapNotify, SurfaceSerial, Unmap, DestroyNotify, CreateNotify,
                ConfigureNotify, xsurfaceVars
  <2>6. ASSUME NEW s \in XSurface,
               GetXwaylandSurface(s) \/ SetSerial(s) \/ CommitXSurface(s)
               \/ DestroyXwaylandSurface(s)
        PROVE  made' = made
    BY <2>6 DEF GetXwaylandSurface, SetSerial, CommitXSurface, DestroyXwaylandSurface,
                xsurfaceVars
  <2>7. ASSUME NEW s \in XSurface, DestroyXSurface(s) PROVE OneForEach'
    BY <2>3, <2>7 DEF DestroyXSurface
  <2>8. CASE UNCHANGED xwmVars
    BY <2>2, <2>8 DEF xwmVars, xsurfaceVars
  <2> QED BY <2>2, <2>4, <2>5, <2>6, <2>7, <2>8, Zenon DEF XwmNext
<1> QED BY <1>1, <1>2, XwmInvHolds, PTL DEF XwmSpec

\* A surface offers itself for the showing it was made for, or for none.
LEMMA OfferedIs ==
  ASSUME XwmInv, NEW s \in XSurface, Offered[s] # Nobody
  PROVE  /\ xsurf[s] # Nobody /\ xsurf[s].serial = made[s] /\ Offered[s] = made[s]
         /\ made[s] \in Serial /\ made[s] # Nobody
<1>1. xsurf[s] # Nobody /\ Offered[s] = xsurf[s].serial
  BY DEF Offered
<1>2. xsurf[s].serial = made[s]
  BY <1>1 DEF XwmInv, SerialTold
<1>3. made[s] \in OrNobody(Serial)
  BY DEF XwmInv, XwmTyped
<1> QED BY <1>1, <1>2, <1>3 DEF OrNobody

\* What changes in an xwayland_surface besides its serial is not seen.
LEMMA OfferedStays ==
  ASSUME NEW s \in XSurface, xsurf[s] # Nobody, xsurf'[s] # Nobody,
         xsurf'[s].serial = xsurf[s].serial,
         \A t \in XSurface \ {s} : xsurf'[t] = xsurf[t]
  PROVE  Offered' = Offered
<1>1. ASSUME NEW t \in XSurface
      PROVE (IF xsurf'[t] = Nobody THEN Nobody ELSE xsurf'[t].serial)
              = (IF xsurf[t] = Nobody THEN Nobody ELSE xsurf[t].serial)
  BY t = s \/ t # s
<1> QED BY <1>1 DEF Offered

\* A surface that offers itself for the showing a window is just told of is
\* among those the window looks through.
LEMMA OfferIsFound ==
  ASSUME XwmInv, NEW w \in XWindow, w \in viewable, serialOf[w] = Nobody, shown[w] < MaxShown,
         NEW t \in XSurface, Offered[t] = <<w, shown[w] + 1>>
  PROVE  t \in XSurfaces /\ xsurf[t] # Nobody /\ xsurf[t].listed
         /\ xsurf[t].serial = <<w, shown[w] + 1>> /\ Bindable(w, t)
<1> DEFINE n == <<w, shown[w] + 1>>
<1>1. shown[w] \in 0..MaxShown /\ MaxShown \in Nat
  BY XwmAssumption DEF XwmInv, XwmTyped
<1>2. n \in Serial /\ n # Nobody /\ n[1] = w /\ n[2] = shown[w] + 1
  BY <1>1, SerialIs
<1>3. xsurf[t] # Nobody /\ xsurf[t].serial = made[t] /\ made[t] = n /\ made[t] # Nobody
  BY <1>2, OfferedIs
<1>4. windowOf[t] = Nobody
  <2> SUFFICES ASSUME windowOf[t] # Nobody PROVE FALSE
    OBVIOUS
  <2>1. LET v == windowOf[t] IN serialOf[v] = made[t] /\ made[t][1] = v
    BY PairedIsViewable
  <2> QED BY <1>2, <1>3, <2>1
<1>5. xsurf[t].listed
  <2>1. ~xsurf[t].listed => made[t][2] <= shown[made[t][1]]
    BY <1>3, <1>4 DEF XwmInv, SerialTold
  <2> QED BY <1>1, <1>2, <1>3, <2>1
<1>6. Bindable(w, t)
  BY <1>4, SerialIs DEF Bindable, XwmInv, XwmTyped
<1> QED BY <1>3, <1>5, <1>6 DEF XSurfaces

LEMMA SerialIsShow ==
  ASSUME XwmInv, OneForEach, NEW w \in XWindow, SurfaceSerial(w)
  PROVE  \E n \in Serial : Pairing!Show(w, n)
<1> DEFINE n == <<w, shown[w] + 1>>
           found == {s \in XSurfaces : xsurf[s] # Nobody /\ xsurf[s].listed
                                       /\ xsurf[s].serial = n /\ Bindable(w, s)}
<1>1. w \in viewable /\ serialOf[w] = Nobody /\ shown[w] < MaxShown /\ UNCHANGED made
      /\ serialOf' = [serialOf EXCEPT ![w] = n] /\ PairWindow(w, n)
  BY DEF SurfaceSerial, TellsSerial, xsurfaceVars
<1>2. shown[w] \in 0..MaxShown /\ MaxShown \in Nat
      /\ xsurf \in [XSurface -> OrNobody(XSurf)] /\ windowOf \in [XSurface -> OrNobody(XWindow)]
  BY XwmAssumption DEF XwmInv, XwmTyped
<1>3. n \in Serial /\ n # Nobody
  BY <1>1, <1>2, SerialIs
<1>4. surfaceOf[w] = Nobody
  BY <1>1 DEF XwmInv, WindowWaits
<1>5. \A t \in XSurface : Offered[t] = n => t \in found
  BY <1>1, OfferIsFound
<1>6. CASE found = {} /\ UNCHANGED <<windowOf, xsurf>>
  <2>1. windowOf' = [t \in XSurface |-> IF Offered[t] = n THEN w ELSE windowOf[t]]
    BY <1>2, <1>5, <1>6
  <2>2. Offered' = Offered
    BY <1>6 DEF Offered
  <2> HIDE DEF n
  <2> QED BY <1>1, <1>3, <2>1, <2>2 DEF Pairing!Show
<1>7. ASSUME NEW s \in found, Bind(w, s), xsurf' = [xsurf EXCEPT ![s].listed = FALSE]
      PROVE  \E m \in Serial : Pairing!Show(w, m)
  <2>1. s \in XSurface /\ xsurf[s] # Nobody /\ xsurf[s].serial = n /\ made[s] # Nobody
    BY DEF XSurfaces
  <2>2. Offered[s] = n /\ made[s] = n
    BY <1>3, <2>1, OfferedIs DEF Offered
  <2>3. \A t \in XSurface : Offered[t] = n => t = s
    BY <1>3, <2>1, <2>2, OfferedIs DEF OneForEach
  <2>4. windowOf' = [windowOf EXCEPT ![s] = w]
    BY <1>7 DEF Bind
  <2>5. windowOf' = [t \in XSurface |-> IF Offered[t] = n THEN w ELSE windowOf[t]]
    BY <1>2, <2>1, <2>2, <2>3, <2>4
  <2>6. xsurf[s] \in XSurf
    BY <1>2, <2>1 DEF OrNobody
  <2>7. xsurf'[s] = [xsurf[s] EXCEPT !.listed = FALSE]
        /\ \A t \in XSurface \ {s} : xsurf'[t] = xsurf[t]
    BY <1>2, <1>7, <2>1
  <2>8. xsurf'[s] \in XSurf /\ xsurf'[s].serial = xsurf[s].serial
    BY <2>6, <2>7 DEF XSurf
  <2>9. Offered' = Offered
    BY <2>1, <2>7, <2>8, OfferedStays, SerialIs
  <2> HIDE DEF n
  <2> QED BY <1>1, <1>3, <2>5, <2>9 DEF Pairing!Show
<1>8. \/ found = {} /\ UNCHANGED <<windowOf, xsurf>>
      \/ \E s \in found : Bind(w, s) /\ xsurf' = [xsurf EXCEPT ![s].listed = FALSE]
  BY <1>1, <1>4, Zenon DEF PairWindow
<1> HIDE DEF found, n
<1>9. CASE \E s \in found : Bind(w, s) /\ xsurf' = [xsurf EXCEPT ![s].listed = FALSE]
  BY <1>7, <1>9, Zenon
<1> QED BY <1>6, <1>8, <1>9, Zenon DEF n

\* Of a surface that offers itself for a showing a window was told of, that
\* window is free and found, or the surface is its own already.
LEMMA ToldIsFound ==
  ASSUME XwmInv, OneForEach, NEW s \in XSurface, made[s] # Nobody,
         NEW w \in XWindow, serialOf[w] = made[s]
  PROVE  \/ windowOf[s] = w
         \/ /\ w \in xwins /\ listOf[w] = "unpaired" /\ Bindable(w, s)
            /\ windowOf[s] = Nobody
<1>0. /\ xwins \subseteq XWindow /\ viewable \subseteq xwins /\ mapped \subseteq viewable
      /\ made[s] \in Serial
      /\ surfaceOf \in [XWindow -> OrNobody(XSurface)]
  BY DEF XwmInv, XwmTyped, OrNobody
<1>1. w \in viewable /\ made[s] = <<w, shown[w]>> /\ made[s][1] = w
  BY <1>0 DEF XwmInv, WindowWaits
<1>2. CASE surfaceOf[w] = Nobody
  <2>1. listOf[w] = "unpaired"
    BY <1>2 DEF XwmInv, WindowWaits
  <2>2. windowOf[s] = Nobody
    BY <1>1, <1>2, FreeForEachOther
  <2>3. Bindable(w, s)
    BY <1>0, <2>2, SerialIs DEF Bindable
  <2> QED BY <1>0, <1>1, <2>1, <2>2, <2>3
<1>3. CASE surfaceOf[w] # Nobody
  <2>1. PICK t \in XSurface : surfaceOf[w] = t
    BY <1>0, <1>3 DEF OrNobody
  <2>2. windowOf[t] = w
    BY <2>1, PairsAreMutual
  <2>3. made[t] = made[s]
    BY <2>2, PairedIsViewable, SerialIs
  <2>4. t = s
    BY <2>3 DEF OneForEach
  <2> QED BY <2>2, <2>4
<1> QED BY <1>2, <1>3

LEMMA SetSerialIsOffer ==
  ASSUME XwmInv, OneForEach, NEW s \in XSurface, SetSerial(s)
  PROVE  \E n \in Serial : Pairing!Offer(s, n)
<1> DEFINE n == made[s]
           xs == [xsurf[s] EXCEPT !.serial = n]
           found == {w \in xwins : listOf[w] = "unpaired" /\ serialOf[w] = n /\ Bindable(w, s)}
<1>1. s \in XSurfaces /\ xsurf[s] # Nobody /\ xsurf[s].serial = Nobody
      /\ PairSurface(s, n, xs) /\ UNCHANGED <<serialOf, made>>
  BY DEF SetSerial, xsurfaceVars
<1>2. /\ xsurf \in [XSurface -> OrNobody(XSurf)] /\ windowOf \in [XSurface -> OrNobody(XWindow)]
      /\ n \in OrNobody(Serial) /\ xwins \subseteq XWindow
  BY DEF XwmInv, XwmTyped
<1>3. n \in Serial /\ n # Nobody /\ xsurf[s] \in XSurf
  BY <1>1, <1>2 DEF XSurfaces, OrNobody
<1>4. Offered[s] = Nobody
  BY <1>1 DEF Offered
<1>5. \/ /\ found = {} /\ xsurf' = [xsurf EXCEPT ![s] = xs] /\ windowOf' = windowOf
      \/ \E w \in found : Bind(w, s) /\ xsurf' = [xsurf EXCEPT ![s] = [xs EXCEPT !.listed = FALSE]]
  BY <1>1, Zenon DEF PairSurface
<1>6. \A ys : ys \in {xs, [xs EXCEPT !.listed = FALSE]} => ys # Nobody /\ ys.serial = n
  <2>1. xs \in XSurf /\ xs.serial = n
    BY <1>2, <1>3 DEF XSurf
  <2> HIDE DEF xs
  <2>2. [xs EXCEPT !.listed = FALSE] \in XSurf /\ [xs EXCEPT !.listed = FALSE].serial = n
    BY <2>1 DEF XSurf
  <2> QED BY <2>1, <2>2, SerialIs
<1>7. Offered' = [Offered EXCEPT ![s] = n]
  <2>1. PICK ys \in {xs, [xs EXCEPT !.listed = FALSE]} : xsurf' = [xsurf EXCEPT ![s] = ys]
    BY <1>5, Zenon
  <2>2. ys # Nobody /\ ys.serial = n
    BY <1>6, Zenon
  <2> HIDE DEF xs, n
  <2>3. /\ xsurf'[s] = ys
        /\ \A t \in XSurface \ {s} : xsurf'[t] = xsurf[t]
    BY <1>2, <2>1
  <2>4. \A t \in XSurface :
          (IF xsurf'[t] = Nobody THEN Nobody ELSE xsurf'[t].serial)
            = (IF t = s THEN n ELSE Offered[t])
    BY <2>2, <2>3 DEF Offered
  <2>5. Offered' = [t \in XSurface |-> IF t = s THEN n ELSE Offered[t]]
    BY <2>4 DEF Offered
  <2>6. Offered = [t \in XSurface |-> Offered[t]]
    BY DEF Offered
  <2> QED BY <2>5, <2>6
<1>8. ASSUME NEW w \in found, Bind(w, s)
      PROVE  \E v \in XWindow : serialOf[v] = n /\ windowOf' = [windowOf EXCEPT ![s] = v]
  BY <1>2, <1>8 DEF Bind
<1>9. ASSUME found = {}, NEW w \in XWindow, serialOf[w] = n, windowOf' = windowOf
      PROVE  windowOf' = [windowOf EXCEPT ![s] = w]
  <2>1. windowOf[s] = w
    BY <1>3, <1>9, ToldIsFound
  <2> QED BY <1>2, <1>9, <2>1
<1>10. \/ \E w \in XWindow : serialOf[w] = n /\ windowOf' = [windowOf EXCEPT ![s] = w]
       \/ (\A w \in XWindow : serialOf[w] # n) /\ windowOf' = windowOf
  <2> HIDE DEF found, xs, n
  <2> QED BY <1>5, <1>8, <1>9, Zenon
<1>11. Pairing!Offer(s, n)
  <2> HIDE DEF n
  <2> QED BY <1>1, <1>4, <1>7, <1>10 DEF Pairing!Offer
<1> QED BY <1>3, <1>11

\* The attempt at the first commit finds nothing.
LEMMA CommitFindsNothing ==
  ASSUME XwmInv, NEW s \in XSurface, CommitXSurface(s)
  PROVE  UNCHANGED <<serialOf, Offered, windowOf>>
<1> DEFINE n == xsurf[s].serial
           xs == [xsurf[s] EXCEPT !.listens = FALSE]
           found == {w \in xwins : listOf[w] = "unpaired" /\ serialOf[w] = n /\ Bindable(w, s)}
<1>1. s \in XSurfaces /\ xsurf[s] # Nobody /\ n # Nobody
      /\ PairSurface(s, n, xs) /\ UNCHANGED <<serialOf, made>>
  BY DEF CommitXSurface, xsurfaceVars
<1>2. /\ xsurf \in [XSurface -> OrNobody(XSurf)] /\ xwins \subseteq XWindow
      /\ xsurf[s] \in XSurf
  BY <1>1 DEF XwmInv, XwmTyped, OrNobody
<1>3. ASSUME NEW w \in found PROVE FALSE
  <2>1. w \in XWindow /\ listOf[w] = "unpaired" /\ serialOf[w] = n
    BY <1>2
  <2>2. made[s] = n
    BY <1>1 DEF XwmInv, SerialTold
  <2>3. made[s][1] = w
    BY <1>1, <2>1, <2>2 DEF XwmInv, WindowWaits
  <2>4. surfaceOf[w] # Nobody
    BY <1>1, <2>1, <2>2, <2>3 DEF XwmInv, SerialTold
  <2> QED BY <2>1, <2>4 DEF XwmInv, WindowWaits
<1>4. xsurf' = [xsurf EXCEPT ![s] = xs] /\ windowOf' = windowOf
  <2>1. \/ found = {} /\ xsurf' = [xsurf EXCEPT ![s] = xs] /\ windowOf' = windowOf
        \/ \E w \in found : TRUE
    BY <1>1, Zenon DEF PairSurface
  <2> HIDE DEF found
  <2> QED BY <1>3, <2>1, Zenon
<1>5. xs \in XSurf /\ xs.serial = n
  BY <1>2 DEF XSurf
<1> HIDE DEF xs
<1>6. xsurf'[s] = xs /\ \A t \in XSurface \ {s} : xsurf'[t] = xsurf[t]
  BY <1>2, <1>4
<1>7. Offered' = Offered
  BY <1>1, <1>5, <1>6, OfferedStays, SerialIs
<1> QED BY <1>1, <1>4, <1>7

LEMMA UnmapIsHide ==
  ASSUME XwmInv, NEW w \in XWindow, Unmap(w)
  PROVE  Pairing!Hide(w)
<1>1. /\ windowOf' = [s \in XSurface |->
                        IF s = surfaceOf[w] /\ windowOf[s] = w THEN Nobody ELSE windowOf[s]]
      /\ serialOf' = [serialOf EXCEPT ![w] = Nobody]
      /\ xsurf' = xsurf
  BY DEF Unmap
<1>2. \A s \in XSurface : surfaceOf[w] = s <=> windowOf[s] = w
  BY PairsAreMutual
<1>3. windowOf' = [s \in XSurface |-> IF windowOf[s] = w THEN Nobody ELSE windowOf[s]]
  BY <1>1, <1>2
<1> QED BY <1>1, <1>3 DEF Pairing!Hide, Offered

LEMMA DestroyIsVanish ==
  ASSUME XwmInv, NEW s \in XSurface, DestroyXSurface(s)
  PROVE  Pairing!Vanish(s)
<1>1. /\ xsurf' = [xsurf EXCEPT ![s] = Nobody] /\ windowOf' = [windowOf EXCEPT ![s] = Nobody]
      /\ serialOf' = serialOf
  BY DEF DestroyXSurface, xwindowVars
<1>2. xsurf \in [XSurface -> OrNobody(XSurf)]
  BY DEF XwmInv, XwmTyped
<1>3. Offered' = [Offered EXCEPT ![s] = Nobody]
  BY <1>1, <1>2 DEF Offered
<1> QED BY <1>1, <1>3 DEF Pairing!Vanish

LEMMA RoleGoneIsWithdraw ==
  ASSUME XwmInv, NEW s \in XSurface, DestroyXwaylandSurface(s)
  PROVE  Pairing!Withdraw(s)
<1>1. xsurf' = [xsurf EXCEPT ![s] = Nobody] /\ UNCHANGED <<serialOf, windowOf>>
  BY DEF DestroyXwaylandSurface, xwindowVars
<1>2. xsurf \in [XSurface -> OrNobody(XSurf)]
  BY DEF XwmInv, XwmTyped
<1>3. Offered' = [Offered EXCEPT ![s] = Nobody]
  BY <1>1, <1>2 DEF Offered
<1> QED BY <1>1, <1>3 DEF Pairing!Withdraw

\* The events and requests that neither tell, offer nor part.
LEMMA Unseen ==
  ASSUME XwmInv,
         \/ \E w \in XWindow :
              \/ MapRequest(w) \/ MapNotify(w) \/ DestroyNotify(w)
              \/ \E size \in BOOLEAN : CreateNotify(w, size) \/ ConfigureNotify(w, size)
         \/ \E s \in XSurface :
              \/ \E w \in XWindow : CreateXSurface(s, w)
              \/ GetXwaylandSurface(s)
  PROVE  UNCHANGED <<serialOf, Offered, windowOf>>
<1>t. /\ xwins \subseteq XWindow /\ viewable \subseteq xwins
      /\ serialOf \in [XWindow -> OrNobody(Serial)]
      /\ windowOf \in [XSurface -> OrNobody(XWindow)]
      /\ xsurf \in [XSurface -> OrNobody(XSurf)]
  BY DEF XwmInv, XwmTyped
<1>1. ASSUME NEW w \in XWindow, NEW size \in BOOLEAN, CreateNotify(w, size)
      PROVE  UNCHANGED <<serialOf, xsurf, windowOf>>
  <2>1. w \notin viewable /\ serialOf' = [serialOf EXCEPT ![w] = Nobody]
        /\ UNCHANGED <<xsurf, windowOf>>
    BY <1>1, <1>t DEF CreateNotify
  <2>2. serialOf[w] = Nobody
    BY <2>1 DEF XwmInv, WindowWaits
  <2> QED BY <1>t, <2>1, <2>2
<1>2. ASSUME NEW w \in XWindow, DestroyNotify(w)
      PROVE  UNCHANGED <<serialOf, xsurf, windowOf>>
  <2>1. /\ w \notin viewable /\ UNCHANGED <<serialOf, xsurf>>
        /\ windowOf' = [s \in XSurface |->
                          IF s = surfaceOf[w] /\ windowOf[s] = w THEN Nobody ELSE windowOf[s]]
    BY <1>2 DEF DestroyNotify
  <2>2. surfaceOf[w] = Nobody
    BY <2>1 DEF XwmInv, WindowWaits
  <2>3. \A s \in XSurface : s # surfaceOf[w]
    BY <2>2, SerialIs
  <2>4. windowOf' = windowOf
    BY <1>t, <2>1, <2>3
  <2> QED BY <2>1, <2>4
<1>3. ASSUME NEW w \in XWindow,
             \/ MapRequest(w) \/ MapNotify(w) \/ \E size \in BOOLEAN : ConfigureNotify(w, size)
      PROVE  UNCHANGED <<serialOf, xsurf, windowOf>>
  BY <1>3 DEF MapRequest, MapNotify, ConfigureNotify
<1>4. ASSUME NEW s \in XSurface, NEW w \in XWindow, CreateXSurface(s, w)
      PROVE  UNCHANGED <<serialOf, xsurf, windowOf>>
  BY <1>4 DEF CreateXSurface, xwindowVars
<1>5. ASSUME NEW s \in XSurface, GetXwaylandSurface(s)
      PROVE  UNCHANGED <<serialOf, Offered, windowOf>>
  <2> DEFINE new == [serial |-> Nobody, listed |-> TRUE, listens |-> TRUE]
  <2>1. xsurf[s] = Nobody /\ xsurf' = [xsurf EXCEPT ![s] = new]
        /\ UNCHANGED <<serialOf, windowOf>>
    BY <1>5 DEF GetXwaylandSurface, xwindowVars
  <2>2. new.serial = Nobody
    OBVIOUS
  <2> HIDE DEF new
  <2>3. xsurf'[s] = new /\ \A t \in XSurface \ {s} : xsurf'[t] = xsurf[t]
    BY <1>t, <2>1
  <2>4. \A t \in XSurface :
          (IF xsurf'[t] = Nobody THEN Nobody ELSE xsurf'[t].serial)
            = (IF xsurf[t] = Nobody THEN Nobody ELSE xsurf[t].serial)
    BY <2>1, <2>2, <2>3
  <2>5. Offered' = Offered
    BY <2>4 DEF Offered
  <2> QED BY <2>1, <2>5
<1>6. CASE UNCHANGED <<serialOf, xsurf, windowOf>>
  BY <1>6 DEF Offered
<1> QED BY <1>1, <1>2, <1>3, <1>4, <1>5, <1>6, Zenon

\* Whichever of window and surface the bridge hears of last pairs the two, in
\* that step, and nothing parts them but the window's unmapping and the end of
\* the surface: the lists of the unpaired, the order within them and the
\* attempt at the first commit (xwm_xwayland_surface_committed) make no
\* difference to which window has which surface.
THEOREM PairsAtOnce ==
  ASSUME Prompt
  PROVE  XwmSpec => ImplementsPairing
<1>1. XwmInit => Pairing!Init
  BY DEF XwmInit, Pairing!Init, Offered
<1>2. XwmInv /\ OneForEach /\ [XwmNext]_xwmVars => [Pairing!Next]_(Pairing!vars)
  <2> SUFFICES ASSUME XwmInv, OneForEach, [XwmNext]_xwmVars
               PROVE  [Pairing!Next]_(Pairing!vars)
    OBVIOUS
  <2>1. ASSUME NEW w \in XWindow, SurfaceSerial(w) PROVE Pairing!Next
    BY <2>1, SerialIsShow, Zenon DEF Pairing!Next
  <2>2. ASSUME NEW w \in XWindow, Unmap(w) PROVE Pairing!Next
    BY <2>2, UnmapIsHide, Zenon DEF Pairing!Next
  <2>3. ASSUME NEW s \in XSurface, SetSerial(s) PROVE Pairing!Next
    BY <2>3, SetSerialIsOffer, Zenon DEF Pairing!Next
  <2>4. ASSUME NEW s \in XSurface, DestroyXwaylandSurface(s) PROVE Pairing!Next
    BY <2>4, RoleGoneIsWithdraw, Zenon DEF Pairing!Next
  <2>5. ASSUME NEW s \in XSurface, DestroyXSurface(s) PROVE Pairing!Next
    BY <2>5, DestroyIsVanish, Zenon DEF Pairing!Next
  <2>6. ASSUME NEW s \in XSurface, CommitXSurface(s)
        PROVE  UNCHANGED <<serialOf, Offered, windowOf>>
    BY <2>6, CommitFindsNothing
  <2>7. CASE UNCHANGED xwmVars
    BY <2>7 DEF xwmVars, xwindowVars, Pairing!vars, Offered
  <2>8. CASE UNCHANGED <<serialOf, Offered, windowOf>>
    BY <2>8 DEF Pairing!vars
  <2> QED BY <2>1, <2>2, <2>3, <2>4, <2>5, <2>6, <2>7, <2>8, Unseen, Zenon DEF XwmNext
<1> QED
  BY <1>1, <1>2, XwmInvHolds, OneForEachHolds, PTL DEF XwmSpec, ImplementsPairing, Pairing!Spec

---------------------------------------------------------------------------
(***************************************************************************)
(* XwmFocus: the focus is where it was meant to be.                        *)
(***************************************************************************)

\* A focus that X11 has yet to confirm is for the last window that wants input.
PendingIsWanted == pending_focus \in {NoWindow, wantedInput}

\* What was wanted last takes no input or is what wants input.
WantedAgree == wanted \in Inputless \/ wanted = wantedInput

XfocusInv == XfocusOK /\ PendingIsWanted /\ WantedAgree

\* No X11 window gets a focus that was meant for another, whatever the delay
\* between setting it and hearing of it (xwm_set_focus, handle_focus_in and
\* xwm_window_destroy in xwm.c).
THEOREM FocusIsNotStolen == XfocusSpec => []XfocusOK
<1> USE FocusAssumption DEF XfocusInv, XfocusOK, XfocusTypeOK, NoneSteals, PendingIsWanted, WantedAgree
<1>1. XfocusInit => XfocusInv
  BY DEF XfocusInit
<1>2. XfocusInv /\ [XfocusNext]_focusVars => XfocusInv'
  <2> SUFFICES ASSUME XfocusInv, [XfocusNext]_focusVars PROVE XfocusInv'
    OBVIOUS
  <2>1. ASSUME NEW w \in FocusWindow, CreateFocusWindow(w) PROVE XfocusInv'
    BY <2>1 DEF CreateFocusWindow
  <2>2. ASSUME NEW w \in FocusWindow, SetFocus(w) PROVE XfocusInv'
    BY <2>2 DEF SetFocus
  <2>3. ASSUME NEW w \in FocusWindow, FocusEvent(w) PROVE XfocusInv'
    BY <2>3 DEF FocusEvent
  <2>4. ASSUME NEW w \in FocusWindow, DestroyFocusWindow(w) PROVE XfocusInv'
    BY <2>4 DEF DestroyFocusWindow
  <2>5. CASE ClearFocus
    BY <2>5 DEF ClearFocus
  <2>6. CASE UNCHANGED focusVars
    BY <2>6 DEF focusVars
  <2> QED BY <2>1, <2>2, <2>3, <2>4, <2>5, <2>6 DEF XfocusNext
<1>3. XfocusInv => XfocusOK
  OBVIOUS
<1> QED BY <1>1, <1>2, <1>3, PTL DEF XfocusSpec

---------------------------------------------------------------------------
(***************************************************************************)
(* XwmGeometry: requests and notices settle.                               *)
(***************************************************************************)

\* The newest notice is of the geometry the server has.
NoticesEndAtServer == notices # <<>> => notices[Len(notices)] = server

\* A cache that no skipped request spoiled has the place the server has of an
\* opened window, all of it if that is fullscreen, or if there is no news.
CacheAgrees ==
  ~override /\ ~raced =>
    /\ notices = <<>> => known = server
    /\ opened => known.at = server.at
    /\ opened /\ full => known = server

\* The popup of a mapped window is at the geometry last known, if that is one
\* for a popup.
PopupIsKnown ==
  /\ isMapped /\ popup # NoPlace /\ known.len >= MinPopup => popup = Clamped(known)
  /\ ~opened => popup = NoPlace
  /\ opened /\ override => isMapped \/ unheard

GeometryInv ==
  /\ GeometryTypeOK /\ NoticesEndAtServer /\ CacheAgrees /\ PopupIsKnown /\ PopupSettles

\* The fields of a place
LEMMA PlaceIs ==
  ASSUME NEW p \in Place
  PROVE  p.at \in Int /\ p.len \in Int /\ p.len > 0 /\ p.len \in Nat \ {0}
  BY DEF Place

\* A place is where it is and how long it is.
LEMMA PlacesEqual ==
  ASSUME NEW p \in Place, NEW q \in Place, p.at = q.at, p.len = q.len
  PROVE  p = q
  BY DEF Place

\* What the server makes of a request
LEMMA ServerIs ==
  ASSUME GeometryTypeOK, NoticesEndAtServer, NEW place \in Place, Server(place)
  PROVE  /\ server' = place /\ notices' \in Seq(Place) /\ Len(notices') <= MaxNotices
         /\ NoticesEndAtServer'
         /\ notices' = <<>> => place = server /\ notices = <<>>
<1>1. notices \in Seq(Place) /\ Len(notices) \in Nat /\ Len(notices) <= MaxNotices /\ MaxNotices \in Nat
  BY GeometryAssumption DEF GeometryTypeOK
<1>2. CASE place = server
  BY <1>1, <1>2 DEF Server, NoticesEndAtServer
<1>3. CASE place # server
  <2>1. notices' = Append(notices, place) /\ Len(notices) < MaxNotices
    BY <1>3 DEF Server
  <2>2. Len(Append(notices, place)) = Len(notices) + 1
        /\ Append(notices, place)[Len(notices) + 1] = place
        /\ Append(notices, place) \in Seq(Place) /\ Append(notices, place) # <<>>
    BY <1>1, AppendProperties
  <2> QED BY <1>1, <2>1, <2>2 DEF Server, NoticesEndAtServer
<1> QED BY <1>2, <1>3

\* A configure of the bridge leaves the cache and the server the same place,
\* unless it was skipped.
LEMMA ConfigureIs ==
  ASSUME GeometryInv, NEW place \in Place, Configure(place), ~override, ~override'
  PROVE  /\ known' = place /\ server' \in Place /\ raced' \in BOOLEAN
         /\ notices' \in Seq(Place) /\ Len(notices') <= MaxNotices
         /\ NoticesEndAtServer' /\ (~raced' => known' = server')
<1>1. CASE known = place
  BY <1>1 DEF Configure, GeometryInv, GeometryTypeOK, CacheAgrees, NoticesEndAtServer
<1>2. CASE known # place
  BY <1>2, ServerIs DEF Configure, GeometryInv
<1> QED BY <1>1, <1>2

\* The oldest notice is read.
LEMMA NoticeIs ==
  ASSUME GeometryTypeOK, NoticesEndAtServer, notices # <<>>, notices' = Tail(notices), server' = server
  PROVE  /\ Head(notices) \in Place /\ notices' \in Seq(Place) /\ Len(notices') <= MaxNotices
         /\ NoticesEndAtServer'
         /\ notices' = <<>> => Head(notices) = server
<1>1. notices \in Seq(Place) /\ Len(notices) \in Nat /\ Len(notices) # 0
      /\ Len(notices) <= MaxNotices /\ MaxNotices \in Nat
  BY GeometryAssumption DEF GeometryTypeOK
<1>2. /\ Head(notices) = notices[1] /\ Head(notices) \in Place
      /\ Tail(notices) \in Seq(Place) /\ Len(Tail(notices)) = Len(notices) - 1
      /\ \A i \in 1..(Len(notices) - 1) : Tail(notices)[i] = notices[i + 1]
  <2>1. notices # <<>>
    OBVIOUS
  <2>2. /\ Head(notices) \in Place /\ Tail(notices) \in Seq(Place)
        /\ Len(Tail(notices)) = Len(notices) - 1
        /\ \A i \in 1..Len(Tail(notices)) : Tail(notices)[i] = notices[i + 1]
    BY <1>1, <2>1, HeadTailProperties, Zenon
  <2>3. Head(notices) = notices[1]
    BY <1>1, <2>1
  <2> QED BY <2>2, <2>3
<1>3. ASSUME notices' = <<>> PROVE Len(notices) = 1
  <2>1. Tail(notices) = <<>>
    BY <1>3
  <2>2. Len(Tail(notices)) = 0
    BY <1>2, <2>1, EmptySeq, Zenon
  <2> QED BY <1>1, <1>2, <2>2
<1>4. ASSUME notices' # <<>> PROVE notices'[Len(notices')] = server
  <2>1. Len(Tail(notices)) # 0
    BY <1>2, <1>4
  <2>2. Len(notices) - 1 \in 1..(Len(notices) - 1)
    BY <1>1, <1>2, <2>1
  <2>3. Tail(notices)[Len(notices) - 1] = notices[(Len(notices) - 1) + 1]
    BY <1>2, <2>2
  <2>4. (Len(notices) - 1) + 1 = Len(notices)
    BY <1>1
  <2> QED BY <1>2, <2>3, <2>4 DEF NoticesEndAtServer
<1> QED BY <1>1, <1>2, <1>3, <1>4 DEF NoticesEndAtServer

\* Clamping is done once and for all.
LEMMA ClampedIs ==
  ASSUME NEW p \in Place
  PROVE  Clamped(p) \in Place /\ Clamped(Clamped(p)) = Clamped(p) /\ Clamped(p).len = p.len
  BY DEF Place, Clamped

\* The geometry of a popup is a place, that of the server if it is no dot.
LEMMA RealIs ==
  ASSUME GeometryTypeOK
  PROVE  Real \in Place /\ (server.len >= MinPopup => Real = server)
<1>1. server \in Place /\ known \in Place /\ create_len \in Nat \ {0}
  BY DEF GeometryTypeOK
<1> DEFINE sought == IF server.len >= MinPopup THEN server ELSE [known EXCEPT !.at = server.at]
<1>2. sought \in Place
  BY <1>1 DEF Place
<1>3. server.len >= MinPopup => sought = server
  OBVIOUS
<1>4. Real = IF sought.len < MinPopup /\ create_len >= MinPopup
             THEN [sought EXCEPT !.len = create_len] ELSE sought
  BY DEF Real
<1> HIDE DEF sought
<1>5. sought.len \in Int
  BY <1>2, PlaceIs
<1> QED BY <1>1, <1>2, <1>3, <1>4, <1>5 DEF Place, MinPopup

\* Where a window is opened, with its title bar: on the output.
LEMMA PlacedIs ==
  ASSUME NEW at \in Int, NEW len \in Nat \ {0}
  PROVE  /\ Fitted(len) \in Nat \ {0} /\ Fitted(len) <= OutputLength
         /\ Placed(at, len) \in Int
         /\ Placed(at, len) >= OutputAt
         /\ Placed(at, len) + Fitted(len) <= OutputAt + OutputLength
<1>1. Fitted(len) \in Nat \ {0} /\ Fitted(len) <= OutputLength
  BY GeometryAssumption DEF Fitted
<1> QED BY <1>1, GeometryAssumption DEF Placed

\* Where a window may be wanted is a number.
LEMMA WantedIs ==
  ASSUME NEW at \in Int, NEW len \in Nat \ {0}, NEW p \in Wanted(at, len)
  PROVE  p \in Int
  BY GeometryAssumption, PlacedIs DEF Wanted

\* Opening configures the window to a place on the output.
LEMMA OpenWindowIs ==
  ASSUME GeometryTypeOK, OpenWindow
  PROVE  \E place \in Place, bar \in {0, TitleBar} :
           /\ Configure(place) /\ known' = place
           /\ place.at - bar >= OutputAt
           /\ place.at + place.len <= OutputAt + OutputLength + bar
<1>1. known \in Place /\ known.at \in Int /\ known.len \in Nat \ {0}
  BY PlaceIs DEF GeometryTypeOK
<1>2. PICK at \in Wanted(known.at, known.len), bar \in {0, TitleBar} :
        Configure([at |-> Placed(at, known.len) + bar, len |-> Fitted(known.len)])
  BY DEF OpenWindow
<1> DEFINE p == Placed(at, known.len)
           f == Fitted(known.len)
           place == [at |-> p + bar, len |-> f]
<1>3. p \in Int /\ f \in Nat \ {0} /\ p >= OutputAt /\ p + f <= OutputAt + OutputLength
  BY <1>1, <1>2, WantedIs, PlacedIs
<1>4. bar \in Nat /\ bar <= TitleBar /\ TitleBar \in Nat /\ OutputAt \in Int /\ OutputLength \in Int
  BY GeometryAssumption
<1>5. Configure(place)
  BY <1>2
<1> HIDE DEF p, f
<1>6. place \in Place /\ place.at = p + bar /\ place.len = f
  BY <1>3, <1>4 DEF Place
<1>7. place.at - bar >= OutputAt /\ place.at + place.len <= OutputAt + OutputLength + bar
  BY <1>3, <1>4, <1>6
<1>8. known' = place
  BY <1>5 DEF Configure
<1> HIDE DEF place
<1> QED BY <1>5, <1>6, <1>7, <1>8

\* What is shown: a popup only of what is open, at its geometry if large enough.
LEMMA ShowsIs ==
  ASSUME NEW now \in Place, Shows(now), popup = NoPlace
  PROVE  /\ known' \in Place /\ popup' \in Place \cup {NoPlace} /\ known'.len = now.len
         /\ popup' # NoPlace => opened' /\ popup' = Clamped(known')
         /\ opened' /\ now.len >= MinPopup => popup' = Clamped(now)
<1>1. Clamped(now) \in Place /\ Clamped(Clamped(now)) = Clamped(now) /\ Clamped(now).len = now.len
  BY ClampedIs
<1> QED BY <1>1 DEF Shows

\* Requests and notices cross, and still the last notice is what the server has
\* and the cache is told of it (xwm_window_configure, handle_configure_notify
\* and handle_configure_request in xwm.c).
THEOREM GeometryInvHolds == GeometrySpec => []GeometryInv
<1>1. GeometryInit => GeometryInv
  <2> SUFFICES ASSUME GeometryInit PROVE GeometryInv
    OBVIOUS
  <2>1. server \in Place /\ known = server /\ create_len \in Length
    BY GeometryAssumption DEF GeometryInit, Place
  <2>2. notices \in Seq(Place) /\ Len(notices) = 0 /\ MaxNotices \in Nat
    BY GeometryAssumption DEF GeometryInit
  <2>3. GeometryTypeOK
    <3>1. /\ override \in BOOLEAN /\ unheard \in BOOLEAN /\ (unheard => override) /\ isMapped = FALSE
          /\ opened = FALSE /\ full = FALSE /\ popup = NoPlace /\ raced = FALSE
      BY DEF GeometryInit
    <3>2. create_len \in Nat \ {0}
      BY <2>1, GeometryAssumption
    <3>3. Len(notices) <= MaxNotices
      BY <2>2
    <3> QED BY <2>1, <2>2, <3>1, <3>2, <3>3 DEF GeometryTypeOK
  <2>4. popup = NoPlace /\ notices = <<>> /\ opened = FALSE /\ isMapped = FALSE
    BY DEF GeometryInit
  <2> QED BY <2>1, <2>3, <2>4 DEF GeometryInv, NoticesEndAtServer, CacheAgrees, PopupIsKnown,
             PopupSettles
<1>2. GeometryInv /\ [GeometryNext]_geometryVars => GeometryInv'
  <2> SUFFICES ASSUME GeometryInv, [GeometryNext]_geometryVars PROVE GeometryInv'
    OBVIOUS
  <2>0. /\ GeometryTypeOK /\ NoticesEndAtServer /\ CacheAgrees /\ PopupIsKnown /\ PopupSettles
        /\ known \in Place /\ server \in Place /\ (~override => ~isMapped /\ ~unheard)
    BY DEF GeometryInv, GeometryTypeOK
  \* The steps of a managed window end in a configure.
  <2>a. ASSUME NEW place \in Place, Configure(place), ~override, UNCHANGED shownVars,
               opened' \in BOOLEAN, full' \in BOOLEAN, create_len' = create_len, popup' = popup
        PROVE  GeometryInv'
    <3>1. popup = NoPlace /\ create_len \in Nat \ {0} /\ ~isMapped /\ ~unheard
          /\ ~override' /\ ~isMapped' /\ ~unheard'
      BY <2>0, <2>a DEF GeometryTypeOK, shownVars
    <3>2. /\ known' = place /\ server' \in Place /\ raced' \in BOOLEAN
          /\ notices' \in Seq(Place) /\ Len(notices') <= MaxNotices
          /\ NoticesEndAtServer' /\ (~raced' => known' = server')
      BY <2>a, <3>1, ConfigureIs
    <3>3. GeometryTypeOK'
      BY <2>0, <2>a, <3>1, <3>2 DEF GeometryTypeOK, shownVars, Place
    <3>4. CacheAgrees' /\ PopupIsKnown' /\ PopupSettles'
      BY <2>a, <3>1, <3>2 DEF CacheAgrees, PopupIsKnown, PopupSettles, shownVars
    <3> QED BY <3>2, <3>3, <3>4 DEF GeometryInv
  <2>1. ASSUME NEW len \in Length, ConfigureRequest(len) PROVE GeometryInv'
    <3> DEFINE s == [server EXCEPT !.len = len]
               k == [known EXCEPT !.len = len]
    <3>1. /\ ~override /\ known' = k /\ Server(s)
          /\ UNCHANGED <<override, unheard, isMapped, create_len, opened, full, popup, raced>>
      BY <2>1 DEF ConfigureRequest, shownVars
    <3>2. s \in Place /\ k \in Place /\ s.at = server.at /\ k.at = known.at /\ s.len = k.len
      BY <2>0, GeometryAssumption DEF Place
    <3> HIDE DEF s, k
    <3>3. /\ server' = s /\ notices' \in Seq(Place) /\ Len(notices') <= MaxNotices
          /\ NoticesEndAtServer' /\ (notices' = <<>> => s = server /\ notices = <<>>)
      BY <2>0, <3>1, <3>2, ServerIs
    <3>4. GeometryTypeOK'
      BY <2>0, <3>1, <3>2, <3>3 DEF GeometryTypeOK, Place
    <3>5. popup = NoPlace
      BY <2>0, <3>1 DEF GeometryTypeOK
    <3>6. known.at = server.at => k = s
      BY <3>2, PlacesEqual
    <3>7. CacheAgrees'
      BY <2>0, <3>1, <3>2, <3>3, <3>6 DEF CacheAgrees
    <3>8. PopupIsKnown' /\ PopupSettles'
      BY <2>0, <3>1, <3>5 DEF PopupIsKnown, PopupSettles
    <3> QED BY <3>3, <3>4, <3>7, <3>8 DEF GeometryInv
  <2>2. ASSUME NEW place \in [at : At, len : Length], ConfigureSelf(place) PROVE GeometryInv'
    <3>1. place \in Place
      BY GeometryAssumption DEF Place
    <3>2. /\ override /\ Server(place)
          /\ UNCHANGED <<override, unheard, isMapped, create_len, opened, full, known, popup, raced>>
      BY <2>2 DEF ConfigureSelf, shownVars
    <3>3. /\ server' = place /\ notices' \in Seq(Place) /\ Len(notices') <= MaxNotices
          /\ NoticesEndAtServer' /\ (notices' = <<>> => place = server /\ notices = <<>>)
      BY <2>0, <3>1, <3>2, ServerIs
    <3>4. GeometryTypeOK'
      BY <2>0, <3>1, <3>2, <3>3 DEF GeometryTypeOK, Place
    <3>5. CacheAgrees' /\ PopupIsKnown' /\ PopupSettles'
      BY <2>0, <3>2, <3>3 DEF CacheAgrees, PopupIsKnown, PopupSettles, Clamped
    <3> QED BY <3>3, <3>4, <3>5 DEF GeometryInv
  <2>3. ASSUME NEW place \in [at : At, len : Length], Moved(place) PROVE GeometryInv'
    <3>1. place \in Place
      BY GeometryAssumption DEF Place
    <3> QED BY <2>0, <2>3, <2>a, <3>1 DEF Moved, GeometryTypeOK
  <2>4. CASE ToggleFull
    <3>1. CASE full'
      <4>1. [at |-> OutputAt, len |-> OutputLength] \in Place
        BY GeometryAssumption DEF Place
      <4> QED BY <2>0, <2>4, <2>a, <3>1, <4>1 DEF ToggleFull, GeometryTypeOK
    <3>2. CASE ~full'
      <4>1. full' = FALSE /\ UNCHANGED <<known, server, notices, raced, override, unheard, isMapped,
                                    create_len, opened, popup>>
        BY <2>0, <2>4, <3>2 DEF ToggleFull, GeometryTypeOK, shownVars
      <4> QED BY <2>0, <4>1 DEF GeometryInv, GeometryTypeOK, NoticesEndAtServer, CacheAgrees,
                 PopupIsKnown, PopupSettles, Clamped, Place
    <3> QED BY <3>1, <3>2
  <2>5. CASE OpenWindow
    <3>1. PICK place \in Place : Configure(place)
      BY <2>0, <2>5, OpenWindowIs
    <3>2. /\ ~override /\ opened' = TRUE /\ UNCHANGED <<shownVars, create_len, full, popup>>
      BY <2>5 DEF OpenWindow
    <3>3. full' \in BOOLEAN
      BY <2>0, <3>2 DEF GeometryTypeOK
    <3> QED BY <2>a, <3>1, <3>2, <3>3
  \* The window is shown, as it is or where the pointer is.
  <2>b. ASSUME NEW now \in Place, Shows(now), override, ~opened, override' = override,
               unheard' = unheard, isMapped' \in BOOLEAN, opened' \in BOOLEAN,
               opened' => isMapped' \/ unheard',
               opened' /\ notices' = <<>> /\ server'.len >= MinPopup => now = server',
               UNCHANGED <<create_len, full, raced>>, server' \in Place,
               notices' \in Seq(Place), Len(notices') <= MaxNotices, NoticesEndAtServer'
        PROVE  GeometryInv'
    <3>1. popup = NoPlace
      BY <2>0, <2>b DEF PopupIsKnown
    <3>2. /\ known' \in Place /\ popup' \in Place \cup {NoPlace} /\ known'.len = now.len
          /\ popup' # NoPlace => opened' /\ popup' = Clamped(known')
          /\ opened' /\ now.len >= MinPopup => popup' = Clamped(now)
      BY <2>b, <3>1, ShowsIs
    <3>3. GeometryTypeOK'
      BY <2>0, <2>b, <3>2 DEF GeometryTypeOK, Place
    <3>4. PopupIsKnown'
      BY <2>b, <3>2 DEF PopupIsKnown, Clamped
    <3>5. PopupSettles'
      BY <2>b, <3>2 DEF PopupSettles, Clamped
    <3>6. CacheAgrees'
      BY <2>b DEF CacheAgrees
    <3> QED BY <2>b, <3>3, <3>4, <3>5, <3>6 DEF GeometryInv
  <2>r. Real \in Place /\ (server.len >= MinPopup => Real = server)
    BY <2>0, RealIs
  <2>6. CASE OpenPopup
    <3>1. /\ ~opened /\ (isMapped \/ unheard) /\ opened' = TRUE /\ Shows(Real)
          /\ UNCHANGED <<override, unheard, isMapped, create_len, full, server, notices, raced>>
      BY <2>6 DEF OpenPopup, shownVars
    <3>2. override /\ isMapped' \in BOOLEAN
      BY <2>0, <3>1 DEF GeometryTypeOK
    <3>3. notices' \in Seq(Place) /\ Len(notices') <= MaxNotices /\ NoticesEndAtServer'
      BY <2>0, <3>1 DEF GeometryTypeOK, NoticesEndAtServer
    <3> QED BY <2>0, <2>b, <2>r, <3>1, <3>2, <3>3
  <2>11. CASE MapPopup
    <3>1. /\ override /\ ~unheard /\ ~isMapped /\ isMapped' = TRUE
          /\ UNCHANGED <<override, unheard, create_len, opened, full, raced>>
      BY <2>11 DEF MapPopup
    <3>2. ~opened /\ ~opened' /\ isMapped' \in BOOLEAN /\ opened' \in BOOLEAN
      BY <2>0, <3>1 DEF GeometryTypeOK, PopupIsKnown
    <3>3. CASE Shows(Real) /\ UNCHANGED <<server, notices>>
      <4>1. notices' \in Seq(Place) /\ Len(notices') <= MaxNotices /\ NoticesEndAtServer'
        BY <2>0, <3>3 DEF GeometryTypeOK, NoticesEndAtServer
      <4> QED BY <2>0, <2>b, <2>r, <3>1, <3>2, <3>3, <4>1
    <3>4. ASSUME NEW pointer \in At, Server([Real EXCEPT !.at = pointer]),
                 Shows([Real EXCEPT !.at = pointer])
          PROVE  GeometryInv'
      <4> DEFINE there == [Real EXCEPT !.at = pointer]
      <4>1. there \in Place /\ Server(there) /\ Shows(there)
        BY <2>r, <3>4, GeometryAssumption DEF Place
      <4> HIDE DEF there
      <4>2. /\ server' = there /\ notices' \in Seq(Place) /\ Len(notices') <= MaxNotices
            /\ NoticesEndAtServer'
        BY <2>0, <4>1, ServerIs
      <4> QED BY <2>b, <3>1, <3>2, <4>1, <4>2
    <3> QED BY <2>11, <3>3, <3>4 DEF MapPopup
  <2>7. CASE Close
    BY <2>0, <2>7 DEF Close, GeometryInv, GeometryTypeOK, NoticesEndAtServer, CacheAgrees,
       PopupIsKnown, PopupSettles, Place
  <2>8. CASE NoticeManaged
    <3>1. /\ ~override /\ notices # <<>>
          /\ known' = Read(Head(notices)) /\ notices' = Tail(notices)
          /\ create_len' = Grown(Head(notices).len)
          /\ UNCHANGED <<override, unheard, isMapped, opened, full, server, popup, raced>>
      BY <2>8 DEF NoticeManaged, shownVars
    <3> DEFINE h == Head(notices)
    <3>2. /\ h \in Place /\ notices' \in Seq(Place) /\ Len(notices') <= MaxNotices
          /\ NoticesEndAtServer' /\ (notices' = <<>> => h = server)
      BY <2>0, <3>1, NoticeIs
    <3>c. create_len' \in Nat \ {0}
      BY <2>0, <3>1, <3>2, PlaceIs DEF Grown, GeometryTypeOK
    <3> HIDE DEF h
    <3>3. known' = IF ~opened THEN h ELSE IF full THEN known ELSE [known EXCEPT !.len = h.len]
      BY <3>1 DEF Read, h
    <3>4. /\ [known EXCEPT !.len = h.len] \in Place /\ [known EXCEPT !.len = h.len].at = known.at
          /\ [known EXCEPT !.len = h.len].len = h.len
      BY <2>0, <3>2 DEF Place
    <3>5. known' \in Place
      BY <2>0, <3>2, <3>3, <3>4
    <3>6. GeometryTypeOK'
      BY <2>0, <3>1, <3>2, <3>c, <3>5 DEF GeometryTypeOK, Place
    <3>7. CacheAgrees'
      <4>1. known.at = server.at /\ h = server => [known EXCEPT !.len = h.len] = server
        BY <2>0, <3>4, PlacesEqual
      <4> QED BY <2>0, <3>1, <3>2, <3>3, <3>4, <4>1 DEF CacheAgrees
    <3>8. PopupIsKnown' /\ PopupSettles'
      BY <2>0, <3>1 DEF PopupIsKnown, PopupSettles
    <3> QED BY <3>2, <3>6, <3>7, <3>8 DEF GeometryInv
  <2>9. CASE NoticePopup
    <3> DEFINE now == [at |-> server.at, len |-> Head(notices).len]
    <3>1. /\ override /\ notices # <<>> /\ notices' = Tail(notices) /\ Followed(now)
          /\ create_len' = Grown(Head(notices).len)
          /\ UNCHANGED <<override, unheard, isMapped, opened, full, server, raced>>
      BY <2>9 DEF NoticePopup, shownVars
    <3>2. /\ Head(notices) \in Place /\ notices' \in Seq(Place) /\ Len(notices') <= MaxNotices
          /\ NoticesEndAtServer' /\ (notices' = <<>> => Head(notices) = server)
      BY <2>0, <3>1, NoticeIs
    <3>c. create_len' \in Nat \ {0}
      BY <2>0, <3>1, <3>2, PlaceIs DEF Grown, GeometryTypeOK
    <3>3. now \in Place /\ (notices' = <<>> => now = server)
      <4>1. now \in Place /\ now.at = server.at /\ now.len = Head(notices).len
        BY <2>0, <3>2 DEF Place
      <4> QED BY <2>0, <3>2, <4>1, PlacesEqual
    <3> HIDE DEF now
    <3>4. now.len \in Int /\ Clamped(now) \in Place /\ Clamped(Clamped(now)) = Clamped(now)
          /\ Clamped(now).len = now.len
      BY <3>3, PlaceIs, ClampedIs
    <3>5. CASE opened /\ isMapped /\ now.len >= MinPopup /\ (popup = NoPlace \/ now # known)
      <4>1. known' = Clamped(now) /\ popup' = Clamped(now)
        BY <3>1, <3>5 DEF Followed
      <4>2. GeometryTypeOK'
        BY <2>0, <3>1, <3>2, <3>c, <3>4, <3>5, <4>1 DEF GeometryTypeOK, Place
      <4>3. CacheAgrees' /\ PopupIsKnown' /\ PopupSettles'
        BY <2>0, <3>1, <3>3, <3>4, <3>5, <4>1 DEF CacheAgrees, PopupIsKnown, PopupSettles, Clamped
      <4> QED BY <3>2, <4>2, <4>3 DEF GeometryInv
    <3>6. CASE ~(opened /\ isMapped /\ now.len >= MinPopup /\ (popup = NoPlace \/ now # known))
      <4>1. known' = now /\ popup' = popup
        BY <3>1, <3>6 DEF Followed
      <4>2. GeometryTypeOK'
        BY <2>0, <3>1, <3>2, <3>c, <3>3, <4>1 DEF GeometryTypeOK, Place
      <4>3. PopupIsKnown'
        BY <2>0, <3>1, <3>6, <4>1 DEF PopupIsKnown, Clamped
      <4>4. PopupSettles'
        BY <2>0, <3>1, <3>3, <3>6, <4>1 DEF PopupSettles, PopupIsKnown, Clamped
      <4>5. CacheAgrees'
        BY <3>1 DEF CacheAgrees
      <4> QED BY <3>2, <4>2, <4>3, <4>4, <4>5 DEF GeometryInv
    <3> QED BY <3>5, <3>6
  <2>10. CASE UNCHANGED geometryVars
    BY <2>0, <2>10 DEF geometryVars, shownVars, GeometryInv, GeometryTypeOK, NoticesEndAtServer, CacheAgrees,
       PopupIsKnown, PopupSettles, Place, Clamped
  <2> QED BY <2>1, <2>2, <2>3, <2>4, <2>5, <2>6, <2>7, <2>8, <2>9, <2>10, <2>11 DEF GeometryNext
<1> QED BY <1>1, <1>2, PTL DEF GeometrySpec

\* When no notice is in flight, the geometry the bridge has of a window is that
\* of the X server, and the popup of a window it was told is mapped is where its
\* window is (handle_configure_notify in xwm.c).
THEOREM GeometrySettles == GeometrySpec => []GeometryOK
<1>1. GeometryInv => GeometryOK
  BY DEF GeometryInv, GeometryOK, CacheAgrees, CacheSettles
<1> QED BY <1>1, GeometryInvHolds, PTL

\* Every window is opened with its upper edge on the output, and hangs below it
\* by its title bar at most (the placement in bridge_create_x11_window).
THEOREM WindowsOpenOnTheOutput == GeometrySpec => OpensOnOutput
<1>1. GeometryInv /\ [GeometryNext]_geometryVars =>
        [~override /\ ~opened /\ opened' =>
           \E bar \in {0, TitleBar} :
             /\ known'.at - bar >= OutputAt
             /\ known'.at + known'.len <= OutputAt + OutputLength + bar]_geometryVars
  <2> SUFFICES ASSUME GeometryInv, GeometryNext, ~override, ~opened, opened'
               PROVE  \E bar \in {0, TitleBar} :
                        /\ known'.at - bar >= OutputAt
                        /\ known'.at + known'.len <= OutputAt + OutputLength + bar
    OBVIOUS
  <2>1. GeometryTypeOK /\ ~isMapped /\ ~unheard
    BY DEF GeometryInv, GeometryTypeOK
  <2>2. OpenWindow
    BY <2>1 DEF GeometryNext, ConfigureRequest, ConfigureSelf, Moved, ToggleFull, OpenPopup,
       MapPopup, Close, NoticeManaged, NoticePopup
  <2> QED BY <2>1, <2>2, OpenWindowIs
<1> QED BY <1>1, GeometryInvHolds, PTL DEF GeometrySpec, OpensOnOutput

---------------------------------------------------------------------------
(***************************************************************************)
(* XwmStates: what a window asked for and what Plexy made of it settle.    *)
(***************************************************************************)

\* While nothing odd has happened, what Plexy has still to answer leads to the
\* mode it has: nothing, that mode, or that mode after leaving fullscreen. A
\* window the flags have fullscreen waits for no other mode.
AnswersLeadToMode ==
  paired /\ ~hasty /\ ~overruled =>
    \/ answers = <<>> /\ mode = Asked(flags) /\ content = mode
    \/ answers = <<mode>> /\ ("fullscreen" \in flags => mode = "fullscreen")
    \/ answers = <<"normal", mode>> /\ "fullscreen" \notin flags

StatesInv == StatesTypeOK /\ AdvertisedIsTrue /\ AnswersLeadToMode

\* The mode asked for is one, and it is fullscreen just when the flag is set.
LEMMA AskedIs ==
  ASSUME NEW set
  PROVE  /\ Asked(set) \in Mode
         /\ Asked(set) = "fullscreen" <=> "fullscreen" \in set
  BY DEF Asked, Mode

\* What a message makes of flags are flags.
LEMMA ChangedIs ==
  ASSUME NEW set \in SUBSET State, NEW news \in SUBSET State,
         NEW action \in {"remove", "add", "toggle"}
  PROVE  Changed(set, action, news) \subseteq State
<1>1. CASE action = "remove"
  BY <1>1 DEF Changed
<1>2. CASE action = "add"
  BY <1>2 DEF Changed
<1>3. CASE action = "toggle"
  BY <1>3 DEF Changed
<1> QED BY <1>1, <1>2, <1>3

\* What an answer makes of flags are flags; if it is not taken for an old one
\* they ask for the mode answered.
LEMMA AnsweredIs ==
  ASSUME NEW set \in SUBSET State, NEW to \in Mode
  PROVE  /\ Answered(set, to) \subseteq State
         /\ ("fullscreen" \in set => to = "fullscreen") =>
              /\ Asked(Answered(set, to)) = to
              /\ "fullscreen" \in Answered(set, to) <=> to = "fullscreen"
  BY DEF Answered, Asked, State, Mode

\* The answers to a request, when none were left: what leads to the mode asked
LEMMA StepsAre ==
  ASSUME NEW to \in Mode, mode \in Mode
  PROVE  /\ Steps(to) \in Seq(Mode)
         /\ \/ Steps(to) = <<>> /\ to = mode
            \/ Steps(to) = <<to>>
            \/ Steps(to) = <<"normal", to>> /\ to = "maximized" /\ mode = "fullscreen"
<1>1. "normal" \in Mode /\ "maximized" \in Mode
  BY DEF Mode
<1>2. <<>> \in Seq(Mode)
  BY EmptySeq
<1>3. <<to>> \in Seq(Mode)
  BY OneIs
<1>4. <<"normal", "maximized">> \in Seq(Mode)
  BY <1>1, TwoIs
<1>5. CASE to = mode
  BY <1>2, <1>5 DEF Steps
<1>6. CASE to # mode /\ mode = "fullscreen" /\ to = "maximized"
  BY <1>4, <1>6 DEF Steps
<1>7. CASE to # mode /\ ~(mode = "fullscreen" /\ to = "maximized")
  BY <1>3, <1>7 DEF Steps
<1> QED BY <1>5, <1>6, <1>7

\* A request adds its answers at the end; when nothing was awaited they are all
\* there is.
LEMMA RequestedIs ==
  ASSUME StatesTypeOK, NEW to \in Mode, Requested(to)
  PROVE  /\ mode' = to /\ answers' \in Seq(Mode) /\ Len(answers') <= MaxAnswers
         /\ answers = <<>> =>
              \/ answers' = <<>> /\ to = mode
              \/ answers' = <<to>>
              \/ answers' = <<"normal", to>> /\ to = "maximized" /\ mode = "fullscreen"
<1>1. mode \in Mode /\ answers \in Seq(Mode)
  BY DEF StatesTypeOK
<1>2. Steps(to) \in Seq(Mode)
  BY <1>1, StepsAre
<1>3. answers \o Steps(to) \in Seq(Mode)
  BY <1>1, <1>2, ConcatProperties, Zenon
<1>4. mode' = to /\ answers' = answers \o Steps(to) /\ Len(answers') <= MaxAnswers
  BY DEF Requested
<1>5. ASSUME answers = <<>> PROVE answers' = Steps(to)
  BY <1>2, <1>4, <1>5, ConcatEmptySeq, Zenon
<1> QED BY <1>1, <1>3, <1>4, <1>5, StepsAre

\* The window manager's flags, what it advertises and the mode in Plexy agree
\* through every message of the client and every answer of Plexy
\* (handle_client_message and handle_map_request in xwm.c, forward_configure in
\* event_forward.c).
THEOREM StatesSettle == StatesSpec => []StatesOK
<1>1. StatesInit => StatesInv
  <2>1. <<>> \in Seq(Mode) /\ Len(<<>>) = 0
    BY EmptySeq
  <2> SUFFICES ASSUME StatesInit PROVE StatesInv
    OBVIOUS
  <2>2. answers \in Seq(Mode) /\ Len(answers) = 0 /\ answers = <<>>
    BY <2>1, Zenon DEF StatesInit
  <2>3. Len(answers) <= MaxAnswers
    BY <2>2, StatesAssumption
  <2>4. StatesTypeOK
    BY <2>2, <2>3 DEF StatesInit, StatesTypeOK, Mode, State
  <2> QED BY <2>4 DEF StatesInit, StatesInv, AdvertisedIsTrue, AnswersLeadToMode
<1>2. StatesInv /\ [StatesNext]_stateVars => StatesInv'
  <2> SUFFICES ASSUME StatesInv, [StatesNext]_stateVars PROVE StatesInv'
    OBVIOUS
  <2>0. StatesTypeOK /\ AdvertisedIsTrue /\ AnswersLeadToMode
    BY DEF StatesInv
  <2>1. ASSUME NEW set \in SUBSET State, MapManaged(set) PROVE StatesInv'
    BY <2>0, <2>1 DEF MapManaged, StatesInv, StatesTypeOK, AdvertisedIsTrue, AnswersLeadToMode
  <2>2. ASSUME Pair PROVE StatesInv'
    <3>1. AnswersLeadToMode'
      <4>1. answers' = <<>>
        BY <2>0, <2>2 DEF Pair, StatesTypeOK
      <4>2. ASSUME ~overruled' PROVE Asked(flags)' = "normal"
        BY <2>2, <4>2 DEF Pair, Asked
      <4> QED BY <2>2, <4>1, <4>2 DEF Pair, AnswersLeadToMode
    <3>2. StatesTypeOK' /\ AdvertisedIsTrue'
      BY <2>0, <2>2 DEF Pair, StatesTypeOK, AdvertisedIsTrue, Mode
    <3> QED BY <3>1, <3>2 DEF StatesInv
  <2>3. ASSUME Unpair PROVE StatesInv'
    <3>1. <<>> \in Seq(Mode) /\ Len(<<>>) = 0
      BY EmptySeq
    <3>2. answers' \in Seq(Mode) /\ Len(answers') = 0 /\ answers' = <<>>
      BY <2>3, <3>1, Zenon DEF Unpair
    <3>3. Len(answers') <= MaxAnswers
      BY <3>2, StatesAssumption
    <3> QED BY <2>0, <2>3, <3>2, <3>3
         DEF Unpair, StatesInv, StatesTypeOK, AdvertisedIsTrue, AnswersLeadToMode
  <2>4. ASSUME ForwardAnswer PROVE StatesInv'
    <3> DEFINE head == Head(answers)
    <3>0. paired /\ answers # <<>> /\ answers' = Tail(answers)
          /\ flags' = Answered(flags, head)
          /\ content' = (IF "fullscreen" \in flags' THEN "fullscreen" ELSE head)
          /\ UNCHANGED <<paired, mode, hasty, overruled>>
      BY <2>4 DEF ForwardAnswer
    <3>1. answers \in Seq(Mode) /\ Len(answers) <= MaxAnswers /\ flags \in SUBSET State
          /\ mode \in Mode
      BY <2>0 DEF StatesTypeOK
    <3>2. head \in Mode /\ head = answers[1] /\ Tail(answers) \in Seq(Mode)
          /\ Len(answers) \in Nat /\ Len(Tail(answers)) = Len(answers) - 1
          /\ (Tail(answers) = <<>> <=> Len(answers) = 1)
          /\ \A i \in 1..(Len(answers) - 1) : Tail(answers)[i] = answers[i + 1]
      <4> HIDE DEF head
      <4> QED BY <3>0, <3>1, TailIs, Zenon DEF head
    <3> HIDE DEF head
    <3>3. Len(answers') <= MaxAnswers
      BY <3>0, <3>1, <3>2, StatesAssumption
    <3>4. flags' \subseteq State
      BY <3>0, <3>1, <3>2, AnsweredIs
    <3>5. content' \in Mode
      BY <3>0, <3>2 DEF Mode
    <3>6. advertised' \subseteq State /\ AdvertisedIsTrue'
      <4>1. advertised' = flags' \/ (/\ advertised' = advertised
                                     /\ "fullscreen" \in flags <=> "fullscreen" \in flags'
                                     /\ {"vert", "horz"} \subseteq flags <=>
                                          {"vert", "horz"} \subseteq flags')
        BY <2>4, Zenon DEF ForwardAnswer
      <4> QED BY <2>0, <3>4, <4>1 DEF AdvertisedIsTrue, StatesTypeOK
    <3>7. AnswersLeadToMode'
      <4> SUFFICES ASSUME ~hasty, ~overruled PROVE AnswersLeadToMode'
        BY <3>0 DEF AnswersLeadToMode
      <4>1. CASE answers = <<mode>> /\ ("fullscreen" \in flags => mode = "fullscreen")
        <5>1. head = mode /\ Tail(answers) = <<>>
          <6>1. Len(answers) = 1 /\ answers[1] = mode
            BY <3>1, <4>1, OneIs
          <6> QED BY <3>2, <6>1, Zenon
        <5>2. /\ Asked(Answered(flags, mode)) = mode
              /\ "fullscreen" \in Answered(flags, mode) <=> mode = "fullscreen"
          BY <3>1, <4>1, AnsweredIs
        <5>3. Asked(flags)' = mode
          BY <3>0, <5>1, <5>2 DEF Asked
        <5> QED BY <3>0, <5>1, <5>2, <5>3 DEF AnswersLeadToMode
      <4>2. CASE answers = <<"normal", mode>> /\ "fullscreen" \notin flags
        <5>1. head = "normal" /\ Tail(answers) = <<mode>>
          <6>1. Len(answers) = 2 /\ answers[1] = "normal" /\ answers[2] = mode
            BY <3>1, <4>2, TwoIs DEF Mode
          <6>2. Len(Tail(answers)) = 1 /\ Tail(answers)[1] = mode
            BY <3>2, <6>1
          <6>3. Tail(answers) = <<mode>>
            BY <3>1, <3>2, <6>2, OnlyOneIs, Zenon
          <6> QED BY <3>2, <6>1, <6>3, Zenon
        <5>2. "fullscreen" \notin flags'
          BY <3>0, <4>2, <5>1 DEF Answered
        <5> QED BY <3>0, <5>1, <5>2 DEF AnswersLeadToMode
      <4> QED BY <2>0, <3>0, <4>1, <4>2 DEF AnswersLeadToMode
    <3> QED BY <2>0, <3>0, <3>2, <3>3, <3>4, <3>5, <3>6, <3>7 DEF StatesInv, StatesTypeOK
  <2>5. ASSUME NEW action \in {"remove", "add", "toggle"}, NEW p \in State, NEW q \in State,
               NetWmState(action, {p, q})
        PROVE  StatesInv'
    <3> DEFINE set == Changed(flags, action, {p, q})
    <3>1. flags' = set /\ advertised' = set /\ paired' = paired
      BY <2>5 DEF NetWmState
    <3>2. set \subseteq State
      BY <2>0, ChangedIs DEF StatesTypeOK
    <3> HIDE DEF set
    <3>3. AdvertisedIsTrue'
      BY <3>1 DEF AdvertisedIsTrue
    <3>4. CASE ~paired
      <4>1. UNCHANGED <<content, mode, answers, hasty, overruled, paired>>
        BY <2>5, <3>4, Zenon DEF NetWmState
      <4> QED BY <2>0, <3>1, <3>2, <3>3, <3>4, <4>1 DEF StatesInv, StatesTypeOK, AnswersLeadToMode
    <3>5. CASE paired
      <4>1. Requested(Asked(set)) /\ content' = Asked(set)
            /\ hasty' = (answers # <<>>) /\ overruled' = FALSE
        BY <2>5, <3>1, <3>5 DEF NetWmState
      <4>2. Asked(set) \in Mode /\ (Asked(set) = "fullscreen" <=> "fullscreen" \in set)
        BY AskedIs
      <4>3. /\ mode' = Asked(set) /\ answers' \in Seq(Mode) /\ Len(answers') <= MaxAnswers
            /\ answers = <<>> =>
                 \/ answers' = <<>>
                 \/ answers' = <<mode'>>
                 \/ answers' = <<"normal", mode'>> /\ mode' = "maximized"
        BY <2>0, <4>1, <4>2, RequestedIs
      <4>4. Asked(flags)' = Asked(set)
        BY <3>1 DEF Asked
      <4>5. AnswersLeadToMode'
        BY <3>1, <4>1, <4>2, <4>3, <4>4 DEF AnswersLeadToMode
      <4>6. hasty' \in BOOLEAN /\ overruled' \in BOOLEAN /\ paired' \in BOOLEAN
        BY <3>1, <3>5, <4>1
      <4> QED BY <3>1, <3>2, <3>3, <3>5, <4>1, <4>2, <4>3, <4>5, <4>6 DEF StatesInv, StatesTypeOK
    <3> QED BY <2>0, <3>4, <3>5 DEF StatesTypeOK
  <2>6. ASSUME NEW to \in Mode, UserSets(to) PROVE StatesInv'
    <3>0. paired /\ mode # to /\ Requested(to)
          /\ overruled' = (overruled \/ "fullscreen" \in flags) /\ hasty' = (hasty \/ answers # <<>>)
          /\ UNCHANGED <<flags, advertised, content, paired>>
      BY <2>6 DEF UserSets
    <3>1. /\ mode' = to /\ answers' \in Seq(Mode) /\ Len(answers') <= MaxAnswers
          /\ answers = <<>> =>
               \/ answers' = <<>> /\ to = mode
               \/ answers' = <<to>>
               \/ answers' = <<"normal", to>>
      BY <2>0, <3>0, RequestedIs
    <3>2. AnswersLeadToMode'
      BY <3>0, <3>1 DEF AnswersLeadToMode
    <3>3. hasty' \in BOOLEAN /\ overruled' \in BOOLEAN
      BY <3>0
    <3> QED BY <2>0, <3>0, <3>1, <3>2, <3>3 DEF StatesInv, StatesTypeOK, AdvertisedIsTrue
  <2>7. CASE UNCHANGED stateVars
    BY <2>0, <2>7 DEF stateVars, StatesInv, StatesTypeOK, AdvertisedIsTrue, AnswersLeadToMode, Asked
  <2> QED BY <2>1, <2>2, <2>3, <2>4, <2>5, <2>6, <2>7, Zenon DEF StatesNext
<1>3. StatesInv => StatesOK
  <2> SUFFICES ASSUME StatesInv, paired, answers = <<>>, ~hasty, ~overruled
               PROVE  mode = Asked(flags) /\ content = mode
    BY DEF StatesInv, StatesOK, ModesSettle
  <2>1. mode \in Mode /\ "normal" \in Mode
    BY DEF StatesInv, StatesTypeOK, Mode
  <2>2. <<mode>> # <<>> /\ <<"normal", mode>> # <<>>
    BY <2>1, OneIs, TwoIs
  <2> QED BY <2>2 DEF StatesInv, AnswersLeadToMode
<1> QED BY <1>1, <1>2, <1>3, PTL DEF StatesSpec

---------------------------------------------------------------------------
(***************************************************************************)
(* XwmProperties: titles, types and parents are those the window has.      *)
(***************************************************************************)

Names == Title \cup Legacy \cup {Absent}
Caches == [name : Names, delete : BOOLEAN, type : Type \cup {Absent}, parent : {"parent", Absent}]
PlexyWindows == [popup : BOOLEAN, type : {"popup", "dialog", "normal"}, title : Names, bar : BOOLEAN]

Change == Property \X BOOLEAN

\* The values a property may have in the X server
ValuesOf(p) ==
  CASE p = "_NET_WM_NAME" -> Title \cup {Absent}
    [] p = "WM_NAME" -> Legacy \cup {Absent}
    [] p = "WM_PROTOCOLS" -> {"delete", "other", Absent}
    [] p = "_NET_WM_WINDOW_TYPE" -> Type \cup {Absent}
    [] p = "WM_TRANSIENT_FOR" -> {"parent", Absent}

\* The last event about a property in the queue tells whether it is there.
LastTells ==
  \A p \in Property : \A i \in DOMAIN changes :
    changes[i][1] = p /\ (\A j \in DOMAIN changes : j > i => changes[j][1] # p)
      => (changes[i][2] <=> props[p] = Absent)

PropertiesInv ==
  /\ DOMAIN props = Property /\ props = [p \in Property |-> props[p]]
  /\ \A p \in Property : props[p] \in ValuesOf(p)
  /\ cached \in Caches
  /\ dirty \in BOOLEAN /\ readOnce \in BOOLEAN /\ owner \in BOOLEAN
  /\ changes \in Seq(Change) /\ Len(changes) <= MaxChanges
  /\ plexy # Absent => plexy \in PlexyWindows /\ readOnce
  /\ LastTells /\ CacheIsCurrent /\ PlexyKnowsTheWindow

\* The values of a property are those of its kind.
LEMMA ValuesAre ==
  ASSUME NEW p \in Property
  PROVE  Value[p] \cup {Absent} = ValuesOf(p)
<1>1. Value[p] = (CASE p = "_NET_WM_NAME" -> Title
                    [] p = "WM_NAME" -> Legacy
                    [] p = "WM_PROTOCOLS" -> {"delete", "other"}
                    [] p = "_NET_WM_WINDOW_TYPE" -> Type
                    [] p = "WM_TRANSIENT_FOR" -> {"parent"})
  BY DEF Value
<1>2. CASE p = "_NET_WM_NAME"
  BY <1>1, <1>2 DEF ValuesOf
<1>3. CASE p = "WM_NAME"
  BY <1>1, <1>3 DEF ValuesOf
<1>4. CASE p = "WM_PROTOCOLS"
  BY <1>1, <1>4 DEF ValuesOf
<1>5. CASE p = "_NET_WM_WINDOW_TYPE"
  BY <1>1, <1>5 DEF ValuesOf
<1>6. CASE p = "WM_TRANSIENT_FOR"
  BY <1>1, <1>6 DEF ValuesOf
<1> QED BY <1>2, <1>3, <1>4, <1>5, <1>6 DEF Property

\* The five properties, and what each may be
LEMMA PropsAre ==
  ASSUME \A p \in Property : props[p] \in ValuesOf(p)
  PROVE  /\ props["_NET_WM_NAME"] \in Names /\ props["WM_NAME"] \in Names
         /\ props["_NET_WM_WINDOW_TYPE"] \in Type \cup {Absent}
         /\ props["WM_TRANSIENT_FOR"] \in {"parent", Absent}
<1>1. /\ "_NET_WM_NAME" \in Property /\ "WM_NAME" \in Property
      /\ "_NET_WM_WINDOW_TYPE" \in Property /\ "WM_TRANSIENT_FOR" \in Property
  BY DEF Property
<1>2. props["_NET_WM_NAME"] \in Title \cup {Absent}
  <2>1. ValuesOf("_NET_WM_NAME") = Title \cup {Absent}
    BY DEF ValuesOf
  <2> QED BY <1>1, <2>1
<1>3. props["WM_NAME"] \in Legacy \cup {Absent}
  <2>1. ValuesOf("WM_NAME") = Legacy \cup {Absent}
    BY DEF ValuesOf
  <2> QED BY <1>1, <2>1
<1>4. props["_NET_WM_WINDOW_TYPE"] \in Type \cup {Absent}
  <2>1. ValuesOf("_NET_WM_WINDOW_TYPE") = Type \cup {Absent}
    BY DEF ValuesOf
  <2> QED BY <1>1, <2>1
<1>5. props["WM_TRANSIENT_FOR"] \in {"parent", Absent}
  <2>1. ValuesOf("WM_TRANSIENT_FOR") = {"parent", Absent}
    BY DEF ValuesOf
  <2> QED BY <1>1, <2>1
<1> QED BY <1>2, <1>3, <1>4, <1>5 DEF Names

\* Whether a cache has the value of each property that is set
Current(c) ==
  /\ c.delete = (props["WM_PROTOCOLS"] = "delete")
  /\ props["_NET_WM_WINDOW_TYPE"] # Absent => c.type = props["_NET_WM_WINDOW_TYPE"]
  /\ props["WM_TRANSIENT_FOR"] # Absent => c.parent = props["WM_TRANSIENT_FOR"]
  /\ props["_NET_WM_NAME"] # Absent /\ props["WM_NAME"] # Absent =>
       c.name \in {props["_NET_WM_NAME"], props["WM_NAME"]}

\* Reading all properties gives the value of each.
LEMMA AllIsCurrent ==
  ASSUME PropertiesInv
  PROVE  All \in Caches /\ Current(All)
<1>1. /\ props["_NET_WM_NAME"] \in Names /\ props["WM_NAME"] \in Names
      /\ props["_NET_WM_WINDOW_TYPE"] \in Type \cup {Absent}
      /\ props["WM_TRANSIENT_FOR"] \in {"parent", Absent}
      /\ cached \in Caches
  BY PropsAre DEF PropertiesInv
<1>2. cached.name \in Names /\ cached.type \in Type \cup {Absent}
      /\ cached.parent \in {"parent", Absent}
  BY <1>1 DEF Caches
<1>3. OrElse(OrElse(props["_NET_WM_NAME"], props["WM_NAME"]), cached.name) \in Names
  BY <1>1, <1>2 DEF OrElse
<1>4. OrElse(props["_NET_WM_WINDOW_TYPE"], cached.type) \in Type \cup {Absent}
  BY <1>1, <1>2 DEF OrElse
<1>5. OrElse(props["WM_TRANSIENT_FOR"], cached.parent) \in {"parent", Absent}
  BY <1>1, <1>2 DEF OrElse
<1>6. All \in Caches
  BY <1>3, <1>4, <1>5 DEF All, Caches
<1>7. /\ All.name = OrElse(OrElse(props["_NET_WM_NAME"], props["WM_NAME"]), cached.name)
      /\ All.delete = (props["WM_PROTOCOLS"] = "delete")
      /\ All.type = OrElse(props["_NET_WM_WINDOW_TYPE"], cached.type)
      /\ All.parent = OrElse(props["WM_TRANSIENT_FOR"], cached.parent)
  BY DEF All
<1> QED BY <1>6, <1>7 DEF Current, OrElse

\* Reading one property changes what is kept of it and nothing else; if it is
\* set, that is its value.
LEMMA OneIsRead ==
  ASSUME PropertiesInv, NEW p \in Property
  PROVE  /\ One(p) \in Caches
         /\ p # "WM_PROTOCOLS" => One(p).delete = cached.delete
         /\ p = "WM_PROTOCOLS" => One(p).delete = (props["WM_PROTOCOLS"] = "delete")
         /\ p # "_NET_WM_WINDOW_TYPE" => One(p).type = cached.type
         /\ p = "_NET_WM_WINDOW_TYPE" /\ props[p] # Absent => One(p).type = props[p]
         /\ p # "WM_TRANSIENT_FOR" => One(p).parent = cached.parent
         /\ p = "WM_TRANSIENT_FOR" /\ props[p] # Absent => One(p).parent = props[p]
         /\ p \notin {"_NET_WM_NAME", "WM_NAME"} => One(p).name = cached.name
         /\ p \in {"_NET_WM_NAME", "WM_NAME"} /\ props[p] # Absent => One(p).name = props[p]
<1>1. /\ props["_NET_WM_NAME"] \in Names /\ props["WM_NAME"] \in Names
      /\ props["_NET_WM_WINDOW_TYPE"] \in Type \cup {Absent}
      /\ props["WM_TRANSIENT_FOR"] \in {"parent", Absent}
      /\ cached \in Caches
  BY PropsAre DEF PropertiesInv
<1>2. CASE p \in {"_NET_WM_NAME", "WM_NAME"}
  <2>1. One(p) = [cached EXCEPT !.name = OrElse(props[p], @)]
    BY <1>2 DEF One
  <2>2. OrElse(props[p], cached.name) \in Names
    BY <1>1, <1>2 DEF OrElse, Caches
  <2> QED BY <1>1, <1>2, <2>1, <2>2 DEF Caches, OrElse
<1>3. CASE p = "WM_PROTOCOLS"
  <2>1. One(p) = [cached EXCEPT !.delete = props[p] = "delete"]
    BY <1>3 DEF One
  <2> QED BY <1>1, <1>3, <2>1 DEF Caches
<1>4. CASE p = "_NET_WM_WINDOW_TYPE"
  <2>1. One(p) = [cached EXCEPT !.type = OrElse(props[p], @)]
    BY <1>4 DEF One
  <2>2. OrElse(props[p], cached.type) \in Type \cup {Absent}
    BY <1>1, <1>4 DEF OrElse, Caches
  <2> QED BY <1>1, <1>4, <2>1, <2>2 DEF Caches, OrElse
<1>5. CASE p = "WM_TRANSIENT_FOR"
  <2>1. One(p) = [cached EXCEPT !.parent = OrElse(props[p], @)]
    BY <1>5 DEF One
  <2>2. OrElse(props[p], cached.parent) \in {"parent", Absent}
    BY <1>1, <1>5 DEF OrElse, Caches
  <2> QED BY <1>1, <1>5, <2>1, <2>2 DEF Caches, OrElse
<1> QED BY <1>2, <1>3, <1>4, <1>5 DEF Property

\* A Plexy window is opened for the kind the cached properties make it.
LEMMA OpenedIs ==
  ASSUME NEW c \in Caches, owner \in BOOLEAN
  PROVE  LET w == [popup |-> IsPopup(c), type |-> PlexyType(c),
                   title |-> IF IsPopup(c) THEN Absent ELSE c.name, bar |-> Decorated(c)]
         IN /\ w \in PlexyWindows
            /\ ~w.popup => w.title = c.name
            /\ w.popup <=> w.type = "popup"
            /\ w.popup <=> ~w.bar
<1>1. IsPopup(c) \in BOOLEAN /\ Decorated(c) \in BOOLEAN
  BY DEF IsPopup, Decorated
<1>2. PlexyType(c) \in {"popup", "dialog", "normal"}
      /\ (PlexyType(c) = "popup" <=> IsPopup(c))
  <2>1. CASE IsPopup(c)
    BY <2>1 DEF PlexyType
  <2>2. CASE ~IsPopup(c)
    BY <2>2 DEF PlexyType
  <2> QED BY <2>1, <2>2
<1>3. c.name \in Names /\ Absent \in Names
  BY DEF Caches, Names
<1>4. Decorated(c) <=> PlexyType(c) # "popup"
  BY <1>2 DEF Decorated
<1> HIDE DEF IsPopup
<1> QED BY <1>1, <1>2, <1>3, <1>4 DEF PlexyWindows

\* What the bridge has cached of a window is what the X server has, of every
\* property with no notice under way, and what Plexy shows follows from it
\* (xwm_window_read_properties, handle_property_notify, bridge_create_x11_window).
THEOREM PropertiesAreKept == PropertiesSpec => []PropertiesOK
<1>1. PropertiesInit => PropertiesInv
  <2> SUFFICES ASSUME PropertiesInit PROVE PropertiesInv
    OBVIOUS
  <2>1. <<>> \in Seq(Change) /\ Len(<<>>) = 0
    BY EmptySeq
  <2>2. changes \in Seq(Change) /\ Len(changes) = 0
    BY <2>1, Zenon DEF PropertiesInit
  <2>3. Len(changes) <= MaxChanges /\ DOMAIN changes = {}
    BY <2>2, LenProperties, PropertyAssumption
  <2>4. \A p \in Property : Absent \in Value[p] \cup {Absent}
    OBVIOUS
  <2>5. \A p \in Property : Absent \in ValuesOf(p)
    BY <2>4, ValuesAre
  <2>6. cached \in Caches
    BY DEF PropertiesInit, Caches, Names
  <2>7. CacheIsCurrent
    BY DEF PropertiesInit, CacheIsCurrent, Settled
  <2> QED BY <2>2, <2>3, <2>5, <2>6, <2>7
        DEF PropertiesInit, PropertiesInv, LastTells, PlexyKnowsTheWindow
<1>2. PropertiesInv /\ [PropertiesNext]_propertyVars => PropertiesInv'
  <2> SUFFICES ASSUME PropertiesInv, [PropertiesNext]_propertyVars PROVE PropertiesInv'
    OBVIOUS
  <2>0. changes \in Seq(Change) /\ Len(changes) <= MaxChanges /\ Len(changes) \in Nat
        /\ DOMAIN changes = 1..Len(changes)
    BY LenProperties, Zenon DEF PropertiesInv
  <2>1. ASSUME NEW p \in Property, NEW v \in Value[p] \cup {Absent}, ChangeProperty(p, v)
        PROVE  PropertiesInv'
    <3> DEFINE e == <<p, v = Absent>>
    <3>0. Len(changes) < MaxChanges /\ props' = [props EXCEPT ![p] = v]
          /\ changes' = Append(changes, e)
          /\ UNCHANGED <<cached, dirty, readOnce, owner, plexy>>
      BY <2>1 DEF ChangeProperty
    <3>1. e \in Change /\ e[1] = p /\ (e[2] <=> v = Absent)
      BY DEF Change
    <3> HIDE DEF e
    <3>2. /\ changes' \in Seq(Change) /\ Len(changes') = Len(changes) + 1
          /\ DOMAIN changes' = 1..(Len(changes) + 1)
          /\ changes'[Len(changes) + 1] = e
          /\ \A i \in 1..Len(changes) : changes'[i] = changes[i]
      BY <2>0, <3>0, <3>1, AppendIs
    <3>3. Len(changes') <= MaxChanges
      BY <2>0, <3>0, <3>2, PropertyAssumption
    <3>4. /\ DOMAIN props' = Property /\ props' = [q \in Property |-> props'[q]]
          /\ props'[p] = v /\ \A q \in Property \ {p} : props'[q] = props[q]
      BY <3>0 DEF PropertiesInv
    <3>5. \A q \in Property : props'[q] \in ValuesOf(q)
      BY <3>4, ValuesAre DEF PropertiesInv
    <3>6. LastTells'
      <4> SUFFICES ASSUME NEW q \in Property, NEW i \in 1..(Len(changes) + 1),
                          changes'[i][1] = q,
                          \A j \in 1..(Len(changes) + 1) : j > i => changes'[j][1] # q
                   PROVE  changes'[i][2] <=> props'[q] = Absent
        BY <3>2, Zenon DEF LastTells
      <4>1. CASE i = Len(changes) + 1
        BY <3>1, <3>2, <3>4, <4>1
      <4>2. CASE i # Len(changes) + 1
        <5>1. i \in 1..Len(changes) /\ Len(changes) + 1 \in 1..(Len(changes) + 1)
              /\ Len(changes) + 1 > i
          BY <2>0, <4>2
        <5>2. q # p
          BY <3>1, <3>2, <5>1
        <5>3. \A j \in 1..Len(changes) : j \in 1..(Len(changes) + 1)
          BY <2>0
        <5>4. \A j \in 1..Len(changes) : j > i => changes[j][1] # q
          BY <3>2, <5>3
        <5>5. changes[i][2] <=> props[q] = Absent
          BY <2>0, <3>2, <5>1, <5>4 DEF PropertiesInv, LastTells
        <5> QED BY <3>2, <3>4, <5>1, <5>2, <5>5
      <4> QED BY <4>1, <4>2
    <3>7. CacheIsCurrent'
      <4>1. ASSUME NEW q \in Property, Settled(q)'
            PROVE  q # p /\ Settled(q) /\ props'[q] = props[q]
        <5>1. \A i \in 1..(Len(changes) + 1) : changes'[i][1] # q
          BY <3>2, <4>1 DEF Settled
        <5>2. Len(changes) + 1 \in 1..(Len(changes) + 1)
              /\ \A j \in 1..Len(changes) : j \in 1..(Len(changes) + 1)
          BY <2>0
        <5>3. q # p
          BY <3>1, <3>2, <5>1, <5>2
        <5>4. \A i \in 1..Len(changes) : changes[i][1] # q
          BY <3>2, <5>1, <5>2
        <5> QED BY <2>0, <3>0, <3>4, <4>1, <5>3, <5>4 DEF Settled
      <4>2. Property = {"_NET_WM_NAME", "WM_NAME", "WM_PROTOCOLS", "_NET_WM_WINDOW_TYPE",
                        "WM_TRANSIENT_FOR"}
        BY DEF Property
      <4>3. CacheIsCurrent
        BY DEF PropertiesInv
      <4> QED BY <3>0, <4>1, <4>2, <4>3 DEF CacheIsCurrent
    <3> QED BY <3>0, <3>2, <3>3, <3>4, <3>5, <3>6, <3>7 DEF PropertiesInv, PlexyKnowsTheWindow
  <2>2. ASSUME PropertyNotify PROVE PropertiesInv'
    <3> DEFINE p == Head(changes)[1]
               gone == Head(changes)[2]
    <3>0. changes # <<>> /\ changes' = Tail(changes) /\ UNCHANGED <<props, readOnce, owner>>
      BY <2>2 DEF PropertyNotify
    <3>1. /\ Len(changes) >= 1 /\ 1 \in 1..Len(changes)
          /\ Head(changes) = changes[1] /\ Head(changes) \in Change
          /\ Tail(changes) \in Seq(Change) /\ Len(Tail(changes)) = Len(changes) - 1
          /\ DOMAIN Tail(changes) = 1..(Len(changes) - 1)
          /\ \A i \in 1..(Len(changes) - 1) : Tail(changes)[i] = changes[i + 1]
      BY <2>0, <3>0, TailIs, Zenon
    <3>2. p \in Property /\ gone \in BOOLEAN
      BY <3>1 DEF Change
    <3>3. Len(changes') <= MaxChanges
      BY <2>0, <3>0, <3>1, PropertyAssumption
    <3>4. IF gone THEN UNCHANGED <<cached, dirty, plexy>>
          ELSE /\ cached' = One(p) /\ dirty' = FALSE
               /\ plexy' = (IF plexy # Absent /\ p \in {"_NET_WM_NAME", "WM_NAME"}
                            THEN [plexy EXCEPT !.title = cached'.name] ELSE plexy)
      BY <2>2, <3>2, Zenon DEF PropertyNotify
    <3>h. changes[1][1] = p /\ changes[1][2] = gone
      BY <3>1
    <3> HIDE DEF p, gone
    <3>5. LastTells'
      <4> SUFFICES ASSUME NEW q \in Property, NEW i \in 1..(Len(changes) - 1),
                          changes'[i][1] = q,
                          \A j \in 1..(Len(changes) - 1) : j > i => changes'[j][1] # q
                   PROVE  changes'[i][2] <=> props'[q] = Absent
        BY <3>0, <3>1, Zenon DEF LastTells
      <4>1. i + 1 \in 1..Len(changes)
        BY <2>0
      <4>2. changes[i + 1] = changes'[i]
        BY <3>0, <3>1
      <4>3. ASSUME NEW j \in 1..Len(changes), j > i + 1 PROVE changes[j][1] # q
        <5>1. j - 1 \in 1..(Len(changes) - 1) /\ j - 1 > i /\ (j - 1) + 1 = j
          BY <2>0, <4>3
        <5>2. changes'[j - 1] = changes[j]
          BY <3>0, <3>1, <5>1, Zenon
        <5> QED BY <5>1, <5>2
      <4>4. changes[i + 1][2] <=> props[q] = Absent
        BY <2>0, <4>1, <4>2, <4>3 DEF PropertiesInv, LastTells
      <4> QED BY <3>0, <4>2, <4>4
    <3>6. ASSUME NEW q \in Property, Settled(q)'
          PROVE  /\ readOnce /\ props[q] # Absent
                 /\ q # p => Settled(q)
                 /\ q = p => ~gone
      <4>1. \A i \in 1..(Len(changes) - 1) : changes'[i][1] # q
        BY <3>0, <3>1, <3>6 DEF Settled
      <4>2. ASSUME NEW j \in 1..Len(changes), j > 1 PROVE changes[j][1] # q
        <5>1. j - 1 \in 1..(Len(changes) - 1) /\ (j - 1) + 1 = j
          BY <2>0, <4>2
        <5>2. changes'[j - 1] = changes[j]
          BY <3>0, <3>1, <5>1, Zenon
        <5> QED BY <4>1, <5>1, <5>2
      <4>3. readOnce /\ props[q] # Absent
        BY <3>0, <3>6 DEF Settled
      <4>4. q # p => Settled(q)
        <5>1. \A j \in 1..Len(changes) : j = 1 \/ j > 1
          BY <2>0
        <5> QED BY <2>0, <3>h, <4>2, <4>3, <5>1 DEF Settled
      <4>5. q = p => ~gone
        BY <2>0, <3>1, <3>h, <4>2, <4>3 DEF PropertiesInv, LastTells
      <4> QED BY <4>3, <4>4, <4>5
    <3>7. CacheIsCurrent /\ PlexyKnowsTheWindow /\ cached \in Caches
          /\ (plexy # Absent => plexy \in PlexyWindows /\ readOnce)
      BY DEF PropertiesInv
    <3>8. Property = {"_NET_WM_NAME", "WM_NAME", "WM_PROTOCOLS", "_NET_WM_WINDOW_TYPE",
                      "WM_TRANSIENT_FOR"}
      BY DEF Property
    <3>9. cached' \in Caches /\ dirty' \in BOOLEAN /\ CacheIsCurrent'
          /\ PlexyKnowsTheWindow' /\ (plexy' # Absent => plexy' \in PlexyWindows /\ readOnce')
      <4>1. CASE gone
        <5>1. UNCHANGED <<cached, dirty, plexy>>
          BY <3>4, <4>1
        <5>2. \A q \in Property : Settled(q)' => Settled(q)
          BY <3>6, <4>1
        <5>3. CacheIsCurrent'
          BY <3>0, <3>7, <3>8, <5>1, <5>2 DEF CacheIsCurrent
        <5>4. dirty \in BOOLEAN
          BY DEF PropertiesInv
        <5> QED BY <3>0, <3>7, <5>1, <5>3, <5>4 DEF PlexyKnowsTheWindow
      <4>2. CASE ~gone
        <5>1. cached' = One(p) /\ dirty' = FALSE
              /\ plexy' = (IF plexy # Absent /\ p \in {"_NET_WM_NAME", "WM_NAME"}
                           THEN [plexy EXCEPT !.title = cached'.name] ELSE plexy)
          BY <3>4, <4>2
        <5>2. /\ cached' \in Caches
              /\ p # "WM_PROTOCOLS" => cached'.delete = cached.delete
              /\ p = "WM_PROTOCOLS" => cached'.delete = (props["WM_PROTOCOLS"] = "delete")
              /\ p # "_NET_WM_WINDOW_TYPE" => cached'.type = cached.type
              /\ p = "_NET_WM_WINDOW_TYPE" /\ props[p] # Absent => cached'.type = props[p]
              /\ p # "WM_TRANSIENT_FOR" => cached'.parent = cached.parent
              /\ p = "WM_TRANSIENT_FOR" /\ props[p] # Absent => cached'.parent = props[p]
              /\ p \notin {"_NET_WM_NAME", "WM_NAME"} => cached'.name = cached.name
              /\ p \in {"_NET_WM_NAME", "WM_NAME"} /\ props[p] # Absent => cached'.name = props[p]
          BY <3>2, <5>1, OneIsRead, Zenon
        <5>3. CacheIsCurrent'
          <6>1. Settled("WM_PROTOCOLS")' => cached'.delete = (props["WM_PROTOCOLS"] = "delete")
            BY <3>6, <3>7, <3>8, <5>2 DEF CacheIsCurrent
          <6>2. Settled("_NET_WM_WINDOW_TYPE")' => cached'.type = props["_NET_WM_WINDOW_TYPE"]
            BY <3>6, <3>7, <3>8, <5>2 DEF CacheIsCurrent
          <6>3. Settled("WM_TRANSIENT_FOR")' => cached'.parent = props["WM_TRANSIENT_FOR"]
            BY <3>6, <3>7, <3>8, <5>2 DEF CacheIsCurrent
          <6>4. Settled("_NET_WM_NAME")' /\ Settled("WM_NAME")' =>
                  cached'.name \in {props["_NET_WM_NAME"], props["WM_NAME"]}
            BY <3>6, <3>7, <3>8, <5>2 DEF CacheIsCurrent
          <6> QED BY <3>0, <6>1, <6>2, <6>3, <6>4 DEF CacheIsCurrent
        <5>4. PlexyKnowsTheWindow' /\ (plexy' # Absent => plexy' \in PlexyWindows /\ readOnce')
          <6>1. CASE plexy = Absent
            BY <5>1, <6>1 DEF PlexyKnowsTheWindow
          <6>2. CASE plexy # Absent /\ p \in {"_NET_WM_NAME", "WM_NAME"}
            <7>1. plexy' = [plexy EXCEPT !.title = cached'.name] /\ plexy \in PlexyWindows /\ readOnce
              BY <3>7, <5>1, <6>2
            <7>2. cached'.name \in Names
              BY <5>2 DEF Caches
            <7>3. /\ plexy' \in PlexyWindows /\ plexy'.title = cached'.name
                  /\ plexy'.popup = plexy.popup /\ plexy'.type = plexy.type
                  /\ plexy'.bar = plexy.bar
              BY <7>1, <7>2 DEF PlexyWindows
            <7> QED BY <3>0, <3>7, <6>2, <7>1, <7>3 DEF PlexyKnowsTheWindow
          <6>3. CASE plexy # Absent /\ p \notin {"_NET_WM_NAME", "WM_NAME"}
            BY <3>0, <3>7, <5>1, <5>2, <6>3 DEF PlexyKnowsTheWindow
          <6> QED BY <6>1, <6>2, <6>3
        <5> QED BY <5>1, <5>2, <5>3, <5>4
      <4> QED BY <3>2, <4>1, <4>2
    <3> QED BY <3>0, <3>1, <3>3, <3>5, <3>9 DEF PropertiesInv
  <2>3. ASSUME MapReads PROVE PropertiesInv'
    <3>0. plexy = Absent /\ cached' = All /\ dirty' = FALSE /\ readOnce' = TRUE
          /\ UNCHANGED <<props, changes, owner, plexy>>
      BY <2>3 DEF MapReads
    <3>1. cached' \in Caches /\ Current(cached')
      BY <3>0, AllIsCurrent
    <3>2. CacheIsCurrent'
      BY <3>0, <3>1 DEF CacheIsCurrent, Current, Settled
    <3> QED BY <3>0, <3>1, <3>2 DEF PropertiesInv, LastTells, PlexyKnowsTheWindow
  <2>4. ASSUME OpenPlexy PROVE PropertiesInv'
    <3> DEFINE c == IF dirty THEN All ELSE cached
    <3>0. readOnce /\ cached' = c /\ dirty' = FALSE
          /\ plexy' = [popup |-> IsPopup(c), type |-> PlexyType(c),
                       title |-> IF IsPopup(c) THEN Absent ELSE c.name, bar |-> Decorated(c)]
          /\ UNCHANGED <<props, changes, readOnce, owner>>
      BY <2>4 DEF OpenPlexy
    <3>1. c \in Caches /\ (Current(c) \/ c = cached)
      BY AllIsCurrent DEF PropertiesInv
    <3> HIDE DEF c
    <3>2. CacheIsCurrent'
      BY <3>0, <3>1 DEF PropertiesInv, CacheIsCurrent, Current, Settled
    <3>3. /\ plexy' \in PlexyWindows
          /\ ~plexy'.popup => plexy'.title = c.name
          /\ plexy'.popup <=> plexy'.type = "popup"
          /\ plexy'.popup <=> ~plexy'.bar
      <4>1. owner \in BOOLEAN
        BY DEF PropertiesInv
      <4> QED BY <3>0, <3>1, <4>1, OpenedIs
    <3> QED BY <3>0, <3>1, <3>2, <3>3 DEF PropertiesInv, LastTells, PlexyKnowsTheWindow
  <2>5. ASSUME ClosePlexy PROVE PropertiesInv'
    BY <2>5 DEF ClosePlexy, PropertiesInv, LastTells, CacheIsCurrent, Settled, PlexyKnowsTheWindow
  <2>6. CASE UNCHANGED propertyVars
    BY <2>6 DEF propertyVars, PropertiesInv, LastTells, CacheIsCurrent, Settled, PlexyKnowsTheWindow
  <2> QED BY <2>1, <2>2, <2>3, <2>4, <2>5, <2>6, Zenon DEF PropertiesNext
<1>3. PropertiesInv => PropertiesOK
  <2> SUFFICES ASSUME PropertiesInv PROVE PropertiesTypeOK
    BY DEF PropertiesOK, PropertiesInv
  <2>1. \A p \in Property : props[p] \in Value[p] \cup {Absent}
    BY ValuesAre DEF PropertiesInv
  <2>2. /\ cached.name \in Title \cup Legacy \cup {Absent} /\ cached.delete \in BOOLEAN
        /\ cached.type \in Type \cup {Absent} /\ cached.parent \in {"parent", Absent}
    BY DEF PropertiesInv, Caches, Names
  <2>3. plexy # Absent => plexy.title \in Title \cup Legacy \cup {Absent} /\ readOnce
    BY DEF PropertiesInv, PlexyWindows, Names
  <2>4. changes \in Seq(Property \X BOOLEAN) /\ Len(changes) <= MaxChanges
    BY DEF PropertiesInv, Change
  <2> QED BY <2>1, <2>2, <2>3, <2>4 DEF PropertiesInv, PropertiesTypeOK
<1> QED BY <1>1, <1>2, <1>3, PTL DEF PropertiesSpec

---------------------------------------------------------------------------
(***************************************************************************)
(* XwmSelections: a copy on one side is heard on the other.                *)
(***************************************************************************)

\* Whether a queue tells of a kind of event about a selection
ToldIn(q, kind, s, n) == \E i \in DOMAIN q : q[i] = Event(kind, s, n)

XEventKind == {"app", "none", "request", "text", "incr", "refused"}

\* Reading an event takes that news and no other out of the queue.
LEMMA ReadIs ==
  ASSUME XselectionTypeOK, NEW kind, NEW s, NEW n, Reads(kind, s, n)
  PROVE  /\ Tail(xevents) \in Seq(XEvent) /\ Len(Tail(xevents)) < MaxEvents
         /\ \A k, r, m : ToldIn(xevents, k, r, m) =>
                        Event(k, r, m) = Event(kind, s, n) \/ ToldIn(Tail(xevents), k, r, m)
<1>1. xevents \in Seq(XEvent) /\ Len(xevents) <= MaxEvents /\ xevents # <<>>
      /\ Head(xevents) = Event(kind, s, n)
  BY DEF XselectionTypeOK, Reads
<1>2. /\ Len(xevents) \in Nat /\ DOMAIN xevents = 1..Len(xevents)
      /\ Head(xevents) = xevents[1]
      /\ Tail(xevents) \in Seq(XEvent) /\ Len(Tail(xevents)) = Len(xevents) - 1
      /\ DOMAIN Tail(xevents) = 1..(Len(xevents) - 1)
      /\ \A i \in 1..(Len(xevents) - 1) : Tail(xevents)[i] = xevents[i + 1]
  BY <1>1, TailIs, Zenon
<1>3. Len(Tail(xevents)) < MaxEvents
  BY <1>1, <1>2, XwmSelectionAssumption
<1>4. ASSUME NEW k, NEW r, NEW m, ToldIn(xevents, k, r, m), Event(k, r, m) # Event(kind, s, n)
      PROVE  ToldIn(Tail(xevents), k, r, m)
  <2>1. PICK i \in 1..Len(xevents) : xevents[i] = Event(k, r, m)
    BY <1>2, <1>4, Zenon DEF ToldIn
  <2>2. i # 1
    BY <1>1, <1>2, <1>4, <2>1, Zenon
  <2>3. i - 1 \in 1..(Len(xevents) - 1) /\ (i - 1) + 1 = i
    BY <1>2, <2>2
  <2>4. Tail(xevents)[i - 1] = Event(k, r, m)
    BY <1>2, <2>1, <2>3, Zenon
  <2> QED BY <1>2, <2>3, <2>4, Zenon DEF ToldIn
<1> QED BY <1>2, <1>3, <1>4, Zenon

\* Sending an event adds that news to the queue.
LEMMA SentIs ==
  ASSUME NEW q \in Seq(XEvent), Len(q) < MaxEvents, NEW kind \in XEventKind, NEW s \in Selection,
         NEW n \in Text
  PROVE  /\ Append(q, Event(kind, s, n)) \in Seq(XEvent)
         /\ Len(Append(q, Event(kind, s, n))) <= MaxEvents
         /\ ToldIn(Append(q, Event(kind, s, n)), kind, s, n)
         /\ \A k, r, m : ToldIn(q, k, r, m) => ToldIn(Append(q, Event(kind, s, n)), k, r, m)
<1> DEFINE e == Event(kind, s, n)
<1>1. e \in XEvent
  BY DEF Event, XEvent, XEventKind
<1> HIDE DEF e
<1>2. /\ Len(q) \in Nat /\ Append(q, e) \in Seq(XEvent) /\ Len(Append(q, e)) = Len(q) + 1
      /\ DOMAIN q = 1..Len(q)
      /\ DOMAIN Append(q, e) = 1..(Len(q) + 1)
      /\ Append(q, e)[Len(q) + 1] = e
      /\ \A i \in 1..Len(q) : Append(q, e)[i] = q[i]
  <2>1. q \in Seq(XEvent)
    OBVIOUS
  <2> QED BY <1>1, <2>1, AppendIs
<1>3. Len(Append(q, e)) <= MaxEvents /\ Len(q) + 1 \in 1..(Len(q) + 1)
      /\ \A i \in 1..Len(q) : i \in 1..(Len(q) + 1)
  BY <1>2, XwmSelectionAssumption
<1>4. ToldIn(Append(q, e), kind, s, n)
  BY <1>2, <1>3, Zenon DEF ToldIn, e
<1>5. ASSUME NEW k, NEW r, NEW m, ToldIn(q, k, r, m) PROVE ToldIn(Append(q, e), k, r, m)
  BY <1>2, <1>3, <1>5, Zenon DEF ToldIn
<1> QED BY <1>2, <1>3, <1>4, <1>5, Zenon DEF e

\* Events are the same only of the same kind, selection and text.
LEMMA EventIs ==
  ASSUME NEW k, NEW r, NEW m, NEW kind, NEW s, NEW n, Event(k, r, m) = Event(kind, s, n)
  PROVE  k = kind /\ r = s /\ m = n
BY DEF Event

XownerType == [Selection -> {"manager", "app", "none"}]

\* A text claims its selection, the lack of one leaves owner and claim alone.
LEMMA TextClaims ==
  ASSUME XselectionTypeOK, NEW s \in Selection, NEW n \in Text, NEW there \in BOOLEAN,
         TextIs(s, n, there)
  PROVE  /\ xowner' \in XownerType /\ xtext' \in [Selection -> Text] /\ xtext'[s] = n
         /\ hasText' \in [Selection -> BOOLEAN] /\ claimed' \in [Selection -> BOOLEAN]
         /\ there => xowner'[s] = "manager"
         /\ ~there => claimed'[s] = claimed[s] /\ xowner'[s] = xowner[s]
         /\ \A r \in Selection \ {s} :
              xowner'[r] = xowner[r] /\ claimed'[r] = claimed[r] /\ xtext'[r] = xtext[r]
<1>1. /\ xowner \in XownerType /\ xtext \in [Selection -> Text]
      /\ hasText \in [Selection -> BOOLEAN] /\ claimed \in [Selection -> BOOLEAN]
  BY DEF XselectionTypeOK, XownerType
<1>2. /\ xtext' = [xtext EXCEPT ![s] = n] /\ hasText' = [hasText EXCEPT ![s] = there]
      /\ xowner' = [xowner EXCEPT ![s] = IF there THEN "manager" ELSE @]
      /\ claimed' = [claimed EXCEPT ![s] = there \/ @]
  BY DEF TextIs
<1>3. hasText' \in [Selection -> BOOLEAN]
  BY <1>1, <1>2
<1>4. claimed' \in [Selection -> BOOLEAN]
  BY <1>1, <1>2
<1>5. xowner' \in XownerType
  BY <1>1, <1>2 DEF XownerType
<1>6. xtext' \in [Selection -> Text] /\ xtext'[s] = n
      /\ \A r \in Selection \ {s} : xtext'[r] = xtext[r]
  BY <1>1, <1>2
<1>7. \A r \in Selection \ {s} : xowner'[r] = xowner[r] /\ claimed'[r] = claimed[r]
  BY <1>1, <1>2 DEF XownerType
<1>8. /\ there => xowner'[s] = "manager"
      /\ ~there => claimed'[s] = claimed[s] /\ xowner'[s] = xowner[s]
  BY <1>1, <1>2 DEF XownerType
<1> QED BY <1>3, <1>4, <1>5, <1>6, <1>7, <1>8

\* Honest and held, of one selection; a text is wanted while it may be had.
Honest(s) ==
  claimed[s] => \/ xowner[s] = "manager"
                \/ \E n \in Text : ToldIn(xevents, "app", s, n) \/ ToldIn(xevents, "none", s, n)
ClaimWanted(s) ==
  \/ /\ xowner[s] = "app" /\ copy[s] = newest[s] /\ newest[s] \in Copy
     /\ ToldIn(xevents, "app", s, newest[s])
  \/ \E kind \in {"text", "incr", "refused"} : ToldIn(xevents, kind, s, newest[s])
  \/ newest[s] \in Copy /\ owed[s][newest[s]] > 0
  \/ incr = [of |-> s, text |-> newest[s]]
Held(s) == xlost[s] \/ xtext[s] = newest[s] \/ ClaimWanted(s)

\* All of it but what the events tell and the transfer brings
SameOf(r) ==
  /\ xowner'[r] = xowner[r] /\ copy'[r] = copy[r] /\ claimed'[r] = claimed[r]
  /\ xtext'[r] = xtext[r] /\ newest'[r] = newest[r] /\ owed'[r] = owed[r]

\* A selection nothing happens to but that news is added or other news is read
LEMMA OthersStay ==
  ASSUME NEW r \in Selection, Honest(r), Held(r), SameOf(r),
         \A k, m : ToldIn(xevents, k, r, m) => ToldIn(xevents', k, r, m),
         xlost[r] => xlost'[r],
         incr = [of |-> r, text |-> newest[r]] => incr' = incr \/ xlost'[r]
  PROVE  Honest(r)' /\ Held(r)'
<1>1. \A k, m : ToldIn(xevents, k, r, m) => ToldIn(xevents, k, r, m)'
  BY DEF ToldIn, Event
<1>2. Honest(r)'
  BY <1>1 DEF Honest, SameOf
<1>3. Held(r)'
  BY <1>1 DEF Held, ClaimWanted, SameOf
<1> QED BY <1>2, <1>3

\* The same where the news that is read is of another selection
LEMMA OtherNews ==
  ASSUME NEW s, NEW kind, NEW n, NEW r \in Selection \ {s},
         \A k, q, m : ToldIn(xevents, k, q, m) =>
                        Event(k, q, m) = Event(kind, s, n) \/ ToldIn(xevents', k, q, m)
  PROVE  \A k, m : ToldIn(xevents, k, r, m) => ToldIn(xevents', k, r, m)
<1>1. \A k, m : Event(k, r, m) # Event(kind, s, n)
  BY EventIs
<1> QED BY <1>1, Zenon

\* The selection whose news of one kind is read
LEMMA SameNews ==
  ASSUME NEW s, NEW kind, NEW n, NEW k, NEW m, ToldIn(xevents, k, s, m), k # kind \/ m # n,
         \A j, q, l : ToldIn(xevents, j, q, l) =>
                        Event(j, q, l) = Event(kind, s, n) \/ ToldIn(xevents', j, q, l)
  PROVE  ToldIn(xevents, k, s, m)'
<1>1. Event(k, s, m) # Event(kind, s, n)
  BY EventIs
<1>2. ToldIn(xevents', k, s, m)
  BY <1>1, Zenon
<1> QED BY <1>2 DEF ToldIn, Event

\* The window manager claims no selection it has lost unless the news is still
\* unread, and has the text set last, or is about to, unless it was lost in one
\* of the recorded ways (handle_xfixes_selection_notify,
\* handle_selection_request, handle_selection_notify and the INCR transfers).
THEOREM NewestCopyIsHeld == XselectionSpec => []XselectionOK
<1> DEFINE IXsel == XselectionTypeOK /\ \A r \in Selection : Honest(r) /\ Held(r)
<1>1. XselectionInit => IXsel
  <2> SUFFICES ASSUME XselectionInit PROVE IXsel
    OBVIOUS
  <2>1. <<>> \in Seq(XEvent) /\ Len(<<>>) = 0
    BY EmptySeq
  <2>2. xevents \in Seq(XEvent) /\ Len(xevents) = 0
    BY <2>1, Zenon DEF XselectionInit
  <2>3. Len(xevents) <= MaxEvents
    BY <2>2, XwmSelectionAssumption
  <2>4. 0 \in Text
    BY XwmSelectionAssumption DEF Text
  <2>5. owed \in [Selection -> [Copy -> Nat]]
    BY DEF XselectionInit
  <2>6. incr \in Transfer
    BY <2>4 DEF XselectionInit, Transfer, NoText
  <2>7. XselectionTypeOK
    BY <2>2, <2>3, <2>4, <2>5, <2>6 DEF XselectionInit, XselectionTypeOK, NoText
  <2> QED BY <2>7 DEF XselectionInit, Honest, Held
<1>2. IXsel /\ [XselectionNext]_xselectionVars => IXsel'
  <2> SUFFICES ASSUME IXsel, [XselectionNext]_xselectionVars PROVE IXsel'
    OBVIOUS
  <2>0. XselectionTypeOK /\ \A r \in Selection : Honest(r) /\ Held(r)
    OBVIOUS
  <2>t. /\ xowner \in XownerType /\ copy \in [Selection -> Text]
        /\ claimed \in [Selection -> BOOLEAN] /\ hasText \in [Selection -> BOOLEAN]
        /\ xtext \in [Selection -> Text] /\ newest \in [Selection -> Text]
        /\ owed \in [Selection -> [Copy -> Nat]] /\ xlost \in [Selection -> BOOLEAN]
        /\ incr \in Transfer /\ texts \in Text
        /\ xevents \in Seq(XEvent) /\ Len(xevents) <= MaxEvents
    BY <2>0 DEF XselectionTypeOK, XownerType
  <2>c. "clipboard" \in Selection /\ NoText \in Text /\ TRUE \in BOOLEAN
    BY XwmSelectionAssumption DEF Selection, NoText, Text
  <2>n. texts < MaxTexts => texts + 1 \in Text /\ texts + 1 \in Copy
    BY <2>t, XwmSelectionAssumption DEF Text, Copy
  <2>l. \A q \in Seq(XEvent) : Len(q) < MaxEvents => Len(q) <= MaxEvents
    BY LenProperties, XwmSelectionAssumption
  <2>1. ASSUME NEW there \in BOOLEAN, WaylandText(there) PROVE IXsel'
    <3>1. /\ TextIs("clipboard", texts + 1, there) /\ UNCHANGED <<xevents, copy, owed, incr>>
          /\ texts + 1 \in Text /\ texts' = texts + 1
          /\ newest' = [newest EXCEPT !["clipboard"] = texts + 1]
          /\ xlost' = [xlost EXCEPT !["clipboard"] = FALSE]
      BY <2>1, <2>n DEF WaylandText, Sets
    <3>2. /\ xowner' \in XownerType /\ xtext' \in [Selection -> Text]
          /\ xtext'["clipboard"] = texts + 1
          /\ hasText' \in [Selection -> BOOLEAN] /\ claimed' \in [Selection -> BOOLEAN]
          /\ there => xowner'["clipboard"] = "manager"
          /\ ~there => claimed'["clipboard"] = claimed["clipboard"]
                       /\ xowner'["clipboard"] = xowner["clipboard"]
          /\ \A r \in Selection \ {"clipboard"} :
               xowner'[r] = xowner[r] /\ claimed'[r] = claimed[r] /\ xtext'[r] = xtext[r]
      BY <2>0, <2>c, <3>1, TextClaims
    <3>3. newest' \in [Selection -> Text] /\ xlost' \in [Selection -> BOOLEAN]
          /\ newest'["clipboard"] = texts + 1
          /\ \A r \in Selection \ {"clipboard"} : newest'[r] = newest[r] /\ xlost'[r] = xlost[r]
      BY <2>t, <2>c, <3>1
    <3>4. XselectionTypeOK'
      BY <2>t, <3>1, <3>2, <3>3 DEF XselectionTypeOK, XownerType
    <3>5. Honest("clipboard")' /\ Held("clipboard")'
      <4>1. Held("clipboard")'
        BY <3>2, <3>3 DEF Held
      <4>2. Honest("clipboard")'
        BY <2>0, <2>c, <3>1, <3>2 DEF Honest, ToldIn
      <4> QED BY <4>1, <4>2
    <3>6. ASSUME NEW r \in Selection \ {"clipboard"} PROVE Honest(r)' /\ Held(r)'
      <4>1. SameOf(r)
        BY <3>1, <3>2, <3>3 DEF SameOf
      <4> QED BY <2>0, <3>1, <3>3, <4>1, OthersStay
    <3> QED BY <3>4, <3>5, <3>6
  <2>2. ASSUME NEW there \in BOOLEAN, IncrEnds(there) PROVE IXsel'
    <3>1. /\ incr' = [of |-> "none", text |-> NoText]
          /\ there => TextIs("clipboard", incr.text, TRUE)
          /\ ~there => UNCHANGED <<hasText, xtext, xowner, claimed>>
          /\ xlost' = [r \in Selection |->
                       IF there /\ r = "clipboard" THEN incr.text # newest[r]
                       ELSE xlost[r] \/ incr = [of |-> r, text |-> newest[r]]]
          /\ UNCHANGED <<copy, xevents, owed, texts, newest>>
      BY <2>2 DEF IncrEnds
    <3>2. incr.text \in Text
      BY <2>t DEF Transfer
    <3>3. /\ xowner' \in XownerType /\ xtext' \in [Selection -> Text]
          /\ hasText' \in [Selection -> BOOLEAN] /\ claimed' \in [Selection -> BOOLEAN]
          /\ there => xowner'["clipboard"] = "manager" /\ xtext'["clipboard"] = incr.text
          /\ \A r \in Selection : ~(there /\ r = "clipboard") =>
               xowner'[r] = xowner[r] /\ claimed'[r] = claimed[r] /\ xtext'[r] = xtext[r]
      <4>1. CASE there
        BY <2>0, <2>c, <3>1, <3>2, <4>1, TextClaims
      <4>2. CASE ~there
        BY <2>t, <3>1, <4>2
      <4> QED BY <4>1, <4>2
    <3>4. xlost' \in [Selection -> BOOLEAN]
      BY <2>t, <3>1
    <3>5. XselectionTypeOK'
      <4>1. incr' \in Transfer
        BY <2>c, <3>1 DEF Transfer
      <4> QED BY <2>t, <3>1, <3>3, <3>4, <4>1 DEF XselectionTypeOK, XownerType
    <3>6. ASSUME NEW r \in Selection PROVE Honest(r)' /\ Held(r)'
      <4>1. CASE there /\ r = "clipboard"
        <5>1. Honest(r)'
          BY <3>3, <4>1 DEF Honest
        <5>2. xlost'[r] = (incr.text # newest[r])
          BY <3>1, <4>1
        <5> QED BY <3>1, <3>3, <4>1, <5>1, <5>2 DEF Held
      <4>2. CASE ~(there /\ r = "clipboard")
        <5>1. SameOf(r)
          BY <3>1, <3>3, <4>2 DEF SameOf
        <5>2. xlost'[r] = (xlost[r] \/ incr = [of |-> r, text |-> newest[r]])
          BY <3>1, <4>2
        <5> QED BY <2>0, <3>1, <5>1, <5>2, OthersStay
      <4> QED BY <4>1, <4>2
    <3> QED BY <3>5, <3>6
  <2>3. ASSUME NEW s \in Selection, AppClaims(s) PROVE IXsel'
    <3>0. /\ Len(xevents) < MaxEvents /\ texts + 1 \in Text /\ texts + 1 \in Copy
          /\ texts' = texts + 1 /\ newest' = [newest EXCEPT ![s] = texts + 1]
          /\ xowner' = [xowner EXCEPT ![s] = "app"] /\ copy' = [copy EXCEPT ![s] = texts + 1]
          /\ xevents' = Append(xevents, Event("app", s, texts + 1))
          /\ xlost' = [xlost EXCEPT ![s] = FALSE]
          /\ UNCHANGED <<claimed, hasText, xtext, incr, owed>>
      BY <2>3, <2>n DEF AppClaims, Room, Sets, xbridgeVars
    <3>1. /\ xevents' \in Seq(XEvent) /\ Len(xevents') <= MaxEvents
          /\ ToldIn(xevents', "app", s, texts + 1)
          /\ \A k, r, m : ToldIn(xevents, k, r, m) => ToldIn(xevents', k, r, m)
      <4>1. "app" \in XEventKind
        BY DEF XEventKind
      <4> QED BY <2>t, <3>0, <4>1, SentIs, Zenon
    <3>2. /\ xowner' \in XownerType /\ copy' \in [Selection -> Text]
          /\ newest' \in [Selection -> Text] /\ xlost' \in [Selection -> BOOLEAN]
          /\ xowner'[s] = "app" /\ copy'[s] = texts + 1 /\ newest'[s] = texts + 1
          /\ \A r \in Selection \ {s} : xowner'[r] = xowner[r] /\ copy'[r] = copy[r]
                                        /\ newest'[r] = newest[r] /\ xlost'[r] = xlost[r]
      BY <2>t, <3>0 DEF XownerType
    <3>3. XselectionTypeOK'
      BY <2>t, <3>0, <3>1, <3>2 DEF XselectionTypeOK, XownerType
    <3>4. Honest(s)' /\ Held(s)'
      <4>2. ToldIn(xevents, "app", s, newest[s])'
        BY <3>0, <3>1, <3>2 DEF ToldIn, Event
      <4>3. Held(s)'
        BY <3>0, <3>2, <4>2 DEF Held, ClaimWanted
      <4>4. Honest(s)'
        BY <3>0, <3>1 DEF Honest, ToldIn, Event
      <4> QED BY <4>3, <4>4
    <3>5. ASSUME NEW r \in Selection \ {s} PROVE Honest(r)' /\ Held(r)'
      <4>1. SameOf(r)
        BY <3>0, <3>2 DEF SameOf
      <4> QED BY <2>0, <3>0, <3>1, <3>2, <4>1, OthersStay
    <3> QED BY <3>3, <3>4, <3>5
  <2>4. ASSUME NEW s \in Selection, AppLeaves(s) PROVE IXsel'
    <3>0. /\ Len(xevents) < MaxEvents /\ xowner' = [xowner EXCEPT ![s] = "none"]
          /\ xevents' = Append(xevents, Event("none", s, NoText))
          /\ xlost' = [xlost EXCEPT ![s] = xtext[s] # newest[s] \/ @]
          /\ UNCHANGED <<copy, claimed, hasText, xtext, incr, owed, texts, newest>>
      BY <2>4 DEF AppLeaves, Room, xbridgeVars
    <3>1. /\ xevents' \in Seq(XEvent) /\ Len(xevents') <= MaxEvents
          /\ ToldIn(xevents', "none", s, NoText)
          /\ \A k, r, m : ToldIn(xevents, k, r, m) => ToldIn(xevents', k, r, m)
      <4>1. "none" \in XEventKind
        BY DEF XEventKind
      <4> QED BY <2>t, <2>c, <3>0, <4>1, SentIs, Zenon
    <3>2. /\ xowner' \in XownerType /\ xlost' \in [Selection -> BOOLEAN]
          /\ xlost'[s] = (xtext[s] # newest[s] \/ xlost[s])
          /\ \A r \in Selection \ {s} : xowner'[r] = xowner[r] /\ xlost'[r] = xlost[r]
      BY <2>t, <3>0 DEF XownerType
    <3>3. XselectionTypeOK'
      BY <2>t, <3>0, <3>1, <3>2 DEF XselectionTypeOK, XownerType
    <3>4. Honest(s)' /\ Held(s)'
      <4>1. ToldIn(xevents, "none", s, NoText)'
        BY <3>1 DEF ToldIn, Event
      <4> QED BY <2>c, <3>0, <3>2, <4>1 DEF Honest, Held
    <3>5. ASSUME NEW r \in Selection \ {s} PROVE Honest(r)' /\ Held(r)'
      <4>1. SameOf(r)
        BY <3>0, <3>2 DEF SameOf
      <4> QED BY <2>0, <3>0, <3>1, <3>2, <4>1, OthersStay
    <3> QED BY <3>3, <3>4, <3>5
  <2>5. ASSUME NEW s \in Selection, NEW n \in Copy, NEW kind \in {"text", "incr", "refused"},
               AppAnswers(s, n, kind)
        PROVE  IXsel'
    <3>0. /\ Len(xevents) < MaxEvents /\ owed[s][n] > 0
          /\ owed' = [owed EXCEPT ![s][n] = @ - 1]
          /\ xevents' = Append(xevents, Event(kind, s, n))
          /\ UNCHANGED <<xowner, copy, claimed, hasText, xtext, incr, texts, newest, xlost>>
      BY <2>5 DEF AppAnswers, Room, xbridgeVars, xhistoryVars
    <3>1. /\ xevents' \in Seq(XEvent) /\ Len(xevents') <= MaxEvents
          /\ ToldIn(xevents', kind, s, n)
          /\ \A k, r, m : ToldIn(xevents, k, r, m) => ToldIn(xevents', k, r, m)
      <4>1. kind \in XEventKind /\ n \in Text
        BY XwmSelectionAssumption DEF XEventKind, Copy, Text
      <4> QED BY <2>t, <3>0, <4>1, SentIs, Zenon
    <3>2. /\ owed' \in [Selection -> [Copy -> Nat]]
          /\ \A m \in Copy \ {n} : owed'[s][m] = owed[s][m]
          /\ \A r \in Selection \ {s} : owed'[r] = owed[r]
      <4> DEFINE left == [owed[s] EXCEPT ![n] = @ - 1]
      <4>1. owed[s] \in [Copy -> Nat] /\ owed[s][n] - 1 \in Nat
        BY <2>t, <3>0
      <4>2. left \in [Copy -> Nat] /\ \A m \in Copy \ {n} : left[m] = owed[s][m]
        BY <4>1
      <4>3. owed' = [owed EXCEPT ![s] = left]
        BY <3>0
      <4> HIDE DEF left
      <4> QED BY <2>t, <4>2, <4>3
    <3>3. XselectionTypeOK'
      BY <2>t, <3>0, <3>1, <3>2 DEF XselectionTypeOK, XownerType
    <3>4. Honest(s)' /\ Held(s)'
      <4>1. \A k, m : ToldIn(xevents, k, s, m) => ToldIn(xevents, k, s, m)'
        BY <3>1 DEF ToldIn, Event
      <4>2. ToldIn(xevents, kind, s, n)'
        BY <3>1 DEF ToldIn, Event
      <4>3. Honest(s)'
        BY <2>0, <3>0, <4>1 DEF Honest
      <4>4. newest' = newest /\ (newest[s] # n \/ ToldIn(xevents, kind, s, newest[s])')
        BY <3>0, <4>2 DEF ToldIn, Event
      <4>5. Held(s)'
        BY <2>0, <3>0, <3>2, <4>1, <4>4 DEF Held, ClaimWanted
      <4> QED BY <4>3, <4>5
    <3>5. ASSUME NEW r \in Selection \ {s} PROVE Honest(r)' /\ Held(r)'
      <4>1. SameOf(r)
        BY <3>0, <3>2 DEF SameOf
      <4> QED BY <2>0, <3>0, <3>1, <4>1, OthersStay
    <3> QED BY <3>3, <3>4, <3>5
  <2>6. ASSUME NEW s \in Selection, NEW n \in Text, OwnerChanged(s, n) PROVE IXsel'
    <3>0. Reads("app", s, n) /\ claimed' = [claimed EXCEPT ![s] = FALSE] /\ Converts(s)
          /\ UNCHANGED <<xowner, copy, hasText, xtext, incr, texts, newest, xlost>>
      BY <2>6 DEF OwnerChanged, xhistoryVars
    <3>1. /\ Tail(xevents) \in Seq(XEvent) /\ Len(Tail(xevents)) < MaxEvents
          /\ \A k, r, m : ToldIn(xevents, k, r, m) =>
               Event(k, r, m) = Event("app", s, n) \/ ToldIn(Tail(xevents), k, r, m)
      BY <2>0, <3>0, ReadIs
    <3>2. /\ xevents' \in Seq(XEvent) /\ Len(xevents') <= MaxEvents
          /\ owed' \in [Selection -> [Copy -> Nat]]
          /\ xowner[s] = "app" /\ copy[s] \in Copy => owed'[s][copy[s]] > 0
          /\ \A m \in Copy : owed[s][m] > 0 => owed'[s][m] > 0
          /\ \A r \in Selection \ {s} : owed'[r] = owed[r]
          /\ \A k, r, m : ToldIn(Tail(xevents), k, r, m) => ToldIn(xevents', k, r, m)
      <4>1. CASE xowner[s] = "app"
        <5> DEFINE more == [owed[s] EXCEPT ![copy[s]] = @ + 1]
        <5>1. owed' = [owed EXCEPT ![s] = more] /\ xevents' = Tail(xevents)
          BY <3>0, <4>1 DEF Converts
        <5>2. owed[s] \in [Copy -> Nat]
          BY <2>t
        <5>3. more \in [Copy -> Nat] /\ (copy[s] \in Copy => more[copy[s]] > 0)
              /\ \A m \in Copy : owed[s][m] > 0 => more[m] > 0
          <6>1. CASE copy[s] \in Copy
            BY <5>2, <6>1
          <6>2. CASE copy[s] \notin Copy
            <7>1. more = owed[s]
              BY <5>2, <6>2
            <7> QED BY <5>2, <6>2, <7>1
          <6> QED BY <6>1, <6>2
        <5> HIDE DEF more
        <5>4. owed' \in [Selection -> [Copy -> Nat]] /\ owed'[s] = more
              /\ \A r \in Selection \ {s} : owed'[r] = owed[r]
          BY <2>t, <5>1, <5>3
        <5> QED BY <2>l, <3>1, <5>1, <5>3, <5>4
      <4>2. CASE xowner[s] = "manager"
        <5>1. xevents' = Append(Tail(xevents), Event("request", s, NoText)) /\ owed' = owed
          BY <3>0, <4>2 DEF Converts
        <5>2. "request" \in XEventKind
          BY DEF XEventKind
        <5>3. /\ xevents' \in Seq(XEvent) /\ Len(xevents') <= MaxEvents
              /\ \A k, r, m : ToldIn(Tail(xevents), k, r, m) => ToldIn(xevents', k, r, m)
          BY <2>c, <3>1, <5>1, <5>2, SentIs, Zenon
        <5> QED BY <2>t, <4>2, <5>1, <5>3
      <4>3. CASE xowner[s] = "none"
        <5>1. xevents' = Append(Tail(xevents), Event("refused", s, NoText)) /\ owed' = owed
          BY <3>0, <4>3 DEF Converts
        <5>2. "refused" \in XEventKind
          BY DEF XEventKind
        <5>3. /\ xevents' \in Seq(XEvent) /\ Len(xevents') <= MaxEvents
              /\ \A k, r, m : ToldIn(Tail(xevents), k, r, m) => ToldIn(xevents', k, r, m)
          BY <2>c, <3>1, <5>1, <5>2, SentIs, Zenon
        <5> QED BY <2>t, <4>3, <5>1, <5>3
      <4> QED BY <3>0, <4>1, <4>2, <4>3 DEF Converts
    <3>3. claimed' \in [Selection -> BOOLEAN] /\ ~claimed'[s]
          /\ \A r \in Selection \ {s} : claimed'[r] = claimed[r]
      BY <2>t, <3>0
    <3>4. XselectionTypeOK'
      BY <2>t, <3>0, <3>2, <3>3 DEF XselectionTypeOK, XownerType
    <3>5. \A k, r, m : ToldIn(xevents, k, r, m) =>
                         Event(k, r, m) = Event("app", s, n) \/ ToldIn(xevents', k, r, m)
      BY <3>1, <3>2, Zenon
    <3>6. Honest(s)' /\ Held(s)'
      <4>1. \A k \in {"text", "incr", "refused"} : \A m :
              ToldIn(xevents, k, s, m) => ToldIn(xevents, k, s, m)'
        BY <3>5, SameNews
      <4>2. CASE xlost[s] \/ xtext[s] = newest[s]
        BY <3>0, <3>3, <4>2 DEF Honest, Held
      <4>3. CASE xowner[s] = "app" /\ copy[s] = newest[s] /\ newest[s] \in Copy
        BY <3>0, <3>2, <3>3, <4>3 DEF Honest, Held, ClaimWanted
      <4>4. CASE newest[s] \in Copy /\ owed[s][newest[s]] > 0
        BY <3>0, <3>2, <3>3, <4>4 DEF Honest, Held, ClaimWanted
      <4>5. CASE incr = [of |-> s, text |-> newest[s]]
        BY <3>0, <3>3, <4>5 DEF Honest, Held, ClaimWanted
      <4>6. CASE \E k \in {"text", "incr", "refused"} : ToldIn(xevents, k, s, newest[s])
        <5>1. newest' = newest
          BY <3>0
        <5>2. \E k \in {"text", "incr", "refused"} : ToldIn(xevents, k, s, newest[s])'
          BY <3>5, <4>6, <5>1, SameNews
        <5> QED BY <3>3, <5>2 DEF Honest, Held, ClaimWanted
      <4> QED BY <2>0, <4>2, <4>3, <4>4, <4>5, <4>6 DEF Held, ClaimWanted
    <3>7. ASSUME NEW r \in Selection \ {s} PROVE Honest(r)' /\ Held(r)'
      <4>1. SameOf(r)
        BY <3>0, <3>2, <3>3 DEF SameOf
      <4>2. \A k, m : ToldIn(xevents, k, r, m) => ToldIn(xevents', k, r, m)
        BY <3>5, OtherNews
      <4> QED BY <2>0, <3>0, <4>1, <4>2, OthersStay
    <3> QED BY <3>4, <3>6, <3>7
  <2>7. ASSUME NEW s \in Selection, OwnerGone(s) PROVE IXsel'
    <3>0. Reads("none", s, NoText) /\ claimed' = [claimed EXCEPT ![s] = FALSE]
          /\ xevents' = Tail(xevents)
          /\ UNCHANGED <<xowner, copy, hasText, xtext, owed, incr, texts, newest, xlost>>
      BY <2>7 DEF OwnerGone, xhistoryVars
    <3>1. /\ xevents' \in Seq(XEvent) /\ Len(xevents') < MaxEvents
          /\ \A k, r, m : ToldIn(xevents, k, r, m) =>
               Event(k, r, m) = Event("none", s, NoText) \/ ToldIn(xevents', k, r, m)
      BY <2>0, <3>0, ReadIs
    <3>2. claimed' \in [Selection -> BOOLEAN] /\ ~claimed'[s]
          /\ \A r \in Selection \ {s} : claimed'[r] = claimed[r]
      BY <2>t, <3>0
    <3>3. XselectionTypeOK'
      BY <2>t, <2>l, <3>0, <3>1, <3>2 DEF XselectionTypeOK, XownerType
    <3>4. Honest(s)' /\ Held(s)'
      <4>1. \A k \in {"app", "text", "incr", "refused"} : \A m :
              ToldIn(xevents, k, s, m) => ToldIn(xevents, k, s, m)'
        BY <3>1, SameNews
      <4>2. \A k \in {"app", "text", "incr", "refused"} :
              ToldIn(xevents, k, s, newest[s]) => ToldIn(xevents, k, s, newest[s])'
        BY <3>0, <3>1, SameNews DEF ToldIn, Event
      <4> QED BY <2>0, <3>0, <3>2, <4>2 DEF Honest, Held, ClaimWanted
    <3>5. ASSUME NEW r \in Selection \ {s} PROVE Honest(r)' /\ Held(r)'
      <4>1. SameOf(r)
        BY <3>0, <3>2 DEF SameOf
      <4>2. \A k, m : ToldIn(xevents, k, r, m) => ToldIn(xevents', k, r, m)
        BY <3>1, OtherNews
      <4> QED BY <2>0, <3>0, <4>1, <4>2, OthersStay
    <3> QED BY <3>3, <3>4, <3>5
  <2>8. ASSUME NEW s \in Selection, SelectionRequest(s) PROVE IXsel'
    <3> DEFINE kind == IF claimed[s] /\ hasText[s] THEN "text" ELSE "refused"
               n == IF claimed[s] /\ hasText[s] THEN xtext[s] ELSE NoText
    <3>0. Reads("request", s, NoText) /\ xevents' = Append(Tail(xevents), Event(kind, s, n))
          /\ UNCHANGED <<xowner, copy, claimed, hasText, xtext, incr, owed, texts, newest, xlost>>
      BY <2>8 DEF SelectionRequest, xbridgeVars, xhistoryVars
    <3>1. /\ Tail(xevents) \in Seq(XEvent) /\ Len(Tail(xevents)) < MaxEvents
          /\ \A k, r, m : ToldIn(xevents, k, r, m) =>
               Event(k, r, m) = Event("request", s, NoText) \/ ToldIn(Tail(xevents), k, r, m)
      BY <2>0, <3>0, ReadIs
    <3>2. kind \in XEventKind /\ n \in Text
      BY <2>t, <2>c DEF XEventKind
    <3> HIDE DEF kind, n
    <3>3. /\ xevents' \in Seq(XEvent) /\ Len(xevents') <= MaxEvents
          /\ \A k, r, m : ToldIn(Tail(xevents), k, r, m) => ToldIn(xevents', k, r, m)
      BY <3>0, <3>1, <3>2, SentIs, Zenon
    <3>4. XselectionTypeOK'
      BY <2>t, <3>0, <3>3 DEF XselectionTypeOK, XownerType
    <3>5. \A k, r, m : ToldIn(xevents, k, r, m) =>
                         Event(k, r, m) = Event("request", s, NoText) \/ ToldIn(xevents', k, r, m)
      BY <3>1, <3>3, Zenon
    <3>6. Honest(s)' /\ Held(s)'
      <4>1. \A k \in {"app", "none"} : \A m :
              ToldIn(xevents, k, s, m) => ToldIn(xevents, k, s, m)'
        BY <3>5, SameNews
      <4>2. \A k \in {"app", "text", "incr", "refused"} :
              ToldIn(xevents, k, s, newest[s]) => ToldIn(xevents, k, s, newest[s])'
        BY <3>0, <3>5, SameNews DEF ToldIn, Event
      <4> QED BY <2>0, <3>0, <4>1, <4>2 DEF Honest, Held, ClaimWanted
    <3>7. ASSUME NEW r \in Selection \ {s} PROVE Honest(r)' /\ Held(r)'
      <4>1. SameOf(r)
        BY <3>0 DEF SameOf
      <4>2. \A k, m : ToldIn(xevents, k, r, m) => ToldIn(xevents', k, r, m)
        BY <3>5, OtherNews
      <4> QED BY <2>0, <3>0, <4>1, <4>2, OthersStay
    <3> QED BY <3>4, <3>6, <3>7
  <2>9. ASSUME NEW s \in Selection, NEW n \in Text, SelectionNotify(s, n) PROVE IXsel'
    <3>0. Reads("text", s, n) /\ xevents' = Tail(xevents) /\ TextIs(s, n, TRUE)
          /\ xlost' = [xlost EXCEPT ![s] = n # newest[s]]
          /\ UNCHANGED <<copy, owed, incr, texts, newest>>
      BY <2>9 DEF SelectionNotify
    <3>1. /\ xevents' \in Seq(XEvent) /\ Len(xevents') < MaxEvents
          /\ \A k, r, m : ToldIn(xevents, k, r, m) =>
               Event(k, r, m) = Event("text", s, n) \/ ToldIn(xevents', k, r, m)
      BY <2>0, <3>0, ReadIs
    <3>2. /\ xowner' \in XownerType /\ xtext' \in [Selection -> Text] /\ xtext'[s] = n
          /\ hasText' \in [Selection -> BOOLEAN] /\ claimed' \in [Selection -> BOOLEAN]
          /\ xowner'[s] = "manager"
          /\ \A r \in Selection \ {s} :
               xowner'[r] = xowner[r] /\ claimed'[r] = claimed[r] /\ xtext'[r] = xtext[r]
      BY <2>0, <2>c, <3>0, TextClaims, Zenon
    <3>3. xlost' \in [Selection -> BOOLEAN] /\ xlost'[s] = (n # newest[s])
          /\ \A r \in Selection \ {s} : xlost'[r] = xlost[r]
      BY <2>t, <3>0
    <3>4. XselectionTypeOK'
      BY <2>t, <2>l, <3>0, <3>1, <3>2, <3>3 DEF XselectionTypeOK, XownerType
    <3>5. Honest(s)' /\ Held(s)'
      BY <3>0, <3>2, <3>3 DEF Honest, Held
    <3>6. ASSUME NEW r \in Selection \ {s} PROVE Honest(r)' /\ Held(r)'
      <4>1. SameOf(r)
        BY <3>0, <3>2 DEF SameOf
      <4>2. \A k, m : ToldIn(xevents, k, r, m) => ToldIn(xevents', k, r, m)
        BY <3>1, OtherNews
      <4> QED BY <2>0, <3>0, <3>3, <4>1, <4>2, OthersStay
    <3> QED BY <3>4, <3>5, <3>6
  <2>10. ASSUME NEW s \in Selection, NEW n \in Text, SelectionRefused(s, n) PROVE IXsel'
    <3>0. Reads("refused", s, n) /\ xevents' = Tail(xevents)
          /\ xlost' = [xlost EXCEPT ![s] = n = newest[s] \/ @]
          /\ UNCHANGED <<xowner, copy, claimed, hasText, xtext, incr, owed, texts, newest>>
      BY <2>10 DEF SelectionRefused, xbridgeVars
    <3>1. /\ xevents' \in Seq(XEvent) /\ Len(xevents') < MaxEvents
          /\ \A k, r, m : ToldIn(xevents, k, r, m) =>
               Event(k, r, m) = Event("refused", s, n) \/ ToldIn(xevents', k, r, m)
      BY <2>0, <3>0, ReadIs
    <3>2. xlost' \in [Selection -> BOOLEAN] /\ xlost'[s] = (n = newest[s] \/ xlost[s])
          /\ \A r \in Selection \ {s} : xlost'[r] = xlost[r]
      BY <2>t, <3>0
    <3>3. XselectionTypeOK'
      BY <2>t, <2>l, <3>0, <3>1, <3>2 DEF XselectionTypeOK, XownerType
    <3>4. Honest(s)' /\ Held(s)'
      <4>1. \A k \in {"app", "none"} : \A m :
              ToldIn(xevents, k, s, m) => ToldIn(xevents, k, s, m)'
        BY <3>1, SameNews
      <4>2. CASE n = newest[s]
        BY <2>0, <3>0, <3>2, <4>1, <4>2 DEF Honest, Held
      <4>3. CASE n # newest[s]
        <5>1. \A k \in {"app", "text", "incr", "refused"} :
                ToldIn(xevents, k, s, newest[s]) => ToldIn(xevents, k, s, newest[s])'
          BY <3>0, <3>1, <4>3, SameNews DEF ToldIn, Event
        <5> QED BY <2>0, <3>0, <3>2, <4>1, <5>1 DEF Honest, Held, ClaimWanted
      <4> QED BY <4>2, <4>3
    <3>5. ASSUME NEW r \in Selection \ {s} PROVE Honest(r)' /\ Held(r)'
      <4>1. SameOf(r)
        BY <3>0, <3>2 DEF SameOf
      <4>2. \A k, m : ToldIn(xevents, k, r, m) => ToldIn(xevents', k, r, m)
        BY <3>1, OtherNews
      <4> QED BY <2>0, <3>0, <3>2, <4>1, <4>2, OthersStay
    <3> QED BY <3>3, <3>4, <3>5
  <2>11. ASSUME NEW s \in Selection, NEW n \in Text, SelectionIncr(s, n) PROVE IXsel'
    <3>0. Reads("incr", s, n) /\ xevents' = Tail(xevents) /\ incr' = [of |-> s, text |-> n]
          /\ xlost' = [r \in Selection |->
                       xlost[r] \/ (incr # incr' /\ incr = [of |-> r, text |-> newest[r]])]
          /\ UNCHANGED <<xowner, copy, claimed, hasText, xtext, owed, texts, newest>>
      BY <2>11 DEF SelectionIncr
    <3>1. /\ xevents' \in Seq(XEvent) /\ Len(xevents') < MaxEvents
          /\ \A k, r, m : ToldIn(xevents, k, r, m) =>
               Event(k, r, m) = Event("incr", s, n) \/ ToldIn(xevents', k, r, m)
      BY <2>0, <3>0, ReadIs
    <3>2. xlost' \in [Selection -> BOOLEAN]
          /\ \A r \in Selection :
               xlost'[r] = (xlost[r] \/ (incr # incr' /\ incr = [of |-> r, text |-> newest[r]]))
      BY <2>t, <3>0
    <3>3. XselectionTypeOK'
      <4>1. incr' \in Transfer
        BY <3>0 DEF Transfer
      <4> QED BY <2>t, <2>l, <3>0, <3>1, <3>2, <4>1 DEF XselectionTypeOK, XownerType
    <3>4. Honest(s)' /\ Held(s)'
      <4>1. \A k \in {"app", "none"} : \A m :
              ToldIn(xevents, k, s, m) => ToldIn(xevents, k, s, m)'
        BY <3>1, SameNews
      <4>2. CASE n = newest[s]
        BY <2>0, <3>0, <4>1, <4>2 DEF Honest, Held, ClaimWanted
      <4>3. CASE n # newest[s]
        <5>1. \A k \in {"app", "text", "incr", "refused"} :
                ToldIn(xevents, k, s, newest[s]) => ToldIn(xevents, k, s, newest[s])'
          BY <3>0, <3>1, <4>3, SameNews DEF ToldIn, Event
        <5>2. incr = [of |-> s, text |-> newest[s]] => xlost'[s]
          <6>1. [of |-> s, text |-> newest[s]].text = newest[s] /\ incr'.text = n
            BY <3>0
          <6> QED BY <3>0, <3>2, <4>3, <6>1
        <5> QED BY <2>0, <3>0, <3>2, <4>1, <5>1, <5>2 DEF Honest, Held, ClaimWanted
      <4> QED BY <4>2, <4>3
    <3>5. ASSUME NEW r \in Selection \ {s} PROVE Honest(r)' /\ Held(r)'
      <4>1. SameOf(r)
        BY <3>0 DEF SameOf
      <4>2. \A k, m : ToldIn(xevents, k, r, m) => ToldIn(xevents', k, r, m)
        BY <3>1, OtherNews
      <4> QED BY <2>0, <3>2, <4>1, <4>2, OthersStay
    <3> QED BY <3>3, <3>4, <3>5
  <2>12. CASE UNCHANGED xselectionVars
    BY <2>0, <2>12 DEF xselectionVars, xbridgeVars, xhistoryVars, XselectionTypeOK, Honest,
       Held, ClaimWanted, ToldIn
  <2> HIDE DEF IXsel
  <2> QED BY <2>1, <2>2, <2>3, <2>4, <2>5, <2>6, <2>7, <2>8, <2>9, <2>10, <2>11, <2>12, Zenon
        DEF XselectionNext
<1>3. IXsel => XselectionOK
  BY DEF XselectionOK, ClaimIsHonest, NewestIsHeld, Coming, Honest, Held, ClaimWanted, Told, ToldIn
<1> QED BY <1>1, <1>2, <1>3, PTL DEF XselectionSpec
=============================================================================
