----------------------------- MODULE XwmWindows -----------------------------
(***************************************************************************)
(* The X11 window manager (xwm.c): windows are created, mapped, unmapped   *)
(* and destroyed by X11 events, their surfaces by requests of Xwayland on  *)
(* its Wayland connection, and nothing orders the two.  Each time a window *)
(* is shown Xwayland makes a new surface and gives window and surface the  *)
(* same serial; whichever side hears of it last pairs them, and a paired   *)
(* surface gets a Plexy window.                                            *)
(*                                                                         *)
(* Left out: surfaces paired by their id, the way of an Xwayland without   *)
(* xwayland_shell; positions, properties and the parents of popups; what   *)
(* the death of Xwayland takes with it (XwaylandLifecycle).  A window is   *)
(* override-redirect or not for life, and the others have no type that     *)
(* would make them popups.  Sizes are `big' or below the four pixels under *)
(* which no popup is made.                                                 *)
(*                                                                         *)
(* What the X server has mapped and what the bridge takes for mapped       *)
(* differ: it hears of an override-redirect window's map through the       *)
(* window itself, where it listens only once it has read of its creation.  *)
(* A window mapped before that is told of through the root alone, which    *)
(* handle_map_notify ignores.                                              *)
(***************************************************************************)
EXTENDS Naturals

CONSTANTS
  XWindow,   \* ids of X11 windows
  Override,  \* those that are override-redirect
  XSurface,  \* addresses of surfaces of Xwayland
  MaxShown,  \* bound on the times a window is shown
  Prompt,    \* the UnmapNotify of a window is read before its surface goes
  Nobody

VARIABLES
  xwins,     \* windows in window_hash
  viewable,  \* windows the X server has mapped, as far as its events are read
  mapped,    \* windows whose xwm_window says so
  big,       \* windows of four pixels and more
  listOf,    \* the list a window is in
  serialOf,  \* surface_serial of a window: its id and a count, or Nobody
  surfaceOf, \* xwm_window.surface
  windowOf,  \* bridge_surface.xwm_window
  plexyOf,   \* the Plexy window of a surface
  xsurf,     \* the xwayland_surface of a surface
  shown,     \* times X11 told of a window being shown
  begun,     \* times Xwayland made a surface for a window
  made       \* the showing a surface is for, Nobody: no such surface

xwindowVars == <<xwins, viewable, mapped, big, listOf, serialOf, shown>>
xsurfaceVars == <<begun, made>>
xwmVars == <<xwindowVars, surfaceOf, windowOf, plexyOf, xsurf, xsurfaceVars>>

Serial == XWindow \X (1..MaxShown)
OrNobody(S) == S \cup {Nobody}
XSurfaces == {s \in XSurface : made[s] # Nobody}

\* struct xwm_xwayland_surface: its serial, whether it is in
\* unpaired_surface_list, and whether it listens to commits.
XSurf == [serial : OrNobody(Serial), listed : BOOLEAN, listens : BOOLEAN]

ASSUME XwmAssumption ==
  /\ Override \subseteq XWindow
  /\ MaxShown \in Nat /\ Prompt \in BOOLEAN
  /\ Nobody \notin XWindow \cup XSurface \cup Serial \cup XSurf

XwmTypeOK ==
  /\ xwins \subseteq XWindow /\ big \subseteq XWindow
  /\ viewable \subseteq xwins /\ mapped \subseteq viewable
  /\ listOf \in [XWindow -> {"windows", "unpaired", "none"}]
  /\ serialOf \in [XWindow -> OrNobody(Serial)]
  /\ surfaceOf \in [XWindow -> OrNobody(XSurface)]
  /\ windowOf \in [XSurface -> OrNobody(xwins)]
  /\ plexyOf \in [XSurface -> {"none", "toplevel", "popup"}]
  /\ xsurf \in [XSurface -> OrNobody(XSurf)]
  /\ shown \in [XWindow -> 0..MaxShown] /\ begun \in [XWindow -> 0..MaxShown]
  /\ made \in [XSurface -> OrNobody(Serial)]

XwmInit ==
  /\ xwins = {} /\ viewable = {} /\ mapped = {} /\ big = {}
  /\ listOf = [w \in XWindow |-> "none"]
  /\ serialOf = [w \in XWindow |-> Nobody]
  /\ surfaceOf = [w \in XWindow |-> Nobody]
  /\ windowOf = [s \in XSurface |-> Nobody]
  /\ plexyOf = [s \in XSurface |-> "none"]
  /\ xsurf = [s \in XSurface |-> Nobody]
  /\ shown = [w \in XWindow |-> 0] /\ begun = [w \in XWindow |-> 0]
  /\ made = [s \in XSurface |-> Nobody]

---------------------------------------------------------------------------
(* Pairing *)

\* xwm_bind_surface_window refuses a surface that belongs to another mapped
\* window.
Bindable(w, s) == windowOf[s] \in mapped => windowOf[s] = w

\* xwm_window_ensure_real_geometry asks the server, which may know of a
\* size the notices have not told yet, and falls back on that at creation.
Measured(w) == big' \in {big} \cup {big \cup {o} : o \in Override \cap {w}}

\* The Plexy window of a surface just paired with w; w need not be mapped.
Opened(w) ==
  IF w \notin Override THEN "toplevel" ELSE IF w \in big' THEN "popup" ELSE "none"

Bind(w, s) ==
  /\ surfaceOf' = [surfaceOf EXCEPT ![w] = s]
  /\ windowOf' = [windowOf EXCEPT ![s] = w]
  /\ \/ plexyOf[s] = "none" /\ Measured(w) /\ plexyOf' = [plexyOf EXCEPT ![s] = Opened(w)]
     \/ plexyOf[s] # "none" /\ UNCHANGED <<big, plexyOf>>

\* xwm_try_pair_window_with_surface, for a window that was just told serial n
PairWindow_NotListed(w, n) ==
  LET found == {s \in XSurfaces : xsurf[s] # Nobody /\ xsurf[s].listed
                                  /\ xsurf[s].serial = n /\ Bindable(w, s)}
  IN IF surfaceOf[w] # Nobody \/ found = {}
     THEN /\ listOf' = [listOf EXCEPT ![w] = "none"]
          /\ UNCHANGED <<surfaceOf, windowOf, plexyOf, xsurf, big>>
     ELSE \E s \in found :
            /\ Bind(w, s)
            /\ xsurf' = [xsurf EXCEPT ![s].listed = FALSE]
            /\ listOf' = [listOf EXCEPT ![w] = "none"]

PairWindow_EarlierShowing(w, n) ==
  LET found == {s \in XSurfaces : xsurf[s] # Nobody /\ xsurf[s].listed
                                  /\ xsurf[s].serial \in {w} \X (1..n[2]) /\ Bindable(w, s)}
  IN IF surfaceOf[w] # Nobody \/ found = {}
     THEN /\ listOf' = [listOf EXCEPT ![w] = IF surfaceOf[w] = Nobody THEN "unpaired"
                                            ELSE "none"]
          /\ UNCHANGED <<surfaceOf, windowOf, plexyOf, xsurf, big>>
     ELSE \E s \in found :
            /\ Bind(w, s)
            /\ xsurf' = [xsurf EXCEPT ![s].listed = FALSE]
            /\ listOf' = [listOf EXCEPT ![w] = "none"]

PairWindow(w, n) ==
  LET found == {s \in XSurfaces : xsurf[s] # Nobody /\ xsurf[s].listed
                                  /\ xsurf[s].serial = n /\ Bindable(w, s)}
  IN \/ /\ surfaceOf[w] = Nobody => found = {}
        /\ listOf' = [listOf EXCEPT ![w] = IF surfaceOf[w] = Nobody THEN "unpaired"
                                          ELSE "none"]
        /\ UNCHANGED <<surfaceOf, windowOf, plexyOf, xsurf, big>>
     \/ /\ surfaceOf[w] = Nobody
        /\ \E s \in found :
             /\ Bind(w, s)
             /\ xsurf' = [xsurf EXCEPT ![s].listed = FALSE]
             /\ listOf' = [listOf EXCEPT ![w] = "none"]

\* xwm_try_pair_surface_with_window, for an xwayland_surface of serial n;
\* xs is the record it is left with if it stays unpaired.
PairSurface(s, n, xs) ==
  LET found == {w \in xwins : listOf[w] = "unpaired" /\ serialOf[w] = n
                              /\ Bindable(w, s)}
  IN \/ /\ found = {}
        /\ xsurf' = [xsurf EXCEPT ![s] = xs]
        /\ UNCHANGED <<surfaceOf, windowOf, plexyOf, listOf, big>>
     \/ \E w \in found :
          /\ Bind(w, s)
          /\ xsurf' = [xsurf EXCEPT ![s] = [xs EXCEPT !.listed = FALSE]]
          /\ listOf' = [listOf EXCEPT ![w] = "none"]

---------------------------------------------------------------------------
(* Events of X11, in the order the server sends them for a window *)

\* handle_create_notify; an override-redirect window may be mapped before
\* the bridge listens to it, and the notice that comes is passed over.
CreateNotify(w, size) ==
  /\ w \notin xwins
  /\ xwins' = xwins \cup {w}
  /\ viewable' \in {viewable} \cup {viewable \cup {o} : o \in Override \cap {w}}
  /\ big' = IF size THEN big \cup {w} ELSE big \ {w}
  /\ listOf' = [listOf EXCEPT ![w] = "windows"]
  /\ serialOf' = [serialOf EXCEPT ![w] = Nobody]
  /\ UNCHANGED <<mapped, surfaceOf, windowOf, plexyOf, xsurf, shown, xsurfaceVars>>

\* handle_map_request
MapRequest(w) ==
  /\ w \in xwins \ (viewable \cup Override)
  /\ viewable' = viewable \cup {w} /\ mapped' = mapped \cup {w}
  /\ UNCHANGED <<xwins, big, listOf, serialOf, shown, surfaceOf, windowOf,
                 plexyOf, xsurf, xsurfaceVars>>

\* The popup of an override-redirect window paired while it was too small
OpenLate(w) ==
  IF surfaceOf[w] # Nobody /\ w \in big'
  THEN plexyOf' = [plexyOf EXCEPT ![surfaceOf[w]] =
                     IF @ = "none" THEN "popup" ELSE @]
  ELSE UNCHANGED plexyOf

\* handle_map_notify, for the notice that comes through the window
MapNotify(w) ==
  /\ w \in (xwins \cap Override) \ viewable
  /\ viewable' = viewable \cup {w} /\ mapped' = mapped \cup {w}
  /\ Measured(w) /\ OpenLate(w)
  /\ UNCHANGED <<xwins, listOf, serialOf, shown, surfaceOf, windowOf, xsurf, xsurfaceVars>>

\* handle_configure_notify
ConfigureNotify_NoPopup(w, size) ==
  /\ w \in xwins
  /\ big' = IF size THEN big \cup {w} ELSE big \ {w}
  /\ UNCHANGED <<xwins, viewable, mapped, listOf, serialOf, shown, surfaceOf, windowOf,
                 plexyOf, xsurf, xsurfaceVars>>

ConfigureNotify(w, size) ==
  /\ w \in xwins
  /\ big' = IF size THEN big \cup {w} ELSE big \ {w}
  /\ IF w \in Override \cap mapped THEN OpenLate(w) ELSE UNCHANGED plexyOf
  /\ UNCHANGED <<xwins, viewable, mapped, listOf, serialOf, shown, surfaceOf, windowOf,
                 xsurf, xsurfaceVars>>

\* Xwayland makes one surface each time a window is shown, and tells its
\* serial once, after the notice of the map, heard or not.
TellsSerial(w) == w \in viewable /\ serialOf[w] = Nobody /\ shown[w] < MaxShown

\* handle_client_message, WL_SURFACE_SERIAL, which does not ask for `mapped'
SurfaceSerial(w) ==
  /\ TellsSerial(w)
  /\ shown' = [shown EXCEPT ![w] = @ + 1]
  /\ LET n == <<w, shown[w] + 1>>
     IN /\ serialOf' = [serialOf EXCEPT ![w] = n]
        /\ PairWindow(w, n)
  /\ UNCHANGED <<xwins, viewable, mapped, xsurfaceVars>>

\* handle_unmap_notify
Unmap_KeepsPopup(w) ==
  /\ w \in viewable
  /\ viewable' = viewable \ {w} /\ mapped' = mapped \ {w}
  /\ windowOf' = [s \in XSurface |->
                    IF s = surfaceOf[w] /\ windowOf[s] = w THEN Nobody ELSE windowOf[s]]
  /\ surfaceOf' = [surfaceOf EXCEPT ![w] = Nobody]
  /\ serialOf' = [serialOf EXCEPT ![w] = Nobody]
  /\ UNCHANGED <<xwins, big, listOf, shown, xsurf, xsurfaceVars, plexyOf>>

Unmap_KeepsOwner(w) ==
  /\ w \in viewable
  /\ viewable' = viewable \ {w} /\ mapped' = mapped \ {w}
  /\ plexyOf' = [s \in XSurface |->
                   IF s = surfaceOf[w] /\ w \in Override THEN "none" ELSE plexyOf[s]]
  /\ surfaceOf' = [surfaceOf EXCEPT ![w] = Nobody]
  /\ serialOf' = [serialOf EXCEPT ![w] = Nobody]
  /\ UNCHANGED <<xwins, big, listOf, shown, xsurf, xsurfaceVars, windowOf>>

Unmap(w) ==
  /\ w \in viewable
  /\ viewable' = viewable \ {w} /\ mapped' = mapped \ {w}
  /\ plexyOf' = [s \in XSurface |->
                   IF s = surfaceOf[w] /\ w \in Override THEN "none" ELSE plexyOf[s]]
  /\ windowOf' = [s \in XSurface |->
                    IF s = surfaceOf[w] /\ windowOf[s] = w THEN Nobody ELSE windowOf[s]]
  /\ surfaceOf' = [surfaceOf EXCEPT ![w] = Nobody]
  /\ serialOf' = [serialOf EXCEPT ![w] = Nobody]
  /\ UNCHANGED <<xwins, big, listOf, shown, xsurf, xsurfaceVars>>

\* handle_destroy_notify; the server unmaps a window before it destroys it.
DestroyNotify(w) ==
  /\ w \in xwins \ viewable
  /\ xwins' = xwins \ {w}
  /\ listOf' = [listOf EXCEPT ![w] = "none"]
  /\ windowOf' = [s \in XSurface |->
                    IF s = surfaceOf[w] /\ windowOf[s] = w THEN Nobody ELSE windowOf[s]]
  /\ surfaceOf' = [surfaceOf EXCEPT ![w] = Nobody]
  /\ UNCHANGED <<viewable, mapped, big, serialOf, shown, plexyOf, xsurf, xsurfaceVars>>

---------------------------------------------------------------------------
(* Requests of Xwayland, for the surface of one showing at a time *)

\* compositor_create_surface
CreateXSurface(s, w) ==
  /\ made[s] = Nobody /\ begun[w] < MaxShown
  /\ \A t \in XSurfaces : made[t][1] # w
  /\ begun' = [begun EXCEPT ![w] = @ + 1]
  /\ made' = [made EXCEPT ![s] = <<w, begun[w] + 1>>]
  /\ UNCHANGED <<xwindowVars, surfaceOf, windowOf, plexyOf, xsurf>>

\* xwl_shell_get_xwayland_surface
GetXwaylandSurface(s) ==
  /\ s \in XSurfaces /\ xsurf[s] = Nobody
  /\ xsurf' = [xsurf EXCEPT ![s] =
                 [serial |-> Nobody, listed |-> TRUE, listens |-> TRUE]]
  /\ UNCHANGED <<xwindowVars, surfaceOf, windowOf, plexyOf, xsurfaceVars>>

\* xwl_surface_set_serial
SetSerial(s) ==
  /\ s \in XSurfaces /\ xsurf[s] # Nobody /\ xsurf[s].serial = Nobody
  /\ PairSurface(s, made[s], [xsurf[s] EXCEPT !.serial = made[s]])
  /\ UNCHANGED <<xwins, viewable, mapped, serialOf, shown, xsurfaceVars>>

\* xwm_xwayland_surface_committed tries once more, at the first commit.
CommitXSurface(s) ==
  /\ s \in XSurfaces /\ xsurf[s] # Nobody /\ xsurf[s].serial # Nobody /\ xsurf[s].listens
  /\ PairSurface(s, xsurf[s].serial, [xsurf[s] EXCEPT !.listens = FALSE])
  /\ UNCHANGED <<xwins, viewable, mapped, serialOf, shown, xsurfaceVars>>

\* xwm_xwayland_surface_destroy
DestroyXwaylandSurface(s) ==
  /\ xsurf[s] # Nobody
  /\ xsurf' = [xsurf EXCEPT ![s] = Nobody]
  /\ UNCHANGED <<xwindowVars, surfaceOf, windowOf, plexyOf, xsurfaceVars>>

\* surface_resource_destroy, bridge_surface_destroy and, where there is an
\* xwayland_surface, xwm_xwayland_surface_destroyed.  The window that has
\* the surface is not told.
DestroyXSurface(s) ==
  /\ s \in XSurfaces
  /\ Prompt => \A w \in XWindow : surfaceOf[w] # s
  /\ made' = [made EXCEPT ![s] = Nobody]
  /\ xsurf' = [xsurf EXCEPT ![s] = Nobody]
  /\ windowOf' = [windowOf EXCEPT ![s] = Nobody]
  /\ plexyOf' = [plexyOf EXCEPT ![s] = "none"]
  /\ UNCHANGED <<xwindowVars, surfaceOf, begun>>

XwmNext ==
  \/ \E w \in XWindow :
       \/ MapRequest(w) \/ MapNotify(w) \/ SurfaceSerial(w)
       \/ Unmap(w) \/ DestroyNotify(w)
       \/ \E size \in BOOLEAN : CreateNotify(w, size) \/ ConfigureNotify(w, size)
  \/ \E s \in XSurface :
       \/ \E w \in XWindow : CreateXSurface(s, w)
       \/ GetXwaylandSurface(s) \/ SetSerial(s) \/ CommitXSurface(s)
       \/ DestroyXwaylandSurface(s) \/ DestroyXSurface(s)

XwmSpec == XwmInit /\ [][XwmNext]_xwmVars

---------------------------------------------------------------------------
(* Window and surface point to each other or neither points to the other:  *)
(* the two pointers are set by three functions and cleared by three others. *)
PairIsMutual ==
  \A w \in XWindow, s \in XSurfaces : surfaceOf[w] = s <=> windowOf[s] = w

(* A window has the surface Xwayland made for this showing of it: not one  *)
(* of an earlier showing whose requests arrive late, and not another's.    *)
PairedAsMade ==
  \A w \in XWindow :
    surfaceOf[w] \in XSurfaces => made[surfaceOf[w]] = serialOf[w]

(* Whatever the order in which serial, role and commit arrive on the two   *)
(* connections, window and surface do not both sit waiting for each other. *)
NoneWaitsForOther ==
  \A w \in XWindow, s \in XSurfaces :
    ~ /\ serialOf[w] # Nobody /\ surfaceOf[w] = Nobody
      /\ xsurf[s] # Nobody /\ xsurf[s].serial = serialOf[w]

(* A paired surface is shown: it has a Plexy window, in every order of     *)
(* pairing, map and size, unless it is a popup put off because its window  *)
(* is too small.  Such a popup is opened when the window has grown, but    *)
(* not if the bridge missed that the window was mapped: then it is put off *)
(* for good, as handle_configure_notify passes over windows not `mapped'.  *)
PairedIsShown ==
  \A w \in XWindow :
    surfaceOf[w] \in XSurfaces /\ plexyOf[surfaceOf[w]] = "none"
      => w \in Override \ (big \cap mapped)

(* The popup of an override-redirect window is gone as soon as the server  *)
(* tells that the window is unmapped, although its surface may live on and *)
(* the bridge may never have taken the window for mapped.                  *)
PopupIsViewable ==
  \A s \in XSurfaces :
    plexyOf[s] = "popup" /\ made[s][1] \in Override => windowOf[s] \in viewable

(* The surface a window points to exists.                                  *)
BoundSurfaceIsLive ==
  \A w \in XWindow : surfaceOf[w] # Nobody => surfaceOf[w] \in XSurfaces

(***************************************************************************)
(* Whatever the order in which the two connections bring serial, role,     *)
(* commit, map, configure and unmap, an X11 window and the surface made    *)
(* for this showing of it find each other, point to each other, and are    *)
(* shown while the window is mapped, save the popups PairedIsShown names.  *)
(***************************************************************************)
XwmOK ==
  /\ XwmTypeOK /\ PairIsMutual /\ PairedAsMade /\ NoneWaitsForOther
  /\ PairedIsShown /\ PopupIsViewable

(***************************************************************************)
(* X11Pairing, with what a surface offers in its xwayland_surface.  The    *)
(* lists and their order are not seen there, nor is the attempt at the     *)
(* first commit.                                                           *)
(***************************************************************************)
Offered == [s \in XSurface |-> IF xsurf[s] = Nobody THEN Nobody ELSE xsurf[s].serial]

Pairing == INSTANCE X11Pairing WITH Showing <- Serial, told <- serialOf,
                                    offers <- Offered, partner <- windowOf

\* Whichever of window and surface the bridge hears of last pairs the two,
\* in that step; nothing but the window's unmapping and the surface's end
\* parts them, and an attempt at the first commit finds nothing left to do.
ImplementsPairing == Pairing!Spec
=============================================================================
