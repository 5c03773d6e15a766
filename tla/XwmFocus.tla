------------------------------ MODULE XwmFocus ------------------------------
(***************************************************************************)
(* The X11 input focus (xwm_set_focus, handle_focus_in of xwm.c): the      *)
(* compositor asks, X11 confirms later, and applications may take the      *)
(* focus on their own at any time.  Windows that want no input never have  *)
(* it confirmed; override-redirect windows are never asked for.            *)
(***************************************************************************)
CONSTANTS
  FocusWindow,  \* ids of X11 windows that are not override-redirect
  Inputless,    \* those whose WM_HINTS want no input
  NoWindow

ASSUME FocusAssumption == Inputless \subseteq FocusWindow /\ NoWindow \notin FocusWindow

VARIABLES
  fwindows,       \* windows that exist
  focus_window,
  pending_focus,  \* pending_focus_window
  wanted,         \* history: the window the compositor asked for last
  wantedInput     \* history: the last one of them that wants input

focusVars == <<fwindows, focus_window, pending_focus, wanted, wantedInput>>

XfocusTypeOK ==
  /\ fwindows \subseteq FocusWindow
  /\ {focus_window, pending_focus} \subseteq fwindows \cup {NoWindow}
  /\ {wanted, wantedInput} \subseteq FocusWindow \cup {NoWindow}

XfocusInit ==
  /\ fwindows = {} /\ focus_window = NoWindow /\ pending_focus = NoWindow
  /\ wanted = NoWindow /\ wantedInput = NoWindow

CreateFocusWindow(w) ==
  /\ w \notin fwindows /\ fwindows' = fwindows \cup {w}
  /\ UNCHANGED <<focus_window, pending_focus, wanted, wantedInput>>

\* xwm_set_focus with a window
SetFocus(w) ==
  /\ w \in fwindows
  /\ focus_window' = w /\ wanted' = w
  /\ IF w \in Inputless THEN UNCHANGED <<pending_focus, wantedInput>>
     ELSE pending_focus' = w /\ wantedInput' = w
  /\ UNCHANGED fwindows

\* xwm_set_focus without one
ClearFocus_KeepsPending ==
  /\ focus_window' = NoWindow
  /\ wanted' = NoWindow /\ wantedInput' = NoWindow
  /\ UNCHANGED <<fwindows, pending_focus>>

ClearFocus ==
  /\ focus_window' = NoWindow /\ pending_focus' = NoWindow
  /\ wanted' = NoWindow /\ wantedInput' = NoWindow
  /\ UNCHANGED fwindows

\* handle_focus_in, for the answer to a request or for an application that
\* took the focus: only what is pending is taken over.
FocusEvent(w) ==
  /\ w \in fwindows /\ w = pending_focus
  /\ focus_window' = w /\ pending_focus' = NoWindow
  /\ UNCHANGED <<fwindows, wanted, wantedInput>>

\* xwm_window_destroy: the focused window takes the pending one with it.
DestroyFocusWindow_KeepsPending(w) ==
  /\ w \in fwindows /\ fwindows' = fwindows \ {w}
  /\ focus_window' = IF focus_window = w THEN NoWindow ELSE focus_window
  /\ pending_focus' = IF focus_window = w THEN NoWindow ELSE pending_focus
  /\ UNCHANGED <<wanted, wantedInput>>

DestroyFocusWindow(w) ==
  /\ w \in fwindows /\ fwindows' = fwindows \ {w}
  /\ focus_window' = IF focus_window = w THEN NoWindow ELSE focus_window
  /\ pending_focus' = IF w \in {focus_window, pending_focus} THEN NoWindow
                      ELSE pending_focus
  /\ UNCHANGED <<wanted, wantedInput>>

XfocusNext ==
  \/ \E w \in FocusWindow :
       CreateFocusWindow(w) \/ SetFocus(w) \/ FocusEvent(w) \/ DestroyFocusWindow(w)
  \/ ClearFocus

XfocusSpec == XfocusInit /\ [][XfocusNext]_focusVars

---------------------------------------------------------------------------
(* No application steals the focus: a window has it only if the compositor *)
(* asked for it and asked for no other since, or only for one that takes   *)
(* no input.                                                               *)
NoneSteals ==
  focus_window \in {NoWindow, wanted} \cup
                   (IF wanted \in Inputless THEN {wantedInput} ELSE {})

(***************************************************************************)
(* No X11 window gets a focus that was meant for another, through the      *)
(* delay between setting it and hearing of it.                             *)
(***************************************************************************)
XfocusOK ==
  /\ XfocusTypeOK /\ NoneSteals
=============================================================================
