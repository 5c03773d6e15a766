----------------------------- MODULE X11Pairing -----------------------------
(***************************************************************************)
(* What the pairing of X11 windows with the surfaces of Xwayland promises, *)
(* with no lists, no listeners and no second attempt.  A window tells      *)
(* which showing of it is on, a surface which showing it was made for, on  *)
(* two connections; the later of the two pairs them, at once and for good: *)
(* until the window is hidden or the surface is gone.  XwmWindows          *)
(* implements it.                                                          *)
(***************************************************************************)
CONSTANTS
  XWindow,   \* the windows
  XSurface,  \* the surfaces
  Showing,   \* the showings of windows
  Nobody

VARIABLES
  told,    \* the showing of a window that is on, Nobody: it is hidden
  offers,  \* the showing a surface offers itself for
  partner  \* the window of a surface

vars == <<told, offers, partner>>

Init ==
  /\ told = [w \in XWindow |-> Nobody]
  /\ offers = [s \in XSurface |-> Nobody]
  /\ partner = [s \in XSurface |-> Nobody]

\* The window is shown: the surface that offered itself for it is its own.
Show(w, n) ==
  /\ told[w] = Nobody
  /\ told' = [told EXCEPT ![w] = n]
  /\ partner' = [s \in XSurface |-> IF offers[s] = n THEN w ELSE partner[s]]
  /\ UNCHANGED offers

Hide(w) ==
  /\ told' = [told EXCEPT ![w] = Nobody]
  /\ partner' = [s \in XSurface |-> IF partner[s] = w THEN Nobody ELSE partner[s]]
  /\ UNCHANGED offers

\* The surface offers itself: the window that told of the showing has it.
Offer(s, n) ==
  /\ offers[s] = Nobody
  /\ offers' = [offers EXCEPT ![s] = n]
  /\ \/ \E w \in XWindow : told[w] = n /\ partner' = [partner EXCEPT ![s] = w]
     \/ (\A w \in XWindow : told[w] # n) /\ UNCHANGED partner
  /\ UNCHANGED told

\* It offers itself no longer; a pair is not undone by that.
Withdraw(s) ==
  /\ offers' = [offers EXCEPT ![s] = Nobody]
  /\ UNCHANGED <<told, partner>>

Vanish(s) ==
  /\ offers' = [offers EXCEPT ![s] = Nobody]
  /\ partner' = [partner EXCEPT ![s] = Nobody]
  /\ UNCHANGED told

Next ==
  \/ \E w \in XWindow : Hide(w) \/ \E n \in Showing : Show(w, n)
  \/ \E s \in XSurface :
       \/ Withdraw(s) \/ Vanish(s)
       \/ \E n \in Showing : Offer(s, n)

Spec == Init /\ [][Next]_vars
=============================================================================
