----------------------------- MODULE Seat_proofs ----------------------------
(***************************************************************************)
(* The seat and its services, for any clients, surfaces and devices: an    *)
(* invariant that every step keeps for each of the modules.                *)
(***************************************************************************)
EXTENDS KeyboardSeat, ShmPools, IdleNotify, BridgeMain, Selections,
        TextInput, Outputs, Queues_proofs, Integers, FiniteSetTheorems,
        SequenceTheorems, TLAPS

---------------------------------------------------------------------------
(***************************************************************************)
(* KeyboardSeat: whichever of the five ways the focus moves, the keyboard  *)
(* is at one client and that client was told.                              *)
(*                                                                         *)
(* Each way is a function from what was told to what is told, so what it   *)
(* keeps is a lemma about that function; the actions compose them.         *)
(***************************************************************************)

\* A popup that is open has a surface.
PopupsExist == popups \subseteq surfaces

\* A text input is entered on surfaces of its own client.
EnteredOnOwn(k) == \A c \in Client : k.at[c] # None => Owner[k.at[c]] = c

\* What the properties say of one record kb.
Told(k) ==
  /\ k \in Seats
  /\ k.told \subseteq {k.focus}
  /\ k.focus # None /\ Owner[k.focus] \in keyboards \ k.late => k.focus \in k.told
  /\ \A c \in Client \ k.unaware : k.at[c] \in {None, k.focus}
  /\ EnteredOnOwn(k)

KeyboardInv ==
  /\ TypeOK /\ PopupsExist /\ Told(kb)
  /\ FocusIsLive /\ GrabIsOpen /\ NoLockout

---------------------------------------------------------------------------
(* The parts of a move *)

LEMMA OwnerType == \A s \in Surface : Owner[s] \in Client /\ s # None
  BY KeyboardAssumption

\* wl_keyboard.leave to the focus
LEMMA LeftTells ==
  ASSUME NEW k, k \in Seats, k.told \subseteq {k.focus}
  PROVE  /\ Left(k, k.focus) \in Seats /\ Left(k, k.focus).told = {}
         /\ Left(k, k.focus).focus = k.focus /\ Left(k, k.focus).at = k.at
         /\ Left(k, k.focus).unaware = k.unaware
         /\ Left(k, k.focus).grab = k.grab /\ Left(k, k.focus).grabDied = k.grabDied
  BY KeyboardAssumption DEF Left, Seats, OrNone

\* wl_keyboard.enter to a new focus
LEMMA EnteredTells ==
  ASSUME NEW k, NEW s \in Surface, k \in Seats, k.told = {}, k.focus = s
  PROVE  LET q == Entered(k, s)
         IN  /\ q \in Seats /\ q.told \subseteq {s} /\ q.focus = s
             /\ Owner[s] \in keyboards => s \in q.told
             /\ q.at = k.at /\ q.unaware = k.unaware
             /\ q.grab = k.grab /\ q.grabDied = k.grabDied
  BY OwnerType DEF Entered, Seats

\* The text input of the old focus is left: nobody is entered on it who
\* did not miss a change.
LEMMA TextLeftTells ==
  ASSUME NEW k, NEW s \in Surface, k \in Seats, EnteredOnOwn(k)
  PROVE  LET q == TextLeft(k, s)
         IN  /\ q \in Seats /\ EnteredOnOwn(q)
             /\ \A c \in Client : q.at[c] # s
             /\ \A c \in Client : q.at[c] \in {None, k.at[c]}
             /\ q.focus = k.focus /\ q.told = k.told /\ q.late = k.late
             /\ q.unaware = k.unaware /\ q.grab = k.grab /\ q.grabDied = k.grabDied
<1>1. CASE k.at[Owner[s]] = s
  BY <1>1, OwnerType DEF TextLeft, Seats, OrNone, EnteredOnOwn
<1>2. CASE k.at[Owner[s]] # s
  BY <1>2, OwnerType DEF TextLeft, Seats, OrNone, EnteredOnOwn
<1>3. QED
  BY <1>1, <1>2

LEMMA TextEnteredTells ==
  ASSUME NEW k, NEW s \in Surface, k \in Seats, EnteredOnOwn(k), k.focus = s
  PROVE  LET q == TextEntered(k, s)
         IN  /\ q \in Seats /\ EnteredOnOwn(q)
             /\ \A c \in Client \ q.unaware :
                  q.at[c] = s \/ (c \notin k.unaware /\ q.at[c] = k.at[c])
             /\ q.focus = s /\ q.told = k.told /\ q.late = k.late
             /\ q.grab = k.grab /\ q.grabDied = k.grabDied
<1>1. CASE Owner[s] \notin enabled \/ k.at[Owner[s]] = s
  BY <1>1 DEF TextEntered
<1>2. CASE ~(Owner[s] \notin enabled \/ k.at[Owner[s]] = s)
  BY <1>2, OwnerType DEF TextEntered, Seats, OrNone, EnteredOnOwn
<1>3. QED
  BY <1>1, <1>2

\* The focus is taken from s: whoever is entered on it missed that.
LEMMA UnseenTells ==
  ASSUME NEW k, NEW s \in OrNone(Surface), k \in Seats, EnteredOnOwn(k)
  PROVE  LET q == Unseen(k, s)
         IN  /\ q \in Seats /\ EnteredOnOwn(q)
             /\ k.unaware \subseteq q.unaware
             /\ s # None => \A c \in Client \ q.unaware : q.at[c] # s
             /\ q.at = k.at /\ q.focus = k.focus /\ q.told = k.told
             /\ q.late = k.late /\ q.grab = k.grab /\ q.grabDied = k.grabDied
  BY OwnerType DEF Unseen, Seats, OrNone, EnteredOnOwn

---------------------------------------------------------------------------
(* The ways to move the focus *)

\* Nothing of the focus is left to anybody: it can be given to s.
Free(k) ==
  /\ k \in Seats /\ k.told = {} /\ EnteredOnOwn(k)
  /\ \A c \in Client \ k.unaware : k.at[c] = None

\* forward_focus_in and forward_pointer_button, once the old focus is left
LEMMA GivenTo ==
  ASSUME NEW k, Free(k), NEW s \in Surface
  PROVE  LET q == Entered(TextEntered([k EXCEPT !.focus = s], s), s)
         IN  /\ Told(q) /\ q.focus = s
             /\ q.grab = k.grab /\ q.grabDied = k.grabDied
<1> DEFINE j == [k EXCEPT !.focus = s]
           t == TextEntered(j, s)
           q == Entered(t, s)
<1>1. /\ j \in Seats /\ EnteredOnOwn(j) /\ j.focus = s /\ j.told = {}
      /\ j.at = k.at /\ j.unaware = k.unaware
      /\ j.grab = k.grab /\ j.grabDied = k.grabDied
  BY DEF Free, Seats, OrNone, EnteredOnOwn
<1> HIDE DEF j
<1>2. /\ t \in Seats /\ EnteredOnOwn(t) /\ t.focus = s /\ t.told = {}
      /\ \A c \in Client \ t.unaware : t.at[c] \in {None, s}
      /\ t.grab = k.grab /\ t.grabDied = k.grabDied
  BY <1>1, TextEnteredTells DEF Free
<1> HIDE DEF t
<1>3. /\ q \in Seats /\ q.told \subseteq {s} /\ q.focus = s
      /\ Owner[s] \in keyboards => s \in q.told
      /\ q.at = t.at /\ q.unaware = t.unaware
      /\ q.grab = k.grab /\ q.grabDied = k.grabDied
  BY <1>2, EnteredTells
<1> HIDE DEF q
<1>4. Told(q)
  BY <1>2, <1>3 DEF Told, EnteredOnOwn
<1>5. QED
  BY <1>3, <1>4 DEF q, t, j

\* The old focus is left by keyboard and text input.
LEMMA LeftAndFree ==
  ASSUME NEW k, Told(k)
  PROVE  LET q == Left(TextLeft(k, k.focus), k.focus)
         IN  Free(q) /\ q.grab = k.grab /\ q.grabDied = k.grabDied
<1> DEFINE t == TextLeft(k, k.focus)
           q == Left(t, k.focus)
<1>1. k \in Seats /\ k.focus \in OrNone(Surface) /\ k.told \subseteq Surface
  BY DEF Told, Seats
<1>2. CASE k.focus = None
  <2>1. t = k /\ q = k
    BY <1>2 DEF TextLeft, Left
  <2>2. k.told = {}
    BY <1>1, <1>2, OwnerType DEF Told
  <2>3. \A c \in Client \ k.unaware : k.at[c] = None
    BY <1>2 DEF Told
  <2>4. QED
    BY <2>1, <2>2, <2>3 DEF Free, Told
<1>3. CASE k.focus # None
  <2>1. k.focus \in Surface
    BY <1>1, <1>3 DEF OrNone
  <2>2. /\ t \in Seats /\ EnteredOnOwn(t)
        /\ \A c \in Client : t.at[c] # k.focus /\ t.at[c] \in {None, k.at[c]}
        /\ t.focus = k.focus /\ t.told = k.told /\ t.unaware = k.unaware
        /\ t.grab = k.grab /\ t.grabDied = k.grabDied
    BY <2>1, TextLeftTells DEF Told
  <2> HIDE DEF t
  <2>3. /\ q \in Seats /\ q.told = {} /\ q.at = t.at /\ q.unaware = t.unaware
        /\ q.grab = k.grab /\ q.grabDied = k.grabDied
    BY <2>2, LeftTells DEF Told
  <2> HIDE DEF q
  <2>4. \A c \in Client \ q.unaware : q.at[c] = None
    BY <2>2, <2>3 DEF Told
  <2>5. EnteredOnOwn(q)
    BY <2>2, <2>3 DEF EnteredOnOwn
  <2>6. QED
    BY <2>3, <2>4, <2>5 DEF Free, q, t
<1>4. QED
  BY <1>2, <1>3

LEMMA FocusedInTells ==
  ASSUME NEW k, Told(k), NEW s \in Surface
  PROVE  LET q == FocusedIn(k, s)
         IN  /\ Told(q) /\ q.grab = k.grab /\ q.grabDied = k.grabDied
             /\ q.focus = k.focus \/ (q.focus = s /\ s \notin Menu)
<1>1. CASE s \in Menu \/ s \in popups \/ k.focus = s
  BY <1>1 DEF FocusedIn
<1>2. CASE ~(s \in Menu \/ s \in popups \/ k.focus = s)
  <2> DEFINE l == Left(TextLeft(k, k.focus), k.focus)
  <2>1. Free(l) /\ l.grab = k.grab /\ l.grabDied = k.grabDied
    BY LeftAndFree
  <2> HIDE DEF l
  <2>2. FocusedIn(k, s) = Entered(TextEntered([l EXCEPT !.focus = s], s), s)
    BY <1>2 DEF FocusedIn, l
  <2>3. QED
    BY <1>2, <2>1, <2>2, GivenTo
<1>3. QED
  BY <1>1, <1>2

LEMMA PressedTells ==
  ASSUME NEW k, Told(k), NEW s \in Surface
  PROVE  LET q == Pressed(k, s)
         IN  /\ Told(q) /\ q.grab = k.grab /\ q.grabDied = k.grabDied
             /\ q.focus = k.focus \/ (q.focus = s /\ s \notin Menu)
<1>1. CASE s \in popups \/ s \in Passive \/ k.focus = s
  BY <1>1 DEF Pressed
<1>2. CASE ~(s \in popups \/ s \in Passive \/ k.focus = s)
  <2> DEFINE l == Left(TextLeft(k, k.focus), k.focus)
  <2>1. Free(l) /\ l.grab = k.grab /\ l.grabDied = k.grabDied
    BY LeftAndFree
  <2> HIDE DEF l
  <2>2. Pressed(k, s) = Entered(TextEntered([l EXCEPT !.focus = s], s), s)
    BY <1>2 DEF Pressed, l
  <2>3. s \notin Menu
    BY <1>2, KeyboardAssumption
  <2>4. QED
    BY <2>1, <2>2, <2>3, GivenTo
<1>3. QED
  BY <1>1, <1>2

\* popup_grab and the raw press, which tell no text input
LEMMA SeizedTells ==
  ASSUME NEW k, Told(k), NEW s \in Surface
  PROVE  LET q == Seized(k, s)
         IN  /\ Told(q) /\ q.focus = s
             /\ q.grab = k.grab /\ q.grabDied = k.grabDied
<1> DEFINE u == Unseen(k, k.focus)
           l == Left(u, k.focus)
           j == [l EXCEPT !.focus = s]
           q == Entered(j, s)
<1>1. k \in Seats /\ k.focus \in OrNone(Surface) /\ k.told \subseteq {k.focus}
      /\ EnteredOnOwn(k)
  BY DEF Told, Seats
<1>2. /\ u \in Seats /\ EnteredOnOwn(u) /\ k.unaware \subseteq u.unaware
      /\ k.focus # None => \A c \in Client \ u.unaware : u.at[c] # k.focus
      /\ u.at = k.at /\ u.focus = k.focus /\ u.told = k.told
      /\ u.grab = k.grab /\ u.grabDied = k.grabDied
  BY <1>1, UnseenTells
<1>3. \A c \in Client \ u.unaware : u.at[c] = None
  <2> SUFFICES ASSUME NEW c \in Client \ u.unaware PROVE u.at[c] = None
    OBVIOUS
  <2>1. u.at[c] \in {None, k.focus}
    BY <1>2 DEF Told
  <2>2. QED
    BY <1>2, <2>1
<1> HIDE DEF u
<1>4. /\ l \in Seats /\ l.told = {} /\ l.at = u.at /\ l.unaware = u.unaware
      /\ l.grab = k.grab /\ l.grabDied = k.grabDied
  BY <1>1, <1>2, LeftTells
<1> HIDE DEF l
<1>5. /\ j \in Seats /\ j.told = {} /\ j.focus = s /\ j.at = u.at
      /\ j.unaware = u.unaware /\ j.grab = k.grab /\ j.grabDied = k.grabDied
  BY <1>4 DEF Seats, OrNone
<1> HIDE DEF j
<1>6. /\ q \in Seats /\ q.told \subseteq {s} /\ q.focus = s
      /\ Owner[s] \in keyboards => s \in q.told
      /\ q.at = u.at /\ q.unaware = u.unaware
      /\ q.grab = k.grab /\ q.grabDied = k.grabDied
  BY <1>5, EnteredTells
<1> HIDE DEF q
<1>7. Told(q)
  BY <1>2, <1>3, <1>6 DEF Told, EnteredOnOwn
<1>8. q = Seized(k, s)
  BY DEF Seized, q, j, l, u
<1>9. QED
  BY <1>6, <1>7, <1>8

\* forward_focus_out
LEMMA FocusedOutTells ==
  ASSUME NEW k, Told(k), NEW s \in Surface
  PROVE  LET q == FocusedOut(k, s)
         IN  /\ Told(q) /\ q.focus \in {k.focus, None}
             /\ \/ q.grab = k.grab /\ q.grabDied = k.grabDied
                \/ q.grab = None
<1> DEFINE f == [k EXCEPT !.focus = IF @ = s THEN None ELSE @]
           g == IF s \in popups /\ f.grab = s THEN NoGrab(f) ELSE f
           t == TextLeft(g, s)
           q == Left(t, s)
<1>1. k \in Seats /\ k.told \subseteq {k.focus} /\ EnteredOnOwn(k)
  BY DEF Told
<1>2. /\ g \in Seats /\ EnteredOnOwn(g)
      /\ g.focus = IF k.focus = s THEN None ELSE k.focus
      /\ g.told = k.told /\ g.late = k.late /\ g.at = k.at
      /\ g.unaware = k.unaware
      /\ (g.grab = k.grab /\ g.grabDied = k.grabDied) \/ g.grab = None
  BY <1>1 DEF Seats, OrNone, EnteredOnOwn, NoGrab
<1> HIDE DEF g
<1>3. /\ t \in Seats /\ EnteredOnOwn(t)
      /\ \A c \in Client : t.at[c] # s /\ t.at[c] \in {None, g.at[c]}
      /\ t.focus = g.focus /\ t.told = g.told /\ t.late = g.late
      /\ t.unaware = g.unaware /\ t.grab = g.grab /\ t.grabDied = g.grabDied
  BY <1>2, TextLeftTells
<1> HIDE DEF t
<1>4. /\ q \in Seats /\ q.told = t.told \ {s} /\ q.focus = t.focus
      /\ q.late = t.late /\ q.at = t.at /\ q.unaware = t.unaware
      /\ q.grab = t.grab /\ q.grabDied = t.grabDied
  BY <1>3, OwnerType DEF Left, Seats
<1> HIDE DEF q
<1>5. q.told \subseteq {q.focus}
  BY <1>1, <1>2, <1>3, <1>4
<1>6. q.focus # None /\ Owner[q.focus] \in keyboards \ q.late => q.focus \in q.told
  BY <1>2, <1>3, <1>4 DEF Told
<1>7. \A c \in Client \ q.unaware : q.at[c] \in {None, q.focus}
  BY <1>2, <1>3, <1>4 DEF Told
<1>8. EnteredOnOwn(q)
  BY <1>3, <1>4 DEF EnteredOnOwn
<1>9. q = FocusedOut(k, s)
  BY DEF FocusedOut, q, t, g
<1>10. QED
  BY <1>2, <1>3, <1>4, <1>5, <1>6, <1>7, <1>8, <1>9 DEF Told

\* A dismissal changes the grab only.
LEMMA NoGrabTells ==
  ASSUME NEW k, Told(k)
  PROVE  /\ Told(NoGrab(k)) /\ NoGrab(k).focus = k.focus
         /\ NoGrab(k).grab = None
  BY DEF NoGrab, Told, Seats, OrNone, EnteredOnOwn

\* popup_grab names the popup.
LEMMA GrabbedTells ==
  ASSUME NEW k, Told(k), NEW p \in Popup
  PROVE  LET q == [k EXCEPT !.grab = p, !.grabDied = FALSE]
         IN  Told(q) /\ q.focus = k.focus /\ q.grab = p
  BY DEF Told, Seats, OrNone, EnteredOnOwn

---------------------------------------------------------------------------
(* Events *)

\* An event changes the record only.
LEMMA EventInv ==
  ASSUME KeyboardInv, NoRequest, Told(kb'),
         kb'.focus \in OrNone(surfaces \ Menu),
         kb'.grab \in OrNone(popups) \/ kb'.grabDied
  PROVE  KeyboardInv'
<1>1. TypeOK'
  BY DEF KeyboardInv, TypeOK, NoRequest, Told
<1>2. Told(kb)'
  BY DEF Told, EnteredOnOwn, NoRequest
<1>3. PopupsExist' /\ FocusIsLive' /\ GrabIsOpen' /\ NoLockout'
  BY DEF KeyboardInv, PopupsExist, FocusIsLive, GrabIsOpen, NoLockout, OrNone, NoRequest
<1>4. QED
  BY <1>1, <1>2, <1>3 DEF KeyboardInv

\* What the invariant says of the record and its surfaces
LEMMA IInvKb ==
  ASSUME KeyboardInv
  PROVE  /\ Told(kb) /\ kb \in Seats
         /\ kb.focus \in OrNone(surfaces \ Menu) /\ kb.focus \in OrNone(Surface)
         /\ kb.grab \in OrNone(popups) \/ kb.grabDied
         /\ surfaces \subseteq Surface /\ popups \subseteq surfaces
         /\ popups \subseteq Popup /\ popups \cap Menu = {}
  BY KeyboardAssumption
     DEF KeyboardInv, TypeOK, Told, Seats, FocusIsLive, GrabIsOpen, PopupsExist

LEMMA EventsInv ==
  ASSUME KeyboardInv, NEW s \in Surface,
         \/ FocusIn(s) \/ FocusOut(s) \/ RawPress(s) \/ Key(s) \/ Activate(s)
         \/ \E hit \in BOOLEAN : Press(s, hit)
  PROVE  KeyboardInv'
<1>1. CASE FocusIn(s)
  <2>1. NoRequest /\ kb' = FocusedIn(kb, s) /\ s \in surfaces
    BY <1>1 DEF FocusIn, Window
  <2>2. QED
    BY <2>1, IInvKb, FocusedInTells, EventInv DEF OrNone
<1>2. CASE FocusOut(s)
  <2>1. NoRequest /\ kb' = FocusedOut(kb, s)
    BY <1>2 DEF FocusOut
  <2>2. QED
    BY <2>1, IInvKb, FocusedOutTells, EventInv DEF OrNone
<1>3. CASE RawPress(s)
  <2>1. NoRequest /\ kb' = Seized(kb, s) /\ s \in surfaces \ Menu
    BY <1>3, KeyboardAssumption DEF RawPress
  <2>2. QED
    BY <2>1, IInvKb, SeizedTells, EventInv DEF OrNone
<1>4. CASE Key(s)
  <2>1. NoRequest /\ kb' = TextEntered(kb, s) /\ kb.focus = s
    BY <1>4 DEF Key
  <2>2. /\ kb' \in Seats /\ EnteredOnOwn(kb') /\ kb'.focus = s
        /\ kb'.told = kb.told /\ kb'.late = kb.late
        /\ \A c \in Client \ kb'.unaware : kb'.at[c] \in {None, s}
        /\ kb'.grab = kb.grab /\ kb'.grabDied = kb.grabDied
    BY <2>1, IInvKb, TextEnteredTells DEF Told
  <2>3. Told(kb')
    BY <2>1, <2>2, IInvKb DEF Told
  <2>4. QED
    BY <2>1, <2>2, <2>3, IInvKb, EventInv
<1>5. CASE Activate(s)
  <2> DEFINE k == IF kb.focus \in {None, s} THEN kb ELSE FocusedOut(kb, kb.focus)
  <2>1. NoRequest /\ kb' = FocusedIn(k, s) /\ s \in surfaces
    BY <1>5 DEF Activate, Window
  <2>2. /\ Told(k) /\ k.focus \in OrNone(surfaces \ Menu)
        /\ k.grab \in OrNone(popups) \/ k.grabDied
    BY IInvKb, FocusedOutTells DEF OrNone
  <2> HIDE DEF k
  <2>3. /\ Told(kb') /\ kb'.grab = k.grab /\ kb'.grabDied = k.grabDied
        /\ kb'.focus = k.focus \/ (kb'.focus = s /\ s \notin Menu)
    BY <2>1, <2>2, FocusedInTells
  <2>4. QED
    BY <2>1, <2>2, <2>3, EventInv DEF OrNone
<1>6. ASSUME NEW hit \in BOOLEAN, Press(s, hit) PROVE KeyboardInv'
  <2> DEFINE k == Dismissed(kb, s)
  <2>1. NoRequest /\ kb' = (IF hit THEN Pressed(k, s) ELSE k) /\ s \in surfaces
    BY <1>6 DEF Press, Window
  <2>2. /\ Told(k) /\ k.focus = kb.focus
        /\ k.grab \in OrNone(popups) \/ k.grabDied
    BY IInvKb, NoGrabTells DEF Dismissed, OrNone
  <2> HIDE DEF k
  <2>3. /\ Told(kb') /\ kb'.grab = k.grab /\ kb'.grabDied = k.grabDied
        /\ kb'.focus = k.focus \/ (kb'.focus = s /\ s \notin Menu)
    BY <2>1, <2>2, PressedTells
  <2>4. QED
    BY <2>1, <2>2, <2>3, IInvKb, EventInv DEF OrNone
<1>7. QED
  BY <1>1, <1>2, <1>3, <1>4, <1>5, <1>6

---------------------------------------------------------------------------
(* Popups *)

LEMMA GetPopupInv ==
  ASSUME KeyboardInv, NEW p \in Surface, GetPopup(p)
  PROVE  KeyboardInv'
  BY DEF GetPopup, KeyboardInv, TypeOK, PopupsExist, Told, EnteredOnOwn, FocusIsLive,
         GrabIsOpen, NoLockout, OrNone

LEMMA GrabInv ==
  ASSUME KeyboardInv, NEW p \in Surface, Grab(p)
  PROVE  KeyboardInv'
<1>1. p \in popups /\ p \in Popup /\ p \in surfaces \ Menu
  BY IInvKb DEF Grab
<1>2. Told(kb') /\ kb'.focus = p /\ kb'.grab = p
  <2> DEFINE k == Seized(kb, p)
  <2>1. p \in Surface /\ Told(k) /\ k.focus = p
    BY IInvKb, SeizedTells
  <2> HIDE DEF k
  <2>2. kb' = [k EXCEPT !.grab = p, !.grabDied = FALSE]
    BY DEF Grab, k
  <2>3. QED
    BY <1>1, <2>1, <2>2, GrabbedTells
<1>3. TypeOK'
  BY <1>1, <1>2 DEF KeyboardInv, TypeOK, Grab, Told
<1>4. Told(kb)'
  BY <1>2 DEF Told, EnteredOnOwn, Grab
<1>5. PopupsExist' /\ FocusIsLive' /\ GrabIsOpen' /\ NoLockout'
  BY <1>1, <1>2
     DEF KeyboardInv, Grab, PopupsExist, FocusIsLive, GrabIsOpen, NoLockout, OrNone
<1>6. QED
  BY <1>3, <1>4, <1>5 DEF KeyboardInv

LEMMA PopupDestroyInv ==
  ASSUME KeyboardInv, NEW p \in Surface, PopupDestroy(p)
  PROVE  KeyboardInv'
<1>1. p \in popups /\ Parent[p] \in Surface
  BY IInvKb, KeyboardAssumption DEF PopupDestroy
<1>2. /\ Told(kb') /\ kb'.focus \in OrNone(surfaces \ Menu)
      /\ kb'.grab \in OrNone(popups \ {p}) \/ kb'.grabDied
  <2>1. CASE kb.grab # p
    BY <2>1, IInvKb DEF PopupDestroy, OrNone
  <2>2. CASE kb.grab = p /\ p \in grabbed /\ Window(Parent[p])
    <3>1. kb' = FocusedIn(NoGrab(kb), Parent[p]) /\ Parent[p] \in surfaces
      BY <2>2 DEF PopupDestroy, Window
    <3>2. Told(NoGrab(kb)) /\ NoGrab(kb).focus = kb.focus /\ NoGrab(kb).grab = None
      BY IInvKb, NoGrabTells
    <3>3. /\ Told(kb') /\ kb'.grab = None
          /\ kb'.focus = kb.focus \/ (kb'.focus = Parent[p] /\ Parent[p] \notin Menu)
      BY <1>1, <3>1, <3>2, FocusedInTells
    <3>4. QED
      BY <3>1, <3>3, IInvKb DEF OrNone
  <2>3. CASE kb.grab = p /\ ~(p \in grabbed /\ Window(Parent[p]))
    BY <2>3, IInvKb, NoGrabTells DEF PopupDestroy, OrNone
  <2>4. QED
    BY <2>1, <2>2, <2>3
<1>3. TypeOK'
  BY <1>2 DEF KeyboardInv, TypeOK, PopupDestroy, Told
<1>4. Told(kb)'
  BY <1>2 DEF Told, EnteredOnOwn, PopupDestroy
<1>5. PopupsExist' /\ FocusIsLive' /\ GrabIsOpen' /\ NoLockout'
  BY <1>2 DEF KeyboardInv, PopupDestroy, PopupsExist, FocusIsLive, GrabIsOpen, NoLockout
<1>6. QED
  BY <1>3, <1>4, <1>5 DEF KeyboardInv

---------------------------------------------------------------------------
(* Keyboards and text inputs that come and go *)

LEMMA GetKeyboardInv ==
  ASSUME KeyboardInv, NEW c \in Client, GetKeyboard(c)
  PROVE  KeyboardInv'
<1>1. /\ kb' \in Seats
      /\ kb'.focus = kb.focus /\ kb'.told = kb.told /\ kb'.at = kb.at
      /\ kb'.unaware = kb.unaware /\ kb'.grab = kb.grab
      /\ kb'.grabDied = kb.grabDied
      /\ kb.late \subseteq kb'.late
      /\ kb.focus # None /\ Owner[kb.focus] = c => c \in kb'.late
  BY IInvKb DEF GetKeyboard, Seats
<1>2. Told(kb)'
  BY <1>1, IInvKb DEF Told, EnteredOnOwn, GetKeyboard
<1>3. TypeOK'
  BY <1>1 DEF KeyboardInv, TypeOK, GetKeyboard
<1>4. PopupsExist' /\ FocusIsLive' /\ GrabIsOpen' /\ NoLockout'
  BY <1>1 DEF KeyboardInv, GetKeyboard, PopupsExist, FocusIsLive, GrabIsOpen, NoLockout
<1>5. QED
  BY <1>2, <1>3, <1>4 DEF KeyboardInv

LEMMA ReleaseKeyboardInv ==
  ASSUME KeyboardInv, NEW c \in Client, ReleaseKeyboard(c)
  PROVE  KeyboardInv'
<1>1. /\ kb' \in Seats
      /\ kb'.focus = kb.focus /\ kb'.at = kb.at /\ kb'.unaware = kb.unaware
      /\ kb'.told = {s \in kb.told : Owner[s] # c} /\ kb'.late = kb.late \ {c}
      /\ kb'.grab = kb.grab /\ kb'.grabDied = kb.grabDied
  BY IInvKb DEF ReleaseKeyboard, Seats
<1>2. Told(kb)'
  BY <1>1, IInvKb DEF Told, EnteredOnOwn, ReleaseKeyboard
<1>3. TypeOK'
  BY <1>1 DEF KeyboardInv, TypeOK, ReleaseKeyboard
<1>4. PopupsExist' /\ FocusIsLive' /\ GrabIsOpen' /\ NoLockout'
  BY <1>1 DEF KeyboardInv, ReleaseKeyboard, PopupsExist, FocusIsLive, GrabIsOpen, NoLockout
<1>5. QED
  BY <1>2, <1>3, <1>4 DEF KeyboardInv

LEMMA TextInputInv ==
  ASSUME KeyboardInv, NEW c \in Client, Enable(c) \/ Disable(c)
  PROVE  KeyboardInv'
<1>1. /\ kb' \in Seats /\ EnteredOnOwn(kb')
      /\ kb'.focus = kb.focus /\ kb'.told = kb.told /\ kb'.late = kb.late
      /\ kb'.grab = kb.grab /\ kb'.grabDied = kb.grabDied
      /\ \A d \in Client \ kb'.unaware : kb'.at[d] \in {None, kb.focus}
  <2>1. CASE Enable(c)
    BY <2>1, IInvKb DEF Enable, Told, Seats, EnteredOnOwn, OrNone
  <2>2. CASE Disable(c)
    BY <2>2, IInvKb DEF Disable, Told, Seats, EnteredOnOwn, OrNone
  <2>3. QED
    BY <2>1, <2>2
<1>2. UNCHANGED <<surfaces, popups, grabbed, keyboards, locks, locked>>
      /\ enabled' \subseteq Typing
  BY DEF Enable, Disable, KeyboardInv, TypeOK
<1>3. Told(kb)'
  BY <1>1, <1>2, IInvKb DEF Told, EnteredOnOwn
<1>4. TypeOK'
  BY <1>1, <1>2 DEF KeyboardInv, TypeOK
<1>5. PopupsExist' /\ FocusIsLive' /\ GrabIsOpen' /\ NoLockout'
  BY <1>1, <1>2 DEF KeyboardInv, PopupsExist, FocusIsLive, GrabIsOpen, NoLockout
<1>6. QED
  BY <1>3, <1>4, <1>5 DEF KeyboardInv

---------------------------------------------------------------------------
(* Surfaces, clients and locks that come and go *)

LEMMA DestroySurfaceInv ==
  ASSUME KeyboardInv, NEW s \in Surface, DestroySurface(s)
  PROVE  KeyboardInv'
<1> DEFINE u == Unseen(kb, s)
<1>1. /\ u \in Seats /\ EnteredOnOwn(u)
      /\ kb.unaware \subseteq u.unaware
      /\ \A c \in Client \ u.unaware : u.at[c] # s
      /\ u.at = kb.at /\ u.focus = kb.focus /\ u.told = kb.told
      /\ u.late = kb.late /\ u.grab = kb.grab /\ u.grabDied = kb.grabDied
  BY IInvKb, UnseenTells, OwnerType DEF Told, OrNone
<1>2. kb' = [u EXCEPT !.focus = IF @ = s THEN None ELSE @, !.told = @ \ {s}]
  BY DEF DestroySurface
<1> HIDE DEF u
<1>3. /\ kb' \in Seats /\ EnteredOnOwn(kb')
      /\ kb'.focus = IF kb.focus = s THEN None ELSE kb.focus
      /\ kb'.told = kb.told \ {s} /\ kb'.late = kb.late /\ kb'.at = kb.at
      /\ kb'.unaware = u.unaware
      /\ kb'.grab = kb.grab /\ kb'.grabDied = kb.grabDied
  BY <1>1, <1>2 DEF Seats, OrNone, EnteredOnOwn
<1>4. Told(kb)'
  <2>1. UNCHANGED keyboards
    BY DEF DestroySurface
  <2>2. \A c \in Client \ kb'.unaware : kb'.at[c] \in {None, kb'.focus}
    BY <1>1, <1>3, IInvKb DEF Told
  <2>3. QED
    BY <1>3, <2>1, <2>2, IInvKb DEF Told, EnteredOnOwn
<1>5. TypeOK'
  BY <1>3 DEF KeyboardInv, TypeOK, DestroySurface
<1>6. PopupsExist' /\ FocusIsLive' /\ GrabIsOpen' /\ NoLockout'
  BY <1>3
     DEF KeyboardInv, DestroySurface, PopupsExist, FocusIsLive, GrabIsOpen, NoLockout, OrNone
<1>7. QED
  BY <1>4, <1>5, <1>6 DEF KeyboardInv

LEMMA CreateSurfaceInv ==
  ASSUME KeyboardInv, NEW s \in Surface, CreateSurface(s)
  PROVE  KeyboardInv'
  BY DEF CreateSurface, KeyboardInv, TypeOK, PopupsExist, Told, EnteredOnOwn, FocusIsLive,
         GrabIsOpen, NoLockout, OrNone

LEMMA LockInv ==
  ASSUME KeyboardInv, NEW l \in Lock, LockSession(l) \/ Unlock(l)
  PROVE  KeyboardInv'
  BY DEF LockSession, Unlock, KeyboardInv, TypeOK, PopupsExist, Told, EnteredOnOwn,
         FocusIsLive, GrabIsOpen, NoLockout, OrNone

LEMMA ClientGoneInv ==
  ASSUME KeyboardInv, NEW c \in Client, ClientGone(c)
  PROVE  KeyboardInv'
<1> DEFINE mine == {s \in Surface : Owner[s] = c}
<1>1. /\ surfaces' = surfaces \ mine
      /\ popups' = popups \ mine /\ grabbed' = grabbed \ mine
      /\ keyboards' = keyboards \ (Plugs \cap {c})
      /\ enabled' = enabled \ {c}
      /\ kb' = [kb EXCEPT !.focus = IF @ \in mine THEN None ELSE @,
                          !.told = @ \ mine, !.late = @ \ {c},
                          !.at[c] = None, !.unaware = @ \ {c},
                          !.grabDied = @ \/ kb.grab \in mine]
      /\ locks' \subseteq locks /\ locked' \in BOOLEAN
      /\ locked' => locked /\ locks' = locks
  BY DEF ClientGone, KeyboardInv, TypeOK
<1>2. /\ kb' \in Seats
      /\ kb'.focus = (IF kb.focus \in mine THEN None ELSE kb.focus)
      /\ kb'.told = kb.told \ mine /\ kb'.late = kb.late \ {c}
      /\ kb'.at[c] = None /\ \A d \in Client \ {c} : kb'.at[d] = kb.at[d]
      /\ kb'.unaware = kb.unaware \ {c} /\ kb'.grab = kb.grab
      /\ kb'.grabDied = (kb.grabDied \/ kb.grab \in mine)
  BY <1>1, IInvKb DEF Seats, OrNone
<1>3. EnteredOnOwn(kb')
  BY <1>2, IInvKb DEF Told, EnteredOnOwn
<1>4. \A d \in Client \ kb'.unaware : kb'.at[d] \in {None, kb'.focus}
  <2> SUFFICES ASSUME NEW d \in Client, d # c, d \notin kb.unaware, kb.at[d] # None
               PROVE  kb.at[d] = kb'.focus
    BY <1>2
  <2>1. kb.at[d] = kb.focus /\ Owner[kb.focus] = d
    BY IInvKb DEF Told, EnteredOnOwn
  <2>2. QED
    BY <1>2, <2>1
<1>5. Told(kb)'
  <2>1. kb'.told \subseteq {kb'.focus}
    BY <1>2, IInvKb DEF Told
  <2>2. ASSUME kb'.focus # None, Owner[kb'.focus] \in keyboards' \ kb'.late
        PROVE  kb'.focus \in kb'.told
    <3>1. kb'.focus = kb.focus /\ kb.focus \in Surface /\ kb.focus \notin mine
      BY <1>2, <2>2, IInvKb DEF OrNone
    <3>2. Owner[kb.focus] # c
      BY <3>1
    <3>3. kb.focus \in kb.told
      BY <1>1, <1>2, <2>2, <3>1, <3>2, IInvKb DEF Told
    <3>4. QED
      BY <1>2, <3>1, <3>3
  <2>3. QED
    BY <1>2, <1>3, <1>4, <2>1, <2>2 DEF Told, EnteredOnOwn
<1>6. TypeOK'
  BY <1>1, <1>2 DEF KeyboardInv, TypeOK
<1>7. PopupsExist' /\ NoLockout'
  BY <1>1 DEF KeyboardInv, PopupsExist, NoLockout
<1>8. FocusIsLive' /\ GrabIsOpen'
  <2>1. FocusIsLive'
    <3>1. kb'.focus # None => kb'.focus \in surfaces \ Menu /\ kb'.focus \notin mine
      BY <1>2, IInvKb DEF OrNone
    <3>2. QED
      BY <1>1, <3>1 DEF FocusIsLive, OrNone
  <2>2. GrabIsOpen'
    <3>1. CASE kb.grabDied \/ kb.grab \in mine
      <4>1. kb'.grabDied
        BY <1>2, <3>1
      <4>2. QED
        BY <4>1 DEF GrabIsOpen
    <3>2. CASE ~(kb.grabDied \/ kb.grab \in mine)
      <4>1. kb.grab \in OrNone(popups \ mine)
        BY <3>2, IInvKb DEF OrNone
      <4>2. QED
        BY <1>1, <1>2, <4>1 DEF GrabIsOpen
    <3>3. QED
      BY <3>1, <3>2
  <2>3. QED
    BY <2>1, <2>2
<1>9. QED
  BY <1>5, <1>6, <1>7, <1>8 DEF KeyboardInv

---------------------------------------------------------------------------

LEMMA KeyboardInitInv == Init => KeyboardInv
<1> SUFFICES ASSUME Init PROVE KeyboardInv
  OBVIOUS
<1>1. /\ kb \in Seats /\ kb.focus = None /\ kb.told = {} /\ kb.grab = None
      /\ \A c \in Client : kb.at[c] = None
  BY DEF Init, Seats, OrNone
<1>2. Told(kb)
  BY <1>1 DEF Told, EnteredOnOwn
<1>3. TypeOK /\ PopupsExist
  BY <1>1 DEF Init, TypeOK, PopupsExist
<1>4. FocusIsLive /\ GrabIsOpen /\ NoLockout
  BY <1>1 DEF Init, FocusIsLive, GrabIsOpen, NoLockout, OrNone
<1>5. QED
  BY <1>2, <1>3, <1>4 DEF KeyboardInv

LEMMA NextInv == KeyboardInv /\ [Next]_vars => KeyboardInv'
<1> SUFFICES ASSUME KeyboardInv, [Next]_vars PROVE KeyboardInv'
  OBVIOUS
<1>1. CASE UNCHANGED vars
  BY <1>1
     DEF vars, KeyboardInv, TypeOK, PopupsExist, Told, EnteredOnOwn, FocusIsLive,
         GrabIsOpen, NoLockout
<1>2. ASSUME NEW s \in Surface,
             \/ FocusIn(s) \/ FocusOut(s) \/ RawPress(s) \/ Key(s) \/ Activate(s)
             \/ \E hit \in BOOLEAN : Press(s, hit)
             \/ GetPopup(s) \/ Grab(s) \/ PopupDestroy(s)
             \/ CreateSurface(s) \/ DestroySurface(s)
      PROVE  KeyboardInv'
  BY <1>2, EventsInv, GetPopupInv, GrabInv, PopupDestroyInv, CreateSurfaceInv,
     DestroySurfaceInv
<1>3. ASSUME NEW c \in Client,
             \/ GetKeyboard(c) \/ ReleaseKeyboard(c) \/ Enable(c) \/ Disable(c)
             \/ ClientGone(c)
      PROVE  KeyboardInv'
  BY <1>3, GetKeyboardInv, ReleaseKeyboardInv, TextInputInv, ClientGoneInv
<1>4. ASSUME NEW l \in Lock, LockSession(l) \/ Unlock(l) PROVE KeyboardInv'
  BY <1>4, LockInv
<1>5. QED
  BY <1>1, <1>2, <1>3, <1>4 DEF Next

(***************************************************************************)
(* The keyboard is at one client and that client was told, whichever of    *)
(* the five ways the focus moved, for any clients, surfaces and popups     *)
(* (event_forward.c, raw_input.c, xdg_shell.c, wl_xdg_activation.c).       *)
(***************************************************************************)
THEOREM KeyboardIsAtOne == Spec => []KeyboardOK
<1>1. KeyboardInv => KeyboardOK
  BY DEF KeyboardInv, KeyboardOK, Told, OneTold, EnterBeforeKeys, TextFollows
<1>2. QED
  BY <1>1, KeyboardInitInv, NextInv, PTL DEF Spec

---------------------------------------------------------------------------
(***************************************************************************)
(* ShmPools: no buffer outlives the mapping its rows are in, and no        *)
(* mapping outlives what refers to it: the reference count of a pool       *)
(* counts its resource and its buffers.                                    *)
(***************************************************************************)

CutFrom(p) == {b \in PoolBuffer : bufferPool[b] = p}

Own(p) == IF p \in wl_shm_pool THEN 1 ELSE 0

\* The reference count is the number of references.
Counted == \A p \in Pool : ref_count[p] = Cardinality(CutFrom(p)) + Own(p)

\* A pool is mapped as long as it is referred to.
MappedWhileReferred == \A p \in Pool : size[p] = 0 <=> ref_count[p] = 0

\* What validate_bounds checked when a buffer was cut still holds.
StaysWithin ==
  \A b \in PoolBuffer :
    bufferPool[b] # NoPool => WithinBounds(geometry[b], size[bufferPool[b]])

PoolsInv == ShmTypeOK /\ Counted /\ MappedWhileReferred /\ StaysWithin

---------------------------------------------------------------------------
(* Sets of buffers *)

LEMMA CutFromIsFinite ==
  ASSUME NEW p
  PROVE  IsFiniteSet(CutFrom(p)) /\ Cardinality(CutFrom(p)) \in Nat
<1>1. CutFrom(p) \in SUBSET PoolBuffer
  BY DEF CutFrom
<1>2. IsFiniteSet(CutFrom(p))
  BY <1>1, FS_Subset, ShmAssumption
<1>3. QED
  BY <1>2, FS_CardinalityType

\* A pool no buffer is cut from.
LEMMA NoneCut ==
  ASSUME NEW p, Cardinality(CutFrom(p)) = 0, NEW b \in PoolBuffer
  PROVE  bufferPool[b] # p
<1>1. CutFrom(p) = {}
  BY CutFromIsFinite, FS_EmptySet
<1>2. QED
  BY <1>1 DEF CutFrom

\* A pool some buffer is cut from.
LEMMA SomeCut ==
  ASSUME NEW b \in PoolBuffer
  PROVE  Cardinality(CutFrom(bufferPool[b])) # 0
<1>1. b \in CutFrom(bufferPool[b])
  BY DEF CutFrom
<1>2. QED
  BY <1>1, CutFromIsFinite, FS_EmptySet

(***************************************************************************)
(* Rows: what validate_bounds admits by the last row holds for every row.  *)
(***************************************************************************)
LEMMA FieldsAreInts ==
  ASSUME NEW g \in Geometry
  PROVE  /\ g.offset \in Int /\ g.stride \in Nat /\ g.height \in Nat
         /\ g.bytes \in Nat /\ g.width \in Nat
  BY ShmAssumption DEF Geometry

LEMMA RowsBelowLast ==
  ASSUME NEW g \in Geometry, NEW limit \in Int, WithinBounds(g, limit),
         NEW row \in 0..(g.height - 1)
  PROVE  LET start == g.offset + g.stride * row
         IN  0 <= start /\ start + g.bytes * g.width <= limit
<1> DEFINE last == g.height - 1
<1>1. /\ g.offset \in Int /\ g.offset >= 0 /\ g.stride \in Nat
      /\ g.height \in Nat /\ g.bytes \in Nat /\ g.width \in Nat
  BY FieldsAreInts DEF WithinBounds
<1>2. row \in Nat /\ last \in Int /\ row <= last
  BY <1>1
<1>3. g.stride * row \in Nat /\ g.bytes * g.width \in Nat
  BY <1>1, <1>2
<1>4. g.stride * last \in Int /\ g.stride * row <= g.stride * last
  BY <1>1, <1>2
<1>5. g.offset + g.stride * last + g.bytes * g.width <= limit
  BY DEF WithinBounds
<1> HIDE DEF last
<1>6. QED
  BY <1>1, <1>3, <1>4, <1>5

---------------------------------------------------------------------------
(* The invariant *)

LEMMA PoolsInitInv == ShmInit => PoolsInv
<1> SUFFICES ASSUME ShmInit PROVE PoolsInv
  OBVIOUS
<1>1. ShmTypeOK
  BY ShmAssumption DEF ShmInit, ShmTypeOK
<1>2. Counted
  <2> SUFFICES ASSUME NEW p \in Pool
               PROVE  ref_count[p] = Cardinality(CutFrom(p)) + Own(p)
    BY DEF Counted
  <2>1. CutFrom(p) = {}
    BY ShmAssumption DEF ShmInit, CutFrom
  <2>2. QED
    BY <2>1, FS_EmptySet DEF ShmInit, Own
<1>3. MappedWhileReferred /\ StaysWithin
  BY DEF ShmInit, MappedWhileReferred, StaysWithin
<1>4. QED
  BY <1>1, <1>2, <1>3 DEF PoolsInv

LEMMA CreateInv ==
  ASSUME PoolsInv, NEW p \in Pool, NEW n \in PoolSize, CreatePool(p, n)
  PROVE  PoolsInv'
<1>1. p \notin wl_shm_pool /\ Cardinality(CutFrom(p)) = 0
  BY CutFromIsFinite DEF CreatePool, PoolsInv, Counted, Own
<1>2. ShmTypeOK'
  BY ShmAssumption DEF CreatePool, PoolsInv, ShmTypeOK
<1>3. \A q : CutFrom(q)' = CutFrom(q)
  BY DEF CreatePool, CutFrom
<1>4. Counted'
  BY <1>1, <1>3, ShmAssumption
     DEF CreatePool, PoolsInv, Counted, Own, ShmTypeOK
<1>5. MappedWhileReferred'
  BY ShmAssumption DEF CreatePool, PoolsInv, MappedWhileReferred, ShmTypeOK
<1>6. StaysWithin'
  BY <1>1, NoneCut DEF CreatePool, PoolsInv, StaysWithin, ShmTypeOK
<1>7. QED
  BY <1>2, <1>4, <1>5, <1>6 DEF PoolsInv

LEMMA SizeIsNat ==
  ASSUME ShmTypeOK, NEW q \in Pool
  PROVE  size[q] \in Nat
<1>1. PoolSize \cup {0} \subseteq Nat
  BY ShmAssumption
<1>2. size[q] \in PoolSize \cup {0}
  BY DEF ShmTypeOK
<1>3. QED
  BY <1>1, <1>2

LEMMA ResizeInv ==
  ASSUME PoolsInv, NEW p \in Pool, NEW n \in PoolSize, ResizePool(p, n)
  PROVE  PoolsInv'
<1>1. ShmTypeOK'
  BY DEF ResizePool, PoolsInv, ShmTypeOK
<1>2. Counted'
  BY DEF ResizePool, PoolsInv, Counted, Own, CutFrom
<1>3. ref_count[p] # 0
  BY CutFromIsFinite DEF ResizePool, PoolsInv, Counted, Own
<1>4. MappedWhileReferred'
  BY <1>3, ShmAssumption DEF ResizePool, PoolsInv, MappedWhileReferred, ShmTypeOK
<1>5. StaysWithin'
  <2> SUFFICES ASSUME NEW b \in PoolBuffer, bufferPool[b] # NoPool
               PROVE  WithinBounds(geometry[b], size'[bufferPool[b]])
    BY DEF ResizePool, StaysWithin
  <2> DEFINE g == geometry[b]
             end == g.offset + g.stride * (g.height - 1) + g.bytes * g.width
  <2>1. bufferPool[b] \in Pool /\ g \in Geometry
    BY DEF PoolsInv, ShmTypeOK
  <2>2. size[bufferPool[b]] \in Nat /\ size'[bufferPool[b]] \in Nat
        /\ size[bufferPool[b]] <= size'[bufferPool[b]]
    <3>1. size[bufferPool[b]] \in Nat /\ n \in Nat
      BY <2>1, SizeIsNat, ShmAssumption DEF PoolsInv
    <3>2. size'[bufferPool[b]] = IF bufferPool[b] = p THEN n ELSE size[bufferPool[b]]
      BY <2>1 DEF ResizePool, PoolsInv, ShmTypeOK
    <3>3. QED
      BY <3>1, <3>2 DEF ResizePool
  <2>3. g.offset >= 0 /\ end <= size[bufferPool[b]]
    BY DEF PoolsInv, StaysWithin, WithinBounds
  <2>4. end \in Int
    <3>1. /\ g.offset \in Int /\ g.stride \in Int /\ g.height \in Int
          /\ g.bytes \in Int /\ g.width \in Int
      BY <2>1, FieldsAreInts
    <3>2. g.stride * (g.height - 1) \in Int /\ g.bytes * g.width \in Int
      BY <3>1
    <3>3. QED
      BY <3>1, <3>2
  <2> HIDE DEF end
  <2>5. end <= size'[bufferPool[b]]
    BY <2>2, <2>3, <2>4
  <2>6. QED
    BY <2>3, <2>5 DEF WithinBounds, end
<1>6. QED
  BY <1>1, <1>2, <1>4, <1>5 DEF PoolsInv

LEMMA CutInv ==
  ASSUME PoolsInv, NEW b \in PoolBuffer, NEW p \in Pool, NEW g \in Geometry,
         CutBuffer(b, p, g)
  PROVE  PoolsInv'
<1>1. ShmTypeOK'
  BY ShmAssumption, NoGeometry DEF CutBuffer, PoolsInv, ShmTypeOK
<1>2. Counted'
  <2> SUFFICES ASSUME NEW q \in Pool
               PROVE  ref_count'[q] = Cardinality(CutFrom(q)') + Own(q)'
    BY DEF Counted
  <2>1. Own(q)' = Own(q) /\ ref_count[q] = Cardinality(CutFrom(q)) + Own(q)
    BY DEF CutBuffer, PoolsInv, Counted, Own
  <2>2. CASE q = p
    <3>1. CutFrom(p)' = CutFrom(p) \cup {b} /\ b \notin CutFrom(p)
      BY ShmAssumption DEF CutBuffer, PoolsInv, ShmTypeOK, CutFrom
    <3>2. Cardinality(CutFrom(p)') = Cardinality(CutFrom(p)) + 1
      BY <3>1, CutFromIsFinite, FS_AddElement
    <3>3. ref_count'[p] = ref_count[p] + 1
      BY DEF CutBuffer, PoolsInv, ShmTypeOK
    <3>4. QED
      BY <2>1, <2>2, <3>2, <3>3, CutFromIsFinite DEF Own
  <2>3. CASE q # p
    <3>1. CutFrom(q)' = CutFrom(q)
      BY <2>3, ShmAssumption DEF CutBuffer, PoolsInv, ShmTypeOK, CutFrom
    <3>2. ref_count'[q] = ref_count[q]
      BY <2>3 DEF CutBuffer, PoolsInv, ShmTypeOK
    <3>3. QED
      BY <2>1, <3>1, <3>2
  <2>4. QED
    BY <2>2, <2>3
<1>3. MappedWhileReferred'
  <2>1. ref_count[p] # 0
    BY CutFromIsFinite DEF CutBuffer, PoolsInv, Counted, Own
  <2>2. QED
    BY <2>1 DEF CutBuffer, PoolsInv, MappedWhileReferred, ShmTypeOK
<1>4. StaysWithin'
  BY DEF CutBuffer, PoolsInv, StaysWithin, ShmTypeOK
<1>5. QED
  BY <1>1, <1>2, <1>3, <1>4 DEF PoolsInv

\* pool_unref, for the one reference that goes.
LEMMA UnrefMapped ==
  ASSUME PoolsInv, NEW p \in Pool, Unref(p), ref_count[p] >= 1
  PROVE  /\ ref_count' \in [Pool -> Nat] /\ size' \in [Pool -> PoolSize \cup {0}]
         /\ MappedWhileReferred'
         /\ \A q \in Pool : q # p \/ ref_count[p] > 1 => size'[q] = size[q]
         /\ ref_count' = [ref_count EXCEPT ![p] = @ - 1]
<1>1. ref_count[p] \in Nat
  BY DEF PoolsInv, ShmTypeOK
<1>2. QED
  BY <1>1, ShmAssumption DEF Unref, PoolsInv, ShmTypeOK, MappedWhileReferred

LEMMA DestroyInv ==
  ASSUME PoolsInv, NEW p \in Pool, DestroyPool(p)
  PROVE  PoolsInv'
<1>1. ref_count[p] = Cardinality(CutFrom(p)) + 1
  BY DEF DestroyPool, PoolsInv, Counted, Own
<1>2. ref_count[p] >= 1
  BY <1>1, CutFromIsFinite
<1>3. Unref(p)
  BY DEF DestroyPool
<1>4. ShmTypeOK'
  BY <1>2, <1>3, UnrefMapped DEF DestroyPool, PoolsInv, ShmTypeOK
<1>5. Counted'
  <2> SUFFICES ASSUME NEW q \in Pool
               PROVE  ref_count'[q] = Cardinality(CutFrom(q)') + Own(q)'
    BY DEF Counted
  <2>1. CutFrom(q)' = CutFrom(q)
    BY DEF DestroyPool, CutFrom
  <2>2. /\ ref_count'[q] = IF q = p THEN ref_count[p] - 1 ELSE ref_count[q]
        /\ Own(q)' = IF q = p THEN 0 ELSE Own(q)
    BY <1>3 DEF DestroyPool, Unref, PoolsInv, ShmTypeOK, Own
  <2>3. ref_count[q] = Cardinality(CutFrom(q)) + Own(q)
    BY DEF PoolsInv, Counted
  <2>4. QED
    BY <1>1, <2>1, <2>2, <2>3, CutFromIsFinite
<1>6. StaysWithin'
  <2> SUFFICES ASSUME NEW b \in PoolBuffer, bufferPool[b] # NoPool
               PROVE  size'[bufferPool[b]] = size[bufferPool[b]]
    BY DEF DestroyPool, PoolsInv, StaysWithin
  <2>1. bufferPool[b] \in Pool
    BY DEF PoolsInv, ShmTypeOK
  <2>2. CASE bufferPool[b] = p
    BY <1>1, <1>2, <1>3, <2>2, SomeCut, CutFromIsFinite, UnrefMapped
  <2>3. CASE bufferPool[b] # p
    BY <1>2, <1>3, <2>1, <2>3, UnrefMapped
  <2>4. QED
    BY <2>2, <2>3
<1>7. QED
  BY <1>2, <1>3, <1>4, <1>5, <1>6, UnrefMapped DEF PoolsInv

LEMMA FreeInv ==
  ASSUME PoolsInv, NEW b \in PoolBuffer, FreePoolBuffer(b)
  PROVE  PoolsInv'
<1>1. PICK p \in Pool : p = bufferPool[b] /\ Unref(p)
  BY DEF FreePoolBuffer, PoolsInv, ShmTypeOK
<1>2. ref_count[p] = Cardinality(CutFrom(p)) + Own(p) /\ Own(p) \in {0, 1}
  BY <1>1 DEF PoolsInv, Counted, Own
<1>3. ref_count[p] >= 1
  BY <1>1, <1>2, SomeCut, CutFromIsFinite
<1>4. ShmTypeOK'
  BY <1>1, <1>3, UnrefMapped DEF FreePoolBuffer, PoolsInv, ShmTypeOK
<1>5. /\ CutFrom(p)' = CutFrom(p) \ {b} /\ b \in CutFrom(p)
      /\ \A q \in Pool \ {p} : CutFrom(q)' = CutFrom(q)
  BY <1>1, ShmAssumption DEF FreePoolBuffer, PoolsInv, ShmTypeOK, CutFrom
<1>6. Cardinality(CutFrom(p)') = Cardinality(CutFrom(p)) - 1
  BY <1>5, CutFromIsFinite, FS_RemoveElement
<1>7. Counted'
  <2> SUFFICES ASSUME NEW q \in Pool
               PROVE  ref_count'[q] = Cardinality(CutFrom(q)') + Own(q)'
    BY DEF Counted
  <2>1. Own(q)' = Own(q) /\ ref_count[q] = Cardinality(CutFrom(q)) + Own(q)
    BY DEF FreePoolBuffer, PoolsInv, Counted, Own
  <2>2. CASE q = p
    <3>1. ref_count'[p] = ref_count[p] - 1
      BY <1>1 DEF Unref, PoolsInv, ShmTypeOK
    <3>2. QED
      BY <1>2, <1>6, <2>1, <2>2, <3>1, CutFromIsFinite
  <2>3. CASE q # p
    <3>1. ref_count'[q] = ref_count[q]
      BY <1>1, <2>3 DEF Unref, PoolsInv, ShmTypeOK
    <3>2. QED
      BY <1>5, <2>1, <2>3, <3>1
  <2>4. QED
    BY <2>2, <2>3
<1>8. StaysWithin'
  <2> SUFFICES ASSUME NEW c \in PoolBuffer, bufferPool'[c] # NoPool
               PROVE  WithinBounds(geometry'[c], size'[bufferPool'[c]])
    BY DEF StaysWithin
  <2>1. c # b
    BY DEF FreePoolBuffer, PoolsInv, ShmTypeOK
  <2>2. bufferPool'[c] = bufferPool[c] /\ geometry'[c] = geometry[c]
    BY <2>1 DEF FreePoolBuffer, PoolsInv, ShmTypeOK
  <2>3. bufferPool[c] \in Pool
    BY <2>2 DEF PoolsInv, ShmTypeOK
  <2>4. CASE bufferPool[c] = p
    <3>1. c \in CutFrom(p) \ {b}
      BY <2>1, <2>4 DEF CutFrom
    <3>2. IsFiniteSet(CutFrom(p)') /\ Cardinality(CutFrom(p)') # 0
      BY <1>5, <3>1, CutFromIsFinite, FS_RemoveElement, FS_EmptySet
    <3>3. Cardinality(CutFrom(p)) > 1
      BY <1>6, <3>2, CutFromIsFinite, FS_CardinalityType
    <3>4. ref_count[p] > 1
      BY <1>2, <3>3, CutFromIsFinite
    <3>5. size'[p] = size[p]
      BY <1>1, <1>3, <3>4, UnrefMapped
    <3>6. QED
      BY <2>2, <2>4, <3>5 DEF PoolsInv, StaysWithin
  <2>5. CASE bufferPool[c] # p
    <3>1. size'[bufferPool[c]] = size[bufferPool[c]]
      BY <1>1, <1>3, <2>3, <2>5, UnrefMapped
    <3>2. QED
      BY <2>2, <3>1 DEF PoolsInv, StaysWithin
  <2>6. QED
    BY <2>4, <2>5
<1>9. QED
  BY <1>1, <1>3, <1>4, <1>7, <1>8, UnrefMapped DEF PoolsInv

---------------------------------------------------------------------------
(* The invariant gives the property. *)

LEMMA IInvIsEnough == PoolsInv => ShmOK
<1> SUFFICES ASSUME PoolsInv PROVE ShmOK
  OBVIOUS
<1>1. RowsAreMapped
  <2> SUFFICES ASSUME NEW b \in PoolBuffer, bufferPool[b] # NoPool,
                      NEW row \in 0..(geometry[b].height - 1)
               PROVE  LET start == geometry[b].offset + geometry[b].stride * row
                      IN  /\ 0 <= start
                          /\ start + geometry[b].bytes * geometry[b].width
                               <= size[bufferPool[b]]
    BY DEF RowsAreMapped
  <2>1. geometry[b] \in Geometry /\ size[bufferPool[b]] \in Int
    BY SizeIsNat DEF PoolsInv, ShmTypeOK
  <2>2. WithinBounds(geometry[b], size[bufferPool[b]])
    BY DEF PoolsInv, StaysWithin
  <2>3. QED
    BY <2>1, <2>2, RowsBelowLast
<1>2. NoPoolLeaks
  <2> SUFFICES ASSUME NEW p \in Pool, size[p] # 0, p \notin wl_shm_pool
               PROVE  \E b \in PoolBuffer : bufferPool[b] = p
    BY DEF NoPoolLeaks
  <2>1. Cardinality(CutFrom(p)) # 0
    BY CutFromIsFinite DEF PoolsInv, MappedWhileReferred, Counted, Own
  <2>2. CutFrom(p) # {}
    BY <2>1, FS_EmptySet
  <2>3. QED
    BY <2>2 DEF CutFrom
<1>3. QED
  BY <1>1, <1>2 DEF PoolsInv, ShmOK

(***************************************************************************)
(* Pools, mappings and buffers agree in every reachable state (wl_shm.c):  *)
(* the references of a pool are counted right.                             *)
(***************************************************************************)
THEOREM PoolsAreCounted == ShmSpec => []PoolsInv
<1>1. PoolsInv /\ [ShmNext]_shmVars => PoolsInv'
  <2> SUFFICES ASSUME PoolsInv, [ShmNext]_shmVars PROVE PoolsInv'
    OBVIOUS
  <2>1. CASE UNCHANGED shmVars
    BY <2>1 DEF shmVars, PoolsInv, ShmTypeOK, Counted, CutFrom, Own,
                MappedWhileReferred, StaysWithin, WithinBounds
  <2>2. CASE ShmNext
    BY <2>2, CreateInv, ResizeInv, DestroyInv, CutInv, FreeInv DEF ShmNext
  <2>3. QED
    BY <2>1, <2>2
<1>2. QED
  BY PoolsInitInv, <1>1, PTL DEF ShmSpec

(***************************************************************************)
(* Every row of every buffer is in mapped memory as long as the buffer     *)
(* lives, and a mapping nothing refers to is gone (wl_shm.c).              *)
(***************************************************************************)
THEOREM RowsStayMapped == ShmSpec => []ShmOK
  BY PoolsAreCounted, IInvIsEnough, PTL

---------------------------------------------------------------------------
(***************************************************************************)
(* IdleNotify: a notification is idle after its timeout and not before.    *)
(***************************************************************************)

\* Seen from its timer: what is left of an armed one and the quiet there was
\* make up the timeout, and one that has fired has seen it pass.
TimerCounts ==
  \A n \in Notifs :
    /\ notifs[n].armed => notifs[n].left + quiet[n] >= notifs[n].timeout
    /\ notifs[n].armed => ~notifs[n].idled /\ notifs[n].left <= notifs[n].timeout

IdleInv == IdleOK /\ TimerCounts

\* What is on the record of a notification.
LEMMA NotifFields ==
  ASSUME NEW x \in Notif
  PROVE  /\ x.timeout \in Timeout /\ x.timeout \in 0..LongQuiet /\ x.timeout \in Int
         /\ x.left \in 0..LongQuiet /\ x.left \in Int
<1>1. x.timeout \in Timeout /\ x.left \in 0..LongQuiet
  BY DEF Notif
<1>2. x.timeout \in 0..LongQuiet
  BY <1>1, IdleAssumption
<1> QED BY <1>1, <1>2

\* A notification that exists, and the quiet it has seen
LEMMA NotifIs == ASSUME NEW n \in Notifs, IdleTypeOK
                 PROVE  /\ n \in Notification /\ notifs[n] \in Notif
                        /\ quiet[n] \in 0..LongQuiet /\ quiet[n] \in Int
<1>1. n \in Notification /\ notifs[n] \in Notif /\ quiet[n] \in 0..LongQuiet
  BY DEF Notifs, IdleTypeOK
<1>2. \A q \in 0..LongQuiet : q \in Int
  OBVIOUS
<1> QED BY <1>1, <1>2

\* An armed timer starts from the timeout.
LEMMA ArmedIs ==
  ASSUME NEW x \in Notif
  PROVE  /\ Armed(x) \in Notif
         /\ Armed(x).timeout = x.timeout /\ Armed(x).left = x.timeout
         /\ Armed(x).idled = x.idled /\ (Armed(x).armed <=> x.timeout # 0)
  BY IdleAssumption DEF Notif, Armed

\* What activity and a tick make of a notification.
LEMMA WokenIs ==
  ASSUME NEW x \in Notif
  PROVE  LET w == Armed([x EXCEPT !.idled = FALSE])
         IN  /\ w \in Notif /\ ~w.idled /\ w.left = w.timeout
             /\ (w.armed <=> w.timeout # 0)
<1> DEFINE y == [x EXCEPT !.idled = FALSE]
<1>1. y \in Notif /\ ~y.idled /\ y.timeout = x.timeout
  BY DEF Notif
<1> HIDE DEF y
<1>2. Armed(y) \in Notif /\ ~Armed(y).idled /\ Armed(y).left = Armed(y).timeout
      /\ (Armed(y).armed <=> Armed(y).timeout # 0)
  BY <1>1, ArmedIs
<1> QED BY <1>2 DEF y

\* One tick of its timer
LEMMA TickedIs ==
  ASSUME NEW x \in Notif, x.left > 0
  PROVE  LET w == [x EXCEPT !.left = @ - 1]
         IN  /\ w \in Notif /\ w.timeout = x.timeout /\ w.idled = x.idled
             /\ w.armed = x.armed /\ w.left = x.left - 1
<1>1. x.left - 1 \in 0..LongQuiet
  BY NotifFields, IdleAssumption
<1> QED BY <1>1 DEF Notif

\* A notification is idled only after quiet of its length, and while it is not, a
\* timer runs that will tell it (create_notification, idle_timer_callback and
\* bridge_idle_notify_activity in wl_idle_notify.c).
THEOREM IdleIsQuiet == IdleSpec => []IdleOK
<1>1. IdleInit => IdleInv
  BY IdleAssumption DEF IdleInit, IdleInv, IdleOK, IdleTypeOK, IdledIsQuiet, QuietWillBeTold,
     TimerCounts, Notifs
<1>2. IdleInv /\ [IdleNext]_idleVars => IdleInv'
  <2> SUFFICES ASSUME IdleInv, [IdleNext]_idleVars PROVE IdleInv'
    OBVIOUS
  <2>0. IdleTypeOK /\ IdledIsQuiet /\ QuietWillBeTold /\ TimerCounts
    BY DEF IdleInv, IdleOK
  <2> USE IdleAssumption DEF IdleInv, IdleOK, IdleTypeOK, IdledIsQuiet, QuietWillBeTold,
      TimerCounts, Notifs
  <2>1. ASSUME NEW n \in Notification, NEW t \in Timeout, CreateNotification(n, t)
        PROVE  IdleInv'
    <3> DEFINE x == [timeout |-> t, idled |-> FALSE, left |-> 0, armed |-> FALSE]
    <3>1. x \in Notif
      BY DEF Notif
    <3>2. Armed(x) \in Notif /\ Armed(x).timeout = t /\ Armed(x).left = t
          /\ ~Armed(x).idled /\ (Armed(x).armed <=> t # 0) /\ t \in 0..LongQuiet
      BY <3>1, ArmedIs
    <3>3. notifs' = [notifs EXCEPT ![n] = Armed(x)] /\ quiet' = [quiet EXCEPT ![n] = 0]
      BY <2>1 DEF CreateNotification
    <3> HIDE DEF x
    <3> QED BY <2>0, <3>2, <3>3
  <2>2. ASSUME NEW n \in Notification, DestroyNotification(n) PROVE IdleInv'
    BY <2>0, <2>2 DEF DestroyNotification
  <2>3. ASSUME NEW n \in Notification, IdleTimer(n) PROVE IdleInv'
    <3>1. n \in Notifs /\ notifs[n] \in Notif /\ notifs[n].armed /\ notifs[n].left = 0
      BY <2>0, <2>3, NotifIs DEF IdleTimer
    <3> DEFINE y == [notifs[n] EXCEPT !.armed = FALSE, !.idled = TRUE]
    <3>2. notifs' = [notifs EXCEPT ![n] = y] /\ quiet' = quiet
      BY <2>0, <2>3 DEF IdleTimer
    <3>3. y \in Notif /\ ~y.armed /\ y.idled /\ y.timeout = notifs[n].timeout
      BY <3>1 DEF Notif
    <3>4. quiet[n] >= y.timeout
      BY <2>0, <3>1, <3>3, NotifIs, NotifFields
    <3> HIDE DEF y
    <3> QED BY <2>0, <3>2, <3>3, <3>4
  <2>4. ASSUME Activity PROVE IdleInv'
    <3>1. /\ notifs' = [n \in Notification |->
                IF n \in Notifs THEN Armed([notifs[n] EXCEPT !.idled = FALSE]) ELSE notifs[n]]
          /\ quiet' = [n \in Notification |-> 0]
      BY <2>4 DEF Activity
    <3>2. ASSUME NEW n \in Notifs
          PROVE  /\ notifs'[n] \in Notif /\ ~notifs'[n].idled
                 /\ notifs'[n].left = notifs'[n].timeout
                 /\ (notifs'[n].armed <=> notifs'[n].timeout # 0)
      <4>1. notifs[n] \in Notif /\ n \in Notification
        BY <2>0, NotifIs
      <4>2. notifs'[n] = Armed([notifs[n] EXCEPT !.idled = FALSE])
        BY <3>1, <4>1
      <4> QED BY <4>1, <4>2, WokenIs
    <3>3. ASSUME NEW n \in Notification
          PROVE  quiet'[n] = 0 /\ (n \notin Notifs => notifs'[n] = NoNotification)
      BY <3>1
    <3>4. Notifs' \subseteq Notifs
      BY <3>3
    <3>5. notifs' \in [Notification -> Notif \cup {NoNotification}]
      <4>1. ASSUME NEW n \in Notification PROVE notifs'[n] \in Notif \cup {NoNotification}
        BY <3>2, <3>3
      <4>2. notifs' = [n \in Notification |-> notifs'[n]]
        BY <3>1
      <4> QED BY <4>1, <4>2
    <3>6. IdleTypeOK'
      BY <3>1, <3>5
    <3>7. ASSUME NEW n \in Notifs'
          PROVE  quiet'[n] = 0 /\ notifs'[n].timeout \in Int
                 /\ ~notifs'[n].idled /\ notifs'[n].left = notifs'[n].timeout
                 /\ (notifs'[n].armed <=> notifs'[n].timeout # 0)
      <4>1. n \in Notifs /\ n \in Notification
        BY <3>4
      <4> QED BY <4>1, <3>2, <3>3, NotifFields
    <3> QED BY <3>6, <3>7
  <2>5. ASSUME Tick PROVE IdleInv'
    <3>0. /\ notifs' = [n \in Notification |->
               IF n \in Notifs /\ notifs[n].left > 0 THEN [notifs[n] EXCEPT !.left = @ - 1]
               ELSE notifs[n]]
          /\ quiet' = [n \in Notification |->
               IF n \in Notifs /\ quiet[n] < LongQuiet THEN quiet[n] + 1 ELSE quiet[n]]
      BY <2>5 DEF Tick
    <3>1. ASSUME NEW n \in Notifs
          PROVE  /\ notifs'[n] \in Notif
                 /\ notifs'[n].timeout = notifs[n].timeout
                 /\ notifs'[n].idled = notifs[n].idled /\ notifs'[n].armed = notifs[n].armed
                 /\ notifs'[n].left = IF notifs[n].left > 0 THEN notifs[n].left - 1
                                      ELSE notifs[n].left
      <4>1. notifs[n] \in Notif /\ n \in Notification
        BY <2>0, NotifIs
      <4>2. CASE notifs[n].left > 0
        <5>1. notifs'[n] = [notifs[n] EXCEPT !.left = @ - 1]
          BY <3>0, <4>1, <4>2
        <5> QED BY <4>1, <4>2, <5>1, TickedIs
      <4>3. CASE ~(notifs[n].left > 0)
        <5>1. notifs'[n] = notifs[n]
          BY <3>0, <4>1, <4>3
        <5> QED BY <4>1, <4>3, <5>1
      <4> QED BY <4>2, <4>3
    <3>2. ASSUME NEW n \in Notification
          PROVE  /\ n \notin Notifs => notifs'[n] = NoNotification
                 /\ quiet'[n] \in 0..LongQuiet
      BY <2>0, <3>0
    <3>3. ASSUME NEW n \in Notifs
          PROVE  quiet'[n] >= quiet[n] /\ quiet'[n] \in Int
                 /\ (quiet[n] < LongQuiet => quiet'[n] = quiet[n] + 1)
      BY <2>0, <3>0, NotifIs
    <3>4. Notifs' \subseteq Notifs
      BY <3>2
    <3>5. IdleTypeOK'
      <4>1. ASSUME NEW n \in Notification PROVE notifs'[n] \in Notif \cup {NoNotification}
        BY <3>1, <3>2
      <4>2. notifs' = [n \in Notification |-> notifs'[n]] /\ quiet' = [n \in Notification |-> quiet'[n]]
        BY <3>0
      <4> QED BY <3>2, <4>1, <4>2
    <3>6. ASSUME NEW n \in Notifs'
          PROVE  /\ notifs'[n].idled => quiet'[n] >= notifs'[n].timeout
                 /\ ~notifs'[n].idled => notifs'[n].armed \/ notifs'[n].timeout = 0
                 /\ notifs'[n].armed => notifs'[n].left + quiet'[n] >= notifs'[n].timeout
                 /\ notifs'[n].armed => ~notifs'[n].idled /\ notifs'[n].left <= notifs'[n].timeout
      <4>1. n \in Notifs
        BY <3>4
      <4>2. /\ notifs[n].timeout \in 0..LongQuiet /\ notifs[n].left \in 0..LongQuiet
            /\ quiet[n] \in 0..LongQuiet
        BY <2>0, <4>1, NotifIs, NotifFields
      <4>3. /\ notifs[n].idled => quiet[n] >= notifs[n].timeout
            /\ ~notifs[n].idled => notifs[n].armed \/ notifs[n].timeout = 0
            /\ notifs[n].armed => notifs[n].left + quiet[n] >= notifs[n].timeout
            /\ notifs[n].armed => ~notifs[n].idled /\ notifs[n].left <= notifs[n].timeout
        BY <2>0, <4>1
      <4> QED BY <4>1, <4>2, <4>3, <3>1, <3>3, IdleAssumption
    <3> QED BY <3>5, <3>6
  <2>6. CASE UNCHANGED idleVars
    BY <2>0, <2>6 DEF idleVars
  <2> QED BY <2>1, <2>2, <2>3, <2>4, <2>5, <2>6 DEF IdleNext
<1>3. IdleInv => IdleOK
  BY DEF IdleInv
<1> QED BY <1>1, <1>2, <1>3, PTL DEF IdleSpec

---------------------------------------------------------------------------
(***************************************************************************)
(* BridgeMain: what was set up is undone in the reverse order.             *)
(***************************************************************************)

\* What is undone, one by one
LEMMA UndoneIs ==
  /\ DOMAIN Undone = 1..7
  /\ Range(Undone) = {"xwayland", "dmabuf", "weston", "logger", "display", "plexy", "bridge"}
<1>1. DOMAIN Undone = 1..7
  BY DEF Undone
<1>2. 1..7 = {1, 2, 3, 4, 5, 6, 7}
  OBVIOUS
<1> QED BY <1>1, <1>2 DEF Undone, Range

\* How far main is says what it has made: the last two of an orderly stop are
\* Plexy and the bridge, and what was started hangs together until then.
HeldByPhase ==
  /\ phase = "begin" => held = {} /\ ~running
  /\ phase = "server" => held \subseteq {"bridge", "dmabuf"} /\ "bridge" \in held
  /\ phase = "weston" => held \subseteq {"bridge", "dmabuf", "display", "logger"}
                         /\ {"bridge", "display"} \subseteq held
  /\ phase = "plexy" => held \subseteq {"bridge", "dmabuf", "display", "logger", "weston"}
                         /\ {"bridge", "display"} \subseteq held
  /\ phase \in {"ready", "loop"} => {"bridge", "display", "plexy"} \subseteq held
  /\ phase = "ready" => "xwayland" \notin held
  /\ phase = "down" => /\ "bridge" \in held
                       /\ "xwayland" \in held => {"display", "plexy"} \subseteq held
                       /\ "display" \in held => "plexy" \in held
                       /\ held \cap {"source", "timer"} # {} => "display" \in held
  /\ phase # "exited" => status = 0
  /\ ~early /\ phase \in {"server", "weston", "plexy", "ready"} => running
  /\ phase = "loop" /\ ~early => running = run

MainInv == MainOK /\ HeldByPhase

\* Whatever ends the loop, all that was set up is undone in order; a start that
\* fails leaves what LeftByFailure names and no peer connected (main,
\* init_wayland_server, init_plexy_client and signal_handler in wayland_bridge.c).
THEOREM StopUndoesInOrder == MainSpec => []MainOK
<1>1. MainInit => MainInv
  BY DEF MainInit, MainInv, MainOK, MainTypeOK, StopsInOrder, LeftByFailure, NoPeerIsLeft, ServedIsRunning,
     HeldByPhase, Starting
<1>2. MainInv /\ [MainNext]_mainVars => MainInv'
  <2> SUFFICES ASSUME MainInv, [MainNext]_mainVars PROVE MainInv'
    OBVIOUS
  <2> USE DEF MainInv, MainOK, MainTypeOK, StopsInOrder, LeftByFailure, NoPeerIsLeft, ServedIsRunning,
      HeldByPhase, Starting
  <2>0. DOMAIN Undone = 1..7 /\ Range(Undone) = {"xwayland", "dmabuf", "weston", "logger", "display", "plexy", "bridge"}
    BY UndoneIs
  <2>1. CASE Prepare
    <3>1. CASE Fail({})
      BY <3>1, <2>1 DEF Prepare, Fail
    <3>2. CASE /\ held' \in {{"bridge"}, {"bridge", "dmabuf"}}
               /\ running' = TRUE /\ phase' = "server"
               /\ UNCHANGED <<globals, run, lost, early, status>>
      BY <3>2, <2>1, <2>0 DEF Prepare
    <3> QED BY <2>1, <3>1, <3>2 DEF Prepare
  <2>2. CASE InitServer
    <3>1. PICK display \in BOOLEAN, socket \in BOOLEAN, made \in SUBSET Essential,
               logger \in SUBSET {"logger"} :
            IF display /\ socket /\ made = Essential
            THEN /\ held' = held \cup {"display"} \cup logger
                 /\ globals' = made /\ phase' = "weston"
                 /\ UNCHANGED <<running, run, lost, early, status>>
            ELSE Fail((held \ {"bridge"}) \cup (IF display THEN {"display"} ELSE {})
                      \cup (IF display /\ socket THEN logger ELSE {}))
      BY <2>2 DEF InitServer
    <3>2. CASE display /\ socket /\ made = Essential
      <4>1. held' = held \cup {"display"} \cup logger /\ logger \subseteq {"logger"}
            /\ globals' = made /\ phase' = "weston" /\ phase = "server"
            /\ UNCHANGED <<running, run, lost, early, status>>
        BY <3>1, <3>2, <2>2 DEF InitServer
      <4>2. held' \subseteq {"bridge", "dmabuf", "display", "logger"}
            /\ {"bridge", "display"} \subseteq held'
        BY <4>1
      <4> QED BY <4>1, <4>2, <2>0
    <3>3. CASE ~(display /\ socket /\ made = Essential)
      <4>1. Fail((held \ {"bridge"}) \cup (IF display THEN {"display"} ELSE {})
                      \cup (IF display /\ socket THEN logger ELSE {}))
        BY <3>1, <3>3
      <4>2. held' \subseteq {"dmabuf", "display", "logger"} /\ phase' = "exited" /\ status' = 1
            /\ UNCHANGED <<globals, running, run, lost, early>>
        BY <4>1, <2>2 DEF Fail, InitServer
      <4> QED BY <4>2, <2>0
    <3> QED BY <3>2, <3>3
  <2>3. CASE InitWeston
    BY <2>3, <2>0 DEF InitWeston
  <2>4. CASE InitPlexy
    <3>1. ASSUME NEW made \in {{}, {"plexy"}, {"plexy", "source"}},
                 Fail((held \cup made) \ {"plexy", "display", "source", "bridge"})
          PROVE  MainInv'
      <4>1. held' = (held \cup made) \ {"plexy", "display", "source", "bridge"}
            /\ phase' = "exited" /\ status' = 1
            /\ UNCHANGED <<globals, running, run, lost, early>>
        BY <3>1 DEF Fail
      <4>2. held' \subseteq {"dmabuf", "logger", "weston"}
        BY <4>1, <2>4 DEF InitPlexy
      <4> QED BY <4>1, <4>2, <2>0
    <3>2. CASE /\ held' = held \cup {"plexy", "source"} /\ phase' = "ready"
               /\ UNCHANGED <<globals, running, run, lost, early, status>>
      BY <3>2, <2>4, <2>0 DEF InitPlexy
    <3> QED BY <2>4, <3>1, <3>2 DEF InitPlexy
  <2>5. CASE EnterLoop
    BY <2>5, <2>0 DEF EnterLoop
  <2>6. CASE Signal
    BY <2>6 DEF Signal
  <2>7. CASE PlexyCloses
    BY <2>7 DEF PlexyCloses
  <2>8. CASE PlexyIsLost
    BY <2>8 DEF PlexyIsLost
  <2>9. CASE LeaveLoop
    BY <2>9 DEF LeaveLoop
  <2>10. ASSUME NEW x \in Range(Undone), Undo(x) PROVE MainInv'
    <3>1. /\ phase = "down" /\ x \in held
          /\ held' = held \ (IF x = "display" THEN {x, "source", "timer"} ELSE {x})
          /\ phase' = (IF x = "bridge" THEN "exited" ELSE "down")
          /\ globals' = IF x = "display" THEN {} ELSE globals
          /\ UNCHANGED <<running, run, lost, early, status>>
          /\ \A i, j \in DOMAIN Undone : i < j /\ Undone[j] = x => Undone[i] \notin held
      BY <2>10 DEF Undo
    <3>2. /\ Undone[1] = "xwayland" /\ Undone[2] = "dmabuf" /\ Undone[3] = "weston"
          /\ Undone[4] = "logger" /\ Undone[5] = "display" /\ Undone[6] = "plexy"
          /\ Undone[7] = "bridge" /\ {1, 2, 3, 4, 5, 6, 7} \subseteq DOMAIN Undone
      BY <2>0 DEF Undone
    <3>3. x = "bridge" => held \cap {"xwayland", "dmabuf", "weston", "logger", "display", "plexy"} = {}
      <4> SUFFICES ASSUME x = "bridge", NEW i \in {1, 2, 3, 4, 5, 6}
                   PROVE  Undone[i] \notin held
        BY <3>2
      <4> QED BY <3>1, <3>2
    <3>4. x = "plexy" => held \cap {"xwayland", "display"} = {}
      <4> SUFFICES ASSUME x = "plexy", NEW i \in {1, 5} PROVE Undone[i] \notin held
        BY <3>2
      <4> QED BY <3>1, <3>2
    <3>5. x = "display" => "xwayland" \notin held
      <4> SUFFICES ASSUME x = "display" PROVE Undone[1] \notin held
        BY <3>2
      <4> QED BY <3>1, <3>2
    <3>6. x \in {"xwayland", "dmabuf", "weston", "logger", "display", "plexy", "bridge"} /\ held \subseteq {"xwayland", "dmabuf", "weston", "logger", "display", "plexy", "bridge"} \cup {"source", "timer"}
      BY <2>0
    <3>7. phase' = "exited" => held' = {}
      BY <3>1, <3>3, <3>6
    <3>8. held' \subseteq held
      BY <3>1
    <3>9. phase' = "down" => /\ "bridge" \in held'
                             /\ "xwayland" \in held' => {"display", "plexy"} \subseteq held'
                             /\ "display" \in held' => "plexy" \in held'
                             /\ held' \cap {"source", "timer"} # {} => "display" \in held'
      BY <3>1, <3>4, <3>5, <3>6
    <3> QED BY <3>1, <3>7, <3>8, <3>9, <2>0
  <2>11. CASE UNCHANGED mainVars
    BY <2>11 DEF mainVars
  <2> QED BY <2>1, <2>2, <2>3, <2>4, <2>5, <2>6, <2>7, <2>8, <2>9, <2>10, <2>11 DEF MainNext
<1>3. MainInv => MainOK
  BY DEF MainInv
<1> QED BY <1>1, <1>2, <1>3, PTL DEF MainSpec

---------------------------------------------------------------------------
(***************************************************************************)
(* Selections: the clipboard is one. An invariant says where the text set  *)
(* last is, or how it is coming.                                           *)
(***************************************************************************)

\* Where the text that was set last is, unless two writers raced: it is there
\* already, as far as it was read, or the one reading that is under way brings it.
LatestIsComing ==
  latest # Unsettled =>
    \/ Quiet /\ (IF cut THEN text \in {Empty, Cut(latest)} ELSE text = latest)
    \/ capture # Empty /\ NoneTaken /\ latest = capture /\ text = Empty /\ ~cut
    \/ \E s \in OtherSource :
         /\ taking[s] = 1 /\ \A o \in OtherSource \ {s} : taking[o] = 0
         /\ capture = Empty /\ latest = s /\ ~cut

SelectionsInv == SelectionsOK /\ LatestIsComing

\* What the clipboard can hold
LEMMA ContentHas ==
  /\ Source \subseteq Content /\ Outside \in Content /\ Empty \in Content
  /\ \A s \in Source : Cut(s) \in Content
  BY DEF Content

\* Nothing is selected at first.
LEMMA SelectionsInitInv == SelectionsInit => SelectionsInv
<1> SUFFICES ASSUME SelectionsInit PROVE SelectionsInv
  OBVIOUS
<1> USE DEF SelectionsInit
<1>5. 0 \in 0..MaxReadings
  BY SelectionAssumption
<1>6. cut \in BOOLEAN
  OBVIOUS
<1>4. taking \in [OtherSource -> 0..MaxReadings] /\ cut \in BOOLEAN
  BY <1>5, <1>6, Zenon
<1>1. SelectionsTypeOK
  BY <1>4, ContentHas DEF SelectionsTypeOK
<1>2. SelectionIsLive /\ OneClipboard /\ SettledIsLatest
  BY DEF SelectionIsLive, OneClipboard, SettledIsLatest
<1>3. FocusedIsTold /\ WatcherIsTold /\ LatestIsComing
  BY DEF FocusedIsTold, WatcherIsTold, LatestIsComing, Offered, Quiet, NoneTaken
<1> QED BY <1>1, <1>2, <1>3 DEF SelectionsInv, SelectionsOK

\* A reading under way is not the end of it, so the text that is there then is
\* the latest.
LEMMA ComingSettles == LatestIsComing => SettledIsLatest
  BY DEF LatestIsComing, SettledIsLatest, Quiet, NoneTaken

\* A client that has a device is told, the others keep what they heard.
LEMMA ToldIs ==
  ASSUME told \in [Copier -> Content], devices \subseteq Copier,
         NEW c, NEW x \in Content
  PROVE  /\ ToldTo(c, x) \in [Copier -> Content]
         /\ c \in devices => ToldTo(c, x)[c] = x
  BY DEF ToldTo

\* A new source is no selection, and nobody reads it.
LEMMA CreateSourceKeepsClip ==
  ASSUME SelectionsInv, NEW s \in Source, CreateSource(s)
  PROVE  SelectionsInv'
<1> USE SelectionAssumption, ContentHas
        DEF SelectionsInv, SelectionsOK, SelectionsTypeOK, Source, OtherSource,
            NoneTaken, historyVars,
            CreateSource, readingVars, tellingVars
<1>4. cut' \in BOOLEAN
  BY Zenon DEF Latest
<1>1. SelectionsTypeOK' /\ SelectionIsLive' /\ OneClipboard'
  BY <1>4 DEF SelectionIsLive, OneClipboard
<1>2. FocusedIsTold' /\ WatcherIsTold'
  BY DEF FocusedIsTold, WatcherIsTold, Offered
<1>3. LatestIsComing' /\ SettledIsLatest'
  BY DEF LatestIsComing, SettledIsLatest, Quiet
<1> QED BY <1>1, <1>2, <1>3

\* A source that dies takes the selection, the text and its reading with it.
LEMMA DestroySourceKeepsClip ==
  ASSUME SelectionsInv, NEW s \in Source, DestroySource(s)
  PROVE  SelectionsInv'
<1> USE SelectionAssumption, ContentHas
        DEF SelectionsInv, SelectionsOK, SelectionsTypeOK, Source, OtherSource,
            NoneTaken, historyVars,
            DestroySource, readingVars, tellingVars, SetText, Notify
<1>4. cut' \in BOOLEAN
  BY Zenon DEF Latest
<1>1. SelectionsTypeOK' /\ SelectionIsLive' /\ OneClipboard'
  BY <1>4, ToldIs, SMT DEF Latest, Offered, SelectionIsLive, OneClipboard
<1>2. FocusedIsTold' /\ WatcherIsTold'
  BY ToldIs, SMT DEF FocusedIsTold, WatcherIsTold, Offered
<1>3. LatestIsComing' /\ SettledIsLatest'
  BY DEF Latest, LatestIsComing, SettledIsLatest, Quiet
<1> QED BY <1>1, <1>2, <1>3

\* A new data source is read instead of the one before.
LEMMA SetSelectionKeepsClip ==
  ASSUME SelectionsInv, NEW s \in DataSource, NEW textual \in BOOLEAN, SetSelection(s, textual)
  PROVE  SelectionsInv'
<1> USE SelectionAssumption, ContentHas
        DEF SelectionsInv, SelectionsOK, SelectionsTypeOK, Source, OtherSource,
            NoneTaken, historyVars,
            SetSelection, readingVars, tellingVars, Mirror
<1>4. cut' \in BOOLEAN
  BY Zenon DEF Latest
<1>1. SelectionsTypeOK' /\ SelectionIsLive' /\ OneClipboard'
  BY <1>4, ToldIs, SMT DEF Latest, Offered, SelectionIsLive, OneClipboard
<1>2. FocusedIsTold' /\ WatcherIsTold'
  BY ToldIs, SMT DEF FocusedIsTold, WatcherIsTold, Offered
<1>3. LatestIsComing' /\ SettledIsLatest'
  BY DEF Latest, LatestIsComing, SettledIsLatest, Quiet
<1> QED BY <1>1, <1>2, <1>3

\* No selection, no text: if something is still being read, it races.
LEMMA ClearSelectionKeepsClip ==
  ASSUME SelectionsInv, ClearSelection
  PROVE  SelectionsInv'
<1> USE SelectionAssumption, ContentHas
        DEF SelectionsInv, SelectionsOK, SelectionsTypeOK, Source, OtherSource,
            NoneTaken, historyVars,
            ClearSelection, readingVars, tellingVars, Notify
<1>4. cut' \in BOOLEAN
  BY Zenon DEF Latest
<1>1. SelectionsTypeOK' /\ SelectionIsLive' /\ OneClipboard'
  BY <1>4, ToldIs, SMT DEF Latest, Offered, SelectionIsLive, OneClipboard
<1>2. FocusedIsTold' /\ WatcherIsTold'
  BY ToldIs, SMT DEF FocusedIsTold, WatcherIsTold, Offered
<1>3. LatestIsComing' /\ SettledIsLatest'
  BY DEF Latest, LatestIsComing, SettledIsLatest, Quiet
<1> QED BY <1>1, <1>2, <1>3

\* The text of a data source arrives, and the other protocols lose theirs.
LEMMA CaptureDoneKeepsClip ==
  ASSUME SelectionsInv, CaptureDone
  PROVE  SelectionsInv'
<1> USE SelectionAssumption, ContentHas
        DEF SelectionsInv, SelectionsOK, SelectionsTypeOK, Source, OtherSource,
            NoneTaken, historyVars,
            CaptureDone, Ended, readingVars, tellingVars, Notify
<1>4. cut' \in BOOLEAN
  BY Zenon DEF Latest
<1>1. SelectionsTypeOK' /\ SelectionIsLive' /\ OneClipboard'
  BY <1>4 DEF SelectionIsLive, OneClipboard
<1>2. FocusedIsTold' /\ WatcherIsTold'
  BY DEF FocusedIsTold, WatcherIsTold, Offered
<1>3. LatestIsComing' /\ SettledIsLatest'
  BY DEF LatestIsComing, SettledIsLatest, Quiet
<1> QED BY <1>1, <1>2, <1>3

\* It does not arrive, and there is none.
LEMMA CaptureFailsKeepsClip ==
  ASSUME SelectionsInv, CaptureFails
  PROVE  SelectionsInv'
<1> USE SelectionAssumption, ContentHas
        DEF SelectionsInv, SelectionsOK, SelectionsTypeOK, Source, OtherSource,
            NoneTaken, historyVars,
            CaptureFails, Ended, readingVars, tellingVars
<1>4. cut' \in BOOLEAN
  BY Zenon DEF Latest
<1>1. SelectionsTypeOK' /\ SelectionIsLive' /\ OneClipboard'
  BY <1>4 DEF SelectionIsLive, OneClipboard
<1>2. FocusedIsTold' /\ WatcherIsTold'
  BY DEF FocusedIsTold, WatcherIsTold, Offered
<1>3. LatestIsComing' /\ SettledIsLatest'
  BY DEF LatestIsComing, SettledIsLatest, Quiet
<1> QED BY <1>1, <1>2, <1>3

\* A primary source is read and changes nothing before its text is there.
LEMMA SetPrimaryKeepsClip ==
  ASSUME SelectionsInv, NEW s \in PrimarySource, NEW textual \in BOOLEAN, SetPrimary(s, textual)
  PROVE  SelectionsInv'
<1> USE SelectionAssumption, ContentHas
        DEF SelectionsInv, SelectionsOK, SelectionsTypeOK, Source, OtherSource,
            NoneTaken, historyVars,
            SetPrimary, Taken, readingVars, tellingVars
<1>4. cut' \in BOOLEAN
  BY Zenon DEF Latest
<1>1. SelectionsTypeOK' /\ SelectionIsLive' /\ OneClipboard'
  BY <1>4 DEF Latest, SelectionIsLive, OneClipboard
<1>2. FocusedIsTold' /\ WatcherIsTold'
  BY DEF FocusedIsTold, WatcherIsTold, Offered
<1>3. LatestIsComing' /\ SettledIsLatest'
  BY DEF Latest, LatestIsComing, SettledIsLatest, Quiet
<1> QED BY <1>1, <1>2, <1>3

\* So is the source of a data control device, and the watcher is told of it.
LEMMA SetControlKeepsClip ==
  ASSUME SelectionsInv, NEW s \in ControlSource, NEW textual \in BOOLEAN, SetControl(s, textual)
  PROVE  SelectionsInv'
<1> USE SelectionAssumption, ContentHas
        DEF SelectionsInv, SelectionsOK, SelectionsTypeOK, Source, OtherSource,
            NoneTaken, historyVars,
            SetControl, Taken, readingVars, tellingVars
<1>4. cut' \in BOOLEAN
  BY Zenon DEF Latest
<1>1. SelectionsTypeOK' /\ SelectionIsLive' /\ OneClipboard'
  BY <1>4 DEF Latest, SelectionIsLive, OneClipboard
<1>2. FocusedIsTold' /\ WatcherIsTold'
  BY DEF FocusedIsTold, WatcherIsTold, Offered
<1>3. LatestIsComing' /\ SettledIsLatest'
  BY DEF Latest, LatestIsComing, SettledIsLatest, Quiet
<1> QED BY <1>1, <1>2, <1>3

\* The other two protocols clear the one text too.
LEMMA ClearTextKeepsClip ==
  ASSUME SelectionsInv, ClearText
  PROVE  SelectionsInv'
<1> USE SelectionAssumption, ContentHas
        DEF SelectionsInv, SelectionsOK, SelectionsTypeOK, Source, OtherSource,
            NoneTaken, historyVars,
            ClearText, readingVars, tellingVars, SetText, Notify
<1>4. cut' \in BOOLEAN
  BY Zenon DEF Latest
<1>1. SelectionsTypeOK' /\ SelectionIsLive' /\ OneClipboard'
  BY <1>4, ToldIs, SMT DEF Latest, Offered, SelectionIsLive, OneClipboard
<1>2. FocusedIsTold' /\ WatcherIsTold'
  BY ToldIs, SMT DEF FocusedIsTold, WatcherIsTold, Offered
<1>3. LatestIsComing' /\ SettledIsLatest'
  BY DEF Latest, LatestIsComing, SettledIsLatest, Quiet
<1> QED BY <1>1, <1>2, <1>3

\* The text of one of their sources arrives, and every source is dropped.
LEMMA TakeDoneKeepsClip ==
  ASSUME SelectionsInv, NEW s \in OtherSource, TakeDone(s)
  PROVE  SelectionsInv'
<1> USE SelectionAssumption, ContentHas
        DEF SelectionsInv, SelectionsOK, SelectionsTypeOK, Source, OtherSource,
            NoneTaken, historyVars,
            TakeDone, Ended, readingVars, tellingVars, SetText, Notify
<1>4. cut' \in BOOLEAN
  BY Zenon DEF Latest
<1>1. SelectionsTypeOK' /\ SelectionIsLive' /\ OneClipboard'
  BY <1>4, ToldIs, SMT DEF Offered, SelectionIsLive, OneClipboard
<1>2. FocusedIsTold' /\ WatcherIsTold'
  BY ToldIs, SMT DEF FocusedIsTold, WatcherIsTold, Offered
<1>3. ASSUME latest # Unsettled PROVE LatestIsComing'
  <2>1. PICK t \in {s, Cut(s), Empty} : text' = t /\ Ended(s, t)
    OBVIOUS
  <2>2. latest = s /\ ~cut /\ capture = Empty /\ \A o \in OtherSource \ {s} : taking[o] = 0
    BY <1>3 DEF LatestIsComing, Quiet
  <2>7. \A o \in OtherSource : taking'[o] = 0
    <3> TAKE o \in OtherSource
    <3>1. CASE o = s
      <4>1. taking[s] = 1
        BY <1>3 DEF LatestIsComing, Quiet
      <4> QED BY <3>1, <4>1
    <3>2. CASE o # s
      BY <3>2, <2>2
    <3> QED BY <3>1, <3>2
  <2>3. Quiet' /\ latest' = s
    BY <2>2, <2>1, <2>7 DEF Quiet
  <2>4. cut' <=> t # s
    BY <2>1, <2>2, Zenon
  <2>5. CASE t = s
    BY <2>1, <2>3, <2>4, <2>5 DEF LatestIsComing
  <2>6. CASE t # s
    BY <2>1, <2>3, <2>4, <2>6 DEF LatestIsComing
  <2> QED BY <2>5, <2>6
<1>5. LatestIsComing'
  <2>1. latest = Unsettled => latest' = Unsettled
    OBVIOUS
  <2> QED BY <1>3, <2>1 DEF LatestIsComing
<1>6. SettledIsLatest'
  BY <1>5 DEF LatestIsComing, SettledIsLatest, Quiet
<1> QED BY <1>1, <1>2, <1>5, <1>6

\* It does not arrive, and the text is an older one.
LEMMA TakeFailsKeepsClip ==
  ASSUME SelectionsInv, NEW s \in OtherSource, TakeFails(s)
  PROVE  SelectionsInv'
<1> USE SelectionAssumption, ContentHas
        DEF SelectionsInv, SelectionsOK, SelectionsTypeOK, Source, OtherSource,
            NoneTaken, historyVars,
            TakeFails, Ended, readingVars, tellingVars
<1>4. cut' \in BOOLEAN
  BY Zenon DEF Latest
<1>1. SelectionsTypeOK' /\ SelectionIsLive' /\ OneClipboard'
  BY <1>4 DEF SelectionIsLive, OneClipboard
<1>2. FocusedIsTold' /\ WatcherIsTold'
  BY DEF FocusedIsTold, WatcherIsTold, Offered
<1>3. LatestIsComing' /\ SettledIsLatest'
  BY DEF LatestIsComing, SettledIsLatest, Quiet
<1> QED BY <1>1, <1>2, <1>3

\* X11 or Plexy writes the text.
LEMMA SetOutsideKeepsClip ==
  ASSUME SelectionsInv, SetOutside
  PROVE  SelectionsInv'
<1> USE SelectionAssumption, ContentHas
        DEF SelectionsInv, SelectionsOK, SelectionsTypeOK, Source, OtherSource,
            NoneTaken, historyVars,
            SetOutside, readingVars, tellingVars, SetText, Notify
<1>4. cut' \in BOOLEAN
  BY Zenon DEF Latest
<1>1. SelectionsTypeOK' /\ SelectionIsLive' /\ OneClipboard'
  BY <1>4, ToldIs, SMT DEF Latest, Offered, SelectionIsLive, OneClipboard
<1>2. FocusedIsTold' /\ WatcherIsTold'
  BY ToldIs, SMT DEF FocusedIsTold, WatcherIsTold, Offered
<1>3. LatestIsComing' /\ SettledIsLatest'
  BY DEF Latest, LatestIsComing, SettledIsLatest, Quiet
<1> QED BY <1>1, <1>2, <1>3

\* Who gets the focus is told.
LEMMA CopierFocusKeepsClip ==
  ASSUME SelectionsInv, NEW c \in Copier \cup {Empty}, CopierFocus(c)
  PROVE  SelectionsInv'
<1> USE SelectionAssumption, ContentHas
        DEF SelectionsInv, SelectionsOK, SelectionsTypeOK, Source, OtherSource,
            NoneTaken, historyVars,
            CopierFocus, readingVars, tellingVars
<1>4. cut' \in BOOLEAN
  BY Zenon DEF Latest
<1>1. SelectionsTypeOK' /\ SelectionIsLive' /\ OneClipboard'
  BY <1>4, ToldIs, SMT DEF Offered, SelectionIsLive, OneClipboard
<1>2. FocusedIsTold' /\ WatcherIsTold'
  BY ToldIs, SMT DEF FocusedIsTold, WatcherIsTold, Offered
<1>3. LatestIsComing' /\ SettledIsLatest'
  BY DEF LatestIsComing, SettledIsLatest, Quiet
<1> QED BY <1>1, <1>2, <1>3

\* So is who gets a device.
LEMMA GetDeviceKeepsClip ==
  ASSUME SelectionsInv, NEW c \in Copier, GetDevice(c)
  PROVE  SelectionsInv'
<1> USE SelectionAssumption, ContentHas
        DEF SelectionsInv, SelectionsOK, SelectionsTypeOK, Source, OtherSource,
            NoneTaken, historyVars,
            GetDevice, readingVars, tellingVars
<1>4. cut' \in BOOLEAN
  BY Zenon DEF Latest
<1>1. SelectionsTypeOK' /\ SelectionIsLive' /\ OneClipboard'
  BY <1>4 DEF Offered, SelectionIsLive, OneClipboard
<1>2. FocusedIsTold' /\ WatcherIsTold'
  BY DEF FocusedIsTold, WatcherIsTold, Offered
<1>3. LatestIsComing' /\ SettledIsLatest'
  BY DEF LatestIsComing, SettledIsLatest, Quiet
<1> QED BY <1>1, <1>2, <1>3

\* A device that is released is told of nothing.
LEMMA ReleaseDeviceKeepsClip ==
  ASSUME SelectionsInv, NEW c \in Copier, ReleaseDevice(c)
  PROVE  SelectionsInv'
<1> USE SelectionAssumption, ContentHas
        DEF SelectionsInv, SelectionsOK, SelectionsTypeOK, Source, OtherSource,
            NoneTaken, historyVars,
            ReleaseDevice, readingVars, tellingVars
<1>4. cut' \in BOOLEAN
  BY Zenon DEF Latest
<1>1. SelectionsTypeOK' /\ SelectionIsLive' /\ OneClipboard'
  BY <1>4 DEF SelectionIsLive, OneClipboard
<1>2. FocusedIsTold' /\ WatcherIsTold'
  BY DEF FocusedIsTold, WatcherIsTold, Offered
<1>3. LatestIsComing' /\ SettledIsLatest'
  BY DEF LatestIsComing, SettledIsLatest, Quiet
<1> QED BY <1>1, <1>2, <1>3

\* Every step keeps the clipboard one.
LEMMA SelectionsStep == SelectionsInv /\ [SelectionsNext]_selectionVars => SelectionsInv'
<1> SUFFICES ASSUME SelectionsInv, [SelectionsNext]_selectionVars PROVE SelectionsInv'
  OBVIOUS
<1>1. ASSUME UNCHANGED selectionVars PROVE SelectionsInv'
  BY <1>1 DEF SelectionsInv, SelectionsOK, SelectionsTypeOK, SelectionIsLive, OneClipboard,
     SettledIsLatest, FocusedIsTold, WatcherIsTold, LatestIsComing, Quiet, NoneTaken,
     historyVars, selectionVars, readingVars, tellingVars
<1>2. ASSUME SelectionsNext PROVE SelectionsInv'
  BY <1>2, Zenon, CreateSourceKeepsClip, DestroySourceKeepsClip,
     SetSelectionKeepsClip, ClearSelectionKeepsClip, CaptureDoneKeepsClip,
     CaptureFailsKeepsClip, SetPrimaryKeepsClip, SetControlKeepsClip,
     ClearTextKeepsClip, TakeDoneKeepsClip, TakeFailsKeepsClip, SetOutsideKeepsClip,
     CopierFocusKeepsClip, GetDeviceKeepsClip, ReleaseDeviceKeepsClip DEF
     SelectionsNext
<1> QED BY <1>1, <1>2

\* The clipboard is one whoever writes it, for any clients and sources: the
\* last writer wins once the pipes are read, with as much of its text as was
\* read and never with an older one, unless two writers raced or a read
\* failed; a source that died is no selection, and who listens was told
\* (SelectionsOK; clipboard_capture_cb in
\* wl_data_device.c, capture_cb in wl_primary_selection.c and
\* wl_data_control.c, bridge_clipboard_set_text).
THEOREM ClipboardIsOne == SelectionsSpec => []SelectionsOK
<1>1. SelectionsInv => SelectionsOK
  BY DEF SelectionsInv
<1> QED BY <1>1, SelectionsInitInv, SelectionsStep, PTL DEF SelectionsSpec

---------------------------------------------------------------------------
(***************************************************************************)
(* TextInput: text goes to the field that has the focus.                   *)
(***************************************************************************)

\* An enabled text input is inside its surface exactly while its client has the focus, unless the
\* focus moved without its being told.
InsideIsFocused ==
  \A t \in enabledAt \ unaware : t \in inField <=> FieldOwner[t] = typing

\* The X11 focus is with the window the focused surface came with, or with none.
XFocusFollows ==
  focusedX # NoField => typing \in XSurface /\ xfocus \in {focusedX, NoField}

TextInv == TextOK /\ InsideIsFocused /\ XFocusFollows

\* What the invariant says of the fields alone, for what has the focus.
FieldsOK(F, on, in, unfin, un, who) ==
  /\ F \subseteq TextField /\ on \subseteq F /\ un \subseteq F /\ in \subseteq on /\ unfin \subseteq on
  /\ \A t \in unfin : FieldOwner[t] = who \/ t \in un
  /\ \A t \in in : FieldOwner[t] = who \/ t \in un
  /\ \A t \in on \ un : t \in in <=> FieldOwner[t] = who

\* The list itself: no text input twice
ListOK == fields \in Seq(TextField) /\ IsInjective(fields)

\* What it says of input methods
MethodsOK ==
  /\ methods \subseteq InputMethod /\ toldOn \subseteq methods
  /\ active \in methods \cup {NoField} /\ orphaned \in BOOLEAN
  /\ OnServesSomeone

\* What it says of X11
XOK ==
  /\ typing \in Focusable \cup {NoField}
  /\ {xfocus, focusedX} \subseteq XField \cup {NoField}
  /\ xmapped \subseteq XField /\ xsurfaces \subseteq XSurface
  /\ windowOf \in [XSurface -> XField \cup {NoField}] /\ misdirected \in BOOLEAN
  /\ InjectedIntoFocus /\ XFocusFollows

Now == FieldsOK(ToSet(fields), enabledAt, inField, unfinished, unaware, typing)

LEMMA TextInvIs == TextInv <=> ListOK /\ Now /\ MethodsOK /\ XOK
<1>1. ASSUME ListOK PROVE ToSet(fields) \subseteq TextField
  BY <1>1, ElementsAre DEF ListOK, ToSet, Elements
<1>2. TextInv => ListOK
  BY DEF TextInv, TextOK, TextTypeOK, ListOK
<1>3. ASSUME ListOK
      PROVE  TextInv <=> Now /\ MethodsOK /\ XOK
  BY <1>1, <1>3 DEF TextInv, TextOK, TextTypeOK, ListOK, Now, FieldsOK, MethodsOK, XOK,
     NothingLeftUnfinished, EnteredHasFocus, InsideIsFocused
<1> QED BY <1>2, <1>3

\* The same in the next state
LEMMA TextInvNext ==
  ASSUME ListOK', Now', MethodsOK', XOK'
  PROVE  TextInv'
<1>1. ToSet(fields') \subseteq TextField
  BY ElementsAre DEF ListOK, ToSet, Elements
<1> QED BY <1>1 DEF TextInv, TextOK, TextTypeOK, ListOK, Now, FieldsOK, MethodsOK, XOK,
     NothingLeftUnfinished, EnteredHasFocus, InsideIsFocused

\* The fields of a client
LEMMA OfIs == \A c : Of(c) = {t \in ToSet(fields) : FieldOwner[t] = c}
BY DEF Of

\* What the telling leaves
ToldOK(F, on, in, unfin, un, loser, winner, then) ==
  LET left == in \cap {t \in F : FieldOwner[t] = loser}
      came == (on \ in) \cap {t \in F : FieldOwner[t] = winner}
  IN FieldsOK(F, on, (in \ left) \cup came, unfin \ (left \cup came),
              un \ (left \cup came), then)

\* The focus moves, and loser and winner are told: loser has had the focus or was not told that
\* it lost it, and winner gets it.
LEMMA TellingKeeps ==
  ASSUME NEW F, NEW on, NEW in, NEW unfin, NEW un, NEW who, NEW loser, NEW winner, NEW then,
         FieldsOK(F, on, in, unfin, un, who),
         loser = who \/ then = who,
         then = winner \/ (winner = NoField /\ loser # then),
         loser = who => then = winner,
         \A t \in F : FieldOwner[t] # NoField, loser # winner
  PROVE  ToldOK(F, on, in, unfin, un, loser, winner, then)
<1> DEFINE left == in \cap {t \in F : FieldOwner[t] = loser}
           came == (on \ in) \cap {t \in F : FieldOwner[t] = winner}
<1>1. /\ F \subseteq TextField /\ on \subseteq F /\ un \subseteq F /\ in \subseteq on /\ unfin \subseteq on
      /\ \A t \in unfin : FieldOwner[t] = who \/ t \in un
      /\ \A t \in in : FieldOwner[t] = who \/ t \in un
      /\ \A t \in on \ un : t \in in <=> FieldOwner[t] = who
  BY DEF FieldsOK
<1>2. \A t : t \in left <=> t \in in /\ FieldOwner[t] = loser
  BY <1>1
<1>3. \A t : t \in came <=> t \in on /\ t \notin in /\ FieldOwner[t] = winner
  BY <1>1
<1> HIDE DEF left, came
<1>4. \A t \in unfin \ (left \cup came) : FieldOwner[t] = then \/ t \in un \ (left \cup came)
  BY <1>1, <1>2, <1>3
<1>5. \A t \in (in \ left) \cup came : FieldOwner[t] = then \/ t \in un \ (left \cup came)
  BY <1>1, <1>2, <1>3
<1>6. \A t \in on \ (un \ (left \cup came)) :
        t \in (in \ left) \cup came <=> FieldOwner[t] = then
  BY <1>1, <1>2, <1>3
<1>7. (in \ left) \cup came \subseteq on /\ unfin \ (left \cup came) \subseteq on
      /\ un \ (left \cup came) \subseteq F
  BY <1>1, <1>2, <1>3
<1> QED BY <1>1, <1>4, <1>5, <1>6, <1>7 DEF FieldsOK, ToldOK, left, came

\* The clients of text inputs are clients.
LEMMA OwnersAre ==
  ASSUME NEW t \in TextField
  PROVE  FieldOwner[t] \in TextClient /\ FieldOwner[t] # NoField /\ FieldOwner[t] \notin XSurface
BY TextAssumption

LEMMA FocusMovesKeeps ==
  ASSUME TextInv, NEW f \in Focusable, FocusMoves(f)
  PROVE  TextInv'
<1>1. ListOK /\ Now /\ MethodsOK /\ XOK
  BY TextInvIs
<1>2. Now'
  <2>1. \A t \in ToSet(fields) : FieldOwner[t] # NoField
    BY <1>1, OwnersAre DEF Now, FieldsOK
  <2>2. fields' = fields /\ enabledAt' = enabledAt /\ typing' = f /\ typing # f
    BY DEF FocusMoves
  <2>3. ToldOK(ToSet(fields), enabledAt, inField, unfinished, unaware, typing, f, f)
    BY <1>1, <2>1, <2>2, TellingKeeps DEF Now
  <2>4. LET left == inField \cap Of(typing)
            came == (enabledAt \ inField) \cap Of(f)
        IN /\ inField' = (inField \ left) \cup came
           /\ unfinished' = unfinished \ (left \cup came)
           /\ unaware' = unaware \ (left \cup came)
    BY DEF FocusMoves, FocusTold
  <2> QED BY <2>2, <2>3, <2>4, OfIs DEF Now, ToldOK
<1>3. ListOK' /\ MethodsOK'
  BY <1>1 DEF FocusMoves, ListOK, MethodsOK, methodVars, OnServesSomeone
<1>4. XOK'
  <2>1. WindowAt(f) \in XField \cup {NoField} /\ (WindowAt(f) # NoField => f \in XSurface)
    BY <1>1 DEF XOK, WindowAt
  <2>2. /\ typing' = f /\ focusedX' = WindowAt(f)
        /\ xfocus' = IF WindowAt(f) # NoField THEN WindowAt(f) ELSE xfocus
        /\ xmapped' = xmapped /\ xsurfaces' = xsurfaces /\ windowOf' = windowOf
        /\ misdirected' = misdirected
    BY DEF FocusMoves, pairVars
  <2> QED BY <1>1, <2>1, <2>2 DEF XOK, InjectedIntoFocus, XFocusFollows
<1> QED BY <1>2, <1>3, <1>4, TextInvNext

LEMMA FocusLeavesKeeps ==
  ASSUME TextInv, NEW f \in Focusable, FocusLeaves(f)
  PROVE  TextInv'
<1>1. ListOK /\ Now /\ MethodsOK /\ XOK
  BY TextInvIs
<1>2. f # NoField
  BY TextAssumption DEF Focusable
<1>3. Now'
  <2>1. \A t \in ToSet(fields) : FieldOwner[t] # NoField
    BY <1>1, OwnersAre DEF Now, FieldsOK
  <2>2. fields' = fields /\ enabledAt' = enabledAt
        /\ typing' = IF typing = f THEN NoField ELSE typing
    BY DEF FocusLeaves, Unfocused
  <2> DEFINE then == IF typing = f THEN NoField ELSE typing
  <2>a. f = typing \/ then = typing
    OBVIOUS
  <2>b. then = NoField \/ (NoField = NoField /\ f # then)
    BY <1>2
  <2>c. f = typing => then = NoField
    OBVIOUS
  <2>d. typing' = then
    BY <2>2
  <2> HIDE DEF then
  <2>3. ToldOK(ToSet(fields), enabledAt, inField, unfinished, unaware, f, NoField, then)
    BY <1>1, <1>2, <2>1, <2>a, <2>b, <2>c, TellingKeeps DEF Now
  <2>4. LET left == inField \cap Of(f)
            came == (enabledAt \ inField) \cap Of(NoField)
        IN /\ inField' = (inField \ left) \cup came
           /\ unfinished' = unfinished \ (left \cup came)
           /\ unaware' = unaware \ (left \cup came)
    BY DEF FocusLeaves, FocusTold
  <2> QED BY <2>2, <2>d, <2>3, <2>4, OfIs DEF Now, ToldOK
<1>4. ListOK' /\ MethodsOK'
  BY <1>1 DEF FocusLeaves, ListOK, MethodsOK, methodVars, OnServesSomeone
<1>5. XOK'
  BY <1>1, <1>2 DEF FocusLeaves, Unfocused, pairVars, XOK, InjectedIntoFocus, XFocusFollows
<1> QED BY <1>3, <1>4, <1>5, TextInvNext

\* The ways that tell no text input
LEMMA FocusSeizedKeeps ==
  ASSUME TextInv, NEW f \in Focusable \cup {NoField}, FocusSeized(f)
  PROVE  TextInv'
<1>1. ListOK /\ Now /\ MethodsOK /\ XOK
  BY TextInvIs
<1>2. Now'
  BY <1>1 DEF Now, FieldsOK, FocusSeized, Of
<1>3. ListOK' /\ MethodsOK'
  BY <1>1 DEF FocusSeized, ListOK, MethodsOK, methodVars, OnServesSomeone
<1>4. XOK'
  BY <1>1 DEF FocusSeized, XOK, xVars, pairVars, Focusable, InjectedIntoFocus, XFocusFollows
<1> QED BY <1>2, <1>3, <1>4, TextInvNext

\* What happens to windows of X11 and surfaces of Xwayland
WindowStep ==
  \/ FocusAgain
  \/ \E s \in XSurface : XAppears(s) \/ XVanishes(s) \/ \E x \in XField : XPairs(s, x)
  \/ \E x \in XField : XMaps(x) \/ XUnmaps(x) \/ XDestroyed(x)

LEMMA WindowsKeep ==
  ASSUME TextInv, WindowStep
  PROVE  TextInv'
<1>1. ListOK /\ Now /\ MethodsOK /\ XOK
  BY TextInvIs
<1>2. ListOK' /\ MethodsOK'
  <2>1. fields' = fields /\ enabledAt' = enabledAt /\ UNCHANGED methodVars
    BY DEF WindowStep, FocusAgain, XAppears, XVanishes, XPairs, XMaps, XUnmaps, XDestroyed, fieldVars
  <2> QED BY <1>1, <2>1 DEF ListOK, MethodsOK, methodVars, OnServesSomeone
<1>3. CASE FocusAgain
  <2>1. Now'
    BY <1>1, <1>3 DEF FocusAgain, Now, FieldsOK, fieldVars
  <2>2. typing \in XSurface /\ WindowAt(typing) \in XField \cup {NoField}
    BY <1>1, <1>3 DEF FocusAgain, WindowAt, XOK
  <2>3. XOK'
    BY <1>1, <1>3, <2>2 DEF FocusAgain, XOK, pairVars, InjectedIntoFocus, XFocusFollows
  <2> QED BY <1>2, <2>1, <2>3, TextInvNext
<1>4. ASSUME NEW s \in XSurface, XAppears(s) PROVE TextInv'
  <2>1. Now'
    BY <1>1, <1>4 DEF XAppears, Now, FieldsOK, fieldVars
  <2>2. XOK'
    BY <1>1, <1>4 DEF XAppears, XOK, InjectedIntoFocus, XFocusFollows
  <2> QED BY <1>2, <2>1, <2>2, TextInvNext
<1>5. ASSUME NEW s \in XSurface, XVanishes(s) PROVE TextInv'
  <2>1. Now'
    <3>1. \A t \in ToSet(fields) : FieldOwner[t] # s /\ FieldOwner[t] # NoField
      BY <1>1, OwnersAre DEF Now, FieldsOK
    <3>2. fields' = fields /\ enabledAt' = enabledAt /\ inField' = inField
          /\ unfinished' = unfinished /\ unaware' = unaware
          /\ typing' = IF typing = s THEN NoField ELSE typing
      BY <1>5 DEF XVanishes, Unfocused, fieldVars
    <3> QED BY <1>1, <3>1, <3>2 DEF Now, FieldsOK
  <2>2. windowOf' \in [XSurface -> XField \cup {NoField}]
    BY <1>1, <1>5 DEF XVanishes, XOK
  <2>3. XOK'
    BY <1>1, <1>5, <2>2 DEF XVanishes, Unfocused, XOK, InjectedIntoFocus, XFocusFollows
  <2> QED BY <1>2, <2>1, <2>3, TextInvNext
<1>6. ASSUME NEW s \in XSurface, NEW x \in XField, XPairs(s, x) PROVE TextInv'
  <2>1. Now'
    BY <1>1, <1>6 DEF XPairs, Now, FieldsOK, fieldVars
  <2>2. windowOf' \in [XSurface -> XField \cup {NoField}]
    BY <1>1, <1>6 DEF XPairs, XOK
  <2>3. XOK'
    BY <1>1, <1>6, <2>2 DEF XPairs, XOK, InjectedIntoFocus, XFocusFollows
  <2> QED BY <1>2, <2>1, <2>3, TextInvNext
<1>7. ASSUME NEW x \in XField, XMaps(x) PROVE TextInv'
  <2>1. Now'
    BY <1>1, <1>7 DEF XMaps, Now, FieldsOK, fieldVars
  <2>2. XOK'
    BY <1>1, <1>7 DEF XMaps, XOK, InjectedIntoFocus, XFocusFollows
  <2> QED BY <1>2, <2>1, <2>2, TextInvNext
<1>8. ASSUME NEW x \in XField, XUnmaps(x) \/ XDestroyed(x) PROVE TextInv'
  <2>1. Now'
    BY <1>1, <1>8 DEF XUnmaps, XDestroyed, Now, FieldsOK, fieldVars
  <2>2. windowOf' \in [XSurface -> XField \cup {NoField}]
    BY <1>1, <1>8 DEF XUnmaps, XDestroyed, Unpaired, XOK
  <2>3. XOK'
    BY <1>1, <1>8, <2>2 DEF XUnmaps, XDestroyed, XOK, InjectedIntoFocus, XFocusFollows
  <2> QED BY <1>2, <2>1, <2>3, TextInvNext
<1> QED BY <1>3, <1>4, <1>5, <1>6, <1>7, <1>8 DEF WindowStep

\* Text inputs come and go.
LEMMA GetTextKeeps ==
  ASSUME TextInv, NEW t \in TextField, GetTextInput(t)
  PROVE  TextInv'
<1>1. ListOK /\ Now /\ MethodsOK /\ XOK
  BY TextInvIs
<1>2. Once(fields) /\ fields \in Seq(TextField) /\ t \notin Elements(fields)
  BY <1>1, OnceIsInjective DEF ListOK, IsInjective, GetTextInput, ToSet, Elements
<1>3. /\ fields' \in Seq(TextField) /\ Once(fields')
      /\ Elements(fields') = Elements(fields) \cup {t}
  BY <1>2, PushKeeps DEF GetTextInput
<1>4. ListOK' /\ ToSet(fields') = ToSet(fields) \cup {t}
  BY <1>3, OnceIsInjective DEF ListOK, IsInjective, ToSet, Elements
<1>5. Now'
  BY <1>1, <1>4 DEF Now, FieldsOK, GetTextInput
<1>6. MethodsOK' /\ XOK'
  BY <1>1 DEF GetTextInput, MethodsOK, methodVars, OnServesSomeone, XOK, xVars, pairVars, InjectedIntoFocus, XFocusFollows
<1> QED BY <1>4, <1>5, <1>6, TextInvNext

LEMMA DestroyTextKeeps ==
  ASSUME TextInv, NEW t \in TextField, DestroyTextInput(t)
  PROVE  TextInv'
<1>1. ListOK /\ Now /\ MethodsOK /\ XOK
  BY TextInvIs
<1>2. Once(fields) /\ fields \in Seq(TextField)
  BY <1>1, OnceIsInjective DEF ListOK, IsInjective
<1>3. /\ fields' \in Seq(TextField) /\ Once(fields')
      /\ Elements(fields') = Elements(fields) \ {t}
  BY <1>2, DroppedKeeps DEF DestroyTextInput
<1>4. ListOK' /\ ToSet(fields') = ToSet(fields) \ {t}
  BY <1>3, OnceIsInjective DEF ListOK, IsInjective, ToSet, Elements
<1>5. Now'
  BY <1>1, <1>4 DEF Now, FieldsOK, DestroyTextInput
<1>6. XOK'
  BY <1>1 DEF DestroyTextInput, XOK, xVars, pairVars, InjectedIntoFocus, XFocusFollows
<1>7. MethodsOK'
  BY <1>1 DEF DestroyTextInput, MethodsOK, OnServesSomeone
<1> QED BY <1>4, <1>5, <1>6, <1>7, TextInvNext

\* The requests of a text input
LEMMA RequestsKeep ==
  ASSUME TextInv, NEW t \in TextField, EnableField(t) \/ DisableField(t) \/ CommitState(t)
  PROVE  TextInv'
<1>1. ListOK /\ Now /\ MethodsOK /\ XOK
  BY TextInvIs
<1>2. /\ fields' = fields /\ typing' = typing /\ xfocus' = xfocus /\ xmapped' = xmapped
      /\ xsurfaces' = xsurfaces /\ windowOf' = windowOf /\ focusedX' = focusedX
      /\ misdirected' = misdirected /\ methods' = methods /\ active' = active
      /\ t \in ToSet(fields)
  BY DEF EnableField, DisableField, CommitState, xVars, pairVars, methodVars
<1>3. ListOK' /\ XOK'
  BY <1>1, <1>2 DEF ListOK, XOK, InjectedIntoFocus, XFocusFollows
<1>4. CASE EnableField(t)
  <2> DEFINE came == {t} \cap (Of(typing) \ inField)
  <2>1. /\ enabledAt' = enabledAt \cup {t} /\ inField' = inField \cup came
        /\ unfinished' = unfinished \ came /\ unaware' = unaware \ came
        /\ toldOn' = toldOn \cup ({active} \ {NoField}) /\ orphaned' = FALSE
    BY <1>4 DEF EnableField, ActiveTold
  <2>2. \A u : u \in came <=> u = t /\ FieldOwner[t] = typing /\ t \notin inField
    BY <1>2 DEF Of
  <2> HIDE DEF came
  <2>3. Now'
    BY <1>1, <1>2, <2>1, <2>2 DEF Now, FieldsOK
  <2>4. MethodsOK'
    BY <1>1, <1>2, <2>1 DEF MethodsOK, OnServesSomeone
  <2> QED BY <1>3, <2>3, <2>4, TextInvNext
<1>5. CASE DisableField(t)
  <2>1. /\ enabledAt' = enabledAt \ {t} /\ inField' = inField \ {t}
        /\ unfinished' = unfinished \ {t} /\ unaware' = unaware \ {t}
        /\ toldOn' = toldOn \ {active} /\ orphaned' = orphaned
    BY <1>5 DEF DisableField, ActiveTold
  <2>2. Now'
    BY <1>1, <1>2, <2>1 DEF Now, FieldsOK
  <2>3. MethodsOK'
    BY <1>1, <1>2, <2>1 DEF MethodsOK, OnServesSomeone
  <2> QED BY <1>3, <2>2, <2>3, TextInvNext
<1>6. CASE CommitState(t)
  <2>1. Now'
    BY <1>1, <1>2, <1>6 DEF CommitState, Finished, Now, FieldsOK
  <2>2. MethodsOK'
    BY <1>1, <1>6 DEF CommitState, MethodsOK, OnServesSomeone, methodVars
  <2> QED BY <1>3, <2>1, <2>2, TextInvNext
<1> QED BY <1>4, <1>5, <1>6

LEMMA TypedKeyKeeps ==
  ASSUME TextInv, TypedKey
  PROVE  TextInv'
<1>1. ListOK /\ Now /\ MethodsOK /\ XOK
  BY TextInvIs
<1> DEFINE here == Of(typing) \cap enabledAt
<1>2. /\ inField' = inField \cup here /\ unfinished' = unfinished \ here
      /\ unaware' = unaware \ (here \ inField)
      /\ fields' = fields /\ enabledAt' = enabledAt /\ typing' = typing
  BY DEF TypedKey
<1>3. \A t : t \in here <=> t \in ToSet(fields) /\ FieldOwner[t] = typing /\ t \in enabledAt
  BY DEF Of
<1> HIDE DEF here
<1>4. Now'
  BY <1>1, <1>2, <1>3 DEF Now, FieldsOK
<1>5. ListOK' /\ MethodsOK' /\ XOK'
  BY <1>1 DEF TypedKey, ListOK, MethodsOK, methodVars, OnServesSomeone, XOK, xVars, pairVars, InjectedIntoFocus, XFocusFollows
<1> QED BY <1>4, <1>5, TextInvNext

\* What an input method writes to is an enabled text input of the client that has the focus.
LEMMA ReceiverIs ==
  ASSUME ListOK, Receiver # NoField
  PROVE  Receiver \in enabledAt /\ FieldOwner[Receiver] = typing
<1> DEFINE S == {t \in enabledAt : FieldOwner[t] = typing}
           mine == Keeping(fields, S)
<1>1. mine \in Seq(TextField) /\ Elements(mine) = Elements(fields) \cap S
  BY KeptKeeps DEF ListOK
<1>2. mine # <<>> /\ Receiver = Head(mine)
  BY DEF Receiver
<1>3. Receiver \in Elements(mine)
  BY <1>1, <1>2, TailIs DEF Elements
<1> QED BY <1>1, <1>3

\* The requests of an input method
LEMMA MethodsKeep ==
  ASSUME TextInv, NEW i \in InputMethod,
         GetInputMethod(i) \/ DestroyInputMethod(i) \/ MethodWrites(i) \/ MethodCommits(i)
  PROVE  TextInv'
<1>1. ListOK /\ Now /\ MethodsOK /\ XOK
  BY TextInvIs
<1>2. fields' = fields /\ enabledAt' = enabledAt /\ inField' = inField /\ unaware' = unaware
      /\ typing' = typing
  BY DEF GetInputMethod, DestroyInputMethod, MethodWrites, MethodCommits, fieldVars
<1>3. ListOK'
  BY <1>1, <1>2 DEF ListOK
<1>4. i # NoField
  BY TextAssumption
<1>5. CASE GetInputMethod(i)
  <2>1. Now' /\ XOK'
    BY <1>1, <1>5 DEF GetInputMethod, Now, FieldsOK, fieldVars, XOK, xVars, pairVars, InjectedIntoFocus, XFocusFollows
  <2>2. MethodsOK'
    BY <1>1, <1>5 DEF GetInputMethod, MethodsOK, OnServesSomeone
  <2> QED BY <1>3, <2>1, <2>2, TextInvNext
<1>6. CASE DestroyInputMethod(i)
  <2>1. Now' /\ XOK'
    BY <1>1, <1>6 DEF DestroyInputMethod, Now, FieldsOK, fieldVars, XOK, xVars, pairVars, InjectedIntoFocus, XFocusFollows
  <2>2. MethodsOK'
    BY <1>1, <1>4, <1>6, TextAssumption DEF DestroyInputMethod, MethodsOK, OnServesSomeone, fieldVars
  <2> QED BY <1>3, <2>1, <2>2, TextInvNext
<1>7. CASE MethodWrites(i)
  <2>1. MethodsOK'
    BY <1>1, <1>7 DEF MethodWrites, MethodsOK, methodVars, OnServesSomeone
  <2>2. CASE Receiver # NoField
    <3>1. Receiver \in enabledAt /\ FieldOwner[Receiver] = typing
      BY <1>1, <2>2, ReceiverIs
    <3>2. unfinished' = unfinished \cup {Receiver}
      BY <1>7, <2>2 DEF MethodWrites
    <3>3. Now'
      BY <1>1, <1>2, <3>1, <3>2 DEF Now, FieldsOK
    <3>4. XOK'
      BY <1>1, <1>7, <2>2 DEF MethodWrites, XOK, pairVars, InjectedIntoFocus, XFocusFollows
    <3> QED BY <1>3, <2>1, <3>3, <3>4, TextInvNext
  <2>3. CASE Receiver = NoField
    <3>1. Now'
      BY <1>1, <1>7, <2>3 DEF MethodWrites, Now, FieldsOK
    <3>2. Inject
      BY <1>7, <2>3 DEF MethodWrites
    <3>a. ~(/\ typing \in XSurface /\ xfocus \in xmapped /\ focusedX \notin {xfocus, NoField})
      BY <1>1, TextAssumption DEF XOK, XFocusFollows
    <3>b. misdirected' = misdirected
      BY <1>1, <3>2, <3>a DEF Inject, XOK, InjectedIntoFocus
    <3>3. XOK'
      BY <1>1, <1>7, <3>b DEF MethodWrites, XOK, pairVars, InjectedIntoFocus, XFocusFollows
    <3> QED BY <1>3, <2>1, <3>1, <3>3, TextInvNext
  <2> QED BY <2>2, <2>3
<1>8. CASE MethodCommits(i)
  <2>1. Now'
    BY <1>1, <1>2, <1>8 DEF MethodCommits, Finished, Now, FieldsOK
  <2>2. MethodsOK' /\ XOK'
    BY <1>1, <1>8 DEF MethodCommits, MethodsOK, methodVars, OnServesSomeone, XOK, xVars, pairVars, InjectedIntoFocus, XFocusFollows
  <2> QED BY <1>3, <2>1, <2>2, TextInvNext
<1> QED BY <1>5, <1>6, <1>7, <1>8

LEMMA TextStart == TextInit => TextInv
<1> SUFFICES ASSUME TextInit PROVE TextInv
  OBVIOUS
<1>1. fields = <<>> /\ <<>> \in Seq(TextField) /\ DOMAIN <<>> = {}
  BY DEF TextInit
<1>2. ListOK /\ ToSet(fields) = {}
  BY <1>1 DEF ListOK, ToSet, IsInjective
<1>3. Now
  BY <1>2 DEF TextInit, Now, FieldsOK
<1>4. MethodsOK
  BY DEF TextInit, MethodsOK, OnServesSomeone
<1>5. XOK
  BY TextAssumption DEF TextInit, XOK, InjectedIntoFocus, XFocusFollows, Focusable
<1> QED BY <1>2, <1>3, <1>4, <1>5, TextInvIs

LEMMA TextStep == TextInv /\ [TextNext]_textVars => TextInv'
<1> SUFFICES ASSUME TextInv, [TextNext]_textVars PROVE TextInv'
  OBVIOUS
<1>1. ASSUME NEW f \in Focusable, FocusMoves(f) PROVE TextInv'
  BY <1>1, FocusMovesKeeps
<1>2. ASSUME NEW f \in Focusable, FocusLeaves(f) PROVE TextInv'
  BY <1>2, FocusLeavesKeeps
<1>3. ASSUME NEW f \in Focusable \cup {NoField}, FocusSeized(f) PROVE TextInv'
  BY <1>3, FocusSeizedKeeps
<1>4. ASSUME WindowStep PROVE TextInv'
  BY <1>4, WindowsKeep
<1>5. CASE TypedKey
  BY <1>5, TypedKeyKeeps
<1>6. ASSUME NEW t \in TextField, GetTextInput(t) PROVE TextInv'
  BY <1>6, GetTextKeeps
<1>7. ASSUME NEW t \in TextField, DestroyTextInput(t) PROVE TextInv'
  BY <1>7, DestroyTextKeeps
<1>8. ASSUME NEW t \in TextField, EnableField(t) \/ DisableField(t) \/ CommitState(t) PROVE TextInv'
  BY <1>8, RequestsKeep
<1>9. ASSUME NEW i \in InputMethod,
             GetInputMethod(i) \/ DestroyInputMethod(i) \/ MethodWrites(i) \/ MethodCommits(i)
      PROVE  TextInv'
  BY <1>9, MethodsKeep
<1>10. CASE UNCHANGED textVars
  <2>1. ListOK /\ Now /\ MethodsOK /\ XOK
    BY TextInvIs
  <2>2. ListOK' /\ Now' /\ MethodsOK' /\ XOK'
    BY <1>10, <2>1 DEF textVars, pairVars, ListOK, Now, FieldsOK, MethodsOK, XOK, OnServesSomeone, InjectedIntoFocus, XFocusFollows
  <2> QED BY <2>2, TextInvNext
<1> QED BY <1>1, <1>2, <1>3, <1>4, <1>5, <1>6, <1>7, <1>8, <1>9, <1>10 DEF TextNext, WindowStep

(***************************************************************************)
(* What an input method writes reaches the field that has the focus, or    *)
(* the window the focused surface of Xwayland came with, and none is left  *)
(* half done, for any text inputs, clients, windows and input methods.     *)
(***************************************************************************)
THEOREM TextGoesToTheFocus == TextSpec => []TextOK
<1>1. TextInv => TextOK
  BY DEF TextInv
<1> QED BY <1>1, TextStart, TextStep, PTL DEF TextSpec

---------------------------------------------------------------------------
(***************************************************************************)
(* Outputs: an output is announced whole, and a surface has entered the    *)
(* outputs it is on.                                                       *)
(***************************************************************************)

\* The parts: the globals and the surface
GlobalsInv ==
  /\ reported \in OutputList /\ output_globals \in OutputList /\ complete \in OutputList
  /\ complete # <<>>
  /\ output_global \in OutputId \cup {0}
  /\ GlobalsAreWhole

SurfaceInv ==
  /\ current \in OutputId \cup {0} /\ inside \subseteq OutputId
  /\ entered \in Seq(OutputId) /\ Len(entered) <= MaxEntered /\ Once(entered)
  /\ overflown \in BOOLEAN /\ replaced \in BOOLEAN
  /\ ~replaced => /\ current \in inside \cup {0}
                  /\ Elements(entered) \subseteq inside
                  /\ ~overflown => Elements(entered) = inside

\* Lists of outputs, and the one made of nothing
LEMMA ListsAre ==
  /\ <<>> \in OutputList /\ <<1>> \in OutputList
  /\ \A list \in OutputList : list # <<>> => list[1] \in OutputId
<1>1. IsFiniteSet(OutputId) /\ OutputId # {}
  BY OutputAssumption
<1>2. Cardinality(OutputId) \in Nat /\ Cardinality(OutputId) # 0
  BY <1>1, FS_CardinalityType, FS_EmptySet
<1>3. <<>> \in [1..0 -> OutputId] /\ <<1>> \in [1..1 -> OutputId]
      /\ 0 \in 0..Cardinality(OutputId) /\ 1 \in 0..Cardinality(OutputId)
  BY <1>2, OutputAssumption
<1>4. <<>> \in SeqOf(OutputId, Cardinality(OutputId)) /\ <<1>> \in SeqOf(OutputId, Cardinality(OutputId))
  BY <1>3 DEF SeqOf
<1>5. DOMAIN <<>> = {} /\ DOMAIN <<1>> = 1..1
  OBVIOUS
<1>6. <<>> \in OutputList
  BY <1>4, <1>5 DEF OutputList
<1>7. <<1>> \in OutputList
  BY <1>4, <1>5 DEF OutputList
<1>8. ASSUME NEW list \in OutputList, list # <<>> PROVE list[1] \in OutputId
  <2>1. list \in SeqOf(OutputId, Cardinality(OutputId))
    BY DEF OutputList
  <2>2. list \in Seq(OutputId)
    BY <2>1, SeqDef DEF SeqOf
  <2> QED BY <1>8, <2>2, TailIs
<1> QED BY <1>6, <1>7, <1>8

LEMMA DesiredIs ==
  ASSUME NEW list \in OutputList
  PROVE  Desired(list) \in OutputList /\ Desired(list) # <<>> /\ Desired(list)[1] \in OutputId
<1>1. <<1>> # <<>>
  BY OneIs
<1>2. Desired(list) \in OutputList /\ Desired(list) # <<>>
  BY <1>1, ListsAre DEF Desired
<1> QED BY <1>2, ListsAre

\* A bounded list
LEMMA BoundedIs ==
  ASSUME NEW T, NEW n \in Nat, NEW q
  PROVE  q \in BoundedSeq(T, n) <=> q \in Seq(T) /\ Len(q) <= n
<1>1. ASSUME q \in BoundedSeq(T, n) PROVE q \in Seq(T) /\ Len(q) <= n
  <2>1. PICK m \in 0..n : q \in [1..m -> T]
    BY <1>1 DEF BoundedSeq, SeqOf
  <2>2. q \in Seq(T) /\ Len(q) = m
    BY <2>1, SeqDef
  <2> QED BY <2>1, <2>2
<1>2. ASSUME q \in Seq(T), Len(q) <= n PROVE q \in BoundedSeq(T, n)
  <2>1. Len(q) \in 0..n /\ q \in [1..Len(q) -> T]
    BY <1>2, LenProperties
  <2> QED BY <2>1 DEF BoundedSeq, SeqOf
<1> QED BY <1>1, <1>2

LEMMA OutputsInvIs == GlobalsInv /\ SurfaceInv => OutputsOK
<1> SUFFICES ASSUME GlobalsInv, SurfaceInv PROVE OutputsOK
  OBVIOUS
<1>1. ToSet(entered) = Elements(entered)
  BY DEF ToSet, Elements
<1>2. OutputsTypeOK
  <2>1. entered \in BoundedSeq(OutputId, MaxEntered) /\ IsInjective(entered)
    BY BoundedIs, OnceIsInjective, OutputAssumption DEF SurfaceInv, IsInjective
  <2> QED BY <2>1 DEF GlobalsInv, SurfaceInv, OutputsTypeOK
<1>3. ScaleIsOfOutputShown
  <2> SUFFICES ASSUME ~replaced PROVE /\ current \in inside \cup {0}
                                      /\ Elements(entered) \subseteq inside
                                      /\ inside # {} /\ ~overflown => OutputOf \in inside
    BY <1>1 DEF ScaleIsOfOutputShown
  <2>1. /\ current \in inside \cup {0}
        /\ Elements(entered) \subseteq inside
        /\ ~overflown => Elements(entered) = inside
    BY DEF SurfaceInv
  <2>2. ASSUME inside # {}, ~overflown PROVE OutputOf \in inside
    <3>1. CASE current # 0
      BY <2>1, <3>1 DEF OutputOf
    <3>2. CASE current = 0
      <4>1. entered \in Seq(OutputId) /\ entered # <<>>
        BY <2>1, <2>2, ElementsAre DEF SurfaceInv
      <4>2. entered[Len(entered)] \in Elements(entered)
        BY <4>1, TailIs DEF Elements
      <4> QED BY <2>1, <3>2, <4>1, <4>2 DEF OutputOf, Last
    <3> QED BY <3>1, <3>2
  <2> QED BY <2>1, <2>2
<1> QED BY <1>2, <1>3 DEF OutputsOK, GlobalsInv

LEMMA ChangeKeeps ==
  ASSUME GlobalsInv, NEW list \in OutputList, OutputsChange(list)
  PROVE  GlobalsInv'
<1> DEFINE want == Desired(list)
<1>1. want \in OutputList /\ want # <<>> /\ want[1] \in OutputId
  BY DesiredIs
<1>2. reported' = list /\ (CreateGlobals(want) \/ CreateFails(want))
  BY DEF OutputsChange
<1> HIDE DEF want
<1>3. CASE CreateGlobals(want)
  BY <1>1, <1>2, <1>3 DEF CreateGlobals, GlobalsInv, GlobalsAreWhole
<1>4. CASE CreateFails(want)
  BY <1>2, <1>4, ListsAre DEF CreateFails, GlobalsInv, GlobalsAreWhole
<1> QED BY <1>2, <1>3, <1>4

LEMMA EnterKeeps ==
  ASSUME SurfaceInv, NEW o \in OutputId, EnterOutput(o)
  PROVE  SurfaceInv'
<1> DEFINE full == Len(entered) >= MaxEntered
           known == Contains(entered, o)
<1>1. /\ o \notin inside /\ inside' = inside \cup {o}
      /\ entered' = IF known \/ full THEN entered ELSE Append(entered, o)
      /\ current' = o /\ overflown' = (overflown \/ (full /\ ~known))
      /\ replaced' = replaced
  BY DEF EnterOutput
<1>2. entered \in Seq(OutputId) /\ Len(entered) \in Nat /\ DOMAIN entered = 1..Len(entered)
      /\ MaxEntered \in Nat
  BY OutputAssumption, ElementsAre DEF SurfaceInv
<1>3. known <=> o \in Elements(entered)
  BY <1>2 DEF Contains, Elements
<1>4. ~full => Len(entered) + 1 <= MaxEntered
  BY <1>2
<1> HIDE DEF full, known
<1>5. CASE known \/ full
  <2>1. entered' = entered /\ overflown' = (overflown \/ (full /\ ~known))
    BY <1>1, <1>5
  <2>2. ~replaced => ~known
    BY <1>1, <1>3 DEF SurfaceInv
  <2>3. overflown' \in BOOLEAN /\ (~replaced => overflown')
    BY <1>5, <2>1, <2>2 DEF SurfaceInv
  <2>4. ~replaced' => /\ current' \in inside' \cup {0}
                      /\ Elements(entered') \subseteq inside'
    BY <1>1, <2>1 DEF SurfaceInv
  <2> QED BY <1>1, <2>1, <2>3, <2>4 DEF SurfaceInv
<1>6. CASE ~known /\ ~full
  <2>1. entered' = Append(entered, o) /\ overflown' = overflown
    BY <1>1, <1>6 DEF SurfaceInv
  <2>2. /\ entered' \in Seq(OutputId) /\ Elements(entered') = Elements(entered) \cup {o}
        /\ Once(entered')
    BY <1>2, <1>3, <1>6, <2>1, AppendKeeps DEF SurfaceInv
  <2>3. Len(entered') <= MaxEntered
    BY <1>2, <1>4, <1>6, <2>1, AppendIs
  <2> QED BY <1>1, <2>1, <2>2, <2>3 DEF SurfaceInv
<1> QED BY <1>5, <1>6

LEMMA LeaveKeeps ==
  ASSUME SurfaceInv, NEW o \in OutputId, LeaveOutput(o)
  PROVE  SurfaceInv'
<1>1. /\ o \in inside /\ inside' = inside \ {o} /\ entered' = Without(entered, {o})
      /\ current' = IF current # o THEN current
                    ELSE IF entered' = <<>> THEN 0 ELSE Last(entered')
      /\ overflown' = overflown /\ replaced' = replaced
  BY DEF LeaveOutput
<1>2. /\ entered' \in Seq(OutputId) /\ Elements(entered') = Elements(entered) \ {o}
      /\ Once(entered')
  BY <1>1, DroppedKeeps DEF SurfaceInv
<1>3. Len(entered') <= MaxEntered
  <2>1. Len(entered') <= Len(entered) /\ Len(entered') \in Nat /\ Len(entered) \in Nat
    BY <1>1, <1>2, KeptIs DEF Without, KeptSoFar, SurfaceInv
  <2> QED BY <2>1, OutputAssumption DEF SurfaceInv
<1>4. entered' # <<>> => Last(entered') \in Elements(entered') /\ Last(entered') \in OutputId
  <2> SUFFICES ASSUME entered' # <<>>
               PROVE  Last(entered') \in Elements(entered') /\ Last(entered') \in OutputId
    OBVIOUS
  <2>1. Len(entered') \in 1..Len(entered') /\ DOMAIN entered' = 1..Len(entered')
    BY <1>2, TailIs
  <2> QED BY <1>2, <2>1, ElementsAre DEF Elements, Last
<1>5. current' \in OutputId \cup {0}
  BY <1>1, <1>4 DEF SurfaceInv
<1>6. ~replaced => current' \in inside' \cup {0}
  BY <1>1, <1>2, <1>4 DEF SurfaceInv
<1> QED BY <1>1, <1>2, <1>3, <1>5, <1>6 DEF SurfaceInv

LEMMA ReplaceKeeps ==
  ASSUME SurfaceInv, ReplaceWindow
  PROVE  SurfaceInv'
BY DEF ReplaceWindow, SurfaceInv

LEMMA OutputsStart == OutputsInit => GlobalsInv /\ SurfaceInv
<1> SUFFICES ASSUME OutputsInit PROVE GlobalsInv /\ SurfaceInv
  OBVIOUS
<1>1. GlobalsInv
  BY DesiredIs DEF OutputsInit, GlobalsInv, GlobalsAreWhole
<1>2. <<>> \in Seq(OutputId) /\ Len(<<>>) = 0 /\ DOMAIN <<>> = {}
  OBVIOUS
<1>3. Elements(<<>>) = {} /\ Once(<<>>)
  <2>1. Elements(<<>>) = {}
    BY <1>2 DEF Elements
  <2>2. Once(<<>>)
    BY <1>2 DEF Once
  <2> QED BY <2>1, <2>2
<1>4. SurfaceInv
  <2>1. /\ inside = {} /\ entered = <<>> /\ current = 0
        /\ overflown = FALSE /\ replaced = FALSE
    BY DEF OutputsInit
  <2>2. entered \in Seq(OutputId) /\ Len(entered) = 0 /\ Elements(entered) = {} /\ Once(entered)
    BY <1>2, <1>3, <2>1
  <2>3. 0 <= MaxEntered
    BY OutputAssumption
  <2> QED BY <2>1, <2>2, <2>3 DEF SurfaceInv
<1> QED BY <1>1, <1>4

LEMMA OutputsStep ==
  GlobalsInv /\ SurfaceInv /\ [OutputsNext]_outputVars => GlobalsInv' /\ SurfaceInv'
<1> SUFFICES ASSUME GlobalsInv, SurfaceInv, [OutputsNext]_outputVars
             PROVE  GlobalsInv' /\ SurfaceInv'
  OBVIOUS
<1>1. UNCHANGED globalVars => GlobalsInv'
  BY DEF globalVars, GlobalsInv, GlobalsAreWhole
<1>2. UNCHANGED enteredVars => SurfaceInv'
  BY DEF enteredVars, SurfaceInv
<1>3. ASSUME NEW list \in OutputList, OutputsChange(list) PROVE GlobalsInv' /\ SurfaceInv'
  BY <1>2, <1>3, ChangeKeeps DEF OutputsChange
<1>4. ASSUME NEW o \in OutputId, EnterOutput(o) PROVE GlobalsInv' /\ SurfaceInv'
  BY <1>1, <1>4, EnterKeeps DEF EnterOutput
<1>5. ASSUME NEW o \in OutputId, LeaveOutput(o) PROVE GlobalsInv' /\ SurfaceInv'
  BY <1>1, <1>5, LeaveKeeps DEF LeaveOutput
<1>6. CASE ReplaceWindow
  BY <1>1, <1>6, ReplaceKeeps DEF ReplaceWindow
<1>7. CASE UNCHANGED outputVars
  BY <1>1, <1>2, <1>7 DEF outputVars
<1> QED BY <1>3, <1>4, <1>5, <1>6, <1>7 DEF OutputsNext

(***************************************************************************)
(* There is a global for every output or none at all, and the scale of a   *)
(* surface is that of an output it is on, for any outputs and however many *)
(* of them a surface records.                                              *)
(***************************************************************************)
THEOREM OutputsAreWhole == OutputsSpec => []OutputsOK
<1>1. GlobalsInv /\ SurfaceInv => OutputsOK
  BY OutputsInvIs
<1> QED BY <1>1, OutputsStart, OutputsStep, PTL DEF OutputsSpec
=============================================================================
