---------------------------- MODULE PointerSeat ----------------------------
(***************************************************************************)
(* Pointer focus: the per-window pointer events of Plexy                   *)
(* (event_forward.c) and their delivery (input_router.c), the pointers of  *)
(* the clients (wl_seat.c), locked and confined pointers                   *)
(* (wl_pointer_constraints.c), the raw input mode that follows them        *)
(* (raw_input.c) and the gestures made up from buttons.                    *)
(*                                                                         *)
(* The bridge is told of enter and leave per window and in any order; what *)
(* a client is told depends on the route an event takes: Wayland windows   *)
(* go through the router, X11 windows do not, and raw motion has a route   *)
(* of its own.  The routes change one record, seat, one after the other,   *)
(* so each of them is a function from records to records here.             *)
(*                                                                         *)
(* Left out: coordinates, so whether a point is in the input region and    *)
(* how far the pointer moved are choices of the event; cursor shapes; and  *)
(* the session lock, under which the handlers do nothing, as if Plexy had  *)
(* not sent the event.  What a button does to the keyboard focus is in     *)
(* KeyboardSeat.  A client has one wl_pointer at a time and the next one   *)
(* gets the address of the last.                                           *)
(***************************************************************************)
EXTENDS FiniteSets

CONSTANTS
  Client,      \* clients of the bridge
  Surface,     \* addresses of surfaces
  Owner,       \* the client of each surface
  X11,         \* surfaces of X11 windows
  Windowless,  \* surfaces without a window: cursors
  Parent,      \* of each subsurface, None for the other surfaces
  Asked,       \* the constraints clients ask for, per surface
  Mortal,      \* surfaces that are destroyed and created again
  Plugs,       \* clients that release their wl_pointer and get another
  Touch,       \* clients that have a wl_touch
  Buttons,     \* of the mouse
  None

ASSUME PointerAssumption ==
  /\ Owner \in [Surface -> Client]
  /\ X11 \subseteq Surface /\ Windowless \subseteq Surface
  /\ Parent \in [Surface -> Surface \cup {None}]
  /\ Asked \in [Surface -> SUBSET ({"lock", "confine"} \X {"oneshot", "persistent"})]
  /\ Mortal \subseteq Surface /\ Plugs \subseteq Client /\ Touch \subseteq Client
  /\ Buttons \subseteq {"left", "right"}
  /\ None \notin Surface \cup Client

VARIABLES
  surfaces,  \* surfaces that exist
  pointers,  \* clients that have a wl_pointer
  seat,      \* focus, constraints and what clients were told, see Seats
  raw,       \* raw_input_active
  gesture,   \* the gesture_* variables of event_forward.c
  touched    \* touch_surface, None when no emulated touch is down

vars == <<surfaces, pointers, seat, raw, gesture, touched>>

Gestures == {"swipe", "pinch", "hold"}

NoConstraint == [kind |-> "none", life |-> "none", active |-> FALSE]

Constraints ==
  {NoConstraint} \cup
  [kind : {"lock", "confine"}, life : {"oneshot", "persistent"}, active : BOOLEAN]

OrNone(S) == S \cup {None}

Seats ==
  [focus   : OrNone(Surface),             \* pointer_focus
   ptr     : OrNone(Client),              \* whose seat_pointer_resource is
   surf    : OrNone(Surface),             \* seat_pointer_surface
   pending : SUBSET Surface,              \* pending_enter
   inside  : SUBSET Surface,              \* enter sent, leave not
   con     : [Surface -> Constraints],    \* by the address of the surface
   orphans : SUBSET Surface,              \* constraints older than the surface
   hidden  : SUBSET Surface,              \* pointer_lock_cursor_hidden
   sync    : BOOLEAN]                     \* raw_input_sync_pending

NoGesture == [on |-> None, down |-> {}, flags |-> {}]

TypeOK ==
  /\ surfaces \subseteq Surface
  /\ pointers \subseteq Client
  /\ seat \in Seats
  /\ raw \in BOOLEAN
  /\ gesture \in [on : OrNone(Surface), down : SUBSET {"left", "right"},
                  flags : SUBSET Gestures]
  /\ touched \in OrNone(Surface)

Init ==
  /\ surfaces = Surface
  /\ pointers = Client \ Plugs
  /\ seat = [focus |-> None, ptr |-> None, surf |-> None, pending |-> {},
             inside |-> {}, con |-> [s \in Surface |-> NoConstraint],
             orphans |-> {}, hidden |-> {}, sync |-> FALSE]
  /\ raw = FALSE
  /\ gesture = NoGesture
  /\ touched = None

HasPointer(s) == Owner[s] \in pointers

---------------------------------------------------------------------------
(* Constraints *)

Locked(p, s) == p.con[s].active /\ p.con[s].kind = "lock"

\* send_constraint_state: the cursor of a locked surface is hidden.
Activated_ComparesLate(p, s, on) == [p EXCEPT !.con[s].active = on]

Activated(p, s, on) ==
  [p EXCEPT
     !.con[s].active = on,
     !.hidden = IF p.con[s].kind # "lock" \/ p.con[s].active = on THEN @
                ELSE IF on THEN @ \cup {s} ELSE @ \ {s}]

\* bridge_pointer_constraints_set_focus: persistent constraints stay, a
\* one-shot constraint ends with the focus.
ConstraintFocus_Unscheduled(p, s, on) ==
  IF p.con[s] = NoConstraint \/ (~on /\ p.con[s].life = "persistent")
  THEN p
  ELSE [Activated(p, s, on) EXCEPT !.con[s] = IF on THEN @ ELSE NoConstraint,
                                   !.orphans = IF on THEN @ ELSE @ \ {s}]

ConstraintFocus_HalfEnded(p, s, on) ==
  IF p.con[s] = NoConstraint \/ (~on /\ p.con[s].life = "persistent")
  THEN p
  ELSE [Activated(p, s, on) EXCEPT !.con[s].kind = IF on THEN @ ELSE "none",
                                   !.orphans = IF on THEN @ ELSE @ \ {s},
                                   !.sync = @ \/ p.con[s].active # on]

ConstraintFocus(p, s, on) ==
  IF p.con[s] = NoConstraint \/ (~on /\ p.con[s].life = "persistent")
  THEN p
  ELSE [Activated(p, s, on) EXCEPT !.con[s] = IF on THEN @ ELSE NoConstraint,
                                   !.orphans = IF on THEN @ ELSE @ \ {s},
                                   !.sync = @ \/ p.con[s].active # on]

---------------------------------------------------------------------------
(* The routes to a focus *)

NoFocus(p) == [p EXCEPT !.focus = None, !.ptr = None, !.surf = None]

\* Enter is sent to the pointers of s, and s has the focus.
Entered(p, s) ==
  [p EXCEPT !.focus = s, !.ptr = Owner[s], !.surf = s,
            !.inside = @ \cup {s}]

\* input_router_pointer_enter: without a pointer the enter is deferred.
RouterEnter_NoLeave(p, s) ==
  IF ~HasPointer(s)
  THEN [p EXCEPT !.pending = @ \cup {s}]
  ELSE ConstraintFocus([Entered(p, s) EXCEPT !.pending = @ \ {s}], s, TRUE)

RouterEnter(p, s) ==
  IF ~HasPointer(s)
  THEN [p EXCEPT !.pending = @ \cup {s}]
  ELSE ConstraintFocus(
         Entered([p EXCEPT !.pending = @ \ {s}, !.inside = @ \ {p.focus}], s),
         s, TRUE)

\* input_router_pointer_leave
RouterLeave(p, s) ==
  LET q == ConstraintFocus([p EXCEPT !.pending = @ \ {s}], s, FALSE)
  IN
  IF Locked(p, s) THEN p
  ELSE IF p.focus # s THEN q
  ELSE NoFocus([q EXCEPT !.inside = @ \ {s}])

\* input_router_pointer_motion and input_router_pointer_button, try_deferred_enter
Deferred(p, s) ==
  IF p.focus # s /\ s \in p.pending THEN RouterEnter(p, s) ELSE p

\* ensure_x11_pointer_focus
X11Enter(p, s) ==
  LET q == [NoFocus(p) EXCEPT !.inside = @ \ {p.focus}, !.focus = s]
  IN IF p.focus = s THEN p ELSE IF HasPointer(s) THEN Entered(q, s) ELSE q

\* send_pointer_enter_all, for the surface that has the focus
EnterAll(p, s) ==
  IF ~HasPointer(s) THEN p
  ELSE [Entered([p EXCEPT !.inside = @ \ ({p.surf} \ {s})], s)
          EXCEPT !.pending = @ \ {s}]

\* set_pointer_focus
RawFocus(p, s) ==
  LET q == [NoFocus(p) EXCEPT !.inside = @ \ {p.focus}, !.focus = s]
  IN IF p.focus = s \/ (p.focus # None /\ Locked(p, p.focus)) THEN p
     ELSE IF s = None THEN q
     ELSE IF HasPointer(s) THEN EnterAll(q, s)
     ELSE [q EXCEPT !.pending = @ \cup {s}]

\* An enter that raw input still owes to the surface with the focus.
RawDeferred(p) ==
  IF p.focus \in p.pending /\ ~Locked(p, p.focus) THEN EnterAll(p, p.focus) ELSE p

---------------------------------------------------------------------------
(* Gestures and touch, made up from buttons *)

\* gesture_cancel_active
CancelGesture_KeepsButton(s) ==
  gesture' = IF gesture.on = s THEN [gesture EXCEPT !.on = None, !.flags = {}]
             ELSE gesture

CancelGesture(s) == gesture' = IF gesture.on = s THEN NoGesture ELSE gesture

\* Motion with a button down turns a hold into a swipe or begins a pinch,
\* once it is far enough.
MoveGesture(s, far) ==
  LET swipes == far /\ "left" \in gesture.down /\ "swipe" \notin gesture.flags
      pinches == far /\ "right" \in gesture.down /\ "pinch" \notin gesture.flags
  IN
  gesture' =
    IF gesture.on # s THEN gesture
    ELSE [gesture EXCEPT
            !.flags = (IF swipes THEN (@ \ {"hold"}) \cup {"swipe"} ELSE @)
                      \cup (IF pinches THEN {"pinch"} ELSE {})]

MadeBy(button) == IF button = "left" THEN {"swipe", "hold"} ELSE {"pinch"}

\* A left button begins a hold; its release ends what it began, except under
\* a lock, where the release is not seen.
ButtonGesture(p, s, button, pressed) ==
  LET down == gesture.down \ {button}
  IN
  gesture' =
    IF s \in X11 \/ Locked(p, s) THEN gesture
    ELSE IF pressed
    THEN [on |-> s, down |-> gesture.down \cup {button},
          flags |-> gesture.flags \cup (IF button = "left" THEN {"hold"} ELSE {})]
    ELSE IF gesture.on = s
    THEN [on |-> IF down = {} THEN None ELSE s, down |-> down,
          flags |-> gesture.flags \ MadeBy(button)]
    ELSE gesture

\* A client without a pointer is given a touch for the left button.
ButtonTouch(s, button, pressed) ==
  touched' = IF s \in X11 \/ button # "left" \/ Owner[s] \notin Touch \/ HasPointer(s)
             THEN touched
             ELSE IF pressed THEN s
             ELSE IF touched = s THEN None ELSE touched

\* touch_cancel_active
CancelTouch(s) == touched' = IF touched = s THEN None ELSE touched

NoGestures == UNCHANGED <<gesture, touched>>

---------------------------------------------------------------------------
(* Events of Plexy for the window of s.  Outside the input region of a     *)
(* subsurface the target is its parent; outside every region it is None.   *)

Window(s) == s \in surfaces \ Windowless

\* resolve_pointer_target_surface; an X11 window takes every point.
Targets(s) ==
  IF s \in X11 THEN {s} ELSE {s, None} \cup ({Parent[s]} \cap surfaces)

\* The focus leaves s for the target, which is entered unless it has it.
Left(s, t) == IF t # s /\ seat.focus = s THEN RouterLeave(seat, s) ELSE seat

Reached(p, t) == IF t = None \/ p.focus = t THEN p ELSE RouterEnter(p, t)

\* forward_pointer_enter
PointerEnter(s, t) ==
  /\ Window(s) /\ t \in Targets(s) /\ ~raw
  /\ seat' = IF s \in X11 THEN X11Enter(seat, s)
             ELSE IF t = None THEN seat ELSE RouterEnter(seat, t)
  /\ NoGestures /\ UNCHANGED <<surfaces, pointers, raw>>

\* forward_pointer_leave
PointerLeave(s) ==
  /\ Window(s) /\ ~raw
  /\ IF s \in X11
     THEN /\ seat' = IF seat.focus # s THEN seat
                     ELSE NoFocus([seat EXCEPT !.inside = @ \ {s}])
          /\ NoGestures
     ELSE CancelTouch(s) /\ CancelGesture(s) /\ seat' = RouterLeave(seat, s)
  /\ UNCHANGED <<surfaces, pointers, raw>>

\* forward_pointer_motion
PointerMotion(s, t, far) ==
  /\ Window(s) /\ t \in Targets(s) /\ ~raw
  /\ IF s \in X11 THEN seat' = X11Enter(seat, s) /\ NoGestures
     ELSE IF t = None THEN seat' = Left(s, t) /\ NoGestures
     ELSE /\ MoveGesture(t, far)
          /\ seat' = Deferred(Reached(Left(s, t), t), t)
          /\ UNCHANGED touched
  /\ UNCHANGED <<surfaces, pointers, raw>>

\* forward_pointer_button: X11 windows take the focus even in raw mode.
PointerButton(s, t, button, pressed) ==
  /\ Window(s) /\ t \in Targets(s)
  /\ s \notin X11 => ~raw
  /\ IF s \in X11 THEN seat' = X11Enter(seat, s) /\ NoGestures
     ELSE IF t = None THEN seat' = Left(s, t) /\ NoGestures
     ELSE LET q == Reached(Left(s, t), t)
          IN /\ seat' = Deferred(q, t)
             /\ ButtonGesture(q, t, button, pressed)
             /\ ButtonTouch(t, button, pressed)
  /\ UNCHANGED <<surfaces, pointers, raw>>

\* forward_pointer_axis does not look for a target.
PointerAxis(s) ==
  /\ Window(s) /\ ~raw
  /\ seat' = IF s \in X11 THEN X11Enter(seat, s) ELSE Reached(seat, s)
  /\ NoGestures /\ UNCHANGED <<surfaces, pointers, raw>>

\* forward_focus_out, what it does to gestures and touch
FocusOut(s) ==
  /\ Window(s)
  /\ CancelTouch(s) /\ CancelGesture(s)
  /\ UNCHANGED <<surfaces, pointers, seat, raw>>

---------------------------------------------------------------------------
(* Raw events.  Plexy sends them in raw mode; those still under way when   *)
(* the mode ends are taken as not sent.                                    *)

\* bridge_raw_pointer_motion: a constraint keeps the target, otherwise it is
\* the window under the pointer, if there is one.
RawMotion(t) ==
  LET kept == seat.focus # None /\ seat.con[seat.focus].active
      q == RawFocus(seat, t)
      r == IF t \in q.pending THEN EnterAll(q, t) ELSE q
  IN
  /\ raw
  /\ IF kept THEN t = seat.focus ELSE t = None \/ Window(t)
  /\ seat' = IF t = None THEN q
             ELSE IF t \notin X11
             THEN IF Locked(seat, t) THEN seat ELSE Deferred(seat, t)
             ELSE IF HasPointer(t) THEN [r EXCEPT !.ptr = Owner[t], !.surf = t]
             ELSE IF t \in q.pending \/ ~Locked(q, t) THEN q
             ELSE [q EXCEPT !.ptr = None, !.surf = t]
  /\ NoGestures /\ UNCHANGED <<surfaces, pointers, raw>>

\* bridge_raw_pointer_button and bridge_raw_pointer_axis
RawButton ==
  /\ raw /\ seat.focus # None
  /\ seat' = RawDeferred(seat)
  /\ NoGestures /\ UNCHANGED <<surfaces, pointers, raw>>

AnyActive == \E s \in Surface : seat.con[s].active

\* sync_raw_input_idle
SyncRawInput ==
  /\ seat.sync
  /\ seat' = [seat EXCEPT !.sync = FALSE]
  /\ raw' = AnyActive
  /\ NoGestures /\ UNCHANGED <<surfaces, pointers>>

---------------------------------------------------------------------------
(* Requests *)

\* create_constraint, refused for a surface that has one already
CreateConstraint_AnyFocus(s, kind, life) ==
  /\ s \in surfaces /\ <<kind, life>> \in Asked[s] /\ HasPointer(s)
  /\ seat.con[s] = NoConstraint
  /\ LET p == [seat EXCEPT !.con[s] = [kind |-> kind, life |-> life, active |-> FALSE]]
     IN seat' = [Activated(p, s, TRUE) EXCEPT !.sync = TRUE]
  /\ NoGestures /\ UNCHANGED <<surfaces, pointers, raw>>

CreateConstraint(s, kind, life) ==
  /\ s \in surfaces /\ <<kind, life>> \in Asked[s] /\ HasPointer(s)
  /\ seat.con[s] = NoConstraint
  /\ LET p == [seat EXCEPT !.con[s] = [kind |-> kind, life |-> life, active |-> FALSE]]
     IN seat' = IF seat.focus = s
                THEN [Activated(p, s, TRUE) EXCEPT !.sync = TRUE] ELSE p
  /\ NoGestures /\ UNCHANGED <<surfaces, pointers, raw>>

\* pointer_constraint_resource_destroy: no unlocked is sent, and the cursor
\* stays as it was.
DestroyConstraint(s) ==
  /\ seat.con[s] # NoConstraint
  /\ seat' = [seat EXCEPT !.con[s] = NoConstraint, !.orphans = @ \ {s},
                          !.sync = @ \/ seat.con[s].active]
  /\ NoGestures /\ UNCHANGED <<surfaces, pointers, raw>>

\* pointer_set_cursor, with a surface or NULL
SetCursor(c, k) ==
  /\ c \in pointers /\ seat.focus # None /\ Owner[seat.focus] = c
  /\ k = None \/ (k \in surfaces \cap Windowless /\ Owner[k] = c)
  /\ seat' = [seat EXCEPT !.surf = k]
  /\ NoGestures /\ UNCHANGED <<surfaces, pointers, raw>>

\* seat_get_pointer: no enter, also when the focus is on the client already
GetPointer(c) ==
  /\ c \in Plugs \ pointers
  /\ pointers' = pointers \cup {c}
  /\ NoGestures /\ UNCHANGED <<surfaces, seat, raw>>

\* pointer_resource_destroy
ReleasePointer(c) ==
  /\ c \in Plugs \cap pointers
  /\ pointers' = pointers \ {c}
  /\ seat' = [seat EXCEPT !.inside = {s \in @ : Owner[s] # c},
                          !.ptr = IF @ = c THEN None ELSE @,
                          !.surf = IF seat.ptr = c THEN None ELSE @]
  /\ NoGestures /\ UNCHANGED <<surfaces, raw>>

\* bridge_surface_create at an address that was used before
CreateSurface(s) ==
  /\ s \in Mortal \ surfaces
  /\ surfaces' = surfaces \cup {s}
  /\ NoGestures /\ UNCHANGED <<pointers, seat, raw>>

\* bridge_surface_destroy: constraints, gesture and touch keep the address.
DestroySurface_KeepsFocus(s) ==
  /\ s \in Mortal \cap surfaces
  /\ surfaces' = surfaces \ {s}
  /\ seat' = [seat EXCEPT
       !.ptr = IF seat.surf = s THEN None ELSE @,
       !.surf = IF @ = s THEN None ELSE @,
       !.pending = @ \ {s}, !.inside = @ \ {s}, !.hidden = @ \ {s},
       !.orphans = IF seat.con[s] = NoConstraint THEN @ ELSE @ \cup {s}]
  /\ NoGestures /\ UNCHANGED <<pointers, raw>>

DestroySurface(s) ==
  /\ s \in Mortal \cap surfaces
  /\ surfaces' = surfaces \ {s}
  /\ seat' = [seat EXCEPT
       !.focus = IF @ = s THEN None ELSE @,
       !.ptr = IF seat.surf = s THEN None ELSE @,
       !.surf = IF @ = s THEN None ELSE @,
       !.pending = @ \ {s}, !.inside = @ \ {s}, !.hidden = @ \ {s},
       !.orphans = IF seat.con[s] = NoConstraint THEN @ ELSE @ \cup {s}]
  /\ NoGestures /\ UNCHANGED <<pointers, raw>>

---------------------------------------------------------------------------
Next ==
  \/ \E s \in Surface :
       \/ PointerLeave(s) \/ PointerAxis(s) \/ FocusOut(s)
       \/ \E t \in OrNone(Surface) :
            \/ PointerEnter(s, t)
            \/ \E far \in BOOLEAN : PointerMotion(s, t, far)
            \/ \E pressed \in BOOLEAN, b \in Buttons : PointerButton(s, t, b, pressed)
       \/ \E kind \in {"lock", "confine"}, life \in {"oneshot", "persistent"} :
            CreateConstraint(s, kind, life)
       \/ DestroyConstraint(s)
       \/ CreateSurface(s) \/ DestroySurface(s)
  \/ \E t \in OrNone(Surface) : RawMotion(t)
  \/ RawButton \/ SyncRawInput
  \/ \E c \in Client :
       \/ GetPointer(c) \/ ReleasePointer(c)
       \/ \E k \in OrNone(Surface) : SetCursor(c, k)

Spec == Init /\ [][Next]_vars

---------------------------------------------------------------------------
(* Properties *)

(***************************************************************************)
(* No client is left with the pointer: whatever the route by which the     *)
(* focus moved, the one surface that was sent an enter and no leave is the *)
(* one that has the focus.                                                 *)
(***************************************************************************)
OneInside == seat.inside \subseteq {seat.focus}

(***************************************************************************)
(* What the seat points to exists, through the release of pointers and the *)
(* destruction of surfaces and cursors, and the pointer X11 motion is sent *)
(* to is one of the client that has the focus.                             *)
(***************************************************************************)
SeatIsLive ==
  /\ seat.focus \in OrNone(surfaces) /\ seat.surf \in OrNone(surfaces)
  /\ seat.ptr \in OrNone(pointers)
  /\ seat.focus # None => seat.ptr \in {None, Owner[seat.focus]}

(***************************************************************************)
(* "Raw input ENABLED (pointer constraints active)": when no idle callback *)
(* is due, raw input is on exactly when some constraint is active, whoever *)
(* created, activated, ended or destroyed it.                              *)
(***************************************************************************)
RawFollows == seat.sync \/ raw = AnyActive

\* The cursor of a locked surface is hidden, unless the lock is one an
\* earlier surface left at the address.
LockHidesCursor ==
  \A s \in surfaces \ seat.orphans : Locked(seat, s) => s \in seat.hidden

\* A constraint takes effect only on the surface that has the focus.
ActivatedByFocus ==
  [][\A s \in Surface :
       seat'.con[s].active /\ ~seat.con[s].active => seat'.focus = s]_vars

\* The gestures of event_forward.c: one is in progress while its button is down, on one surface.
GesturesHeld ==
  /\ (gesture.on = None) = (gesture.down = {})
  /\ gesture.flags \subseteq UNION {MadeBy(b) : b \in gesture.down}

(***************************************************************************)
(* The pointer is in one surface: over the three routes an event can take, *)
(* enters and leaves pair up, what the seat points to exists, raw input    *)
(* and the cursor follow the constraints, and a gesture has its button.    *)
(***************************************************************************)
PointerOK ==
  /\ TypeOK /\ OneInside /\ SeatIsLive /\ RawFollows /\ LockHidesCursor
  /\ GesturesHeld
===========================================================================
