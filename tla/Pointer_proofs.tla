--------------------------- MODULE Pointer_proofs ---------------------------
(***************************************************************************)
(* What the pointer is over and what is shown there, for any surfaces and  *)
(* buffers.                                                                *)
(***************************************************************************)
EXTENDS PointerSeat, Viewports, Regions, DoubleBuffers, Dmabuf,
        Queues_proofs, FiniteSetTheorems, SequenceTheorems, TLAPS

---------------------------------------------------------------------------
(***************************************************************************)
(* PointerSeat: the pointer is in one place.                               *)
(*                                                                         *)
(* A handler changes the seat in several steps, each a function from       *)
(* records to records. What such a function may do to the place of the     *)
(* pointer and to the constraints is a relation between two records, kept  *)
(* by every one of them; the actions compose them.                         *)
(***************************************************************************)

\* What a route may never do to the place of the pointer: it is inside the
\* surface with the focus alone, and what the seat points to exists.
PlaceOK(p) ==
  /\ p.inside \subseteq {p.focus}
  /\ p.focus \in OrNone(surfaces) /\ p.surf \in OrNone(surfaces) /\ p.ptr \in OrNone(pointers)
  /\ p.focus # None => p.ptr \in {None, Owner[p.focus]}

\* And to the constraints: a lock hides the cursor, unless an earlier surface
\* left it at the address, and a surface that is gone leaves nothing else.
HiddenAt(p, s) == s \notin p.orphans /\ Locked(p, s) => s \in p.hidden
LeftAt(p, s) == p.con[s] # NoConstraint => s \in p.orphans
LocksOK(p) ==
  /\ \A s \in surfaces : HiddenAt(p, s)
  /\ \A s \in Surface \ surfaces : LeftAt(p, s)

\* A callback for raw input is due once a constraint has changed, and the one
\* that starts is that of the focus.
Noticed(p, q) ==
  /\ p.sync => q.sync
  /\ ~q.sync => \A s \in Surface : q.con[s].active = p.con[s].active
Wakes(p, q) ==
  \A s \in Surface : q.con[s].active /\ ~p.con[s].active => q.focus = s

SameLocks(p, q) ==
  q.con = p.con /\ q.sync = p.sync /\ q.hidden = p.hidden /\ q.orphans = p.orphans
SamePlace(p, q) ==
  q.focus = p.focus /\ q.ptr = p.ptr /\ q.surf = p.surf /\ q.inside = p.inside

Slept(p, q) == \A s \in Surface : q.con[s].active => p.con[s].active

Sound(p) == p \in Seats /\ PlaceOK(p) /\ LocksOK(p)
Step(p, q) == Sound(q) /\ Noticed(p, q) /\ Wakes(p, q)

\* What a constraint is
LEMMA ConstraintIs ==
  /\ NoConstraint \in Constraints
  /\ \A c \in Constraints :
       /\ c.active \in BOOLEAN
       /\ c # NoConstraint => c.kind \in {"lock", "confine"} /\ c.life \in {"oneshot", "persistent"}
       /\ c # NoConstraint => \A on \in BOOLEAN :
            /\ [c EXCEPT !.active = on] \in Constraints
            /\ [c EXCEPT !.active = on].active = on
            /\ [c EXCEPT !.active = on].kind = c.kind
            /\ [c EXCEPT !.active = on].life = c.life
            /\ [c EXCEPT !.active = on] # NoConstraint
<1>1. NoConstraint \in Constraints /\ NoConstraint.active = FALSE
  BY DEF Constraints, NoConstraint
<1>2. ASSUME NEW c \in Constraints, c # NoConstraint
      PROVE c \in [kind : {"lock", "confine"}, life : {"oneshot", "persistent"}, active : BOOLEAN]
  BY <1>2 DEF Constraints
<1>3. ASSUME NEW c \in [kind : {"lock", "confine"}, life : {"oneshot", "persistent"}, active : BOOLEAN],
             NEW on \in BOOLEAN
      PROVE /\ [c EXCEPT !.active = on] \in Constraints
            /\ [c EXCEPT !.active = on].active = on
            /\ [c EXCEPT !.active = on].kind = c.kind
            /\ [c EXCEPT !.active = on].life = c.life
            /\ [c EXCEPT !.active = on] # NoConstraint
  BY DEF Constraints, NoConstraint
<1>4. ASSUME NEW c \in Constraints PROVE c.active \in BOOLEAN
  BY <1>1, <1>2
<1>5. ASSUME NEW c \in Constraints, c # NoConstraint
      PROVE c.kind \in {"lock", "confine"} /\ c.life \in {"oneshot", "persistent"}
  BY <1>2, <1>5
<1> QED BY <1>1, <1>2, <1>3, <1>4, <1>5

\* What a lock or confinement changes when it starts or stops
LEMMA ActivatedIs ==
  ASSUME NEW p \in Seats, NEW s \in Surface, NEW on \in BOOLEAN, p.con[s] # NoConstraint
  PROVE  LET q == Activated(p, s, on)
         IN /\ q \in Seats /\ SamePlace(p, q) /\ q.pending = p.pending
            /\ q.orphans = p.orphans /\ q.sync = p.sync
            /\ q.con = [p.con EXCEPT ![s] = [p.con[s] EXCEPT !.active = on]]
            /\ q.hidden = IF p.con[s].kind # "lock" \/ p.con[s].active = on THEN p.hidden
                          ELSE IF on THEN p.hidden \cup {s} ELSE p.hidden \ {s}
<1> DEFINE c == [p.con[s] EXCEPT !.active = on]
<1> DEFINE f == [p.con EXCEPT ![s] = c]
<1> DEFINE h == IF p.con[s].kind # "lock" \/ p.con[s].active = on THEN p.hidden
                ELSE IF on THEN p.hidden \cup {s} ELSE p.hidden \ {s}
<1> DEFINE q == [p EXCEPT !.con = f, !.hidden = h]
<1>1. p.con \in [Surface -> Constraints] /\ p.hidden \subseteq Surface
  BY DEF Seats
<1>2. c \in Constraints
  BY <1>1, ConstraintIs
<1>3. Activated(p, s, on) = q
  BY DEF Activated
<1> HIDE DEF c
<1>4. f \in [Surface -> Constraints] /\ h \in SUBSET Surface
  BY <1>1, <1>2
<1> HIDE DEF f, h
<1>5. q \in Seats /\ SamePlace(p, q) /\ q.pending = p.pending /\ q.orphans = p.orphans
      /\ q.sync = p.sync /\ q.con = f /\ q.hidden = h
  BY <1>4 DEF Seats, SamePlace
<1> HIDE DEF q
<1> QED BY <1>3, <1>5 DEF f, h, c

\* What is left of a constraint that is told of the focus
Told(c, on) == IF on THEN [c EXCEPT !.active = on] ELSE NoConstraint

\* And how it changes the seat
Tells(p, s, on, q) ==
  /\ p.con[s] # NoConstraint
  /\ q \in Seats /\ SamePlace(p, q) /\ q.pending = p.pending
  /\ q.orphans = IF on THEN p.orphans ELSE p.orphans \ {s}
  /\ (p.sync => q.sync) /\ (~q.sync => p.con[s].active = on)
  /\ q.con = [p.con EXCEPT ![s] = Told(p.con[s], on)]
  /\ q.hidden = IF p.con[s].kind # "lock" \/ p.con[s].active = on THEN p.hidden
                ELSE IF on THEN p.hidden \cup {s} ELSE p.hidden \ {s}

\* A constraint that is told of the focus
LEMMA ConstraintFocusIs ==
  ASSUME NEW p \in Seats, NEW s \in Surface, NEW on, on \in BOOLEAN, ConstraintFocus(p, s, on) # p
  PROVE  Tells(p, s, on, ConstraintFocus(p, s, on))
<1> DEFINE a == Activated(p, s, on)
<1> DEFINE f == [p.con EXCEPT ![s] = Told(p.con[s], on)]
<1> DEFINE o == IF on THEN p.orphans ELSE p.orphans \ {s}
<1> DEFINE y == p.sync \/ p.con[s].active # on
<1> DEFINE q == [a EXCEPT !.con = f, !.orphans = o, !.sync = y]
<1>1. p.con[s] # NoConstraint
  BY DEF ConstraintFocus
<1>2. p.con \in [Surface -> Constraints] /\ p.orphans \subseteq Surface /\ p.sync \in BOOLEAN
  BY DEF Seats
<1>3. /\ a \in Seats /\ SamePlace(p, a) /\ a.pending = p.pending
      /\ a.orphans = p.orphans /\ a.sync = p.sync
      /\ a.con = [p.con EXCEPT ![s] = [p.con[s] EXCEPT !.active = on]]
      /\ a.hidden = IF p.con[s].kind # "lock" \/ p.con[s].active = on THEN p.hidden
                    ELSE IF on THEN p.hidden \cup {s} ELSE p.hidden \ {s}
  BY <1>1, ActivatedIs
<1> HIDE DEF a
<1>4. /\ [a.con EXCEPT ![s] = IF on THEN @ ELSE NoConstraint] = f
      /\ (IF on THEN a.orphans ELSE a.orphans \ {s}) = o
      /\ (a.sync \/ p.con[s].active # on) = y
  <2>1. CASE on
    BY <1>2, <1>3, <2>1 DEF Told
  <2>2. CASE ~on
    BY <1>2, <1>3, <2>2 DEF Told
  <2> QED BY <2>1, <2>2
<1>5. ConstraintFocus(p, s, on) = q
  <2>1. ConstraintFocus(p, s, on) =
          [a EXCEPT !.con[s] = IF on THEN @ ELSE NoConstraint,
                    !.orphans = IF on THEN @ ELSE @ \ {s},
                    !.sync = @ \/ p.con[s].active # on]
    BY DEF ConstraintFocus, a
  <2> QED BY <1>4, <2>1
<1>6. f \in [Surface -> Constraints] /\ o \in SUBSET Surface /\ y \in BOOLEAN
  <2>1. [p.con[s] EXCEPT !.active = on] \in Constraints /\ NoConstraint \in Constraints
    BY <1>1, <1>2, ConstraintIs
  <2>2. p.con[s].active \in BOOLEAN
    BY <1>2, ConstraintIs
  <2> QED BY <1>2, <2>1, <2>2 DEF Told
<1> HIDE DEF f, o, y
<1>7. /\ q \in Seats /\ SamePlace(a, q) /\ q.pending = a.pending
      /\ q.orphans = o /\ q.sync = y /\ q.con = f /\ q.hidden = a.hidden
  BY <1>3, <1>6 DEF Seats, SamePlace
<1> HIDE DEF q
<1>8. SamePlace(p, q)
  BY <1>3, <1>7 DEF SamePlace
<1>9. (p.sync => q.sync) /\ (~q.sync => p.con[s].active = on)
  BY <1>7 DEF y
<1> QED BY <1>1, <1>3, <1>5, <1>7, <1>8, <1>9 DEF f, o, Tells

\* Telling a constraint is sound, if only that of the focus is told it has it.
LEMMA ConstraintFocusSteps ==
  ASSUME NEW p \in Seats, Sound(p), NEW s \in surfaces, TypeOK, NEW on, on \in BOOLEAN, on => p.focus = s
  PROVE  LET q == ConstraintFocus(p, s, on)
         IN Step(p, q) /\ SamePlace(p, q) /\ (~on => Slept(p, q))
<1> DEFINE q == ConstraintFocus(p, s, on)
<1>1. CASE q = p
  BY <1>1 DEF Step, Noticed, Wakes, Slept, SamePlace, Sound
<1>2. CASE q # p
  <2>1. p \in Seats /\ s \in Surface /\ p.con \in [Surface -> Constraints]
    BY DEF Sound, TypeOK, Seats
  <2>2. Tells(p, s, on, q)
    <3>1. ConstraintFocus(p, s, on) # p /\ p \in Seats /\ s \in Surface
      BY <1>2, <2>1
    <3> QED BY <3>1, ConstraintFocusIs
  <2> USE DEF Tells
  <2> DEFINE c == Told(p.con[s], on)
  <2>3. p.con[s].active \in BOOLEAN
    BY <2>1, ConstraintIs
  <2>4. c.active = on /\ (on => c.kind = p.con[s].kind) /\ (~on => c.kind = "none")
    <3>1. CASE on
      BY <2>1, <2>2, <3>1, ConstraintIs DEF Told
    <3>2. CASE ~on
      BY <3>2 DEF NoConstraint, Told
    <3> QED BY <3>1, <3>2
  <2> HIDE DEF q, c
  <2>5. \A u \in Surface : q.con[u] = IF u = s THEN c ELSE p.con[u]
    BY <2>1, <2>2 DEF c
  <2>6. PlaceOK(q)
    BY <2>2 DEF Sound, PlaceOK, SamePlace
  <2>7. LocksOK(q)
    <3>1. ASSUME NEW u \in surfaces PROVE HiddenAt(q, u)
      BY <2>1, <2>2, <2>3, <2>4, <2>5 DEF Sound, LocksOK, HiddenAt, Locked, TypeOK
    <3>2. ASSUME NEW u \in Surface \ surfaces PROVE LeftAt(q, u)
      BY <2>1, <2>2, <2>5 DEF Sound, LocksOK, LeftAt
    <3> QED BY <3>1, <3>2 DEF LocksOK
  <2>8. Noticed(p, q)
    <3>1. p.sync => q.sync
      BY <2>2
    <3>2. ~q.sync => p.con[s].active = on
      BY <2>2
    <3>3. ASSUME ~q.sync, NEW u \in Surface PROVE q.con[u].active = p.con[u].active
      BY <2>4, <2>5, <3>2, <3>3
    <3> QED BY <3>1, <3>3 DEF Noticed
  <2>9. Wakes(p, q)
    BY <2>1, <2>2, <2>4, <2>5 DEF Wakes, SamePlace
  <2>10. ~on => Slept(p, q)
    BY <2>1, <2>2, <2>4, <2>5 DEF Slept
  <2> QED BY <2>2, <2>6, <2>7, <2>8, <2>9, <2>10 DEF Step, Sound, q
<1> QED BY <1>1, <1>2

\* What only moves the pointer keeps the constraints.
LEMMA LocksFollow ==
  ASSUME NEW p \in Seats, NEW q \in Seats, Sound(p), SameLocks(p, q), PlaceOK(q)
  PROVE  Step(p, q) /\ Slept(p, q)
  BY DEF Sound, LocksOK, HiddenAt, LeftAt, Locked, SameLocks, Step, Noticed, Wakes, Slept

\* Steps one after the other, of which only the last may start a constraint
LEMMA StepAfter ==
  ASSUME NEW p, NEW q, NEW r, Noticed(p, q), Slept(p, q), Step(q, r)
  PROVE  Step(p, r)
  BY DEF Noticed, Wakes, Slept, Step

\* What starts nothing twice starts nothing.
LEMMA SleptAfter ==
  ASSUME NEW p, NEW q, NEW r, Slept(p, q), Slept(q, r) PROVE Slept(p, r)
  BY DEF Slept

\* What the routes are made of: the focus is lost.
LEMMA NoFocusIs ==
  ASSUME NEW p \in Seats
  PROVE  LET q == NoFocus(p)
         IN /\ q \in Seats /\ SameLocks(p, q) /\ q.inside = p.inside /\ q.pending = p.pending
            /\ q.focus = None /\ q.ptr = None /\ q.surf = None
  BY DEF Seats, NoFocus, SameLocks, OrNone

\* Other surfaces wait for an enter or are inside.
Waiting(p, w, i) == [p EXCEPT !.pending = w, !.inside = i]

\* They alone change.
LEMMA WaitingIs ==
  ASSUME NEW p \in Seats, NEW w \in SUBSET Surface, NEW i \in SUBSET Surface
  PROVE  LET q == Waiting(p, w, i)
         IN /\ q \in Seats /\ SameLocks(p, q) /\ q.inside = i /\ q.pending = w
            /\ q.focus = p.focus /\ q.ptr = p.ptr /\ q.surf = p.surf
  BY DEF Seats, SameLocks, Waiting

\* An enter
LEMMA EnteredIs ==
  ASSUME NEW p \in Seats, NEW s \in Surface
  PROVE  LET q == Entered(p, s)
         IN /\ q \in Seats /\ SameLocks(p, q) /\ q.pending = p.pending
            /\ q.focus = s /\ q.ptr = Owner[s] /\ q.surf = s
            /\ q.inside = p.inside \cup {s}
<1>1. Owner[s] \in Client
  BY PointerAssumption
<1> QED BY <1>1 DEF Seats, Entered, SameLocks, OrNone

\* The focus that is nowhere or where a surface is
LEMMA NowhereIsOK ==
  ASSUME NEW p, p.focus = None, p.ptr = None, p.surf = None, p.inside = {}
  PROVE  PlaceOK(p)
  BY DEF PlaceOK, OrNone

\* The focus that was entered is where a pointer is.
LEMMA EnteredIsOK ==
  ASSUME NEW p, NEW s \in surfaces, HasPointer(s),
         p.focus = s, p.ptr = Owner[s], p.surf = s, p.inside \subseteq {s}
  PROVE  PlaceOK(p)
  BY DEF PlaceOK, OrNone, HasPointer

\* input_router_pointer_enter
LEMMA RouterEnterSteps ==
  ASSUME NEW p \in Seats, Sound(p), NEW s \in surfaces, TypeOK
  PROVE  LET q == RouterEnter(p, s)
         IN Step(p, q) /\ (q.focus = s \/ (Slept(p, q) /\ q.focus = p.focus))
<1>1. s \in Surface /\ p.pending \subseteq Surface /\ p.inside \subseteq Surface /\ PlaceOK(p)
  BY DEF TypeOK, Seats, Sound
<1>2. CASE ~HasPointer(s)
  <2> DEFINE q == Waiting(p, p.pending \cup {s}, p.inside)
  <2>1. RouterEnter(p, s) = [p EXCEPT !.pending = p.pending \cup {s}]
    BY <1>2 DEF RouterEnter
  <2>2. /\ q \in Seats /\ SameLocks(p, q) /\ q.inside = p.inside
        /\ q.focus = p.focus /\ q.ptr = p.ptr /\ q.surf = p.surf
    BY <1>1, WaitingIs
  <2>3. RouterEnter(p, s) = q
    BY <2>1 DEF Seats, Waiting
  <2> HIDE DEF q
  <2>4. PlaceOK(q)
    BY <1>1, <2>2 DEF PlaceOK
  <2> QED BY <2>2, <2>3, <2>4, LocksFollow
<1>3. CASE HasPointer(s)
  <2> DEFINE a == Waiting(p, p.pending \ {s}, p.inside \ {p.focus})
  <2> DEFINE b == Entered(a, s)
  <2>1. a \in Seats /\ SameLocks(p, a) /\ a.inside = p.inside \ {p.focus}
    BY <1>1, WaitingIs
  <2>2. RouterEnter(p, s) = ConstraintFocus(b, s, TRUE)
    BY <1>3 DEF RouterEnter, Waiting
  <2> HIDE DEF a
  <2>3. /\ b \in Seats /\ SameLocks(a, b) /\ b.focus = s /\ b.ptr = Owner[s] /\ b.surf = s
        /\ b.inside = a.inside \cup {s}
    BY <1>1, <2>1, EnteredIs
  <2> HIDE DEF b
  <2>4. a.inside = {}
    BY <1>1, <2>1 DEF PlaceOK
  <2>5. PlaceOK(b)
    BY <1>3, <2>3, <2>4, EnteredIsOK
  <2>6. SameLocks(p, b)
    BY <2>1, <2>3 DEF SameLocks
  <2>7. Step(p, b) /\ Slept(p, b)
    BY <2>3, <2>5, <2>6, LocksFollow
  <2>8. Step(b, ConstraintFocus(b, s, TRUE)) /\ SamePlace(b, ConstraintFocus(b, s, TRUE))
    BY <2>3, <2>7, ConstraintFocusSteps DEF Step
  <2>9. Step(p, ConstraintFocus(b, s, TRUE))
    BY <2>7, <2>8, StepAfter DEF Step
  <2>10. ConstraintFocus(b, s, TRUE).focus = s
    BY <2>3, <2>8 DEF SamePlace
  <2> QED BY <2>2, <2>9, <2>10
<1> QED BY <1>2, <1>3

\* input_router_pointer_leave
LEMMA RouterLeaveSteps ==
  ASSUME NEW p \in Seats, Sound(p), NEW s \in surfaces, TypeOK
  PROVE  Step(p, RouterLeave(p, s)) /\ Slept(p, RouterLeave(p, s))
<1> DEFINE a == Waiting(p, p.pending \ {s}, p.inside)
<1> DEFINE q == ConstraintFocus(a, s, FALSE)
<1> DEFINE b == Waiting(q, q.pending, q.inside \ {s})
<1>1. s \in Surface /\ p.pending \subseteq Surface /\ p.inside \subseteq Surface /\ PlaceOK(p)
  BY DEF TypeOK, Seats, Sound
<1>2. a \in Seats /\ SameLocks(p, a) /\ SamePlace(p, a)
  BY <1>1, WaitingIs DEF SamePlace
<1>3. [p EXCEPT !.pending = @ \ {s}] = a
  BY DEF Seats, Waiting
<1> HIDE DEF a
<1>4. PlaceOK(a)
  BY <1>1, <1>2 DEF PlaceOK, SamePlace
<1>5. Step(p, a) /\ Slept(p, a)
  BY <1>2, <1>4, LocksFollow
<1>6. Step(a, q) /\ SamePlace(a, q) /\ Slept(a, q)
  BY <1>2, <1>5, ConstraintFocusSteps DEF Step
<1> HIDE DEF q
<1>7. Step(p, q) /\ Slept(p, q)
  BY <1>5, <1>6, StepAfter, SleptAfter DEF Step
<1>8. CASE Locked(p, s)
  <2>1. RouterLeave(p, s) = p
    BY <1>8 DEF RouterLeave
  <2>2. SameLocks(p, p) /\ PlaceOK(p)
    BY <1>1 DEF SameLocks
  <2> QED BY <2>1, <2>2, LocksFollow
<1>9. CASE ~Locked(p, s) /\ p.focus # s
  <2>1. RouterLeave(p, s) = q
    BY <1>3, <1>9 DEF RouterLeave, q
  <2> QED BY <1>7, <2>1
<1>10. CASE ~Locked(p, s) /\ p.focus = s
  <2>1. q \in Seats /\ Sound(q) /\ q.inside \subseteq {s}
    BY <1>2, <1>6, <1>10 DEF Step, Sound, PlaceOK, SamePlace
  <2>2. q.inside \subseteq Surface /\ q.pending \subseteq Surface
    BY <2>1 DEF Seats, Waiting
  <2>3. b \in Seats /\ SameLocks(q, b) /\ b.inside = {}
    BY <2>1, <2>2, WaitingIs
  <2>4. [q EXCEPT !.inside = @ \ {s}] = b
    BY <2>1 DEF Seats, Waiting
  <2>5. RouterLeave(p, s) = NoFocus(b)
    BY <1>3, <1>10, <2>4 DEF RouterLeave, q
  <2> HIDE DEF b
  <2>6. LET r == NoFocus(b)
        IN /\ r \in Seats /\ SameLocks(b, r) /\ r.inside = {}
           /\ r.focus = None /\ r.ptr = None /\ r.surf = None
    BY <2>3, NoFocusIs
  <2>7. SameLocks(q, NoFocus(b)) /\ PlaceOK(NoFocus(b))
    BY <2>3, <2>6, NowhereIsOK DEF SameLocks
  <2>8. Step(q, NoFocus(b)) /\ Slept(q, NoFocus(b))
    BY <2>1, <2>6, <2>7, LocksFollow
  <2> QED BY <1>7, <2>5, <2>8, StepAfter, SleptAfter DEF Step
<1> QED BY <1>8, <1>9, <1>10

\* The routes that tell no constraint: X11 and raw input
LEMMA X11EnterSteps ==
  ASSUME NEW p \in Seats, Sound(p), NEW s \in surfaces, TypeOK
  PROVE  Step(p, X11Enter(p, s))
<1> DEFINE n == NoFocus(p)
<1> DEFINE q == [n EXCEPT !.inside = @ \ {p.focus}, !.focus = s]
<1>1. s \in Surface /\ PlaceOK(p) /\ p.inside \subseteq Surface
  BY DEF TypeOK, Sound, Seats
<1>2. n \in Seats /\ SameLocks(p, n) /\ n.inside = p.inside /\ n.ptr = None /\ n.surf = None
  BY NoFocusIs
<1>3. X11Enter(p, s) = IF p.focus = s THEN p ELSE IF HasPointer(s) THEN Entered(q, s) ELSE q
  BY DEF X11Enter
<1> HIDE DEF n
<1>4. /\ q \in Seats /\ SameLocks(n, q) /\ q.inside = n.inside \ {p.focus} /\ q.focus = s
      /\ q.ptr = n.ptr /\ q.surf = n.surf
  BY <1>1, <1>2 DEF Seats, SameLocks, OrNone
<1> HIDE DEF q
<1>5. SameLocks(p, q) /\ q.inside = {}
  BY <1>1, <1>2, <1>4 DEF SameLocks, PlaceOK
<1>6. CASE p.focus = s
  BY <1>1, <1>3, <1>6, LocksFollow DEF SameLocks
<1>7. CASE p.focus # s /\ ~HasPointer(s)
  <2>1. PlaceOK(q)
    BY <1>2, <1>4, <1>5 DEF PlaceOK, OrNone
  <2> QED BY <1>3, <1>4, <1>5, <1>7, <2>1, LocksFollow
<1>8. CASE p.focus # s /\ HasPointer(s)
  <2> DEFINE r == Entered(q, s)
  <2>1. /\ r \in Seats /\ SameLocks(q, r) /\ r.inside = q.inside \cup {s}
        /\ r.focus = s /\ r.ptr = Owner[s] /\ r.surf = s
    BY <1>1, <1>4, EnteredIs
  <2>2. X11Enter(p, s) = r
    BY <1>3, <1>8
  <2> HIDE DEF r
  <2>3. PlaceOK(r) /\ SameLocks(p, r)
    BY <1>5, <1>8, <2>1, EnteredIsOK DEF SameLocks
  <2> QED BY <2>1, <2>2, <2>3, LocksFollow
<1> QED BY <1>6, <1>7, <1>8

\* send_pointer_enter_all
LEMMA EnterAllSteps ==
  ASSUME NEW p \in Seats, Sound(p), NEW s \in surfaces, TypeOK, p.focus = s
  PROVE  LET q == EnterAll(p, s)
         IN q \in Seats /\ PlaceOK(q) /\ SameLocks(p, q) /\ q.focus = s
<1>1. /\ s \in Surface /\ PlaceOK(p) /\ p.inside \in SUBSET Surface
      /\ p.pending \in SUBSET Surface
  BY DEF TypeOK, Sound, Seats
<1>2. CASE ~HasPointer(s)
  BY <1>1, <1>2 DEF EnterAll, SameLocks
<1>3. CASE HasPointer(s)
  <2> DEFINE a == [p EXCEPT !.inside = @ \ ({p.surf} \ {s})]
  <2> DEFINE b == Entered(a, s)
  <2> DEFINE r == [b EXCEPT !.pending = @ \ {s}]
  <2>1. a \in Seats /\ SameLocks(p, a) /\ a.inside \subseteq p.inside
    BY <1>1 DEF Seats, SameLocks
  <2>2. EnterAll(p, s) = r
    BY <1>3 DEF EnterAll
  <2> HIDE DEF a
  <2>3. /\ b \in Seats /\ SameLocks(a, b) /\ b.inside = a.inside \cup {s}
        /\ b.focus = s /\ b.ptr = Owner[s] /\ b.surf = s
    BY <1>1, <2>1, EnteredIs
  <2> HIDE DEF b
  <2>4. r \in Seats /\ SameLocks(b, r) /\ SamePlace(b, r)
    BY <2>3 DEF Seats, SameLocks, SamePlace
  <2> HIDE DEF r
  <2>5. SameLocks(p, r)
    BY <2>1, <2>3, <2>4 DEF SameLocks
  <2>6. PlaceOK(r) /\ r.focus = s
    BY <1>1, <1>3, <2>1, <2>3, <2>4, EnteredIsOK DEF SamePlace, PlaceOK
  <2> QED BY <2>2, <2>4, <2>5, <2>6
<1> QED BY <1>2, <1>3

\* set_pointer_focus
LEMMA RawFocusSteps ==
  ASSUME NEW p \in Seats, Sound(p), NEW s \in OrNone(surfaces), TypeOK
  PROVE  LET q == RawFocus(p, s)
         IN /\ q \in Seats /\ PlaceOK(q) /\ SameLocks(p, q)
            /\ q.focus = s \/ (p.focus # None /\ Locked(p, p.focus) /\ q = p)
<1> DEFINE n == NoFocus(p)
<1> DEFINE q == [n EXCEPT !.inside = @ \ {p.focus}, !.focus = s]
<1> DEFINE w == [q EXCEPT !.pending = @ \cup {s}]
<1>1. s \in OrNone(Surface) /\ PlaceOK(p) /\ p.inside \subseteq Surface
  BY DEF TypeOK, Sound, Seats, OrNone
<1>2. n \in Seats /\ SameLocks(p, n) /\ n.inside = p.inside /\ n.ptr = None /\ n.surf = None
  BY NoFocusIs
<1>3. RawFocus(p, s) =
        IF p.focus = s \/ (p.focus # None /\ Locked(p, p.focus)) THEN p
        ELSE IF s = None THEN q
        ELSE IF HasPointer(s) THEN EnterAll(q, s) ELSE w
  BY DEF RawFocus
<1> HIDE DEF n
<1>4. /\ q \in Seats /\ SameLocks(n, q) /\ q.inside = n.inside \ {p.focus} /\ q.focus = s
      /\ q.ptr = n.ptr /\ q.surf = n.surf
  BY <1>1, <1>2 DEF Seats, SameLocks
<1> HIDE DEF q
<1>5. SameLocks(p, q) /\ q.inside = {}
  BY <1>1, <1>2, <1>4 DEF SameLocks, PlaceOK
<1>6. PlaceOK(q)
  BY <1>2, <1>4, <1>5 DEF PlaceOK, OrNone
<1>7. CASE p.focus = s \/ (p.focus # None /\ Locked(p, p.focus))
  BY <1>1, <1>3, <1>7 DEF SameLocks
<1>8. CASE ~(p.focus = s \/ (p.focus # None /\ Locked(p, p.focus))) /\ s = None
  BY <1>3, <1>4, <1>5, <1>6, <1>8
<1>9. CASE ~(p.focus = s \/ (p.focus # None /\ Locked(p, p.focus))) /\ s # None
  <2>1. s \in surfaces /\ s \in Surface
    BY <1>1, <1>9 DEF OrNone
  <2>2. Sound(q)
    BY <1>4, <1>5, <1>6, LocksFollow DEF Step
  <2>3. CASE HasPointer(s)
    <3>1. LET r == EnterAll(q, s)
          IN r \in Seats /\ PlaceOK(r) /\ SameLocks(q, r) /\ r.focus = s
      BY <1>4, <2>1, <2>2, EnterAllSteps
    <3> QED BY <1>3, <1>5, <1>9, <2>3, <3>1 DEF SameLocks
  <2>4. CASE ~HasPointer(s)
    <3>1. w \in Seats /\ SameLocks(q, w) /\ SamePlace(q, w)
      BY <1>4, <2>1 DEF Seats, SameLocks, SamePlace
    <3>2. RawFocus(p, s) = w
      BY <1>3, <1>9, <2>4
    <3> HIDE DEF w
    <3> QED BY <1>4, <1>5, <1>6, <3>1, <3>2 DEF PlaceOK, SameLocks, SamePlace
  <2> QED BY <2>3, <2>4
<1> QED BY <1>7, <1>8, <1>9

\* The window an event is for, and the surface it is delivered to
LEMMA TargetIs ==
  ASSUME NEW s, NEW t, Window(s), t \in Targets(s), TypeOK
  PROVE  s \in surfaces /\ t \in OrNone(surfaces)
  BY DEF Window, Targets, OrNone

\* The focus leaves the window for its target.
LEMMA LeftSteps ==
  ASSUME Sound(seat), NEW s \in surfaces, NEW t, TypeOK
  PROVE  Step(seat, Left(s, t)) /\ Slept(seat, Left(s, t))
<1>1. seat \in Seats /\ PlaceOK(seat)
  BY DEF Sound
<1>2. Step(seat, seat) /\ Slept(seat, seat)
  BY <1>1, LocksFollow DEF SameLocks
<1>3. Step(seat, RouterLeave(seat, s)) /\ Slept(seat, RouterLeave(seat, s))
  BY <1>1, RouterLeaveSteps
<1> QED BY <1>2, <1>3 DEF Left

\* The target is entered.
LEMMA ReachedSteps ==
  ASSUME NEW p \in Seats, Sound(p), NEW t \in OrNone(surfaces), TypeOK
  PROVE  LET q == Reached(p, t)
         IN Step(p, q) /\ (q.focus = t \/ (Slept(p, q) /\ q.focus = p.focus))
<1>1. PlaceOK(p) /\ SameLocks(p, p)
  BY DEF Sound, SameLocks
<1>2. Step(p, p) /\ Slept(p, p)
  BY <1>1, LocksFollow
<1>3. CASE t = None \/ p.focus = t
  BY <1>2, <1>3 DEF Reached
<1>4. CASE ~(t = None \/ p.focus = t)
  <2>1. t \in surfaces
    BY <1>4 DEF OrNone
  <2> QED BY <1>4, <2>1, RouterEnterSteps DEF Reached
<1> QED BY <1>3, <1>4

\* An enter that was deferred is made up for.
LEMMA DeferredSteps ==
  ASSUME NEW p \in Seats, Sound(p), NEW t \in surfaces, TypeOK
  PROVE  Step(p, Deferred(p, t)) /\ (p.focus = t => Deferred(p, t) = p)
<1>1. Step(p, p)
  BY LocksFollow DEF Sound, SameLocks
<1>2. Step(p, RouterEnter(p, t))
  BY RouterEnterSteps
<1> QED BY <1>1, <1>2 DEF Deferred

\* forward_pointer_motion and forward_pointer_button: leave, enter, and the
\* enter that was deferred, one after the other
LEMMA DeliveredSteps ==
  ASSUME Sound(seat), NEW s \in surfaces, NEW t \in surfaces, TypeOK
  PROVE  Step(seat, Deferred(Reached(Left(s, t), t), t))
<1> DEFINE a == Left(s, t)
<1> DEFINE b == Reached(a, t)
<1> DEFINE c == Deferred(b, t)
<1>1. Step(seat, a) /\ Slept(seat, a) /\ a \in Seats /\ Sound(a)
  BY LeftSteps DEF Step, Sound
<1> HIDE DEF a
<1>2. Step(a, b) /\ (b.focus = t \/ (Slept(a, b) /\ b.focus = a.focus))
  BY <1>1, ReachedSteps DEF OrNone
<1>3. b \in Seats /\ Sound(b)
  BY <1>2 DEF Step, Sound
<1> HIDE DEF b
<1>4. Step(b, c) /\ (b.focus = t => c = b)
  BY <1>3, DeferredSteps
<1> HIDE DEF c
<1>5. Step(seat, b)
  BY <1>1, <1>2, StepAfter DEF Step
<1>6. CASE b.focus = t
  BY <1>4, <1>5, <1>6 DEF a, b, c
<1>7. CASE b.focus # t
  <2>1. Noticed(a, c) /\ Step(a, c)
    BY <1>2, <1>4, <1>7, StepAfter DEF Step
  <2> QED BY <1>1, <2>1, StepAfter DEF a, b, c, Step
<1> QED BY <1>6, <1>7

\* A gesture and the buttons that make it
GestureTypeOK(g) ==
  g \in [on : OrNone(Surface), down : SUBSET {"left", "right"}, flags : SUBSET Gestures]
Held(g) ==
  /\ g.on = None <=> g.down = {}
  /\ "swipe" \in g.flags \/ "hold" \in g.flags => "left" \in g.down
  /\ "pinch" \in g.flags => "right" \in g.down

PointerInv ==
  TypeOK /\ Sound(seat) /\ RawFollows /\ Held(gesture)

\* These are GesturesHeld.
LEMMA HeldIs == ASSUME GestureTypeOK(gesture) PROVE Held(gesture) <=> GesturesHeld
<1>1. MadeBy("left") = {"swipe", "hold"} /\ MadeBy("right") = {"pinch"}
  BY DEF MadeBy
<1>2. gesture.down \in {{}, {"left"}, {"right"}, {"left", "right"}}
  BY DEF GestureTypeOK
<1>3. \A f \in Gestures : (f \in UNION {MadeBy(b) : b \in gesture.down}) <=>
        (\/ f \in {"swipe", "hold"} /\ "left" \in gesture.down
         \/ f = "pinch" /\ "right" \in gesture.down)
  <2>1. \A b \in gesture.down : b = "left" \/ b = "right"
    BY DEF GestureTypeOK
  <2> QED BY <1>1, <2>1
<1> QED BY <1>3 DEF Held, GesturesHeld, GestureTypeOK, Gestures

\* Motion with a button down
LEMMA GestureMoves ==
  ASSUME GestureTypeOK(gesture), Held(gesture), NEW s, NEW far \in BOOLEAN, MoveGesture(s, far)
  PROVE  GestureTypeOK(gesture') /\ Held(gesture')
<1> DEFINE swipes == far /\ "left" \in gesture.down /\ "swipe" \notin gesture.flags
<1> DEFINE pinches == far /\ "right" \in gesture.down /\ "pinch" \notin gesture.flags
<1> DEFINE f == (IF swipes THEN (gesture.flags \ {"hold"}) \cup {"swipe"} ELSE gesture.flags)
                \cup (IF pinches THEN {"pinch"} ELSE {})
<1>1. gesture' = IF gesture.on # s THEN gesture ELSE [gesture EXCEPT !.flags = f]
  BY DEF MoveGesture
<1>2. f \in SUBSET Gestures
  BY DEF GestureTypeOK, Gestures
<1>3. /\ "swipe" \in f \/ "hold" \in f => "left" \in gesture.down
      /\ "pinch" \in f => "right" \in gesture.down
  BY DEF Held
<1> HIDE DEF f
<1> QED BY <1>1, <1>2, <1>3 DEF GestureTypeOK, Held

\* A button that goes down or up
LEMMA GestureButton ==
  ASSUME GestureTypeOK(gesture), Held(gesture), NEW p, NEW s \in Surface,
         NEW b \in {"left", "right"}, NEW pressed \in BOOLEAN, ButtonGesture(p, s, b, pressed)
  PROVE  GestureTypeOK(gesture') /\ Held(gesture')
<1>1. s # None
  BY PointerAssumption
<1>2. CASE s \in X11 \/ Locked(p, s)
  BY <1>2 DEF ButtonGesture
<1>3. CASE ~(s \in X11 \/ Locked(p, s)) /\ pressed
  BY <1>1, <1>3 DEF ButtonGesture, GestureTypeOK, Held, Gestures, OrNone
<1>4. CASE ~(s \in X11 \/ Locked(p, s)) /\ ~pressed
  BY <1>1, <1>4 DEF ButtonGesture, GestureTypeOK, Held, Gestures, OrNone, MadeBy
<1> QED BY <1>2, <1>3, <1>4

\* A gesture is cancelled.
LEMMA GestureCancels ==
  ASSUME GestureTypeOK(gesture), Held(gesture), NEW s, CancelGesture(s)
  PROVE  GestureTypeOK(gesture') /\ Held(gesture')
  BY DEF CancelGesture, NoGesture, GestureTypeOK, Held, OrNone

\* A step of the seat alone
LEMMA SeatSteps ==
  ASSUME PointerInv, Step(seat, seat'), UNCHANGED <<surfaces, pointers, raw>>,
         touched' \in OrNone(Surface), GestureTypeOK(gesture'), Held(gesture')
  PROVE  PointerInv' /\ Wakes(seat, seat')
<1>1. seat' \in Seats /\ PlaceOK(seat') /\ LocksOK(seat')
  BY DEF Step, Sound
<1>2. Sound(seat)'
  <2>1. PlaceOK(seat)' <=> PlaceOK(seat')
    BY DEF PlaceOK
  <2>2. LocksOK(seat)' <=> LocksOK(seat')
    BY DEF LocksOK, HiddenAt, LeftAt, Locked
  <2> QED BY <1>1, <2>1, <2>2 DEF Sound
<1>3. TypeOK'
  BY <1>1 DEF PointerInv, TypeOK, GestureTypeOK
<1>4. RawFollows'
  <2>1. CASE seat'.sync
    BY <2>1 DEF RawFollows
  <2>2. CASE ~seat'.sync
    <3>1. AnyActive' <=> AnyActive
      BY <2>2 DEF Step, Noticed, AnyActive
    <3>2. ~seat.sync
      BY <2>2 DEF Step, Noticed
    <3>3. raw = AnyActive
      BY <3>2 DEF PointerInv, RawFollows
    <3>4. raw' = AnyActive'
      BY <3>1, <3>3 DEF AnyActive
    <3> QED BY <3>4 DEF RawFollows
  <2> QED BY <2>1, <2>2
<1> QED BY <1>2, <1>3, <1>4 DEF PointerInv, Step

\* What a state of the pointer is, in the form the steps need
LEMMA PointerFacts ==
  ASSUME PointerInv
  PROVE  /\ TypeOK /\ Sound(seat) /\ seat \in Seats /\ PlaceOK(seat)
         /\ touched \in OrNone(Surface) /\ GestureTypeOK(gesture) /\ Held(gesture)
         /\ Step(seat, seat) /\ surfaces \subseteq Surface
<1>1. TypeOK /\ Sound(seat) /\ Held(gesture)
  BY DEF PointerInv
<1>2. seat \in Seats /\ PlaceOK(seat) /\ SameLocks(seat, seat)
  BY <1>1 DEF Sound, SameLocks
<1> QED BY <1>1, <1>2, LocksFollow DEF TypeOK, GestureTypeOK

\* forward_pointer_enter
LEMMA EnterKeeps ==
  ASSUME PointerInv, NEW s, NEW t, PointerEnter(s, t)
  PROVE  PointerInv' /\ Wakes(seat, seat')
<1>1. s \in surfaces /\ t \in OrNone(surfaces)
  BY TargetIs, PointerFacts DEF PointerEnter
<1>2. Step(seat, seat')
  <2>1. CASE s \in X11
    BY <1>1, <2>1, X11EnterSteps, PointerFacts DEF PointerEnter
  <2>2. CASE s \notin X11 /\ t = None
    BY <2>2, PointerFacts DEF PointerEnter
  <2>3. CASE s \notin X11 /\ t # None
    BY <1>1, <2>3, RouterEnterSteps, PointerFacts DEF PointerEnter, OrNone
  <2> QED BY <2>1, <2>2, <2>3
<1> QED BY <1>2, SeatSteps, PointerFacts DEF PointerEnter, NoGestures

\* forward_pointer_leave
LEMMA LeaveKeeps ==
  ASSUME PointerInv, NEW s, PointerLeave(s)
  PROVE  PointerInv' /\ Wakes(seat, seat')
<1>1. s \in surfaces
  BY DEF PointerLeave, Window
<1>2. CASE s \in X11
  <2> DEFINE a == [seat EXCEPT !.inside = @ \ {s}]
  <2>1. NoGestures /\ seat' = IF seat.focus # s THEN seat ELSE NoFocus(a)
    BY <1>2 DEF PointerLeave
  <2>2. CASE seat.focus # s
    BY <2>1, <2>2, SeatSteps, PointerFacts DEF PointerLeave, NoGestures
  <2>3. CASE seat.focus = s
    <3>1. a \in Seats /\ SameLocks(seat, a) /\ a.inside = {}
      BY <2>3, PointerFacts DEF Seats, SameLocks, PlaceOK
    <3> HIDE DEF a
    <3>2. /\ seat' \in Seats /\ SameLocks(a, seat') /\ seat'.inside = {}
          /\ seat'.focus = None /\ seat'.ptr = None /\ seat'.surf = None
      BY <2>1, <2>3, <3>1, NoFocusIs
    <3>3. SameLocks(seat, seat') /\ PlaceOK(seat')
      BY <3>1, <3>2, NowhereIsOK DEF SameLocks
    <3>4. Step(seat, seat')
      BY <3>2, <3>3, LocksFollow, PointerFacts
    <3> QED BY <2>1, <3>4, SeatSteps, PointerFacts DEF PointerLeave, NoGestures
  <2> QED BY <2>2, <2>3
<1>3. CASE s \notin X11
  <2>1. CancelTouch(s) /\ CancelGesture(s) /\ seat' = RouterLeave(seat, s)
    BY <1>3 DEF PointerLeave
  <2>2. Step(seat, seat')
    BY <1>1, <2>1, RouterLeaveSteps, PointerFacts
  <2>3. GestureTypeOK(gesture') /\ Held(gesture') /\ touched' \in OrNone(Surface)
    BY <2>1, GestureCancels, PointerFacts DEF CancelTouch, OrNone
  <2> QED BY <2>2, <2>3, SeatSteps DEF PointerLeave
<1> QED BY <1>2, <1>3

\* forward_pointer_motion
LEMMA MotionKeeps ==
  ASSUME PointerInv, NEW s, NEW t, NEW far \in BOOLEAN, PointerMotion(s, t, far)
  PROVE  PointerInv' /\ Wakes(seat, seat')
<1>1. s \in surfaces /\ t \in OrNone(surfaces)
  BY TargetIs, PointerFacts DEF PointerMotion
<1>2. CASE s \in X11
  <2>1. Step(seat, seat') /\ NoGestures
    BY <1>1, <1>2, X11EnterSteps, PointerFacts DEF PointerMotion
  <2> QED BY <2>1, SeatSteps, PointerFacts DEF PointerMotion, NoGestures
<1>3. CASE s \notin X11 /\ t = None
  <2>1. Step(seat, seat') /\ NoGestures
    BY <1>1, <1>3, LeftSteps, PointerFacts DEF PointerMotion
  <2> QED BY <2>1, SeatSteps, PointerFacts DEF PointerMotion, NoGestures
<1>4. CASE s \notin X11 /\ t # None
  <2>1. t \in surfaces
    BY <1>1, <1>4 DEF OrNone
  <2>2. Step(seat, seat')
    BY <1>1, <1>4, <2>1, DeliveredSteps, PointerFacts DEF PointerMotion
  <2>3. GestureTypeOK(gesture') /\ Held(gesture') /\ touched' = touched
    BY <1>4, GestureMoves, PointerFacts DEF PointerMotion
  <2> QED BY <2>2, <2>3, SeatSteps, PointerFacts DEF PointerMotion
<1> QED BY <1>2, <1>3, <1>4

\* forward_pointer_button
LEMMA ButtonKeeps ==
  ASSUME PointerInv, NEW s, NEW t, NEW b \in Buttons, NEW pressed \in BOOLEAN,
         PointerButton(s, t, b, pressed)
  PROVE  PointerInv' /\ Wakes(seat, seat')
<1>1. s \in surfaces /\ t \in OrNone(surfaces)
  BY TargetIs, PointerFacts DEF PointerButton
<1>2. CASE s \in X11
  <2>1. Step(seat, seat') /\ NoGestures
    BY <1>1, <1>2, X11EnterSteps, PointerFacts DEF PointerButton
  <2> QED BY <2>1, SeatSteps, PointerFacts DEF PointerButton, NoGestures
<1>3. CASE s \notin X11 /\ t = None
  <2>1. Step(seat, seat') /\ NoGestures
    BY <1>1, <1>3, LeftSteps, PointerFacts DEF PointerButton
  <2> QED BY <2>1, SeatSteps, PointerFacts DEF PointerButton, NoGestures
<1>4. CASE s \notin X11 /\ t # None
  <2> DEFINE q == Reached(Left(s, t), t)
  <2>1. t \in surfaces /\ t \in Surface
    BY <1>1, <1>4, PointerFacts DEF OrNone
  <2>2. seat' = Deferred(q, t) /\ ButtonGesture(q, t, b, pressed) /\ ButtonTouch(t, b, pressed)
    BY <1>4 DEF PointerButton
  <2>3. Step(seat, seat')
    BY <1>1, <2>1, <2>2, DeliveredSteps, PointerFacts
  <2> HIDE DEF q
  <2>4. b \in {"left", "right"}
    BY PointerAssumption
  <2>5. GestureTypeOK(gesture') /\ Held(gesture')
    BY <2>1, <2>2, <2>4, GestureButton, PointerFacts
  <2>6. touched' \in OrNone(Surface)
    BY <2>1, <2>2, PointerFacts DEF ButtonTouch, OrNone
  <2> QED BY <2>3, <2>5, <2>6, SeatSteps, PointerFacts DEF PointerButton
<1> QED BY <1>2, <1>3, <1>4

\* forward_pointer_axis
LEMMA AxisKeeps ==
  ASSUME PointerInv, NEW s, PointerAxis(s)
  PROVE  PointerInv' /\ Wakes(seat, seat')
<1>1. s \in surfaces
  BY DEF PointerAxis, Window
<1>2. Step(seat, X11Enter(seat, s)) /\ Step(seat, Reached(seat, s))
  BY <1>1, X11EnterSteps, ReachedSteps, PointerFacts DEF OrNone
<1>3. Step(seat, seat')
  BY <1>2 DEF PointerAxis
<1> QED BY <1>3, SeatSteps, PointerFacts DEF PointerAxis, NoGestures

\* forward_focus_out
LEMMA FocusOutKeeps ==
  ASSUME PointerInv, NEW s, FocusOut(s)
  PROVE  PointerInv' /\ Wakes(seat, seat')
<1>1. Step(seat, seat')
  BY PointerFacts DEF FocusOut
<1>2. GestureTypeOK(gesture') /\ Held(gesture') /\ touched' \in OrNone(Surface)
  BY GestureCancels, PointerFacts DEF FocusOut, CancelTouch, OrNone
<1> QED BY <1>1, <1>2, SeatSteps DEF FocusOut

\* bridge_raw_pointer_motion: a constraint keeps the target, so the focus is there.
LEMMA RawMotionKeeps ==
  ASSUME PointerInv, NEW t \in OrNone(Surface), RawMotion(t)
  PROVE  PointerInv' /\ Wakes(seat, seat')
<1> DEFINE q == RawFocus(seat, t)
<1> DEFINE r == IF t \in q.pending THEN EnterAll(q, t) ELSE q
<1>1. t \in OrNone(surfaces)
  BY PointerFacts DEF RawMotion, Window, PlaceOK, OrNone
<1>2. /\ q \in Seats /\ PlaceOK(q) /\ SameLocks(seat, q)
      /\ q.focus = t \/ (seat.focus # None /\ Locked(seat, seat.focus) /\ q = seat)
  BY <1>1, RawFocusSteps, PointerFacts
<1>3. q.focus = t
  BY <1>2 DEF RawMotion, Locked
<1>4. seat' = IF t = None THEN q
              ELSE IF t \notin X11
              THEN IF Locked(seat, t) THEN seat ELSE Deferred(seat, t)
              ELSE IF HasPointer(t) THEN [r EXCEPT !.ptr = Owner[t], !.surf = t]
              ELSE IF t \in q.pending \/ ~Locked(q, t) THEN q
              ELSE [q EXCEPT !.ptr = None, !.surf = t]
  BY DEF RawMotion
<1> HIDE DEF q
<1>5. Step(seat, q)
  BY <1>2, LocksFollow, PointerFacts
<1>6. Step(seat, seat')
  <2>1. CASE t = None
    BY <1>4, <1>5, <2>1
  <2>2. CASE t # None /\ t \notin X11
    BY <1>1, <1>4, <2>2, DeferredSteps, PointerFacts DEF OrNone
  <2>3. CASE t # None /\ t \in X11 /\ HasPointer(t)
    <3> DEFINE w == [r EXCEPT !.ptr = Owner[t], !.surf = t]
    <3>1. t \in surfaces /\ t \in Surface /\ Owner[t] \in Client
      BY <1>1, <2>3, PointerFacts, PointerAssumption DEF OrNone
    <3>2. Sound(q)
      BY <1>5 DEF Step
    <3>3. LET e == EnterAll(q, t)
          IN e \in Seats /\ PlaceOK(e) /\ SameLocks(q, e) /\ e.focus = t
      BY <1>2, <1>3, <3>1, <3>2, EnterAllSteps, PointerFacts
    <3>4. r \in Seats /\ PlaceOK(r) /\ SameLocks(seat, r) /\ r.focus = t
      BY <1>2, <1>3, <3>3 DEF SameLocks
    <3>5. seat' = w
      BY <1>4, <2>3
    <3> HIDE DEF r
    <3>6. /\ w \in Seats /\ SameLocks(r, w) /\ w.inside = r.inside /\ w.focus = t
          /\ w.ptr = Owner[t] /\ w.surf = t
      BY <3>1, <3>4 DEF Seats, SameLocks, OrNone
    <3> HIDE DEF w
    <3>7. PlaceOK(w) /\ SameLocks(seat, w)
      BY <2>3, <3>1, <3>4, <3>6, EnteredIsOK DEF PlaceOK, SameLocks
    <3> QED BY <3>5, <3>6, <3>7, LocksFollow, PointerFacts
  <2>4. CASE t # None /\ t \in X11 /\ ~HasPointer(t)
    <3> DEFINE w == [q EXCEPT !.ptr = None, !.surf = t]
    <3>1. t \in surfaces /\ t \in Surface
      BY <1>1, <2>4, PointerFacts DEF OrNone
    <3>2. seat' = q \/ seat' = w
      BY <1>4, <2>4
    <3>3. /\ w \in Seats /\ SameLocks(q, w) /\ w.inside = q.inside /\ w.focus = t
          /\ w.ptr = None /\ w.surf = t
      BY <1>2, <1>3, <3>1 DEF Seats, SameLocks, OrNone
    <3> HIDE DEF w
    <3>4. PlaceOK(w) /\ SameLocks(seat, w)
      BY <1>2, <1>3, <3>1, <3>3 DEF PlaceOK, SameLocks, OrNone
    <3> QED BY <1>5, <3>2, <3>3, <3>4, LocksFollow, PointerFacts
  <2> QED BY <2>1, <2>2, <2>3, <2>4
<1> QED BY <1>6, SeatSteps, PointerFacts DEF RawMotion, NoGestures

\* bridge_raw_pointer_button
LEMMA RawButtonKeeps ==
  ASSUME PointerInv, RawButton
  PROVE  PointerInv' /\ Wakes(seat, seat')
<1>1. seat.focus \in surfaces
  BY PointerFacts DEF RawButton, PlaceOK, OrNone
<1>2. LET e == EnterAll(seat, seat.focus)
      IN e \in Seats /\ PlaceOK(e) /\ SameLocks(seat, e)
  BY <1>1, EnterAllSteps, PointerFacts
<1>3. Step(seat, seat')
  BY <1>2, LocksFollow, PointerFacts DEF RawButton, RawDeferred
<1> QED BY <1>3, SeatSteps, PointerFacts DEF RawButton, NoGestures

\* sync_raw_input_idle: raw input is what the constraints ask for.
LEMMA SyncKeeps ==
  ASSUME PointerInv, SyncRawInput
  PROVE  PointerInv' /\ Wakes(seat, seat')
<1>1. /\ seat' \in Seats /\ SamePlace(seat, seat') /\ seat'.con = seat.con
      /\ seat'.hidden = seat.hidden /\ seat'.orphans = seat.orphans
      /\ seat'.sync = FALSE
  BY PointerFacts DEF SyncRawInput, Seats, SamePlace
<1>2. UNCHANGED <<surfaces, pointers, gesture, touched>>
  BY DEF SyncRawInput, NoGestures
<1>3. PlaceOK(seat)' /\ LocksOK(seat)'
  BY <1>1, <1>2, PointerFacts
     DEF Sound, PlaceOK, SamePlace, LocksOK, HiddenAt, LeftAt, Locked
<1>4. AnyActive' = AnyActive /\ raw' = AnyActive /\ AnyActive \in BOOLEAN
  BY <1>1 DEF AnyActive, SyncRawInput
<1>5. TypeOK' /\ RawFollows'
  BY <1>1, <1>2, <1>4, PointerFacts DEF TypeOK, RawFollows
<1>6. Wakes(seat, seat')
  BY <1>1 DEF Wakes
<1> QED BY <1>1, <1>2, <1>3, <1>5, <1>6, PointerFacts DEF PointerInv, Sound

\* create_constraint: it starts only where the focus is.
LEMMA CreateConstraintKeeps ==
  ASSUME PointerInv, NEW s \in Surface, NEW kind \in {"lock", "confine"},
         NEW life \in {"oneshot", "persistent"}, CreateConstraint(s, kind, life)
  PROVE  PointerInv' /\ Wakes(seat, seat')
<1> DEFINE c == [kind |-> kind, life |-> life, active |-> FALSE]
<1> DEFINE p == [seat EXCEPT !.con[s] = c]
<1> DEFINE f == [seat.con EXCEPT ![s] = c]
<1> DEFINE a == Activated(p, s, TRUE)
<1> DEFINE z == [a EXCEPT !.sync = TRUE]
<1>1. s \in surfaces /\ seat.con[s] = NoConstraint
      /\ seat' = IF seat.focus = s THEN z ELSE p
  BY DEF CreateConstraint
<1>2. c \in Constraints /\ c # NoConstraint /\ c.active = FALSE /\ NoConstraint.active = FALSE
      /\ NoConstraint.kind = "none"
  BY DEF Constraints, NoConstraint
<1> HIDE DEF c
<1>3. /\ p \in Seats /\ SamePlace(seat, p) /\ p.con = f /\ p.hidden = seat.hidden
      /\ p.orphans = seat.orphans /\ p.sync = seat.sync
  BY <1>2, PointerFacts DEF Seats, SamePlace
<1> HIDE DEF p
<1>4. seat.con \in [Surface -> Constraints]
  BY PointerFacts DEF Seats
<1>5. f[s] = c /\ \A u \in Surface \ {s} : f[u] = seat.con[u]
  BY <1>4
<1> HIDE DEF f
<1>6. PlaceOK(p)
  BY <1>3, PointerFacts DEF PlaceOK, SamePlace
<1>7. LocksOK(p)
  <2>1. \A u \in surfaces : HiddenAt(p, u)
    BY <1>2, <1>3, <1>5, PointerFacts DEF Sound, LocksOK, HiddenAt, Locked
  <2>2. \A u \in Surface \ surfaces : LeftAt(p, u)
    BY <1>1, <1>3, <1>5, PointerFacts DEF Sound, LocksOK, LeftAt
  <2> QED BY <2>1, <2>2 DEF LocksOK
<1>8. Slept(seat, p) /\ Noticed(seat, p)
  BY <1>1, <1>2, <1>3, <1>5 DEF Slept, Noticed
<1>9. CASE seat.focus # s
  <2>1. Step(seat, seat')
    BY <1>1, <1>3, <1>6, <1>7, <1>8, <1>9 DEF Step, Sound, Wakes, Slept
  <2> QED BY <2>1, SeatSteps, PointerFacts DEF CreateConstraint, NoGestures
<1>10. CASE seat.focus = s
  <2>1. p.con[s] = c
    BY <1>3, <1>5
  <2>2. /\ a \in Seats /\ SamePlace(p, a) /\ a.orphans = p.orphans
        /\ a.con = [p.con EXCEPT ![s] = [p.con[s] EXCEPT !.active = TRUE]]
        /\ a.hidden = IF p.con[s].kind # "lock" \/ p.con[s].active = TRUE THEN p.hidden
                      ELSE IF TRUE THEN p.hidden \cup {s} ELSE p.hidden \ {s}
    BY <1>2, <1>3, <2>1, ActivatedIs
  <2> HIDE DEF a
  <2>3. /\ z \in Seats /\ SamePlace(a, z) /\ z.orphans = a.orphans /\ z.con = a.con
        /\ z.hidden = a.hidden /\ z.sync
    BY <2>2 DEF Seats, SamePlace
  <2> HIDE DEF z
  <2>4. [c EXCEPT !.active = TRUE].kind = c.kind
    BY <1>2, ConstraintIs
  <2>5. /\ \A u \in Surface \ {s} : z.con[u] = seat.con[u]
        /\ z.con[s].kind = c.kind
        /\ z.orphans = seat.orphans /\ z.focus = s
        /\ z.hidden = IF c.kind # "lock" THEN seat.hidden ELSE seat.hidden \cup {s}
    BY <1>2, <1>3, <1>4, <1>5, <1>10, <2>1, <2>2, <2>3, <2>4 DEF SamePlace
  <2>6. PlaceOK(z)
    BY <1>6, <2>2, <2>3 DEF PlaceOK, SamePlace
  <2>7. LocksOK(z)
    <3>1. \A u \in surfaces : HiddenAt(z, u)
      BY <2>5, PointerFacts DEF Sound, LocksOK, HiddenAt, Locked
    <3>2. \A u \in Surface \ surfaces : LeftAt(z, u)
      BY <1>1, <2>5, PointerFacts DEF Sound, LocksOK, LeftAt
    <3> QED BY <3>1, <3>2 DEF LocksOK
  <2>8. Step(seat, z)
    BY <2>3, <2>5, <2>6, <2>7 DEF Step, Sound, Noticed, Wakes
  <2>9. Step(seat, seat')
    BY <1>1, <1>10, <2>8
  <2> QED BY <2>9, SeatSteps, PointerFacts DEF CreateConstraint, NoGestures
<1> QED BY <1>9, <1>10

\* pointer_constraint_resource_destroy
LEMMA DestroyConstraintKeeps ==
  ASSUME PointerInv, NEW s \in Surface, DestroyConstraint(s)
  PROVE  PointerInv' /\ Wakes(seat, seat')
<1> DEFINE f == [seat.con EXCEPT ![s] = NoConstraint]
<1> DEFINE y == seat.sync \/ seat.con[s].active
<1> DEFINE q == [seat EXCEPT !.con = f, !.orphans = seat.orphans \ {s}, !.sync = y]
<1>1. seat' = q
  BY PointerFacts DEF DestroyConstraint, Seats
<1>2. seat.con \in [Surface -> Constraints] /\ seat.sync \in BOOLEAN
  BY PointerFacts DEF Seats
<1>3. f \in [Surface -> Constraints] /\ y \in BOOLEAN
  BY <1>2, ConstraintIs
<1>4. f[s] = NoConstraint /\ \A u \in Surface \ {s} : f[u] = seat.con[u]
  BY <1>2
<1>5. ~NoConstraint.active /\ NoConstraint.kind = "none"
  BY DEF NoConstraint
<1>6. (seat.sync => y) /\ (~y => ~seat.con[s].active)
  OBVIOUS
<1> HIDE DEF f, y
<1>7. /\ q \in Seats /\ SamePlace(seat, q) /\ q.con = f /\ q.orphans = seat.orphans \ {s}
      /\ q.sync = y /\ q.hidden = seat.hidden
  BY <1>3, PointerFacts DEF Seats, SamePlace
<1> HIDE DEF q
<1>8. PlaceOK(q)
  BY <1>7, PointerFacts DEF PlaceOK, SamePlace
<1>9. LocksOK(q)
  <2>1. \A u \in surfaces : HiddenAt(q, u)
    BY <1>4, <1>5, <1>7, PointerFacts DEF Sound, LocksOK, HiddenAt, Locked
  <2>2. \A u \in Surface \ surfaces : LeftAt(q, u)
    BY <1>4, <1>7, PointerFacts DEF Sound, LocksOK, LeftAt
  <2> QED BY <2>1, <2>2 DEF LocksOK
<1>10. Noticed(seat, q)
  <2>1. seat.sync => q.sync
    BY <1>6, <1>7
  <2>2. ASSUME ~q.sync, NEW u \in Surface PROVE q.con[u].active = seat.con[u].active
    <3>1. CASE u = s
      <4>1. seat.con[s].active = FALSE /\ NoConstraint.active = FALSE
        BY <1>2, <1>6, <1>7, <2>2, ConstraintIs DEF NoConstraint
      <4> QED BY <1>4, <1>7, <3>1, <4>1
    <3>2. CASE u # s
      BY <1>4, <1>7, <3>2
    <3> QED BY <3>1, <3>2
  <2> QED BY <2>1, <2>2 DEF Noticed
<1>11. Wakes(seat, q)
  BY <1>4, <1>5, <1>7 DEF Wakes
<1>12. Step(seat, seat')
  BY <1>1, <1>7, <1>8, <1>9, <1>10, <1>11 DEF Step, Sound
<1> QED BY <1>12, SeatSteps, PointerFacts DEF DestroyConstraint, NoGestures

\* pointer_set_cursor
LEMMA CursorKeeps ==
  ASSUME PointerInv, NEW c, NEW k, SetCursor(c, k)
  PROVE  PointerInv' /\ Wakes(seat, seat')
<1>1. k \in OrNone(surfaces)
  BY DEF SetCursor, OrNone
<1>2. /\ seat' \in Seats /\ SameLocks(seat, seat') /\ seat'.inside = seat.inside
      /\ seat'.focus = seat.focus /\ seat'.ptr = seat.ptr /\ seat'.surf = k
  BY <1>1, PointerFacts DEF SetCursor, Seats, SameLocks, OrNone
<1>3. PlaceOK(seat')
  BY <1>1, <1>2, PointerFacts DEF PlaceOK
<1>4. Step(seat, seat')
  BY <1>2, <1>3, LocksFollow, PointerFacts
<1> QED BY <1>4, SeatSteps, PointerFacts DEF SetCursor, NoGestures

\* The pointers and the surfaces that come and go
LEMMA GetPointerKeeps ==
  ASSUME PointerInv, NEW c, GetPointer(c)
  PROVE  PointerInv' /\ Wakes(seat, seat')
<1> USE DEF GetPointer, NoGestures
<1>1. TypeOK'
  BY PointerFacts, PointerAssumption DEF TypeOK
<1>2. Sound(seat)'
  BY DEF PointerInv, Sound, PlaceOK, OrNone, LocksOK, HiddenAt, LeftAt, Locked
<1>3. RawFollows'
  BY DEF PointerInv, RawFollows, AnyActive
<1> QED BY <1>1, <1>2, <1>3 DEF PointerInv, Wakes

\* pointer_resource_destroy
LEMMA ReleasePointerKeeps ==
  ASSUME PointerInv, NEW c, ReleasePointer(c)
  PROVE  PointerInv' /\ Wakes(seat, seat')
<1> DEFINE i == {s \in seat.inside : Owner[s] # c}
<1> DEFINE o == IF seat.ptr = c THEN None ELSE seat.ptr
<1> DEFINE w == IF seat.ptr = c THEN None ELSE seat.surf
<1>1. seat' = [seat EXCEPT !.inside = i, !.ptr = o, !.surf = w]
  BY PointerFacts DEF ReleasePointer, Seats
<1>2. i \in SUBSET Surface /\ i \subseteq seat.inside
  BY PointerFacts DEF Seats
<1>3. o \in OrNone(pointers \ {c}) /\ o \in OrNone(Client) /\ o \in {None, seat.ptr}
  BY PointerFacts DEF Seats, PlaceOK, OrNone
<1>4. w \in OrNone(surfaces) /\ w \in OrNone(Surface)
  BY PointerFacts DEF Seats, PlaceOK, OrNone
<1> HIDE DEF i, o, w
<1>5. /\ seat' \in Seats /\ SameLocks(seat, seat') /\ seat'.inside = i
      /\ seat'.focus = seat.focus /\ seat'.ptr = o /\ seat'.surf = w
  BY <1>1, <1>2, <1>3, <1>4, PointerFacts DEF Seats, SameLocks
<1>6. pointers' = pointers \ {c} /\ UNCHANGED <<surfaces, raw, gesture, touched>>
  BY DEF ReleasePointer, NoGestures
<1>7. PlaceOK(seat)'
  BY <1>2, <1>3, <1>4, <1>5, <1>6, PointerFacts DEF PlaceOK, OrNone
<1>8. LocksOK(seat)'
  BY <1>5, <1>6, PointerFacts DEF Sound, LocksOK, HiddenAt, LeftAt, Locked, SameLocks
<1>9. TypeOK' /\ RawFollows'
  BY <1>5, <1>6, PointerFacts DEF TypeOK, PointerInv, RawFollows, AnyActive, SameLocks
<1>10. Wakes(seat, seat')
  BY <1>5 DEF Wakes, SameLocks
<1> QED BY <1>5, <1>6, <1>7, <1>8, <1>9, <1>10, PointerFacts DEF PointerInv, Sound

\* An address that is used again: what is at it is on record as older.
LEMMA CreateSurfaceKeeps ==
  ASSUME PointerInv, NEW s \in Surface, CreateSurface(s)
  PROVE  PointerInv' /\ Wakes(seat, seat')
<1>1. surfaces' = surfaces \cup {s} /\ s \notin surfaces
      /\ UNCHANGED <<pointers, seat, raw, gesture, touched>>
  BY DEF CreateSurface, NoGestures
<1>2. PlaceOK(seat)'
  BY <1>1, PointerFacts DEF PlaceOK, OrNone
<1>3. LocksOK(seat)'
  <2>1. LeftAt(seat, s)
    BY <1>1, PointerFacts DEF Sound, LocksOK
  <2>2. HiddenAt(seat, s)
    BY <2>1 DEF LeftAt, HiddenAt, Locked, NoConstraint
  <2>3. \A u \in surfaces' : HiddenAt(seat, u)
    BY <1>1, <2>2, PointerFacts DEF Sound, LocksOK
  <2>4. \A u \in Surface \ surfaces' : LeftAt(seat, u)
    BY <1>1, PointerFacts DEF Sound, LocksOK
  <2> QED BY <1>1, <2>3, <2>4 DEF LocksOK, HiddenAt, LeftAt, Locked
<1>4. TypeOK' /\ RawFollows' /\ Wakes(seat, seat')
  BY <1>1, PointerFacts DEF TypeOK, PointerInv, RawFollows, AnyActive, Wakes
<1> QED BY <1>1, <1>2, <1>3, <1>4, PointerFacts DEF PointerInv, Sound

\* bridge_surface_destroy: what stays at the address is on record as older.
LEMMA DestroySurfaceKeeps ==
  ASSUME PointerInv, NEW s \in Surface, DestroySurface(s)
  PROVE  PointerInv' /\ Wakes(seat, seat')
<1> DEFINE o == IF seat.con[s] = NoConstraint THEN seat.orphans ELSE seat.orphans \cup {s}
<1>1. /\ surfaces' = surfaces \ {s} /\ UNCHANGED <<pointers, raw, gesture, touched>>
      /\ seat' = [seat EXCEPT
           !.focus = IF seat.focus = s THEN None ELSE seat.focus,
           !.ptr = IF seat.surf = s THEN None ELSE seat.ptr,
           !.surf = IF seat.surf = s THEN None ELSE seat.surf,
           !.pending = seat.pending \ {s}, !.inside = seat.inside \ {s},
           !.hidden = seat.hidden \ {s}, !.orphans = o]
  BY PointerFacts DEF DestroySurface, NoGestures, Seats
<1>2. o \in SUBSET Surface /\ (seat.con[s] # NoConstraint => s \in o)
      /\ \A u \in Surface \ {s} : u \in o <=> u \in seat.orphans
  BY PointerFacts DEF Seats
<1> HIDE DEF o
<1>3. /\ seat' \in Seats /\ seat'.con = seat.con /\ seat'.sync = seat.sync
      /\ seat'.hidden = seat.hidden \ {s} /\ seat'.orphans = o
      /\ seat'.inside = seat.inside \ {s}
      /\ seat'.focus = IF seat.focus = s THEN None ELSE seat.focus
      /\ seat'.ptr = IF seat.surf = s THEN None ELSE seat.ptr
      /\ seat'.surf = IF seat.surf = s THEN None ELSE seat.surf
  BY <1>1, <1>2, PointerFacts DEF Seats, OrNone
<1>4. PlaceOK(seat)'
  BY <1>1, <1>3, PointerFacts DEF PlaceOK, OrNone
<1>5. LocksOK(seat)'
  <2>1. \A u \in surfaces' : HiddenAt(seat', u)
    BY <1>1, <1>2, <1>3, PointerFacts DEF Sound, LocksOK, HiddenAt, Locked
  <2>2. \A u \in Surface \ surfaces' : LeftAt(seat', u)
    BY <1>1, <1>2, <1>3, PointerFacts DEF Sound, LocksOK, LeftAt
  <2> QED BY <2>1, <2>2 DEF LocksOK, HiddenAt, LeftAt, Locked
<1>6. TypeOK' /\ RawFollows' /\ Wakes(seat, seat')
  BY <1>1, <1>3, PointerFacts DEF TypeOK, PointerInv, RawFollows, AnyActive, Wakes
<1> QED BY <1>1, <1>3, <1>4, <1>5, <1>6, PointerFacts DEF PointerInv, Sound

\* Nothing is in focus at first, and no constraint exists.
LEMMA PointerInitInv == Init => PointerInv
<1> SUFFICES ASSUME Init PROVE PointerInv
  OBVIOUS
<1> DEFINE f == [u \in Surface |-> NoConstraint]
<1>1. f \in [Surface -> Constraints] /\ \A u \in Surface : f[u] = NoConstraint
  BY ConstraintIs
<1>2. NoConstraint.active = FALSE
  BY DEF NoConstraint
<1>3. seat = [focus |-> None, ptr |-> None, surf |-> None, pending |-> {}, inside |-> {},
              con |-> f, orphans |-> {}, hidden |-> {}, sync |-> FALSE]
  BY DEF Init
<1> HIDE DEF f
<1>4. /\ seat \in Seats /\ seat.con = f /\ seat.inside = {} /\ seat.focus = None
      /\ seat.ptr = None /\ seat.surf = None
  BY <1>1, <1>3 DEF Seats, OrNone
<1>5. Sound(seat)
  BY <1>1, <1>2, <1>4, NowhereIsOK DEF Sound, LocksOK, HiddenAt, LeftAt, Locked, Init
<1>6. TypeOK /\ Held(gesture)
  BY <1>4 DEF Init, TypeOK, NoGesture, OrNone, Held
<1>7. RawFollows
  BY <1>1, <1>2, <1>4 DEF Init, RawFollows, AnyActive
<1> QED BY <1>5, <1>6, <1>7 DEF PointerInv

\* Every step keeps the pointer in one place.
LEMMA PointerStep ==
  PointerInv /\ [Next]_vars => PointerInv' /\ Wakes(seat, seat')
<1> SUFFICES ASSUME PointerInv, [Next]_vars PROVE PointerInv' /\ Wakes(seat, seat')
  OBVIOUS
<1>1. ASSUME UNCHANGED vars PROVE PointerInv' /\ Wakes(seat, seat')
  BY <1>1, SeatSteps, PointerFacts DEF vars
<1>2. ASSUME NEW s \in Surface,
             PointerLeave(s) \/ PointerAxis(s) \/ FocusOut(s) \/ DestroyConstraint(s)
               \/ CreateSurface(s) \/ DestroySurface(s)
      PROVE PointerInv' /\ Wakes(seat, seat')
  BY <1>2, LeaveKeeps, AxisKeeps, FocusOutKeeps, DestroyConstraintKeeps, CreateSurfaceKeeps,
     DestroySurfaceKeeps
<1>3. ASSUME NEW s \in Surface, NEW t \in OrNone(Surface),
             \/ PointerEnter(s, t)
             \/ \E far \in BOOLEAN : PointerMotion(s, t, far)
             \/ \E pressed \in BOOLEAN, b \in Buttons : PointerButton(s, t, b, pressed)
      PROVE PointerInv' /\ Wakes(seat, seat')
  BY <1>3, EnterKeeps, MotionKeeps, ButtonKeeps, Zenon
<1>4. ASSUME NEW s \in Surface,
             \E kind \in {"lock", "confine"}, life \in {"oneshot", "persistent"} :
               CreateConstraint(s, kind, life)
      PROVE PointerInv' /\ Wakes(seat, seat')
  BY <1>4, CreateConstraintKeeps, Zenon
<1>5. ASSUME \/ \E t \in OrNone(Surface) : RawMotion(t)
             \/ RawButton \/ SyncRawInput
      PROVE PointerInv' /\ Wakes(seat, seat')
  BY <1>5, RawMotionKeeps, RawButtonKeeps, SyncKeeps, Zenon
<1>6. ASSUME NEW c \in Client,
             \/ GetPointer(c) \/ ReleasePointer(c)
             \/ \E k \in OrNone(Surface) : SetCursor(c, k)
      PROVE PointerInv' /\ Wakes(seat, seat')
  BY <1>6, GetPointerKeeps, ReleasePointerKeeps, CursorKeeps, Zenon
<1> QED BY <1>1, <1>2, <1>3, <1>4, <1>5, <1>6, Zenon DEF Next

\* The pointer is in one surface, for any clients, surfaces and constraints:
\* enters and leaves pair up over the three routes, what the seat points to
\* exists, raw input and the cursor follow the constraints, and a gesture has
\* its button (PointerOK; input_router.c, raw_input.c, event_forward.c).
THEOREM PointerIsInOnePlace == Spec => []PointerOK
<1>1. PointerInv => PointerOK
  <2> SUFFICES ASSUME PointerInv PROVE PointerOK
    OBVIOUS
  <2>1. TypeOK /\ OneInside /\ SeatIsLive
    BY PointerFacts DEF OneInside, SeatIsLive, PlaceOK
  <2>2. LockHidesCursor
    BY PointerFacts DEF LockHidesCursor, Sound, LocksOK, HiddenAt
  <2>3. GesturesHeld
    BY PointerFacts, HeldIs
  <2> QED BY <2>1, <2>2, <2>3 DEF PointerOK, PointerInv
<1>2. PointerInv /\ [Next]_vars => PointerInv'
  BY PointerStep
<1> QED BY <1>1, <1>2, PointerInitInv, PTL DEF Spec

\* A constraint takes effect only where the focus is, whichever route brought
\* it there (ActivatedByFocus; bridge_pointer_constraints_set_focus in
\* wl_pointer_constraints.c).
THEOREM ConstraintsFollowTheFocus == Spec => ActivatedByFocus
<1>1. PointerInv /\ [Next]_vars => PointerInv'
  BY PointerStep
<1>2. PointerInv /\ [Next]_vars =>
        [\A s \in Surface : seat'.con[s].active /\ ~seat.con[s].active => seat'.focus = s]_vars
  BY PointerStep DEF Wakes
<1> QED BY <1>1, <1>2, PointerInitInv, PTL DEF Spec, ActivatedByFocus

---------------------------------------------------------------------------
(***************************************************************************)
(* Viewports: what is shown, and what the pointer is at, are pixels of a   *)
(* buffer of four bytes a pixel.                                           *)
(*                                                                         *)
(* Division is left to a few lemmas, so that the rest is arithmetic with   *)
(* + and <.                                                                *)
(***************************************************************************)

\* The settings are of the viewport there is and of some extent, and what is shown is of a part
\* of its buffer.
ViewportsInv ==
  /\ ViewportsTypeOK /\ SourceHasViewport
  /\ source # Unset => source.w > 0
  /\ destination # Unset => destination > 0
  /\ shown # Unset => shown.x + shown.w <= shown.of * Unit

---------------------------------------------------------------------------
(* Division *)

LEMMA DivBounds ==
  ASSUME NEW a \in Int, NEW b \in Nat \ {0}
  PROVE  /\ a \div b \in Int
         /\ b * (a \div b) <= a /\ a < b * (a \div b) + b
OBVIOUS

LEMMA Mono ==
  ASSUME NEW a \in Int, NEW c \in Int, NEW b \in Nat \ {0}
  PROVE  /\ a <= c <=> b * a <= b * c
         /\ a < c <=> b * a < b * c
OBVIOUS

LEMMA TimesIs ==
  ASSUME NEW a \in Nat \ {0}, NEW b \in Nat \ {0}
  PROVE  a * b \in Nat \ {0}
OBVIOUS

\* The quotient lies between what divides.
LEMMA DivIn ==
  ASSUME NEW a \in Int, NEW b \in Nat \ {0}, NEW lo \in Int, NEW hi \in Int
  PROVE  /\ b * lo <= a => lo <= a \div b
         /\ a < b * hi => a \div b < hi
<1> DEFINE d == a \div b
<1>1. d \in Int /\ b * d <= a /\ a < b * d + b
  BY DivBounds
<1> HIDE DEF d
<1>2. b * (d + 1) = b * d + b
  BY <1>1
<1>3. ASSUME b * lo <= a PROVE lo <= d
  <2>1. b * lo < b * (d + 1)
    BY <1>1, <1>2, <1>3
  <2>2. lo < d + 1
    BY <1>1, <2>1, Mono
  <2> QED BY <1>1, <2>2
<1>4. ASSUME a < b * hi PROVE d < hi
  <2>1. b * d < b * hi
    BY <1>1, <1>4
  <2> QED BY <1>1, <2>1, Mono
<1> QED BY <1>3, <1>4 DEF d

---------------------------------------------------------------------------
(* The pixel copied to pixel d of n, of the part of a buffer from x over w *)

\* Where the middle of pixel d is, in 2n-ths of a unit from the start of the part
LEMMA MiddleIs ==
  ASSUME NEW n \in Nat \ {0}, NEW w \in Nat \ {0}, NEW d \in 0..(n - 1)
  PROVE  /\ (2 * d + 1) * w \in Nat \ {0}
         /\ (2 * d + 1) * w < (2 * n) * w
<1>1. 2 * d + 1 \in Nat \ {0} /\ 2 * n \in Nat \ {0} /\ 2 * d + 1 < 2 * n
  OBVIOUS
<1>2. (2 * d + 1) * w \in Nat \ {0}
  BY <1>1, TimesIs
<1>3. w * (2 * d + 1) < w * (2 * n)
  BY <1>1, Mono
<1> QED BY <1>2, <1>3

\* A place t of N-ths into the part, divided down to a pixel
LEMMA PixelProducts ==
  ASSUME NEW N \in Int, NEW U \in Int, NEW p \in Int
  PROVE  /\ (N * U) * p = N * (U * p) /\ (N * U) * p + N * U = N * (U * (p + 1))
         /\ (N * U) * p + N * U + N * U = N * (U * (p + 2))
<1>1. (N * U) * p = N * (U * p)
  OBVIOUS
<1>2. U * (p + 1) = U * p + U /\ U * (p + 2) = U * p + U + U
  OBVIOUS
<1> DEFINE v == U * p
<1>3. v \in Int
  OBVIOUS
<1> HIDE DEF v
<1>4. N * (v + U) = N * v + N * U /\ N * (v + U + U) = N * v + N * U + N * U
  BY <1>3
<1> QED BY <1>1, <1>2, <1>4 DEF v

LEMMA PixelIs ==
  ASSUME NEW N \in Nat \ {0}, NEW U \in Nat \ {0}, NEW x \in Nat, NEW w \in Nat \ {0},
         NEW of \in Nat \ {0}, NEW a \in Int, NEW back \in Nat,
         x + w <= of * U, N * x <= a + back, a < N * (x + w), back <= N * U
  PROVE  /\ a >= 0 => a \div (N * U) \in 0..(of - 1)
         /\ (a \div (N * U)) * U < x + w
         /\ x < (a \div (N * U) + 2) * U
         /\ back = 0 => x < (a \div (N * U) + 1) * U
<1> DEFINE D == N * U
           p == a \div D
<1>1. D \in Nat \ {0}
  BY TimesIs
<1>2. p \in Int /\ D * p <= a /\ a < D * p + D
  BY <1>1, DivBounds
<1> HIDE DEF p
<1>3. /\ D * p = N * (U * p) /\ D * p + D = N * (U * (p + 1))
      /\ D * p + D + N * U = N * (U * (p + 2))
  BY <1>2, PixelProducts
<1>4. U * p \in Int /\ U * (p + 1) \in Int /\ U * (p + 2) \in Int
  BY <1>2
<1>5. N * (U * p) < N * (x + w)
  BY <1>2, <1>3
<1>6. U * p < x + w
  BY <1>4, <1>5, Mono
<1>7. N * x < N * (U * (p + 2))
  <2>1. N * x <= a + back /\ a + back < D * p + D + N * U
    BY <1>1, <1>2
  <2> HIDE DEF D
  <2> QED BY <1>1, <1>2, <1>3, <2>1
<1>8. x < U * (p + 2)
  BY <1>4, <1>7, Mono
<1>9. ASSUME back = 0 PROVE x < U * (p + 1)
  <2>1. N * x < N * (U * (p + 1))
    BY <1>2, <1>3, <1>9
  <2> QED BY <1>4, <2>1, Mono
<1>10. ASSUME a >= 0 PROVE p \in 0..(of - 1)
  <2>1. D * 0 <= a
    BY <1>1, <1>10
  <2>2. 0 <= p
    BY <1>1, <2>1, DivIn DEF p
  <2>3. U * p < U * of
    BY <1>4, <1>6
  <2>4. p < of
    BY <1>2, <2>3, Mono
  <2> QED BY <1>2, <2>2, <2>4
<1>11. p * U = U * p /\ (p + 1) * U = U * (p + 1) /\ (p + 2) * U = U * (p + 2)
  BY <1>2
<1> QED BY <1>6, <1>8, <1>9, <1>10, <1>11 DEF p, D

\* The two pixels blended, when the first is at b
BlendedAt(b, D, of) ==
  LET left == IF b < 0 THEN 0 ELSE b \div D
      clamped == IF left >= of THEN of - 1 ELSE left
  IN {clamped, IF clamped + 1 < of THEN clamped + 1 ELSE clamped}

LEMMA BlendedIs ==
  ASSUME NEW m, NEW d
  PROVE  Blended(m, d) = BlendedAt(2 * m.size * m.x + (2 * d + 1) * m.w - m.size * Unit,
                                   2 * m.size * Unit, m.of)
BY DEF Blended, BlendedAt

\* What a mapping says of the pixels copied
Inside(m) ==
  \A d \in 0..(m.size - 1) :
    /\ Nearest(m, d) \in 0..(m.of - 1)
    /\ Nearest(m, d) * Unit < m.x + m.w
    /\ (Nearest(m, d) + 1) * Unit > m.x
    /\ \A p \in Blended(m, d) :
         /\ p \in 0..(m.of - 1)
         /\ p * Unit < m.x + m.w + Unit /\ (p + 2) * Unit > m.x

\* Nearest takes the pixel the middle of pixel d is in.
NearestAt(m, d) == (2 * m.size * m.x + (2 * d + 1) * m.w) \div (2 * m.size * Unit)

\* In a format of four bytes what is read is the pixel meant.
LEMMA FetchedIs ==
  ASSUME NEW m, NEW d, Nearest(m, d) \in Nat
  PROVE  Fetched(m, d, 4) = {Nearest(m, d)}
<1> DEFINE q == Nearest(m, d)
<1>1. \A b \in (4 * q)..(4 * q + 3) : b \div 4 = q
  BY DEF Fetched
<1>2. 4 * q \in (4 * q)..(4 * q + 3)
  OBVIOUS
<1> HIDE DEF q
<1>3. {b \div 4 : b \in (4 * q)..(4 * q + 3)} = {q}
  BY <1>1, <1>2
<1> QED BY <1>3 DEF Fetched, q

LEMMA MappingIsInside ==
  ASSUME NEW m \in Mapping, m.x + m.w <= m.of * Unit
  PROVE  /\ Inside(m)
         /\ \A d \in 0..(m.size - 1) : Nearest(m, d) = NearestAt(m, d)
<1> SUFFICES ASSUME NEW d \in 0..(m.size - 1)
             PROVE  /\ Nearest(m, d) = NearestAt(m, d)
                    /\ Nearest(m, d) \in 0..(m.of - 1)
                    /\ Nearest(m, d) * Unit < m.x + m.w
                    /\ (Nearest(m, d) + 1) * Unit > m.x
                    /\ \A p \in Blended(m, d) :
                         /\ p \in 0..(m.of - 1)
                         /\ p * Unit < m.x + m.w + Unit /\ (p + 2) * Unit > m.x
  BY DEF Inside
<1> DEFINE n == m.size
           x == m.x
           w == m.w
           of == m.of
           N == 2 * n
           t == (2 * d + 1) * w
           a == N * x + t
           b == N * x + t - n * Unit
<1>1. /\ n \in Nat \ {0} /\ x \in Nat /\ w \in Nat \ {0} /\ of \in Nat \ {0}
      /\ Unit \in Nat \ {0} /\ x + w <= of * Unit /\ d \in 0..(n - 1)
  BY ViewportAssumption DEF Mapping
<1>2. NearestAt(m, d) = a \div (N * Unit)
  BY DEF NearestAt
<1>3. Nearest(m, d) = IF a \div (N * Unit) >= of THEN of - 1 ELSE a \div (N * Unit)
  BY DEF Nearest
<1>4. Blended(m, d) = BlendedAt(b, N * Unit, of)
  BY BlendedIs
<1> HIDE DEF n, x, w, of
<1>5. t \in Nat \ {0} /\ t < N * w /\ N \in Nat \ {0} /\ n * Unit \in Nat \ {0}
  BY <1>1, MiddleIs, TimesIs
<1>6. N * x \in Nat /\ N * (x + w) = N * x + N * w /\ n * Unit <= N * Unit
  BY <1>1
<1> HIDE DEF t, N
<1>7. a \in Nat /\ b \in Int /\ N * x <= a /\ a < N * (x + w) /\ N * x <= b + n * Unit
      /\ b < N * (x + w)
  BY <1>1, <1>5, <1>6
<1> HIDE DEF a, b
<1> DEFINE p == a \div (N * Unit)
           back == n * Unit
           q == b \div (N * Unit)
           left == IF b < 0 THEN 0 ELSE q
<1>8. p \in 0..(of - 1) /\ p * Unit < x + w /\ x < (p + 1) * Unit
  <2>1. N * x <= a + 0 /\ 0 \in Nat /\ 0 <= N * Unit /\ a \in Int /\ a >= 0
    BY <1>1, <1>5, <1>6, <1>7
  <2> QED BY <1>1, <1>5, <1>7, <2>1, PixelIs
<1>9. (b >= 0 => q \in 0..(of - 1)) /\ q * Unit < x + w /\ x < (q + 2) * Unit /\ q \in Int
  <2>1. back \in Nat /\ back <= N * Unit /\ N * x <= b + back
    BY <1>5, <1>6, <1>7
  <2>2. N * Unit \in Nat \ {0}
    BY <1>1, <1>5, TimesIs
  <2>3. q \in Int
    BY <1>7, <2>2, DivBounds
  <2> HIDE DEF back
  <2> QED BY <1>1, <1>5, <1>7, <2>1, <2>3, PixelIs
<1>10. b < 0 => x < 2 * Unit
  <2>1. ASSUME b < 0 PROVE x < Unit
    <3>1. N * x < N * Unit
      BY <1>1, <1>5, <1>6, <1>7, <2>1
    <3> QED BY <1>1, <1>5, <3>1, Mono
  <2> QED BY <1>1, <2>1
<1>11. left \in 0..(of - 1) /\ left * Unit < x + w /\ x < (left + 2) * Unit
  <2>1. CASE b < 0
    BY <1>1, <1>10, <2>1
  <2>2. CASE ~(b < 0)
    BY <1>7, <1>9, <2>2
  <2> QED BY <2>1, <2>2
<1>12. Blended(m, d) = {left, IF left + 1 < of THEN left + 1 ELSE left}
  <2>1. ~(left >= of)
    BY <1>1, <1>11
  <2> QED BY <1>4, <2>1 DEF BlendedAt
<1> HIDE DEF p, q, left
<1>13. ASSUME NEW r \in Blended(m, d)
       PROVE  r \in 0..(of - 1) /\ r * Unit < x + w + Unit /\ (r + 2) * Unit > x
  <2>1. CASE r = left
    BY <1>1, <1>11, <2>1
  <2>2. CASE r = left + 1 /\ left + 1 < of
    <3>1. (left + 1) * Unit = left * Unit + Unit /\ (left + 1 + 2) * Unit = (left + 2) * Unit + Unit
      BY <1>1, <1>11
    <3> QED BY <1>1, <1>11, <2>2, <3>1
  <2> QED BY <1>12, <2>1, <2>2
<1>14. Nearest(m, d) = p /\ NearestAt(m, d) = p
  <2>1. ~(p >= of)
    BY <1>1, <1>8
  <2> QED BY <1>2, <1>3, <2>1 DEF p
<1> QED BY <1>8, <1>13, <1>14 DEF x, w, of

---------------------------------------------------------------------------
(* Where the pointer is *)

\* n pixels for k of the buffer at scale s: the nearest, or one if that is none
Nearly(n, k, s) ==
  \/ 2 * s * n <= 2 * k + s /\ 2 * k < 2 * s * n + s
  \/ n = 1 /\ 2 * k < s

LEMMA ExtentIs ==
  ASSUME NEW k \in Nat \ {0}, NEW s \in Nat \ {0}
  PROVE  /\ LogicalExtent(k * Unit, s) \in Nat \ {0}
         /\ Nearly(LogicalExtent(k * Unit, s), k, s)
<1> DEFINE a == Unit * (2 * k + s)
           D == Unit * (2 * s)
           e == a \div D
<1>1. /\ Unit \in Nat \ {0} /\ 2 * k + s \in Nat \ {0} /\ 2 * s \in Nat \ {0}
      /\ a \in Nat \ {0} /\ D \in Nat \ {0}
  BY ViewportAssumption, TimesIs
<1>2. LogicalExtent(k * Unit, s) = IF e > 0 THEN e ELSE IF s <= 1 THEN e ELSE 1
  <2>1. 2 * (k * Unit) + s * Unit = a /\ 2 * s * Unit = D
    BY <1>1
  <2>2. CASE s <= 1
    <3>1. s = 1 /\ 2 * (k * Unit) + Unit = a /\ 2 * Unit = D
      BY <1>1, <2>1, <2>2
    <3> HIDE DEF a, D
    <3> QED BY <2>2, <3>1 DEF LogicalExtent
  <2>3. CASE ~(s <= 1)
    <3> HIDE DEF a, D
    <3> QED BY <2>1, <2>3 DEF LogicalExtent
  <2> QED BY <2>2, <2>3
<1>3. e \in Int /\ D * e <= a /\ a < D * e + D
  <2> HIDE DEF a, D
  <2> QED BY <1>1, DivBounds
<1> HIDE DEF e
<1>4. D * e = Unit * (2 * s * e) /\ D * e + D = Unit * (2 * s * e + 2 * s)
  BY <1>1, <1>3
<1>5. 2 * s * e <= 2 * k + s /\ 2 * k + s < 2 * s * e + 2 * s
  <2>1. 2 * s * e \in Int /\ 2 * s * e + 2 * s \in Int
    BY <1>1, <1>3
  <2>2. Unit * (2 * s * e) <= Unit * (2 * k + s) /\ Unit * (2 * k + s) < Unit * (2 * s * e + 2 * s)
    BY <1>3, <1>4
  <2> QED BY <1>1, <2>1, <2>2, Mono
<1>6. e >= 0
  <2>1. (2 * s) * 0 < (2 * s) * (e + 1)
    BY <1>1, <1>3, <1>5
  <2>2. 0 < e + 1
    BY <1>1, <1>3, <2>1, Mono
  <2> QED BY <1>3, <2>2
<1>7. s <= 1 => e > 0
  BY <1>3, <1>5, <1>6
<1>8. CASE e > 0
  <2>1. LogicalExtent(k * Unit, s) = e
    BY <1>2, <1>8
  <2>2. 2 * k < 2 * s * e + s
    BY <1>3, <1>5
  <2> QED BY <1>3, <1>5, <1>8, <2>1, <2>2 DEF Nearly
<1>9. CASE e = 0
  <2>1. LogicalExtent(k * Unit, s) = 1
    BY <1>2, <1>7, <1>9
  <2>2. 2 * k < s
    BY <1>5, <1>9
  <2> QED BY <2>1, <2>2 DEF Nearly
<1> QED BY <1>3, <1>6, <1>8, <1>9

\* The middle of pixel d is in the d-th group of s pixels of the buffer.
LEMMA GroupIs ==
  ASSUME NEW n \in Nat \ {0}, NEW k \in Nat \ {0}, NEW s \in Nat \ {0}, NEW d \in 0..(n - 1),
         Nearly(n, k, s)
  PROVE  /\ (2 * n) * (s * d) <= (2 * d + 1) * k
         /\ (2 * d + 1) * k < (2 * n) * (s * (d + 1))
<1> DEFINE o == 2 * d + 1
<1>1. o \in Nat \ {0} /\ o <= 2 * n /\ o < 2 * n /\ d \in Nat
  OBVIOUS
<1>2. CASE 2 * s * n <= 2 * k + s /\ 2 * k < 2 * s * n + s
  <2>1. s * (2 * n - 1) <= 2 * k /\ 2 * k < s * (2 * n + 1)
    BY <1>2
  <2>2. o * (s * (2 * n - 1)) <= o * (2 * k) /\ o * (2 * k) < o * (s * (2 * n + 1))
    <3>1. s * (2 * n - 1) \in Int /\ s * (2 * n + 1) \in Int /\ 2 * k \in Int
      OBVIOUS
    <3> HIDE DEF o
    <3> QED BY <1>1, <2>1, <3>1, Mono
  <2>3. /\ o * (s * (2 * n - 1)) = s * (4 * (n * d) + 2 * n - (2 * d + 1))
        /\ o * (s * (2 * n + 1)) = s * (4 * (n * d) + 2 * n + (2 * d + 1))
    OBVIOUS
  <2>4. s * (4 * (n * d)) <= s * (4 * (n * d) + 2 * n - (2 * d + 1))
        /\ s * (4 * (n * d) + 2 * n + (2 * d + 1)) <= s * (4 * (n * d) + 4 * n)
    <3> DEFINE v == n * d
    <3>1. v \in Int
      BY <1>1
    <3> HIDE DEF v
    <3>2. /\ 4 * v <= 4 * v + 2 * n - (2 * d + 1)
          /\ 4 * v + 2 * n + (2 * d + 1) <= 4 * v + 4 * n
          /\ 4 * v + 2 * n - (2 * d + 1) \in Int /\ 4 * v + 2 * n + (2 * d + 1) \in Int
          /\ 4 * v + 4 * n \in Int /\ 4 * v \in Int
      BY <1>1, <3>1
    <3>3. s * (4 * v) <= s * (4 * v + 2 * n - (2 * d + 1))
      BY <3>2, Mono
    <3>4. s * (4 * v + 2 * n + (2 * d + 1)) <= s * (4 * v + 4 * n)
      BY <3>2, Mono
    <3> QED BY <3>3, <3>4 DEF v
  <2>5. /\ s * (4 * (n * d)) = 2 * ((2 * n) * (s * d))
        /\ s * (4 * (n * d) + 4 * n) = 2 * ((2 * n) * (s * (d + 1)))
        /\ o * (2 * k) = 2 * (o * k)
    OBVIOUS
  <2> DEFINE A == (2 * n) * (s * d)
             B == (2 * n) * (s * (d + 1))
             C == o * k
             F == o * (s * (2 * n - 1))
             G == o * (s * (2 * n + 1))
  <2>6. A \in Int /\ B \in Int /\ C \in Int /\ F \in Int /\ G \in Int
    BY <1>1
  <2>7. 2 * A <= F /\ F <= 2 * C /\ 2 * C < G /\ G <= 2 * B
    BY <2>2, <2>3, <2>4, <2>5
  <2> HIDE DEF A, B, C, F, G
  <2>8. A <= C /\ C < B
    BY <2>6, <2>7
  <2> QED BY <2>8 DEF A, B, C
<1>3. CASE n = 1 /\ 2 * k < s
  BY <1>3
<1> QED BY <1>2, <1>3 DEF Nearly

\* The part shown starts with group g and has k pixels of the buffer.
Shows(m, k, s, g) == m.x = g * s * Unit /\ m.w = k * Unit /\ Nearly(m.size, k, s)

\* The pixel copied to pixel d is that group's.
LEMMA PointerIs ==
  ASSUME NEW m \in Mapping, NEW k \in Nat \ {0}, NEW s \in Nat \ {0}, NEW g \in Nat,
         m.x + m.w <= m.of * Unit, Shows(m, k, s, g),
         NEW d \in 0..(m.size - 1)
  PROVE  Nearest(m, d) \div s = g + d
<1> DEFINE n == m.size
           N == 2 * n
           t == (2 * d + 1) * k
           T == N * (g * s) + t
           p == NearestAt(m, d)
<1>1. Unit \in Nat \ {0} /\ n \in Nat \ {0} /\ N \in Nat \ {0} /\ d \in Nat /\ d \in 0..(n - 1)
  BY ViewportAssumption DEF Mapping
<1>2. Nearest(m, d) = p
  BY MappingIsInside
<1>3. p = (N * (g * s * Unit) + (2 * d + 1) * (k * Unit)) \div (N * Unit)
  BY DEF NearestAt, Shows
<1> HIDE DEF p, n
<1>4. N * (s * d) <= t /\ t < N * (s * (d + 1))
  BY <1>1, GroupIs DEF n, Shows
<1>5. t \in Nat \ {0}
  <2>1. 2 * d + 1 \in Nat \ {0}
    BY <1>1
  <2> QED BY <2>1, TimesIs
<1>6. N * (g * s * Unit) + (2 * d + 1) * (k * Unit) = Unit * T /\ N * Unit = Unit * N
  BY <1>1
<1> DEFINE lo == s * (g + d)
           hi == s * (g + d + 1)
<1>7. /\ lo \in Int /\ hi \in Int
      /\ N * lo = N * (g * s) + N * (s * d) /\ N * hi = N * (g * s) + N * (s * (d + 1))
  BY <1>1
<1>8. T \in Int /\ N * lo <= T /\ T < N * hi
  <2> DEFINE A == N * (g * s)
             B == N * (s * d)
             C == N * (s * (d + 1))
  <2>1. A \in Int /\ B \in Int /\ C \in Int /\ N * lo = A + B /\ N * hi = A + C
    BY <1>1, <1>7
  <2>2. B <= t /\ t < C /\ T = A + t
    BY <1>4
  <2> HIDE DEF A, B, C, T, t, lo, hi
  <2> QED BY <1>5, <2>1, <2>2
<1> HIDE DEF T, lo, hi, N
<1>9. Unit * (N * lo) <= Unit * T /\ Unit * T < Unit * (N * hi)
  <2>1. N * lo \in Int /\ N * hi \in Int
    BY <1>1, <1>7
  <2> QED BY <1>1, <1>8, <2>1, Mono
<1>10. (Unit * N) * lo = Unit * (N * lo) /\ (Unit * N) * hi = Unit * (N * hi)
  BY <1>1, <1>7
<1>11. lo <= p /\ p < hi
  <2>1. Unit * N \in Nat \ {0} /\ Unit * T \in Int
    BY <1>1, <1>8, TimesIs
  <2>2. p = (Unit * T) \div (Unit * N)
    BY <1>3, <1>6
  <2> QED BY <1>7, <1>9, <1>10, <2>1, <2>2, DivIn
<1>12. p \in Int
  BY <1>2, MappingIsInside DEF Inside, Mapping
<1>13. g + d <= p \div s /\ p \div s < g + d + 1 /\ p \div s \in Int
  <2>1. g + d \in Int /\ g + d + 1 \in Int
    BY <1>1
  <2>2. s * (g + d) <= p /\ p < s * (g + d + 1)
    BY <1>11 DEF lo, hi
  <2> QED BY <1>12, <2>1, <2>2, DivIn, DivBounds
<1> QED BY <1>1, <1>2, <1>13

---------------------------------------------------------------------------
(* What a commit shows *)

LEMMA ClipIs ==
  ASSUME NEW span, span.x \in Int, span.w \in Int, NEW extent \in Int, Clip(span, extent) # Unset
  PROVE  /\ Clip(span, extent).x \in Nat /\ Clip(span, extent).w \in Nat \ {0}
         /\ Clip(span, extent).x + Clip(span, extent).w <= extent
         /\ Clip(span, extent).x = IF span.x < 0 THEN 0 ELSE span.x
         /\ span.x >= 0 =>
              \/ Clip(span, extent).w = span.w
              \/ Clip(span, extent).w = extent - span.x
<1> DEFINE lo == IF span.x < 0 THEN 0 ELSE span.x
           hi == IF span.x + span.w > extent THEN extent ELSE span.x + span.w
<1>1. /\ ~(lo >= extent) /\ ~(hi <= lo)
      /\ Clip(span, extent).x = lo /\ Clip(span, extent).w = hi - lo
  BY DEF Clip
<1> QED BY <1>1

LEMMA ExtentTypeOK ==
  ASSUME NEW extent \in Nat, NEW scale \in Nat
  PROVE  LogicalExtent(extent, scale) \in Nat
<1>1. Unit \in Nat \ {0}
  BY ViewportAssumption
<1>2. CASE scale <= 1
  <2>1. (2 * extent + Unit) \div (2 * Unit) \in Int /\ 2 * Unit \in Nat \ {0}
        /\ 2 * extent + Unit \in Int /\ (2 * Unit) * 0 <= 2 * extent + Unit
    BY <1>1, DivBounds
  <2>2. 0 <= (2 * extent + Unit) \div (2 * Unit)
    BY <2>1, DivIn
  <2> QED BY <1>2, <2>1, <2>2 DEF LogicalExtent
<1>3. CASE ~(scale <= 1)
  <2> DEFINE a == 2 * extent + scale * Unit
             D == 2 * scale * Unit
  <2>1. a \in Int /\ D \in Nat \ {0}
    <3>1. scale \in Nat \ {0} /\ 2 * scale \in Nat \ {0}
      BY <1>3
    <3> QED BY <1>1, <3>1, TimesIs
  <2>2. a \div D \in Int
    <3> HIDE DEF a, D
    <3> QED BY <2>1, DivBounds
  <2>3. LogicalExtent(extent, scale) = IF a \div D > 0 THEN a \div D ELSE 1
    BY <1>3 DEF LogicalExtent
  <2> HIDE DEF a, D
  <2> QED BY <2>2, <2>3
<1> QED BY <1>2, <1>3

\* The parts of Mapped
WholeOf(width) == IF source # Unset THEN Clip(source, width * Unit) ELSE [x |-> 0, w |-> width * Unit]
GeometrySpan == [x |-> window_geometry.x * (EffectiveScale * Unit),
                 w |-> window_geometry.w * (EffectiveScale * Unit)]
PartOf(width) == IF GeometryCrop /\ source = Unset /\ destination = Unset
                 THEN Clip(GeometrySpan, width * Unit) ELSE WholeOf(width)
SizeOf(width) == IF destination # Unset THEN destination
                 ELSE LogicalExtent(PartOf(width).w, IF LogicalContent THEN EffectiveScale ELSE 1)

LEMMA MappedIs ==
  ASSUME NEW width
  PROVE  Mapped(width) = IF WholeOf(width) = Unset \/ PartOf(width) = Unset THEN Unset
                         ELSE IF SizeOf(width) = 0 THEN Unset
                         ELSE [x |-> PartOf(width).x, w |-> PartOf(width).w, size |-> SizeOf(width),
                               of |-> width]
BY DEF Mapped, WholeOf, GeometrySpan, PartOf, SizeOf

LEMMA ScaleIs ==
  ASSUME ViewportsInv
  PROVE  EffectiveScale \in Nat \ {0} /\ EffectiveScale * Unit \in Nat \ {0}
<1>1. EffectiveScale \in Nat \ {0}
  BY ViewportAssumption DEF ViewportsInv, ViewportsTypeOK, EffectiveScale
<1> QED BY <1>1, TimesIs, ViewportAssumption

LEMMA GeometryIs ==
  ASSUME ViewportsInv, window_geometry # Unset
  PROVE  /\ window_geometry.x \in Int /\ window_geometry.w \in Int
         /\ GeometrySpan.x = window_geometry.x * (EffectiveScale * Unit) /\ GeometrySpan.x \in Int
         /\ GeometrySpan.w = window_geometry.w * (EffectiveScale * Unit) /\ GeometrySpan.w \in Int
<1>1. window_geometry.x \in Int /\ window_geometry.w \in Int
  BY ViewportAssumption DEF ViewportsInv, ViewportsTypeOK, Span
<1> QED BY <1>1, ScaleIs DEF GeometrySpan

LEMMA PartIs ==
  ASSUME ViewportsInv, NEW width \in Width, WholeOf(width) # Unset, PartOf(width) # Unset
  PROVE  /\ PartOf(width).x \in Nat /\ PartOf(width).w \in Nat \ {0}
         /\ PartOf(width).x + PartOf(width).w <= width * Unit
<1>1. width * Unit \in Nat \ {0}
  BY ViewportAssumption, TimesIs
<1>2. CASE GeometryCrop /\ source = Unset /\ destination = Unset
  <2>1. window_geometry # Unset /\ PartOf(width) = Clip(GeometrySpan, width * Unit)
    BY <1>2 DEF GeometryCrop, PartOf
  <2> QED BY <1>1, <2>1, GeometryIs, ClipIs
<1>3. CASE ~(GeometryCrop /\ source = Unset /\ destination = Unset)
  <2>1. PartOf(width) = WholeOf(width)
    BY <1>3 DEF PartOf
  <2>2. CASE source # Unset
    <3>1. source.x \in Int /\ source.w \in Int /\ PartOf(width) = Clip(source, width * Unit)
      BY <2>1, <2>2, ViewportAssumption DEF ViewportsInv, ViewportsTypeOK, Span, WholeOf
    <3> QED BY <1>1, <3>1, ClipIs
  <2>3. CASE source = Unset
    <3>1. PartOf(width) = [x |-> 0, w |-> width * Unit]
      BY <2>1, <2>3 DEF WholeOf
    <3> QED BY <1>1, <3>1
  <2> QED BY <2>2, <2>3
<1> QED BY <1>2, <1>3

LEMMA MappedIsAMapping ==
  ASSUME ViewportsInv, NEW width \in Width, Mapped(width) # Unset
  PROVE  /\ Mapped(width) \in Mapping
         /\ Mapped(width).x + Mapped(width).w <= Mapped(width).of * Unit
         /\ Mapped(width) = [x |-> PartOf(width).x, w |-> PartOf(width).w, size |-> SizeOf(width),
                             of |-> width]
<1>1. /\ WholeOf(width) # Unset /\ PartOf(width) # Unset /\ SizeOf(width) # 0
      /\ Mapped(width) = [x |-> PartOf(width).x, w |-> PartOf(width).w, size |-> SizeOf(width),
                          of |-> width]
  BY MappedIs
<1>2. /\ PartOf(width).x \in Nat /\ PartOf(width).w \in Nat \ {0}
      /\ PartOf(width).x + PartOf(width).w <= width * Unit
  BY <1>1, PartIs
<1>3. SizeOf(width) \in Nat \ {0}
  <2>1. CASE destination # Unset
    <3>1. destination \in Int /\ destination > 0
      BY <2>1, ViewportAssumption DEF ViewportsInv, ViewportsTypeOK
    <3>2. SizeOf(width) = destination
      BY <2>1 DEF SizeOf
    <3> QED BY <3>1, <3>2
  <2>2. CASE destination = Unset
    <3> DEFINE scale == IF LogicalContent THEN EffectiveScale ELSE 1
               w == PartOf(width).w
    <3>1. SizeOf(width) = LogicalExtent(w, scale) /\ scale \in Nat /\ w \in Nat
      BY <1>2, <2>2, ScaleIs DEF SizeOf
    <3> HIDE DEF scale, w
    <3>2. SizeOf(width) \in Nat
      BY <3>1, ExtentTypeOK
    <3> QED BY <1>1, <3>2
  <2> QED BY <2>1, <2>2
<1> QED BY <1>1, <1>2, <1>3, ViewportAssumption DEF Mapping

---------------------------------------------------------------------------
\* What is shown when neither source nor destination is set: k pixels of the buffer, from where
\* the geometry starts if it counts.
LEMMA PlainIs ==
  ASSUME ViewportsInv, NEW width \in Width, Mapped(width) # Unset,
         source = Unset, destination = Unset, window_geometry # Unset => window_geometry.x >= 0
  PROVE  \E k \in Nat \ {0} :
           /\ Mapped(width).w = k * Unit
           /\ Nearly(Mapped(width).size, k, IF LogicalContent THEN EffectiveScale ELSE 1)
           /\ Mapped(width).x = IF GeometryCrop THEN window_geometry.x * EffectiveScale * Unit ELSE 0
<1> DEFINE scale == IF LogicalContent THEN EffectiveScale ELSE 1
           s == EffectiveScale
           g == window_geometry
<1>1. /\ Mapped(width).x = PartOf(width).x /\ Mapped(width).w = PartOf(width).w
      /\ Mapped(width).size = SizeOf(width) /\ WholeOf(width) # Unset /\ PartOf(width) # Unset
  BY MappedIsAMapping, MappedIs
<1>2. /\ PartOf(width).w \in Nat \ {0} /\ width \in Nat \ {0} /\ Unit \in Nat \ {0}
      /\ s \in Nat \ {0} /\ scale \in Nat \ {0}
  BY <1>1, PartIs, ScaleIs, ViewportAssumption
<1>3. SizeOf(width) = LogicalExtent(PartOf(width).w, scale)
  BY DEF SizeOf
<1> HIDE DEF scale
<1>4. \E k \in Int : /\ PartOf(width).w = k * Unit
                     /\ PartOf(width).x = IF GeometryCrop THEN g.x * s * Unit ELSE 0
  <2>1. CASE GeometryCrop
    <3>1. g # Unset /\ PartOf(width) = Clip(GeometrySpan, width * Unit)
      BY <2>1 DEF GeometryCrop, PartOf
    <3>2. g.x \in Nat /\ g.w \in Int /\ GeometrySpan.x = g.x * (s * Unit)
          /\ GeometrySpan.w = g.w * (s * Unit)
      BY <3>1, GeometryIs
    <3> HIDE DEF g, s
    <3>3. GeometrySpan.x = g.x * s * Unit /\ GeometrySpan.w = g.w * s * Unit
      BY <1>2, <3>2
    <3>4. GeometrySpan.x \in Nat /\ GeometrySpan.w \in Int /\ width * Unit \in Int
      BY <1>2, <3>2
    <3>5. /\ PartOf(width).x = GeometrySpan.x
          /\ PartOf(width).w = GeometrySpan.w \/ PartOf(width).w = width * Unit - GeometrySpan.x
      BY <1>1, <3>1, <3>4, ClipIs
    <3>6. CASE PartOf(width).w = GeometrySpan.w
      <4>1. g.w * s \in Int /\ PartOf(width).w = (g.w * s) * Unit
        BY <1>2, <3>2, <3>3, <3>6
      <4> QED BY <2>1, <3>3, <3>5, <4>1
    <3>7. CASE PartOf(width).w = width * Unit - GeometrySpan.x
      <4>1. width - g.x * s \in Int /\ (width - g.x * s) * Unit = width * Unit - g.x * s * Unit
        BY <1>2, <3>2
      <4>2. PartOf(width).w = (width - g.x * s) * Unit
        BY <3>3, <3>7, <4>1
      <4> QED BY <2>1, <3>3, <3>5, <4>1, <4>2
    <3> QED BY <3>5, <3>6, <3>7
  <2>2. CASE ~GeometryCrop
    <3>1. PartOf(width) = [x |-> 0, w |-> width * Unit]
      BY <2>2 DEF PartOf, WholeOf
    <3> QED BY <1>2, <2>2, <3>1
  <2> QED BY <2>1, <2>2
<1>5. PICK k \in Int : /\ PartOf(width).w = k * Unit
                       /\ PartOf(width).x = IF GeometryCrop THEN g.x * s * Unit ELSE 0
  BY <1>4
<1>6. k \in Nat \ {0}
  <2>1. Unit * 0 < Unit * k
    BY <1>2, <1>5
  <2>2. 0 < k
    BY <1>2, <2>1, Mono
  <2> QED BY <2>2
<1>7. Nearly(SizeOf(width), k, scale)
  BY <1>2, <1>3, <1>5, <1>6, ExtentIs
<1> QED BY <1>1, <1>5, <1>6, <1>7 DEF scale

\* Without a viewport a pointer is told the coordinate of the pixel it is over.
LEMMA NearestIsHit ==
  ASSUME ViewportsInv, source = Unset, destination = Unset,
         window_geometry # Unset => window_geometry.x >= 0,
         NEW width \in Width, Mapped(width) # Unset,
         NEW d \in 0..(Mapped(width).size - 1)
  PROVE  PointerAt(d) - (Nearest(Mapped(width), d) \div EffectiveScale) \in -1..1
<1> DEFINE m == Mapped(width)
           s == EffectiveScale
           p == Nearest(m, d)
<1>1. m \in Mapping /\ m.x + m.w <= m.of * Unit
  BY MappedIsAMapping
<1>2. PICK k \in Nat \ {0} :
        /\ m.w = k * Unit
        /\ Nearly(m.size, k, IF LogicalContent THEN s ELSE 1)
        /\ m.x = IF GeometryCrop THEN window_geometry.x * s * Unit ELSE 0
  BY PlainIs
<1>3. s \in Nat \ {0} /\ Unit \in Nat \ {0}
  BY ScaleIs, ViewportAssumption
<1>4. d \in 0..(m.size - 1) /\ d \in Nat
  BY <1>1 DEF Mapping
<1> HIDE DEF m
<1>5. CASE LogicalContent /\ GeometryCrop
  <2> DEFINE g == window_geometry.x
  <2>1. g \in Nat
    BY <1>5, GeometryIs DEF GeometryCrop
  <2>2. Shows(m, k, s, g)
    BY <1>2, <1>5 DEF Shows
  <2>3. PointerAt(d) = d + g
    BY <1>5 DEF PointerAt
  <2> HIDE DEF s, g
  <2>4. p \div s = g + d
    BY <1>1, <1>3, <1>4, <2>1, <2>2, PointerIs
  <2> HIDE DEF p
  <2> QED BY <1>4, <2>1, <2>3, <2>4 DEF m, p, s
<1>6. CASE LogicalContent /\ ~GeometryCrop
  <2>1. Shows(m, k, s, 0)
    BY <1>2, <1>3, <1>6 DEF Shows
  <2>2. p \div s = 0 + d
    BY <1>1, <1>3, <1>4, <2>1, PointerIs
  <2>3. PointerAt(d) = d
    BY <1>6 DEF PointerAt
  <2> HIDE DEF p, s
  <2> QED BY <1>4, <2>2, <2>3 DEF m, p, s
<1>7. CASE ~LogicalContent
  <2>1. ~GeometryCrop
    BY <1>7 DEF GeometryCrop
  <2>2. Shows(m, k, 1, 0)
    BY <1>2, <1>3, <1>7, <2>1 DEF Shows
  <2>3. p \div 1 = 0 + d
    BY <1>1, <1>3, <1>4, <2>2, PointerIs
  <2>4. p \in Int
    BY <1>1, <1>4, MappingIsInside DEF Inside, Mapping
  <2> HIDE DEF p
  <2>5. p = d
    BY <1>4, <2>3, <2>4
  <2>6. PointerAt(d) = IF buffer_scale > 1 THEN d \div buffer_scale ELSE d
    BY <1>7 DEF PointerAt
  <2>7. buffer_scale \in Nat
    BY ViewportAssumption DEF ViewportsInv, ViewportsTypeOK
  <2>8. PointerAt(d) = d \div s
    <3>1. CASE buffer_scale > 1
      BY <2>6, <2>7, <3>1 DEF EffectiveScale
    <3>2. CASE ~(buffer_scale > 1)
      <4>1. s = 1
        BY <2>7, <3>2 DEF EffectiveScale
      <4> QED BY <1>4, <2>6, <3>2, <4>1
    <3> QED BY <3>1, <3>2
  <2>9. d \div s \in Int
    <3> HIDE DEF s
    <3> QED BY <1>3, <1>4, DivBounds
  <2> DEFINE v == d \div s
  <2>10. PointerAt(d) = v /\ p \div s = v /\ v \in Int
    BY <2>5, <2>8, <2>9
  <2> HIDE DEF v, s
  <2> QED BY <2>10 DEF m, p, s
<1> QED BY <1>5, <1>6, <1>7

LEMMA PointerHits == ViewportsInv => PointerHitsPixel
<1> SUFFICES ASSUME ViewportsInv, source = Unset, destination = Unset,
                    window_geometry # Unset => window_geometry.x >= 0,
                    NEW width \in Width, Mapped(width) # Unset,
                    NEW d \in 0..(Mapped(width).size - 1)
             PROVE  \A p \in Fetched(Mapped(width), d, 4) :
                      PointerAt(d) - (p \div EffectiveScale) \in -1..1
  BY DEF PointerHitsPixel
<1>1. Nearest(Mapped(width), d) \in Nat
  BY MappedIsAMapping, MappingIsInside DEF Inside, Mapping
<1> QED BY <1>1, FetchedIs, NearestIsHit

LEMMA ViewportsStart == ViewportsInit => ViewportsInv
BY ViewportAssumption DEF ViewportsInit, shownVars, ViewportsInv, ViewportsTypeOK, SourceHasViewport

LEMMA CommitKeeps ==
  ASSUME ViewportsInv, NEW width \in Width, NEW n \in {2, 4}, CommitMapped(width, n)
  PROVE  ViewportsInv'
<1>1. /\ shown' = IF Mapped(width) = Unset THEN shown ELSE Mapped(width)
      /\ bytes' \in {2, 4} /\ viewport_resource' = viewport_resource /\ source' = source /\ destination' = destination
      /\ window_geometry' = window_geometry /\ is_toplevel' = is_toplevel
      /\ fullscreen' = fullscreen /\ buffer_scale' = buffer_scale
  BY DEF CommitMapped, settings, shownVars, ViewportsInv, ViewportsTypeOK
<1>2. shown' \in Mapping \cup {Unset} /\ (shown' # Unset => shown'.x + shown'.w <= shown'.of * Unit)
  <2>1. CASE Mapped(width) = Unset
    BY <1>1, <2>1 DEF ViewportsInv, ViewportsTypeOK
  <2>2. CASE Mapped(width) # Unset
    BY <1>1, <2>2, MappedIsAMapping
  <2> QED BY <2>1, <2>2
<1> QED BY <1>1, <1>2 DEF shownVars, ViewportsInv, ViewportsTypeOK, SourceHasViewport

LEMMA ViewportsStep == ViewportsInv /\ [ViewportsNext]_viewportVars => ViewportsInv'
<1> SUFFICES ASSUME ViewportsInv, [ViewportsNext]_viewportVars PROVE ViewportsInv'
  OBVIOUS
<1>1. ASSUME NEW v \in Viewport, GetViewport(v) PROVE ViewportsInv'
  BY <1>1, ViewportAssumption
  DEF GetViewport, settings, shownVars, ViewportsInv, ViewportsTypeOK, SourceHasViewport
<1>2. ASSUME NEW x \in Origin, NEW w \in Extent, SetSource(x, w) PROVE ViewportsInv'
  BY <1>2 DEF SetSource, shownVars, ViewportsInv, ViewportsTypeOK, SourceHasViewport, Span
<1>3. ASSUME NEW x \in Origin, NEW w \in Extent, SetWindowGeometry(x, w) PROVE ViewportsInv'
  BY <1>3 DEF SetWindowGeometry, shownVars, ViewportsInv, ViewportsTypeOK, SourceHasViewport, Span
<1>4. ASSUME NEW w \in Extent, SetDestination(w) PROVE ViewportsInv'
  BY <1>4 DEF SetDestination, shownVars, ViewportsInv, ViewportsTypeOK, SourceHasViewport
<1>5. CASE DestroyViewport
  BY <1>5 DEF DestroyViewport, shownVars, ViewportsInv, ViewportsTypeOK, SourceHasViewport
<1>6. CASE ToggleFullscreen
  BY <1>6 DEF ToggleFullscreen, shownVars, ViewportsInv, ViewportsTypeOK, SourceHasViewport
<1>7. ASSUME NEW scale \in Scale, SetBufferScale(scale) PROVE ViewportsInv'
  BY <1>7 DEF SetBufferScale, shownVars, ViewportsInv, ViewportsTypeOK, SourceHasViewport
<1>8. ASSUME NEW width \in Width, NEW n \in {2, 4}, CommitMapped(width, n) PROVE ViewportsInv'
  BY <1>8, CommitKeeps
<1>9. CASE UNCHANGED viewportVars
  BY <1>9 DEF viewportVars, shownVars, ViewportsInv, ViewportsTypeOK, SourceHasViewport
<1> QED BY <1>1, <1>2, <1>3, <1>4, <1>5, <1>6, <1>7, <1>8, <1>9 DEF ViewportsNext

(***************************************************************************)
(* Of buffers with four bytes a pixel, the pixels copied to the window are *)
(* of the part meant, and a pointer on a pixel is reported where that      *)
(* pixel came from, for geometries, viewports and scales of any size.      *)
(***************************************************************************)
THEOREM PixelsComeFromTheBuffer == ViewportsSpec => []ViewportsOK
<1>1. ViewportsInv => ViewportsOK
  <2> SUFFICES ASSUME ViewportsInv PROVE ViewportsOK
    OBVIOUS
  <2>1. CopiesStayInside
    <3> SUFFICES ASSUME shown # Unset, bytes = 4, NEW d \in 0..(shown.size - 1)
                 PROVE  Inside(shown) /\ Fetched(shown, d, bytes) = {Nearest(shown, d)}
      BY DEF CopiesStayInside, Inside
    <3>1. shown \in Mapping /\ shown.x + shown.w <= shown.of * Unit
      BY DEF ViewportsInv, ViewportsTypeOK
    <3>2. Inside(shown)
      BY <3>1, MappingIsInside
    <3>3. Nearest(shown, d) \in Nat
      BY <3>1, <3>2 DEF Inside, Mapping
    <3> QED BY <3>2, <3>3, FetchedIs
  <2> QED BY <2>1, PointerHits DEF ViewportsInv, ViewportsOK
<1> QED BY <1>1, ViewportsStart, ViewportsStep, PTL DEF ViewportsSpec

---------------------------------------------------------------------------
(***************************************************************************)
(* Regions: a region is the set of points its operations leave, and Plexy  *)
(* has that set.                                                           *)
(***************************************************************************)

\* What Plexy has been told of a window is what the surface has now, at the scale of then.
ToldIsCurrent ==
  has_window =>
    plexy_region = IF role = "toplevel" \/ input_region = NoRegion THEN NoRegion
                   ELSE Physical(input_region, told_scale)

RegionsInv ==
  /\ ops \in [Region -> Seq(Op) \cup {NoRegion}]
  /\ \A r \in Region : ops[r] # NoRegion => Len(ops[r]) <= MaxOps
  /\ input_region \in Seq(Op) \cup {NoRegion}
  /\ role \in {"toplevel", "popup", "subsurface"} /\ has_window \in BOOLEAN
  /\ output_scale \in OutputScale /\ told_scale \in OutputScale
  /\ plexy_region \in Seq(Op) \cup {NoRegion}
  /\ ToldIsCurrent

---------------------------------------------------------------------------
(* The last rectangle that holds a point, and the set they build *)

BuiltFrom(f, s, N) ==
  f = [n \in 0..N |-> IF n = 0 THEN {}
                      ELSE IF s[n].add THEN f[n - 1] \cup (s[n].x..(s[n].x + s[n].w - 1))
                      ELSE f[n - 1] \ (s[n].x..(s[n].x + s[n].w - 1))]

LEMMA BuiltExists ==
  ASSUME NEW s
  PROVE  \A N \in Nat : \E f : BuiltFrom(f, s, N)
<1> DEFINE P == {N \in Nat : \E f : BuiltFrom(f, s, N)}
<1>1. 0 \in P
  <2>1. BuiltFrom([n \in 0..0 |-> {}], s, 0)
    BY DEF BuiltFrom
  <2> QED BY <2>1
<1>2. ASSUME NEW N \in Nat, N \in P PROVE N + 1 \in P
  <2>1. PICK f : BuiltFrom(f, s, N)
    BY <1>2
  <2> DEFINE span == s[N + 1].x..(s[N + 1].x + s[N + 1].w - 1)
             last == IF s[N + 1].add THEN f[N] \cup span ELSE f[N] \ span
             g == [n \in 0..(N + 1) |-> IF n = N + 1 THEN last ELSE f[n]]
  <2>2. ASSUME NEW n \in 0..(N + 1)
        PROVE  g[n] = IF n = 0 THEN {}
                      ELSE IF s[n].add THEN g[n - 1] \cup (s[n].x..(s[n].x + s[n].w - 1))
                      ELSE g[n - 1] \ (s[n].x..(s[n].x + s[n].w - 1))
    <3>1. CASE n = N + 1
      <4>1. g[n] = last /\ g[n - 1] = f[N] /\ n # 0
        BY <3>1
      <4> QED BY <3>1, <4>1
    <3>2. CASE n # N + 1
      <4>1. n \in 0..N /\ g[n] = f[n] /\ (n # 0 => g[n - 1] = f[n - 1])
        BY <3>2
      <4> QED BY <2>1, <4>1 DEF BuiltFrom
    <3> QED BY <3>1, <3>2
  <2>3. BuiltFrom(g, s, N + 1)
    BY <2>2 DEF BuiltFrom
  <2> QED BY <2>3
<1> HIDE DEF P
<1>3. \A N \in Nat : N \in P
  BY <1>1, <1>2, Counting
<1> QED BY <1>3 DEF P

\* i is the last of the first n rectangles that hold p.
LastHit(s, p, n, i) ==
  /\ i \in 1..n /\ InRect(s[i], p)
  /\ \A j \in 1..n : InRect(s[j], p) => j <= i

\* One rectangle more decides, if it holds the point.
LEMMA OneMore ==
  ASSUME NEW s, NEW p, NEW n \in Nat
  PROVE  /\ InRect(s[n + 1], p) => \A i : LastHit(s, p, n + 1, i) <=> i = n + 1
         /\ ~InRect(s[n + 1], p) => \A i : LastHit(s, p, n + 1, i) <=> LastHit(s, p, n, i)
<1>1. \A i : i \in 1..(n + 1) <=> i \in 1..n \/ i = n + 1
  OBVIOUS
<1>2. \A j \in 1..n : j <= n + 1 /\ ~(n + 1 <= j)
  OBVIOUS
<1> QED BY <1>1, <1>2 DEF LastHit

\* If one holds the point, one is the last.
LEMMA LastExists ==
  ASSUME NEW s, NEW p
  PROVE  \A n \in Nat : (\E j \in 1..n : InRect(s[j], p)) => \E i : LastHit(s, p, n, i)
<1> DEFINE P == {n \in Nat : (\E j \in 1..n : InRect(s[j], p)) => \E i : LastHit(s, p, n, i)}
<1>1. 0 \in P
  OBVIOUS
<1>2. ASSUME NEW n \in Nat, n \in P PROVE n + 1 \in P
  <2>1. CASE InRect(s[n + 1], p)
    BY <2>1, OneMore
  <2>2. CASE ~InRect(s[n + 1], p)
    <3>1. \A j \in 1..(n + 1) : j \in 1..n \/ j = n + 1
      OBVIOUS
    <3> QED BY <1>2, <2>2, <3>1, OneMore
  <2> QED BY <2>1, <2>2
<1> HIDE DEF P
<1>3. \A n \in Nat : n \in P
  BY <1>1, <1>2, Counting
<1> QED BY <1>3 DEF P

\* The point is in the set the rectangles build if the last of them that holds it was added.
LEMMA LastDecides ==
  ASSUME NEW s \in Seq(Op), NEW p \in Int
  PROVE  p \in SetOf(s) <=> \E i : LastHit(s, p, Len(s), i) /\ s[i].add
<1> DEFINE N == Len(s)
           f == CHOOSE g : BuiltFrom(g, s, N)
<1>1. N \in Nat /\ \A i \in 1..N : s[i] \in Op
  OBVIOUS
<1>2. SetOf(s) = f[N]
  BY DEF SetOf, BuiltFrom
<1>3. BuiltFrom(f, s, N)
  BY <1>1, BuiltExists
<1> HIDE DEF f, N
<1>4. /\ f[0] = {}
      /\ \A n \in 0..N : n # 0 =>
           f[n] = IF s[n].add THEN f[n - 1] \cup (s[n].x..(s[n].x + s[n].w - 1))
                  ELSE f[n - 1] \ (s[n].x..(s[n].x + s[n].w - 1))
  BY <1>1, <1>3 DEF BuiltFrom
<1> DEFINE P == {n \in Nat : n <= N => (p \in f[n] <=> \E i : LastHit(s, p, n, i) /\ s[i].add)}
<1>5. 0 \in P
  BY <1>4 DEF LastHit
<1>6. ASSUME NEW n \in Nat, n \in P PROVE n + 1 \in P
  <2> SUFFICES ASSUME n + 1 <= N
               PROVE  p \in f[n + 1] <=> \E i : LastHit(s, p, n + 1, i) /\ s[i].add
    OBVIOUS
  <2>1. /\ n + 1 \in 0..N /\ n + 1 \in 1..N /\ n + 1 # 0 /\ (n + 1) - 1 = n
        /\ p \in f[n] <=> \E i : LastHit(s, p, n, i) /\ s[i].add
    BY <1>1, <1>6
  <2> DEFINE o == s[n + 1]
  <2>2. f[n + 1] = IF o.add THEN f[n] \cup (o.x..(o.x + o.w - 1)) ELSE f[n] \ (o.x..(o.x + o.w - 1))
    BY <1>4, <2>1
  <2>3. o.x \in Int /\ o.w \in Nat
    BY <1>1, <2>1 DEF Op
  <2>4. p \in o.x..(o.x + o.w - 1) <=> InRect(o, p)
    BY <2>3 DEF InRect
  <2>5. p \in f[n + 1] <=> IF InRect(o, p) THEN o.add ELSE p \in f[n]
    BY <2>2, <2>4
  <2>6. CASE InRect(o, p)
    BY <2>5, <2>6, OneMore
  <2>7. CASE ~InRect(o, p)
    BY <2>1, <2>5, <2>7, OneMore
  <2> QED BY <2>6, <2>7
<1> HIDE DEF P
<1>7. N \in P
  BY <1>1, <1>5, <1>6, Counting
<1> QED BY <1>1, <1>2, <1>7 DEF P, N

\* The scan and the set agree on every point.
LEMMA ScanIsSet ==
  ASSUME NEW s \in Seq(Op), NEW p \in Int
  PROVE  ContainsPoint(s, p) <=> p \in SetOf(s)
<1> DEFINE hits == {i \in DOMAIN s : InRect(s[i], p)}
           last == CHOOSE i \in hits : \A j \in hits : j <= i
<1>1. DOMAIN s = 1..Len(s) /\ Len(s) \in Nat
  OBVIOUS
<1>2. \A i : LastHit(s, p, Len(s), i) <=> i \in hits /\ \A j \in hits : j <= i
  BY <1>1 DEF LastHit
<1>3. hits # {} => \E i : LastHit(s, p, Len(s), i)
  BY <1>1, LastExists
<1>4. \A i, j : LastHit(s, p, Len(s), i) /\ LastHit(s, p, Len(s), j) => i = j
  BY <1>1 DEF LastHit
<1>5. hits # {} => LastHit(s, p, Len(s), last)
  BY <1>2, <1>3
<1>6. hits = {} => ~\E i : LastHit(s, p, Len(s), i)
  BY <1>2
<1>7. ContainsPoint(s, p) <=> hits # {} /\ s[last].add
  BY DEF ContainsPoint
<1> HIDE DEF hits, last
<1>8. p \in SetOf(s) <=> \E i : LastHit(s, p, Len(s), i) /\ s[i].add
  BY LastDecides
<1> QED BY <1>4, <1>5, <1>6, <1>7, <1>8

---------------------------------------------------------------------------
(* The spans Plexy is told *)

LEMMA ProductIs ==
  ASSUME NEW a \in Nat, NEW b \in Nat
  PROVE  a * b \in Nat
OBVIOUS

LEMMA PhysicalIs ==
  ASSUME NEW s \in Seq(Op), NEW scale \in Nat
  PROVE  /\ Physical(s, scale) \in Seq(Op) /\ DOMAIN Physical(s, scale) = DOMAIN s
         /\ \A i \in DOMAIN s :
              Physical(s, scale)[i] = [add |-> s[i].add, x |-> Truncated(s[i].x * scale),
                                       w |-> (s[i].w * scale + 1) \div 2]
<1>1. DOMAIN s = 1..Len(s) /\ Len(s) \in Nat /\ \A i \in 1..Len(s) : s[i] \in Op
  OBVIOUS
<1>2. ASSUME NEW i \in 1..Len(s)
      PROVE  [add |-> s[i].add, x |-> Truncated(s[i].x * scale),
              w |-> (s[i].w * scale + 1) \div 2] \in Op
  <2>1. s[i].add \in BOOLEAN /\ s[i].x \in Int /\ s[i].w \in Nat
    BY <1>1 DEF Op
  <2> DEFINE v == s[i].x * scale
             u == s[i].w * scale
  <2>2. v \in Int /\ u \in Nat
    BY <2>1, ProductIs
  <2> HIDE DEF u, v
  <2>3. Truncated(v) \in Int /\ (u + 1) \div 2 \in Nat
    BY <2>2 DEF Truncated
  <2> QED BY <2>1, <2>3 DEF Op, u, v
<1>3. Physical(s, scale) \in Seq(Op)
  BY <1>1, <1>2 DEF Physical
<1> QED BY <1>3 DEF Physical

LEMMA HalvesAre ==
  ASSUME NEW x \in Int, NEW w \in Nat
  PROVE  Truncated(x * 2) = x /\ (w * 2 + 1) \div 2 = w
<1>1. \A n \in Int : (2 * n) \div 2 = n /\ (2 * n + 1) \div 2 = n
  OBVIOUS
<1>2. x * 2 = 2 * x /\ w * 2 = 2 * w /\ -(2 * x) = 2 * (-x)
  OBVIOUS
<1>3. CASE 2 * x >= 0
  BY <1>1, <1>2, <1>3 DEF Truncated
<1>4. CASE ~(2 * x >= 0)
  <2>1. -((2 * (-x)) \div 2) = x
    BY <1>1
  <2> QED BY <1>1, <1>2, <1>4, <2>1 DEF Truncated
<1> QED BY <1>3, <1>4

\* At the scale of one they are those of the region.
LEMMA SameAtOne ==
  ASSUME NEW s \in Seq(Op)
  PROVE  Physical(s, 2) = s
<1> DEFINE r == Physical(s, 2)
<1>1. /\ r \in Seq(Op) /\ DOMAIN r = DOMAIN s
      /\ \A i \in DOMAIN s : r[i] = [add |-> s[i].add, x |-> Truncated(s[i].x * 2),
                                     w |-> (s[i].w * 2 + 1) \div 2]
  BY PhysicalIs
<1> HIDE DEF r
<1>2. DOMAIN s = 1..Len(s) /\ Len(s) \in Nat /\ \A i \in 1..Len(s) : s[i] \in Op
  OBVIOUS
<1>3. ASSUME NEW i \in DOMAIN s PROVE r[i] = s[i]
  <2>1. s[i] \in Op
    BY <1>2, <1>3
  <2>2. s[i].x \in Int /\ s[i].w \in Nat
    BY <2>1 DEF Op
  <2>3. Truncated(s[i].x * 2) = s[i].x /\ (s[i].w * 2 + 1) \div 2 = s[i].w
    BY <2>2, HalvesAre
  <2> QED BY <1>1, <2>1, <2>3 DEF Op
<1>4. DOMAIN r = 1..Len(r) /\ Len(r) \in Nat /\ Len(r) = Len(s)
  BY <1>1, <1>2
<1>5. s \in [1..Len(s) -> Op] /\ r \in [1..Len(s) -> Op]
  BY <1>1, <1>4, LenProperties
<1>6. r = s
  BY <1>2, <1>3, <1>5
<1> QED BY <1>6 DEF r

\* Their edges are near.
LEMMA EdgesStayNear ==
  ASSUME NEW x \in Int, NEW w \in Nat, NEW scale \in Nat
  PROVE  /\ 2 * Truncated(x * scale) - x * scale \in -1..1
         /\ 2 * (Truncated(x * scale) + (w * scale + 1) \div 2) - (x + w) * scale \in -2..2
<1> DEFINE v == x * scale
           u == w * scale
<1>1. v \in Int /\ u \in Nat /\ (x + w) * scale = v + u
  BY ProductIs
<1> HIDE DEF u, v
<1>2. 2 * Truncated(v) - v \in -1..1 /\ Truncated(v) \in Int
  BY <1>1 DEF Truncated
<1>3. 2 * ((u + 1) \div 2) - u \in 0..1 /\ (u + 1) \div 2 \in Int
  BY <1>1
<1>4. 2 * (Truncated(v) + (u + 1) \div 2) - (v + u) \in -2..2
  BY <1>1, <1>2, <1>3
<1> QED BY <1>1, <1>2, <1>4 DEF u, v

---------------------------------------------------------------------------
LEMMA SyncTells ==
  ASSUME RegionsInv, NEW region \in Seq(Op) \cup {NoRegion}, NEW window \in BOOLEAN,
         SyncRegion(region, window), input_region' = region, role' = role, has_window' = window,
         output_scale' = output_scale
  PROVE  /\ ToldIsCurrent' /\ told_scale' \in OutputScale
         /\ plexy_region' \in Seq(Op) \cup {NoRegion}
<1>1. CASE ~window
  BY <1>1 DEF SyncRegion, RegionsInv, ToldIsCurrent
<1>2. CASE window
  <2>1. /\ plexy_region' = IF role = "toplevel" \/ region = NoRegion THEN NoRegion
                           ELSE Physical(region, output_scale)
        /\ told_scale' = output_scale
    BY <1>2 DEF SyncRegion
  <2>2. output_scale \in Nat /\ output_scale \in OutputScale
    BY RegionAssumption DEF RegionsInv
  <2>3. ToldIsCurrent'
    BY <2>1 DEF ToldIsCurrent
  <2>4. region # NoRegion => Physical(region, output_scale) \in Seq(Op)
    BY <2>2, PhysicalIs
  <2> QED BY <2>1, <2>2, <2>3, <2>4
<1> QED BY <1>1, <1>2

LEMMA SetInputKeeps ==
  ASSUME RegionsInv, NEW region \in Seq(Op) \cup {NoRegion}, SetInputRegion(region)
  PROVE  RegionsInv'
<1>1. /\ input_region' = region /\ ops' = ops /\ role' = role /\ has_window' = has_window
      /\ output_scale' = output_scale /\ SyncRegion(region, has_window)
  BY DEF SetInputRegion
<1>2. has_window \in BOOLEAN
  BY DEF RegionsInv
<1>3. /\ ToldIsCurrent' /\ told_scale' \in OutputScale
      /\ plexy_region' \in Seq(Op) \cup {NoRegion}
  BY <1>1, <1>2, SyncTells
<1> QED BY <1>1, <1>3 DEF RegionsInv

LEMMA WindowKeeps ==
  ASSUME RegionsInv, CreateWindow
  PROVE  RegionsInv'
<1>1. /\ input_region' = input_region /\ ops' = ops /\ role' = role /\ has_window' = TRUE
      /\ output_scale' = output_scale /\ SyncRegion(input_region, TRUE)
  BY DEF CreateWindow
<1>2. /\ ToldIsCurrent' /\ told_scale' \in OutputScale
      /\ plexy_region' \in Seq(Op) \cup {NoRegion}
  BY <1>1, SyncTells DEF RegionsInv
<1> QED BY <1>1, <1>2 DEF RegionsInv

\* What the list of a region becomes
LEMMA OpsKeep ==
  ASSUME RegionsInv, NEW r \in Region, NEW s \in Seq(Op) \cup {NoRegion},
         s # NoRegion => Len(s) <= MaxOps, ops' = [ops EXCEPT ![r] = s],
         UNCHANGED <<input_region, role, has_window, output_scale, plexy_region, told_scale>>
  PROVE  RegionsInv'
<1>1. /\ ops' \in [Region -> Seq(Op) \cup {NoRegion}]
      /\ \A q \in Region : ops'[q] = IF q = r THEN s ELSE ops[q]
  BY DEF RegionsInv
<1>2. \A q \in Region : ops'[q] # NoRegion => Len(ops'[q]) <= MaxOps
  BY <1>1 DEF RegionsInv
<1>3. ToldIsCurrent'
  BY DEF RegionsInv, ToldIsCurrent
<1> QED BY <1>1, <1>2, <1>3 DEF RegionsInv

LEMMA AppendOpKeeps ==
  ASSUME RegionsInv, NEW r \in Region, NEW add \in BOOLEAN, NEW x \in RegionX,
         NEW w \in RegionWidth, AppendOp(r, add, x, w)
  PROVE  RegionsInv'
<1>1. x \in Int /\ w \in Int /\ MaxOps \in Nat
  BY RegionAssumption
<1>2. CASE w <= 0
  BY <1>2 DEF AppendOp, RegionsInv, ToldIsCurrent
<1>3. CASE ~(w <= 0)
  <2> DEFINE o == [add |-> add, x |-> x, w |-> w]
             q == ops[r]
  <2>1. o \in Op
    BY <1>1, <1>3 DEF Op
  <2>2. q \in Seq(Op) /\ Len(q) < MaxOps
    BY DEF AppendOp, RegionsInv
  <2>3. /\ ops' = [ops EXCEPT ![r] = Append(q, o)]
        /\ UNCHANGED <<input_region, role, has_window, output_scale, plexy_region, told_scale>>
    BY <1>3 DEF AppendOp
  <2> HIDE DEF o, q
  <2>4. Append(q, o) \in Seq(Op) /\ Len(Append(q, o)) = Len(q) + 1 /\ Len(q) \in Nat
    BY <2>1, <2>2, AppendIs
  <2>5. Len(Append(q, o)) <= MaxOps
    BY <1>1, <2>2, <2>4
  <2> QED BY <2>3, <2>4, <2>5, OpsKeep
<1> QED BY <1>1, <1>2, <1>3

LEMMA RegionsStart == RegionsInit => RegionsInv
BY RegionAssumption DEF RegionsInit, RegionsInv, ToldIsCurrent

LEMMA RegionsStep == RegionsInv /\ [RegionsNext]_regionVars => RegionsInv'
<1> SUFFICES ASSUME RegionsInv, [RegionsNext]_regionVars PROVE RegionsInv'
  OBVIOUS
<1>1. ASSUME NEW r \in Region, CreateRegion(r) PROVE RegionsInv'
  <2>1. <<>> \in Seq(Op) /\ Len(<<>>) <= MaxOps
    BY RegionAssumption
  <2> QED BY <1>1, <2>1, OpsKeep DEF CreateRegion
<1>2. ASSUME NEW r \in Region, DestroyRegion(r) PROVE RegionsInv'
  BY <1>2, OpsKeep DEF DestroyRegion
<1>3. ASSUME NEW r \in Region, ops[r] # NoRegion, SetInputRegion(ops[r]) PROVE RegionsInv'
  <2>1. ops[r] \in Seq(Op) \cup {NoRegion}
    BY DEF RegionsInv
  <2> QED BY <1>3, <2>1, SetInputKeeps
<1>4. ASSUME NEW r \in Region, NEW add \in BOOLEAN, NEW x \in RegionX, NEW w \in RegionWidth,
             AppendOp(r, add, x, w)
      PROVE  RegionsInv'
  BY <1>4, AppendOpKeeps
<1>5. CASE SetInputRegion(NoRegion)
  BY <1>5, SetInputKeeps
<1>6. CASE CreateWindow
  BY <1>6, WindowKeeps
<1>7. CASE DestroyWindow
  BY <1>7 DEF DestroyWindow, RegionsInv, ToldIsCurrent
<1>8. ASSUME NEW scale \in OutputScale, MoveToOutput(scale) PROVE RegionsInv'
  BY <1>8 DEF MoveToOutput, RegionsInv, ToldIsCurrent
<1>9. CASE UNCHANGED regionVars
  BY <1>9 DEF regionVars, RegionsInv, ToldIsCurrent
<1> QED BY <1>1, <1>2, <1>3, <1>4, <1>5, <1>6, <1>7, <1>8, <1>9 DEF RegionsNext

(***************************************************************************)
(* The list of rectangles a wl_region keeps is the set they build, Plexy   *)
(* gives a window the points the surface takes, and scaled edges are near, *)
(* for any rectangles and any scales.                                      *)
(***************************************************************************)
THEOREM RegionsAreSets == RegionsSpec => []RegionsOK
<1>1. RegionsInv => RegionsOK
  <2> SUFFICES ASSUME RegionsInv PROVE RegionsOK
    OBVIOUS
  <2>1. \A p \in Reach : p \in Int
    BY DEF Reach
  <2>2. RegionsTypeOK
    BY DEF RegionsInv, RegionsTypeOK, IsOps
  <2>3. HitIsSetOf
    <3> SUFFICES ASSUME NEW r \in Region, ops[r] # NoRegion, NEW p \in Reach
                 PROVE  ContainsPoint(ops[r], p) = (p \in SetOf(ops[r]))
      BY DEF HitIsSetOf
    <3>1. ops[r] \in Seq(Op) /\ p \in Int
      BY <2>1 DEF RegionsInv
    <3>2. ContainsPoint(ops[r], p) \in BOOLEAN
      BY DEF ContainsPoint
    <3> QED BY <3>1, <3>2, ScanIsSet
  <2>4. PlexyTakesTheSame
    <3> SUFFICES ASSUME has_window, told_scale = 2, NEW p \in Reach
                 PROVE  TakesInput(p) = (plexy_region = NoRegion \/ ContainsPoint(plexy_region, p))
      BY DEF PlexyTakesTheSame
    <3>1. CASE role = "toplevel" \/ input_region = NoRegion
      <4>1. plexy_region = NoRegion
        BY <3>1 DEF RegionsInv, ToldIsCurrent
      <4> QED BY <3>1, <4>1 DEF TakesInput
    <3>2. CASE ~(role = "toplevel" \/ input_region = NoRegion)
      <4>1. input_region \in Seq(Op) /\ plexy_region = Physical(input_region, 2)
        BY <3>2 DEF RegionsInv, ToldIsCurrent
      <4>2. plexy_region = input_region
        BY <4>1, SameAtOne
      <4> QED BY <3>2, <4>2 DEF TakesInput
    <3> QED BY <3>1, <3>2
  <2>5. EdgesAreNear
    <3> SUFFICES ASSUME has_window, plexy_region # NoRegion, NEW i \in DOMAIN plexy_region
                 PROVE  /\ 2 * plexy_region[i].x - input_region[i].x * told_scale \in -1..1
                        /\ 2 * (plexy_region[i].x + plexy_region[i].w)
                             - (input_region[i].x + input_region[i].w) * told_scale \in -2..2
      BY DEF EdgesAreNear
    <3>1. /\ input_region \in Seq(Op) /\ told_scale \in Nat
          /\ plexy_region = Physical(input_region, told_scale)
      BY RegionAssumption DEF RegionsInv, ToldIsCurrent
    <3>2. /\ i \in DOMAIN input_region
          /\ plexy_region[i] = [add |-> input_region[i].add,
                                x |-> Truncated(input_region[i].x * told_scale),
                                w |-> (input_region[i].w * told_scale + 1) \div 2]
      BY <3>1, PhysicalIs
    <3>3. input_region[i] \in Op
      BY <3>1, <3>2
    <3> DEFINE x == input_region[i].x
               w == input_region[i].w
    <3>4. /\ x \in Int /\ w \in Nat /\ plexy_region[i].x = Truncated(x * told_scale)
          /\ plexy_region[i].w = (w * told_scale + 1) \div 2
      BY <3>2, <3>3 DEF Op
    <3> HIDE DEF x, w
    <3>5. /\ 2 * Truncated(x * told_scale) - x * told_scale \in -1..1
          /\ 2 * (Truncated(x * told_scale) + (w * told_scale + 1) \div 2) - (x + w) * told_scale
               \in -2..2
      BY <3>1, <3>4, EdgesStayNear
    <3> QED BY <3>4, <3>5 DEF x, w
  <2> QED BY <2>2, <2>3, <2>4, <2>5 DEF RegionsOK
<1> QED BY <1>1, RegionsStart, RegionsStep, PTL DEF RegionsSpec

---------------------------------------------------------------------------
(***************************************************************************)
(* DoubleBuffers: the two buffers of a surface have one owner each.        *)
(***************************************************************************)

Plexies == [front : PlexyBuffer \cup {NoImage}, back : PlexyBuffer \cup {NoImage},
            displayed : PlexyBuffer \cup {NoImage}, alive : SUBSET PlexyBuffer,
            image : [PlexyBuffer -> Image]]

\* Two buffers of the surface, owned and not both on screen
Owned(p) ==
  /\ p \in Plexies
  /\ p.front = p.back => p.front = NoImage
  /\ p.alive = {p.front, p.back} \ {NoImage}
  /\ p.displayed # NoImage => p.displayed = p.front

DoubleInv == Owned(plexy) /\ DoubleOK

\* Two buffers that are owned, showing what was committed, are the whole invariant.
LEMMA OwnedIsOK ==
  ASSUME Owned(plexy), latest \in ClientBuffer \cup {NoImage}, updated \in BOOLEAN, again \in BOOLEAN,
         ScreenIsCommitted
  PROVE  DoubleInv
  BY DEF Owned, Plexies, DoubleInv, DoubleOK, DoubleTypeOK, BuffersAreOwned, ScreenIsFront

\* Buffers that are dropped leave none on screen.
LEMMA DroppedIs ==
  ASSUME NEW p, Owned(p)
  PROVE  Owned(Dropped(p)) /\ Dropped(p).alive = {} /\ Dropped(p).displayed = NoImage
  BY DoubleBufferAssumption DEF Owned, Plexies, Dropped

\* Whichever of the two is made again
LEMMA RemadeIs ==
  ASSUME NEW p, Owned(p), NEW image \in Image, NEW q \in Remade(p, image)
  PROVE  Owned(q) /\ (Whole(q) => q.image[q.back] = image)
<1> DEFINE gone == Dropped(p)
           free == (PlexyBuffer \ gone.alive) \cup {NoImage}
<1>1. PICK pair \in {r \in free \X free : r[1] # r[2] \/ r[1] = NoImage} :
        q = [gone EXCEPT !.front = pair[1], !.back = pair[2],
                   !.alive = @ \cup ({pair[1], pair[2]} \ {NoImage}),
                   !.image = [b \in PlexyBuffer |->
                                IF b \in {pair[1], pair[2]} THEN image ELSE @[b]]]
  BY DEF Remade
<1>2. Owned(gone) /\ gone.alive = {} /\ gone.displayed = NoImage /\ gone \in Plexies
  BY DroppedIs DEF Owned
<1> HIDE DEF gone
<1> DEFINE f == pair[1]
           k == pair[2]
<1>3. f \in PlexyBuffer \cup {NoImage} /\ k \in PlexyBuffer \cup {NoImage} /\ (f # k \/ f = NoImage)
  BY <1>1, <1>2
<1> DEFINE images == [b \in PlexyBuffer |-> IF b \in {f, k} THEN image ELSE gone.image[b]]
<1>4. q = [gone EXCEPT !.front = f, !.back = k, !.alive = @ \cup ({f, k} \ {NoImage}),
                       !.image = images]
  BY <1>1
<1>5. images \in [PlexyBuffer -> Image]
  BY <1>2 DEF Plexies
<1>6. k # NoImage => images[k] = image
  BY <1>3
<1> HIDE DEF f, k, images
<1>7. /\ q.front = f /\ q.back = k /\ q.displayed = NoImage
      /\ q.alive = {f, k} \ {NoImage} /\ q.image = images
  BY <1>2, <1>4 DEF Plexies
<1>8. q \in Plexies
  BY <1>2, <1>3, <1>4, <1>5 DEF Plexies
<1> QED BY <1>3, <1>6, <1>7, <1>8 DEF Owned, Whole

\* Copying a client's buffer into the back one changes only the image there.
LEMMA DrawnIs ==
  ASSUME NEW p, Owned(p), Whole(p), NEW b \in ClientBuffer
  PROVE  LET q == Drawn(p, b)
         IN  Owned(q) /\ Whole(q) /\ q.image[q.back].of = b
<1>1. p \in Plexies /\ p.back \in PlexyBuffer /\ p.image \in [PlexyBuffer -> Image]
  BY DEF Owned, Plexies, Whole
<1> DEFINE x == [p.image[p.back] EXCEPT !.of = b]
           images == [p.image EXCEPT ![p.back] = x]
<1>2. x \in Image /\ x.of = b
  BY <1>1 DEF Image
<1>3. Drawn(p, b) = [p EXCEPT !.image = images]
  BY <1>1 DEF Drawn, Plexies
<1> HIDE DEF x
<1>4. images \in [PlexyBuffer -> Image] /\ images[p.back] = x
  BY <1>1, <1>2
<1> HIDE DEF images
<1> QED BY <1>1, <1>2, <1>3, <1>4 DEF Owned, Plexies, Whole

\* A commit of the back buffer swaps the two.
LEMMA ShownIs ==
  ASSUME NEW p, Owned(p), Whole(p)
  PROVE  Owned(Shown(p)) /\ Shown(p).displayed = p.back /\ Shown(p).image = p.image
  BY DEF Owned, Plexies, Shown, Whole

\* The zero-copy path goes on with buffers that are both there, the back one
\* the client's, unless that is the current one.
LEMMA PointedIs ==
  ASSUME Owned(plexy), NEW b \in ClientBuffer, NEW r \in Pointed(b)
  PROVE  /\ Owned(r[1])
         /\ r[2] => Whole(r[1]) /\ (latest # b => r[1].image[r[1].back].of = b)
<1> DEFINE image == [kind |-> "dmabuf", size |-> Size[b], of |-> b]
<1>1. image \in Image /\ image.of = b
  BY DoubleBufferAssumption DEF Image
<1> HIDE DEF image
<1>2. CASE Resized(plexy, Size[b])
  <2>1. PICK p \in Remade(plexy, image) :
          r = IF Whole(p) THEN <<p, TRUE>> ELSE <<Dropped(p), FALSE>>
    BY <1>2 DEF Pointed, image
  <2>2. Owned(p) /\ (Whole(p) => p.image[p.back] = image)
    BY <1>1, <2>1, RemadeIs
  <2>3. Owned(Dropped(p))
    BY <2>2, DroppedIs
  <2>4. CASE Whole(p)
    BY <1>1, <2>1, <2>2, <2>4
  <2>5. CASE ~Whole(p)
    BY <2>1, <2>3, <2>5
  <2> QED BY <2>4, <2>5
<1>3. CASE ~Resized(plexy, Size[b]) /\ latest # b
  <2>1. r = <<[plexy EXCEPT !.image[plexy.back] = image], TRUE>> \/ r = <<plexy, FALSE>>
    BY <1>3 DEF Pointed, image
  <2>2. Whole(plexy)
    BY <1>3 DEF Resized
  <2> DEFINE q == [plexy EXCEPT !.image[plexy.back] = image]
  <2>3. plexy \in Plexies /\ plexy.back \in PlexyBuffer /\ plexy.image \in [PlexyBuffer -> Image]
    BY <2>2 DEF Owned, Plexies, Whole
  <2>4. q = [plexy EXCEPT !.image = [plexy.image EXCEPT ![plexy.back] = image]]
    BY <2>3 DEF Plexies
  <2>5. Owned(q) /\ Whole(q) /\ q.image[q.back] = image
    BY <1>1, <2>2, <2>3, <2>4 DEF Owned, Plexies, Whole
  <2>6. r = <<q, TRUE>> \/ r = <<plexy, FALSE>>
    BY <2>1
  <2> HIDE DEF q
  <2>7. CASE r = <<q, TRUE>>
    <3>1. r[1] = q
      BY <2>7
    <3> QED BY <1>1, <2>5, <3>1
  <2>8. CASE r = <<plexy, FALSE>>
    BY <2>8
  <2> QED BY <2>6, <2>7, <2>8
<1>4. CASE ~Resized(plexy, Size[b]) /\ latest = b
  BY <1>4 DEF Pointed, Resized
<1> QED BY <1>2, <1>3, <1>4

\* A commit that returns early shows what was shown.
LEMMA GivenUpIs ==
  ASSUME DoubleInv, NEW p, Owned(p), GivenUpWith(p)
  PROVE  DoubleInv'
<1>1. Owned(plexy')
  BY DEF GivenUpWith
<1>2. Owned(plexy)'
  BY <1>1 DEF Owned, Plexies, Image
<1>3. /\ latest' \in ClientBuffer \cup {NoImage} /\ updated' \in BOOLEAN /\ again' \in BOOLEAN
      /\ ScreenIsCommitted'
  BY DEF GivenUpWith, DoubleInv, DoubleOK, DoubleTypeOK, ScreenIsCommitted
<1> QED BY <1>2, <1>3 DEF Owned, Plexies, DoubleInv, DoubleOK, DoubleTypeOK, BuffersAreOwned,
           ScreenIsFront

\* What is latched is the client's, unless it is the current one and not copied.
LEMMA LatchedIs ==
  ASSUME NEW p, Owned(p), Whole(p), NEW b \in ClientBuffer, NEW shows \in BOOLEAN,
         Latched(p, b, shows), again' \in BOOLEAN,
         shows /\ ~again' => p.image[p.back].of = b
  PROVE  DoubleInv'
<1>1. Owned(plexy')
  BY ShownIs DEF Latched
<1>2. Owned(plexy)'
  BY <1>1 DEF Owned, Plexies, Image
<1>3. latest' \in ClientBuffer \cup {NoImage} /\ updated' \in BOOLEAN
  BY DEF Latched
<1>4. ScreenIsCommitted'
  BY ShownIs DEF Latched, ScreenIsCommitted
<1> QED BY <1>2, <1>3, <1>4 DEF Owned, Plexies, DoubleInv, DoubleOK, DoubleTypeOK, BuffersAreOwned,
           ScreenIsFront

\* The readback path, whichever of its calls fail
LEMMA ReadbackIs ==
  ASSUME DoubleInv, NEW p, Owned(p), NEW b \in ClientBuffer, NEW renew \in BOOLEAN,
         Readback(p, b, renew)
  PROVE  DoubleInv'
<1> DEFINE blank == [Blank EXCEPT !.size = Target[b]]
<1>1. blank \in Image
  BY DoubleBufferAssumption DEF Blank, Image
<1> HIDE DEF blank
<1>2. PICK q \in IF renew \/ Resized(p, Target[b]) THEN Remade(p, blank) ELSE {p} :
        IF ~Whole(q) THEN GivenUpWith(q)
        ELSE /\ \/ Latched(q, b, FALSE)
                \/ /\ b # latest /\ TRUE \in Copied(q)
                   /\ \E attached \in BOOLEAN : Latched(Drawn(q, b), b, attached)
             /\ again' = (b = latest)
  BY DEF Readback, blank
<1>3. Owned(q)
  BY <1>1, <1>2, RemadeIs
<1>4. CASE ~Whole(q)
  BY <1>2, <1>3, <1>4, GivenUpIs
<1>5. CASE Whole(q) /\ Latched(q, b, FALSE)
  BY <1>2, <1>3, <1>5, LatchedIs
<1>6. ASSUME Whole(q), NEW attached \in BOOLEAN, Latched(Drawn(q, b), b, attached)
      PROVE  DoubleInv'
  BY <1>2, <1>3, <1>6, DrawnIs, LatchedIs
<1> QED BY <1>2, <1>4, <1>5, <1>6

\* The two buffers a surface has in Plexy are those there are, the one on screen
\* is not drawn into, and what is shown was committed, whichever calls of
\* surface_commit fail (copy_shm_to_plexy, the readback and the zero-copy
\* path in wl_compositor.c).
THEOREM PlexyBuffersAreOwned == DoubleSpec => []DoubleOK
<1>1. DoubleInit => DoubleInv
  <2> SUFFICES ASSUME DoubleInit PROVE DoubleInv
    OBVIOUS
  <2>1. Owned(plexy)
    BY DEF DoubleInit, Owned, Plexies, Blank, Image
  <2> QED BY <2>1, OwnedIsOK DEF DoubleInit, ScreenIsCommitted
<1>2. DoubleInv /\ [DoubleNext]_doubleVars => DoubleInv'
  <2> SUFFICES ASSUME DoubleInv, [DoubleNext]_doubleVars PROVE DoubleInv'
    OBVIOUS
  <2>0. Owned(plexy) /\ again \in BOOLEAN /\ updated \in BOOLEAN
    BY DEF DoubleInv, DoubleOK, DoubleTypeOK
  <2>1. ASSUME NEW b \in ClientBuffer, CommitShm(b) PROVE DoubleInv'
    <3> DEFINE blank == [Blank EXCEPT !.size = Target[b]]
    <3>1. blank \in Image
      BY DoubleBufferAssumption DEF Blank, Image
    <3> HIDE DEF blank
    <3>2. PICK p \in IF Resized(plexy, Target[b]) THEN Remade(plexy, blank) ELSE {plexy} :
            IF ~Whole(p) THEN GivenUpWith(p)
            ELSE \E copied \in Copied(p), attached \in BOOLEAN :
                   IF ~copied THEN GivenUpWith(p)
                   ELSE Latched(Drawn(p, b), b, attached) /\ again' = FALSE
      BY <2>1 DEF CommitShm, blank
    <3>3. Owned(p)
      BY <2>0, <3>1, <3>2, RemadeIs
    <3>4. CASE GivenUpWith(p)
      BY <3>3, <3>4, GivenUpIs
    <3>5. ASSUME Whole(p), NEW attached \in BOOLEAN, Latched(Drawn(p, b), b, attached), again' = FALSE
          PROVE  DoubleInv'
      BY <3>3, <3>5, DrawnIs, LatchedIs
    <3> QED BY <3>2, <3>4, <3>5
  <2>2. ASSUME NEW b \in ClientBuffer, CommitDmabuf(b) PROVE DoubleInv'
    <3>1. CASE Readback(plexy, b, FALSE)
      BY <2>0, <3>1, ReadbackIs
    <3>2. ASSUME NEW r \in Pointed(b), r[2], Latched(r[1], b, TRUE), again' = (b = latest)
          PROVE  DoubleInv'
      BY <2>0, <3>2, PointedIs, LatchedIs
    <3>3. ASSUME NEW r \in Pointed(b), Readback(r[1], b, Resized(plexy, Size[b]))
          PROVE  DoubleInv'
      <4>1. Resized(plexy, Size[b]) \in BOOLEAN
        BY DEF Resized
      <4> QED BY <2>0, <3>3, <4>1, PointedIs, ReadbackIs
    <3> QED BY <2>2, <3>1, <3>2, <3>3 DEF CommitDmabuf
  <2>3. CASE BufferGone
    <3>1. Owned(plexy)'
      BY <2>0, <2>3 DEF BufferGone, Owned, Plexies, Image
    <3> QED BY <2>0, <2>3, <3>1 DEF BufferGone, DoubleInv, DoubleOK, DoubleTypeOK, BuffersAreOwned,
               ScreenIsFront, ScreenIsCommitted, Owned, Plexies
  <2>4. CASE SurfaceGone
    <3>1. Owned(plexy')
      BY <2>0, <2>4, DroppedIs DEF SurfaceGone
    <3>2. Owned(plexy)'
      BY <3>1 DEF Owned, Plexies, Image
    <3> QED BY <2>4, <3>2 DEF SurfaceGone, DoubleInv, DoubleOK, DoubleTypeOK, BuffersAreOwned,
               ScreenIsFront, ScreenIsCommitted, Owned, Plexies
  <2>5. CASE UNCHANGED doubleVars
    <3>1. Owned(plexy)'
      BY <2>0, <2>5 DEF doubleVars, Owned, Plexies, Image
    <3> QED BY <2>5, <3>1 DEF doubleVars, DoubleInv, DoubleOK, DoubleTypeOK, BuffersAreOwned,
               ScreenIsFront, ScreenIsCommitted, Owned, Plexies
  <2> QED BY <2>1, <2>2, <2>3, <2>4, <2>5 DEF DoubleNext
<1>3. DoubleInv => DoubleOK
  BY DEF DoubleInv
<1> QED BY <1>1, <1>2, <1>3, PTL DEF DoubleSpec

---------------------------------------------------------------------------
(***************************************************************************)
(* Dmabuf: the rows of a buffer fit the file it names.                     *)
(***************************************************************************)

\* A modifier that is taken was reported and may be used, and no more are taken than that.
LEMMA ExplicitIs ==
  ASSUME NEW readback \in BOOLEAN, NEW S, NEW reported \in Seq(S)
  PROVE  /\ Explicit(readback, reported) \in Seq(S)
         /\ Len(Explicit(readback, reported)) <= Len(reported)
         /\ \A i \in 1..Len(Explicit(readback, reported)) :
              Usable(readback, Explicit(readback, reported)[i])
<1> DEFINE U == {mod \in ToSet(reported) : Usable(readback, mod)}
<1>1. Explicit(readback, reported) = Keeping(reported, U)
  BY DEF Explicit
<1>2. \A mod \in U : Usable(readback, mod)
  OBVIOUS
<1> HIDE DEF U
<1>3. Keeping(reported, U) \in Seq(S) /\ KeptSoFar(Keeping(reported, U), reported, U, Len(reported))
  BY KeptIs
<1> QED BY <1>1, <1>2, <1>3 DEF KeptSoFar

\* The rows fit the space counted for them, whatever a driver reports.
LEMMA RowsAlwaysFit == RowsFit
<1> SUFFICES ASSUME NEW readback \in BOOLEAN, NEW reported \in Reported
             PROVE  LET rows == Rows(readback, reported)
                    IN /\ Len(rows) <= SpaceFor(reported) /\ Len(rows) >= 2
                       /\ readback => \A i \in DOMAIN rows : rows[i] # "tiled"
  BY DEF RowsFit
<1>1. reported \in Seq(Modifier)
  BY DmabufAssumption, SeqDef DEF Reported, SeqOf
<1> DEFINE e == Explicit(readback, reported)
           M == Modifier \cup {"linear", "invalid"}
<1>2. e \in Seq(M) /\ Len(e) \in Nat /\ Len(e) <= Len(reported) /\ Len(reported) \in Nat
      /\ \A i \in 1..Len(e) : Usable(readback, e[i])
  BY <1>1, ExplicitIs
<1> DEFINE t == IF e = <<>> THEN <<"invalid">> ELSE e
<1>3. Rows(readback, reported) = <<"linear">> \o t
  BY DEF Rows
<1> HIDE DEF e
<1>4. t \in Seq(M) /\ Len(t) \in Nat /\ Len(t) >= 1 /\ Len(t) <= Len(reported) + 1
      /\ (readback => \A i \in 1..Len(t) : t[i] # "tiled")
  <2>1. CASE e = <<>>
    <3> DEFINE v == <<"invalid">>
    <3>1. v \in Seq(M) /\ Len(v) = 1 /\ v[1] = "invalid"
      OBVIOUS
    <3>2. t = v
      BY <2>1
    <3> HIDE DEF v
    <3> QED BY <1>2, <3>1, <3>2
  <2>2. CASE e # <<>>
    <3>1. t = e /\ Len(e) # 0
      BY <1>2, <2>2
    <3>2. readback => \A i \in 1..Len(e) : e[i] # "tiled"
      BY <1>2 DEF Usable
    <3> QED BY <1>2, <3>1, <3>2
  <2> QED BY <2>1, <2>2
<1> HIDE DEF t
<1> DEFINE l == <<"linear">>
<1>5. l \in Seq(M) /\ Len(l) = 1 /\ l[1] = "linear"
  OBVIOUS
<1> HIDE DEF l
<1>6. /\ Len(l \o t) = 1 + Len(t) /\ DOMAIN (l \o t) = 1..(1 + Len(t))
      /\ \A i \in 1..(1 + Len(t)) : (l \o t)[i] = IF i <= 1 THEN l[i] ELSE t[i - 1]
  <2>1. l \o t \in Seq(M)
    BY <1>4, <1>5, ConcatProperties
  <2>2. Len(l \o t) = Len(l) + Len(t)
        /\ \A i \in 1..(Len(l) + Len(t)) : (l \o t)[i] = IF i <= Len(l) THEN l[i] ELSE t[i - Len(l)]
    BY <1>4, <1>5, ConcatProperties, Zenon
  <2>3. DOMAIN (l \o t) = 1..Len(l \o t)
    BY <2>1, LenProperties
  <2> QED BY <1>4, <1>5, <2>2, <2>3
<1>7. readback => \A i \in DOMAIN (l \o t) : (l \o t)[i] # "tiled"
  <2> SUFFICES ASSUME readback, NEW i \in 1..(1 + Len(t)) PROVE (l \o t)[i] # "tiled"
    BY <1>6
  <2>1. CASE i <= 1
    <3>1. i = 1
      BY <1>4, <2>1
    <3> QED BY <1>5, <1>6, <3>1
  <2>2. CASE ~(i <= 1)
    <3>1. i - 1 \in 1..Len(t)
      BY <1>4, <2>2
    <3> QED BY <1>4, <1>6, <2>2, <3>1
  <2> QED BY <2>1, <2>2
<1> QED BY <1>2, <1>3, <1>4, <1>6, <1>7 DEF SpaceFor, l

---------------------------------------------------------------------------
(***************************************************************************)
(* Dmabuf: a descriptor has one owner.                                     *)
(***************************************************************************)

\* What of a buffer is named
Named(x) == {fd[x][i] : i \in Plane} \ {NoDescriptor}

SetPlanes(x) == {i \in Plane : fd[x][i] # NoDescriptor}

\* An address that is not in use names nothing, the planes of one that is are
\* counted, and they are the first ones if none was skipped.
PlanesAreCounted ==
  /\ \A x \in Params \ allocated : fd[x] = NoPlanes /\ n_planes[x] = 0
  /\ \A x \in Params : n_planes[x] = Cardinality(SetPlanes(x))
  /\ ~skipped => \A x \in Params, i \in Plane : fd[x][i] # NoDescriptor => i < n_planes[x]

GraphicsBegin == ~initialized => held = {} /\ ~supported

NamesAreDisjoint ==
  /\ \A x, y \in Params : x # y => Named(x) \cap Named(y) = {}
  /\ \A x \in allocated : Named(x) \subseteq opened
  /\ ~skipped => \A f \in opened : \E x \in allocated : f \in Named(x)

DmabufInv ==
  /\ DmabufTypeOK /\ NothingHalfMade /\ OneOwner /\ NamesAreDisjoint
  /\ PlanesAreCounted /\ GraphicsBegin

\* What each buffer names, put together, is what is open.
LEMMA NamesAreNamed == ASSUME NamesAreDisjoint PROVE DescriptorsAreNamed
<1>1. \A x : Named(x) = {fd[x][i] : i \in Plane} \ {NoDescriptor}
  BY DEF Named
<1>2. ~skipped => opened = UNION {Named(x) : x \in allocated}
  BY DEF NamesAreDisjoint
<1> QED BY <1>1, <1>2 DEF NamesAreDisjoint, DescriptorsAreNamed, Named

\* There is a plane to count as long as one is not set.
LEMMA PlaneIsFree ==
  ASSUME NEW S \in SUBSET Plane, NEW i \in Plane, i \notin S
  PROVE  /\ Cardinality(S) \in 0..Planes /\ Cardinality(S) + 1 \in 0..Planes
         /\ Cardinality(S \cup {i}) = Cardinality(S) + 1
<1>1. IsFiniteSet(Plane) /\ Cardinality(Plane) = Planes
  <2>1. Plane = 0..(Planes - 1) /\ Planes \in Nat /\ 0 \in Int /\ Planes - 1 \in Int
    BY DmabufAssumption DEF Plane
  <2>2. IsFiniteSet(0..(Planes - 1))
        /\ Cardinality(0..(Planes - 1)) = IF 0 > Planes - 1 THEN 0 ELSE (Planes - 1) - 0 + 1
    BY <2>1, FS_Interval
  <2>3. Planes >= 1
    BY DmabufAssumption
  <2> QED BY <2>1, <2>2, <2>3
<1>2. IsFiniteSet(S) /\ Cardinality(S) \in Nat
  BY <1>1, FS_Subset, FS_CardinalityType
<1>3. Cardinality(S \cup {i}) = Cardinality(S) + 1
  BY <1>2, FS_AddElement
<1>4. Cardinality(S \cup {i}) <= Planes
  <2>1. S \cup {i} \in SUBSET Plane
    OBVIOUS
  <2> QED BY <1>1, <2>1, FS_Subset
<1> QED BY <1>2, <1>3, <1>4, DmabufAssumption

\* Nothing is set in no planes.
LEMMA NothingIsSet ==
  ASSUME NEW x, fd[x] = NoPlanes
  PROVE  Named(x) = {} /\ SetPlanes(x) = {}
  BY DEF Named, SetPlanes, NoPlanes

\* A buffer or its parameters that go take their descriptors along.
LEMMA FreedIs ==
  ASSUME DmabufInv, NEW x \in allocated, Freed(x), allocated' = params_data' \cup wl_buffer',
         params_data' \subseteq params_data, wl_buffer' \subseteq wl_buffer,
         x \notin wl_buffer', cutOff' \in BOOLEAN
  PROVE  DmabufInv'
<1>0. /\ opened' = opened \ ClosedWith(x)
      /\ allocated' = allocated \ {x}
      /\ egl_image' = egl_image \ {x}
      /\ fd' = [fd EXCEPT ![x] = NoPlanes] /\ n_planes' = [n_planes EXCEPT ![x] = 0]
      /\ UNCHANGED <<held, initialized, supported, enabled, skipped>>
  BY DEF Freed, graphicsVars
<1> USE DEF DmabufInv
<1>1. x \in Params /\ fd \in [Params -> [Plane -> Descriptor \cup {NoDescriptor}]]
      /\ n_planes \in [Params -> 0..Planes]
  BY DEF DmabufTypeOK
<1>2. NoPlanes \in [Plane -> Descriptor \cup {NoDescriptor}] /\ 0 \in 0..Planes
  BY DmabufAssumption DEF NoPlanes
<1>3. DmabufTypeOK'
  BY <1>0, <1>1, <1>2 DEF DmabufTypeOK
<1>4. NothingHalfMade' /\ GraphicsBegin'
  BY <1>0 DEF NothingHalfMade, GraphicsBegin
<1>5. OneOwner'
  BY <1>0 DEF OneOwner
<1>6. /\ fd'[x] = NoPlanes /\ n_planes'[x] = 0
      /\ \A y \in Params \ {x} : fd'[y] = fd[y] /\ n_planes'[y] = n_planes[y]
  BY <1>0, <1>1
<1>7. Named(x)' = {} /\ SetPlanes(x)' = {}
      /\ \A y \in Params \ {x} : Named(y)' = Named(y) /\ SetPlanes(y)' = SetPlanes(y)
  BY <1>6 DEF Named, SetPlanes, NoPlanes
<1>8. PlanesAreCounted'
  <2>1. Cardinality({}) = 0
    BY FS_EmptySet
  <2> QED BY <1>0, <1>6, <1>7, <2>1 DEF PlanesAreCounted, NoPlanes
<1>9. ClosedWith(x) \subseteq Named(x) /\ (~skipped => Named(x) \subseteq ClosedWith(x))
  BY <1>1 DEF ClosedWith, Named, PlanesAreCounted
<1>10. NamesAreDisjoint'
  <2>1. allocated \subseteq Params /\ allocated' = allocated \ {x}
    BY <1>0 DEF DmabufTypeOK
  <2>2. \A y, z \in Params : y # z => Named(y)' \cap Named(z)' = {}
    BY <1>7 DEF NamesAreDisjoint
  <2>3. \A y \in allocated' : Named(y)' \subseteq opened'
    BY <1>0, <1>1, <1>7, <1>9, <2>1 DEF NamesAreDisjoint
  <2>4. ~skipped' => \A f \in opened' : \E y \in allocated' : f \in Named(y)'
    BY <1>0, <1>1, <1>7, <1>9, <2>1 DEF NamesAreDisjoint
  <2> QED BY <2>2, <2>3, <2>4 DEF NamesAreDisjoint
<1> QED BY <1>3, <1>4, <1>5, <1>8, <1>10

\* Every open descriptor has one owner that names it, through every step of an
\* import that succeeds or fails (params_add, params_create_common, import_dmabuf
\* and linux_dmabuf_buffer_destroy in wl_dmabuf.c, bridge_dmabuf_init for the
\* graphics), and the rows of the format table fit the space counted for them
\* (create_format_table).
THEOREM DescriptorsHaveOneOwner == DmabufSpec => []DmabufOK
<1>1. DmabufInit => DmabufInv
  <2> SUFFICES ASSUME DmabufInit PROVE DmabufInv
    OBVIOUS
  <2>1. \A x \in Params : fd[x] = NoPlanes /\ n_planes[x] = 0
    BY DEF DmabufInit
  <2>6. opened = {} /\ allocated = {} /\ skipped = FALSE
    BY DEF DmabufInit
  <2>2. \A x \in Params : Named(x) = {} /\ SetPlanes(x) = {}
    BY <2>1, NothingIsSet
  <2>3. Cardinality({}) = 0
    BY FS_EmptySet
  <2>4. PlanesAreCounted /\ NamesAreDisjoint
    <3>1. \A x \in Params, i \in Plane : fd[x][i] = NoDescriptor
      BY <2>1 DEF NoPlanes
    <3> QED BY <2>1, <2>2, <2>3, <2>6, <3>1 DEF PlanesAreCounted, NamesAreDisjoint
  <2>5. DmabufTypeOK
    <3>1. NoPlanes \in [Plane -> Descriptor \cup {NoDescriptor}] /\ 0 \in 0..Planes
      BY DmabufAssumption DEF NoPlanes
    <3>2. fd \in [Params -> [Plane -> Descriptor \cup {NoDescriptor}]]
          /\ n_planes \in [Params -> 0..Planes]
      BY <3>1 DEF DmabufInit
    <3> QED BY <3>2 DEF DmabufInit, DmabufTypeOK
  <2> QED BY <2>4, <2>5 DEF DmabufInit, DmabufInv, NothingHalfMade, OneOwner, GraphicsBegin
<1>2. DmabufInv /\ [DmabufNext]_dmabufVars => DmabufInv'
  <2> SUFFICES ASSUME DmabufInv, [DmabufNext]_dmabufVars PROVE DmabufInv'
    OBVIOUS
  <2>0. /\ DmabufTypeOK /\ NothingHalfMade /\ OneOwner /\ NamesAreDisjoint
        /\ PlanesAreCounted /\ GraphicsBegin
    BY DEF DmabufInv
  \* Nothing of the buffers changes.
  <2>a. ASSUME UNCHANGED <<allocated, fd, n_planes, opened, skipped>>
        PROVE  NamesAreDisjoint' /\ PlanesAreCounted'
    BY <2>0, <2>a DEF NamesAreDisjoint, PlanesAreCounted, Named, SetPlanes
  <2>1. ASSUME NEW failing \in {"none", "drm", "gbm", "display", "context", "extensions"},
               NEW table \in BOOLEAN, DmabufStart(failing, table)
        PROVE  DmabufInv'
    <3>1. NamesAreDisjoint' /\ PlanesAreCounted'
      BY <2>1, <2>a DEF DmabufStart, paramsVars
    <3>2. UNCHANGED <<allocated, params_data, wl_buffer, egl_image, fd, n_planes, opened,
                skipped, cutOff>>
      BY <2>1 DEF DmabufStart, paramsVars
    <3>3. DmabufTypeOK' /\ NothingHalfMade' /\ OneOwner' /\ GraphicsBegin'
      BY <2>0, <2>1, <3>2 DEF DmabufStart, DmabufTypeOK, NothingHalfMade, OneOwner, GraphicsBegin,
         HeadlessEgl, Steps
    <3> QED BY <3>1, <3>3 DEF DmabufInv
  <2>2. CASE DmabufCleanup
    <3>1. NamesAreDisjoint' /\ PlanesAreCounted'
      BY <2>2, <2>a DEF DmabufCleanup
    <3>2. DmabufTypeOK' /\ NothingHalfMade' /\ OneOwner' /\ GraphicsBegin'
      BY <2>0, <2>2 DEF DmabufCleanup, DmabufTypeOK, NothingHalfMade, OneOwner, GraphicsBegin,
         Steps
    <3> QED BY <3>1, <3>2 DEF DmabufInv
  <2>3. ASSUME NEW x \in Params, CreateParams(x) PROVE DmabufInv'
    <3>0. /\ x \notin allocated /\ allocated' = allocated \cup {x}
          /\ params_data' = params_data \cup {x}
          /\ UNCHANGED <<held, initialized, supported, enabled, wl_buffer, egl_image, fd, n_planes,
                         opened, skipped, cutOff>>
      BY <2>3 DEF CreateParams, graphicsVars
    <3>1. Named(x) = {}
      BY <2>0, <3>0, NothingIsSet DEF PlanesAreCounted
    <3>2. NamesAreDisjoint'
      <4>1. \A y : Named(y)' = Named(y)
        BY <3>0 DEF Named
      <4> QED BY <2>0, <3>0, <3>1, <4>1 DEF NamesAreDisjoint
    <3>3. PlanesAreCounted'
      BY <2>0, <3>0 DEF PlanesAreCounted, SetPlanes
    <3>4. DmabufTypeOK' /\ NothingHalfMade' /\ OneOwner' /\ GraphicsBegin'
      BY <2>0, <3>0 DEF DmabufTypeOK, NothingHalfMade, OneOwner, GraphicsBegin
    <3> QED BY <3>2, <3>3, <3>4 DEF DmabufInv
  <2>4. ASSUME NEW x \in Params, NEW i \in Plane, NEW f \in Descriptor, AddPlane(x, i, f)
        PROVE  DmabufInv'
    <3>0. /\ x \in params_data /\ fd[x][i] = NoDescriptor /\ f \notin opened
          /\ fd' = [fd EXCEPT ![x][i] = f] /\ n_planes' = [n_planes EXCEPT ![x] = @ + 1]
          /\ opened' = opened \cup {f}
          /\ skipped' = (skipped \/ i # n_planes[x])
          /\ UNCHANGED <<held, initialized, supported, enabled, allocated, params_data, wl_buffer,
                         egl_image, cutOff>>
      BY <2>4 DEF AddPlane, graphicsVars
    <3>1. x \in allocated /\ fd \in [Params -> [Plane -> Descriptor \cup {NoDescriptor}]]
          /\ n_planes \in [Params -> 0..Planes] /\ f # NoDescriptor
      BY <2>0, <3>0, DmabufAssumption DEF OneOwner, DmabufTypeOK
    <3>2. /\ \A y \in Params \ {x} : fd'[y] = fd[y] /\ n_planes'[y] = n_planes[y]
          /\ \A j \in Plane : fd'[x][j] = IF j = i THEN f ELSE fd[x][j]
          /\ n_planes'[x] = n_planes[x] + 1
      BY <3>0, <3>1
    <3>3. /\ \A y \in Params \ {x} : Named(y)' = Named(y) /\ SetPlanes(y)' = SetPlanes(y)
          /\ Named(x)' = Named(x) \cup {f}
          /\ SetPlanes(x)' = SetPlanes(x) \cup {i} /\ i \notin SetPlanes(x)
          /\ SetPlanes(x) \subseteq Plane
      <4>1. Named(x)' = Named(x) \cup {f}
        BY <3>0, <3>1, <3>2 DEF Named
      <4>2. SetPlanes(x)' = SetPlanes(x) \cup {i} /\ i \notin SetPlanes(x) /\ SetPlanes(x) \subseteq Plane
        BY <3>0, <3>1, <3>2 DEF SetPlanes
      <4> QED BY <3>2, <4>1, <4>2 DEF Named, SetPlanes
    <3>4. n_planes[x] = Cardinality(SetPlanes(x)) /\ n_planes[x] + 1 \in 0..Planes
          /\ n_planes'[x] = Cardinality(SetPlanes(x)')
      <4>1. n_planes[x] = Cardinality(SetPlanes(x))
        BY <2>0 DEF PlanesAreCounted
      <4>2. Cardinality(SetPlanes(x)) + 1 \in 0..Planes
            /\ Cardinality(SetPlanes(x) \cup {i}) = Cardinality(SetPlanes(x)) + 1
        BY <3>3, PlaneIsFree
      <4> QED BY <3>2, <3>3, <4>1, <4>2
    <3>5. PlanesAreCounted'
      <4>1. \A y \in Params : n_planes'[y] = Cardinality(SetPlanes(y)')
        <5>1. \A y \in Params \ {x} : n_planes'[y] = Cardinality(SetPlanes(y)')
          BY <2>0, <3>2, <3>3 DEF PlanesAreCounted
        <5> QED BY <3>4, <5>1
      <4>2. \A y \in Params \ allocated' : fd'[y] = NoPlanes /\ n_planes'[y] = 0
        BY <2>0, <3>0, <3>1, <3>2 DEF PlanesAreCounted
      <4>3. ~skipped' => \A y \in Params, j \in Plane : fd'[y][j] # NoDescriptor => j < n_planes'[y]
        <5> SUFFICES ASSUME ~skipped', NEW y \in Params, NEW j \in Plane, fd'[y][j] # NoDescriptor
                     PROVE  j < n_planes'[y]
          OBVIOUS
        <5>1. ~skipped /\ i = n_planes[x]
          BY <3>0
        <5>2. CASE y # x
          BY <2>0, <3>2, <5>1, <5>2 DEF PlanesAreCounted
        <5>3. CASE y = x
          <6>1. j = i \/ j < n_planes[x]
            BY <2>0, <3>2, <5>1, <5>3 DEF PlanesAreCounted
          <6>2. n_planes[x] \in Int /\ j \in Int /\ i \in Int
            BY <3>1 DEF Plane
          <6> QED BY <3>2, <5>1, <5>3, <6>1, <6>2
        <5> QED BY <5>2, <5>3
      <4>4. NoPlanes' = NoPlanes
        BY DEF NoPlanes
      <4> QED BY <4>1, <4>2, <4>3, <4>4 DEF PlanesAreCounted
    <3>6. NamesAreDisjoint'
      <4>1. \A y \in Params \ {x} : f \notin Named(y)
        <5> SUFFICES ASSUME NEW y \in Params \ {x} PROVE f \notin Named(y)
          OBVIOUS
        <5>1. CASE y \in allocated
          BY <2>0, <3>0, <5>1 DEF NamesAreDisjoint
        <5>2. CASE y \notin allocated
          BY <2>0, <5>2, NothingIsSet DEF PlanesAreCounted
        <5> QED BY <5>1, <5>2
      <4>2. \A y, z \in Params : y # z => Named(y)' \cap Named(z)' = {}
        BY <2>0, <3>3, <4>1 DEF NamesAreDisjoint
      <4>3. allocated \subseteq Params
        BY <2>0 DEF DmabufTypeOK
      <4>4. \A y \in allocated' : Named(y)' \subseteq opened'
        BY <2>0, <3>0, <3>1, <3>3, <4>3 DEF NamesAreDisjoint
      <4>5. ~skipped' => \A g \in opened' : \E y \in allocated' : g \in Named(y)'
        <5> SUFFICES ASSUME ~skipped', NEW g \in opened' PROVE \E y \in allocated' : g \in Named(y)'
          OBVIOUS
        <5>1. CASE g = f
          BY <3>0, <3>1, <3>3, <5>1
        <5>2. CASE g # f
          <6>1. PICK y \in allocated : g \in Named(y)
            BY <2>0, <3>0, <5>2 DEF NamesAreDisjoint
          <6>2. y \in Params /\ y \in allocated'
            BY <3>0, <4>3, <6>1
          <6> QED BY <3>3, <6>1, <6>2
        <5> QED BY <5>1, <5>2
      <4> QED BY <4>2, <4>4, <4>5 DEF NamesAreDisjoint
    <3>7. DmabufTypeOK'
      <4>1. fd' \in [Params -> [Plane -> Descriptor \cup {NoDescriptor}]]
        BY <3>0, <3>1
      <4>2. n_planes' \in [Params -> 0..Planes]
        BY <3>0, <3>1, <3>4
      <4> QED BY <2>0, <3>0, <4>1, <4>2 DEF DmabufTypeOK
    <3>8. NothingHalfMade' /\ OneOwner' /\ GraphicsBegin'
      BY <2>0, <3>0 DEF NothingHalfMade, OneOwner, GraphicsBegin
    <3> QED BY <3>5, <3>6, <3>7, <3>8 DEF DmabufInv
  <2>5. ASSUME NEW x \in Params, CreateRefused(x) PROVE DmabufInv'
    BY <2>0, <2>5, FreedIs DEF CreateRefused, OneOwner, Freed
  <2>6. ASSUME NEW x \in Params, NEW immed \in BOOLEAN, CreateFails(x, immed) PROVE DmabufInv'
    BY <2>0, <2>6, FreedIs DEF CreateFails, OneOwner, Freed
  <2>7. ASSUME NEW x \in Params, NEW image \in BOOLEAN, CreateDmabuf(x, image) PROVE DmabufInv'
    <3>1. NamesAreDisjoint' /\ PlanesAreCounted'
      BY <2>7, <2>a DEF CreateDmabuf
    <3>2. DmabufTypeOK' /\ NothingHalfMade' /\ OneOwner' /\ GraphicsBegin'
      BY <2>0, <2>7 DEF CreateDmabuf, graphicsVars, DmabufTypeOK, NothingHalfMade, OneOwner,
         GraphicsBegin
    <3> QED BY <3>1, <3>2 DEF DmabufInv
  <2>8. ASSUME NEW x \in Params, DestroyParams(x) PROVE DmabufInv'
    <3>1. cutOff' \in BOOLEAN /\ x \in allocated
      BY <2>0, <2>8 DEF DestroyParams, DmabufTypeOK, OneOwner
    <3> QED BY <2>0, <2>8, <3>1, FreedIs DEF DestroyParams, OneOwner, Freed
  <2>9. ASSUME NEW x \in Params, DestroyDmabuf(x) PROVE DmabufInv'
    <3>1. cutOff' \in BOOLEAN /\ x \in allocated
      BY <2>0, <2>9 DEF DestroyDmabuf, DmabufTypeOK, OneOwner
    <3> QED BY <2>0, <2>9, <3>1, FreedIs DEF DestroyDmabuf, OneOwner, Freed
  <2>10. CASE AddRefused \/ NextClient \/ UNCHANGED dmabufVars
    <3>1. UNCHANGED <<held, initialized, supported, enabled, allocated, params_data, wl_buffer,
                      egl_image, fd, n_planes, opened, skipped>> /\ cutOff' \in BOOLEAN
      BY <2>0, <2>10 DEF AddRefused, NextClient, dmabufVars, graphicsVars, paramsVars, DmabufTypeOK
    <3>2. NamesAreDisjoint' /\ PlanesAreCounted'
      BY <3>1, <2>a
    <3>3. DmabufTypeOK' /\ NothingHalfMade' /\ OneOwner' /\ GraphicsBegin'
      BY <2>0, <3>1 DEF DmabufTypeOK, NothingHalfMade, OneOwner, GraphicsBegin
    <3> QED BY <3>2, <3>3 DEF DmabufInv
  <2> QED BY <2>1, <2>2, <2>3, <2>4, <2>5, <2>6, <2>7, <2>8, <2>9, <2>10 DEF DmabufNext
<1>3. DmabufInv => DmabufOK
  BY NamesAreNamed, RowsAlwaysFit DEF DmabufInv, DmabufOK
<1> QED BY <1>1, <1>2, <1>3, PTL DEF DmabufSpec
=============================================================================
