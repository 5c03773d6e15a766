---------------------------- MODULE BufferHold ----------------------------
(***************************************************************************)
(* What a surface promises about the buffers it holds, with no lists: a    *)
(* buffer that is destroyed leaves every surface in one step, and no other *)
(* step but a request on the surface or an answer to it moves a buffer.    *)
(* SurfaceBuffers implements it with a listener per pointer and a signal   *)
(* that notifies them one at a time.                                       *)
(***************************************************************************)
CONSTANTS
  Surface,  \* the surfaces
  Buffer,   \* the buffers
  None      \* no buffer

VARIABLES
  surfaces,  \* surfaces that exist
  buffers,   \* buffers that exist
  hold       \* the pending, the current and the previous buffer of a surface

vars == <<surfaces, buffers, hold>>

Nothing == [pending |-> None, current |-> None, previous |-> None]

Init == surfaces = {} /\ buffers = {} /\ hold = [s \in Surface |-> Nothing]

Create(s) ==
  /\ s \notin surfaces
  /\ surfaces' = surfaces \cup {s}
  /\ UNCHANGED <<buffers, hold>>

Destroy(s) ==
  /\ s \in surfaces
  /\ surfaces' = surfaces \ {s}
  /\ hold' = [hold EXCEPT ![s] = Nothing]
  /\ UNCHANGED buffers

Import(b) ==
  /\ b \notin buffers
  /\ buffers' = buffers \cup {b}
  /\ UNCHANGED <<surfaces, hold>>

Forget(b) ==
  /\ b \in buffers
  /\ buffers' = buffers \ {b}
  /\ hold' = [s \in Surface |-> [k \in DOMAIN hold[s] |->
                IF hold[s][k] = b THEN None ELSE hold[s][k]]]
  /\ UNCHANGED surfaces

\* A buffer, or none, takes the place of the one attached before.
Attach(s, b) ==
  /\ s \in surfaces
  /\ b \in buffers \cup {None}
  /\ hold' = [hold EXCEPT ![s].pending = b]
  /\ UNCHANGED <<surfaces, buffers>>

\* The attached buffer becomes the current one; the one it replaces is kept
\* until the frame is done, or let go at once when no frame will be.
Latch(s, kept) ==
  /\ s \in surfaces
  /\ hold[s].pending # None
  /\ hold' = [hold EXCEPT ![s] = [pending  |-> None,
                                  current  |-> hold[s].pending,
                                  previous |-> IF kept THEN hold[s].current ELSE None]]
  /\ UNCHANGED <<surfaces, buffers>>

Release(s) ==
  /\ s \in surfaces
  /\ hold' = [hold EXCEPT ![s].previous = None]
  /\ UNCHANGED <<surfaces, buffers>>

Next ==
  \/ \E s \in Surface :
       \/ Create(s) \/ Destroy(s) \/ Release(s)
       \/ \E b \in Buffer \cup {None} : Attach(s, b)
       \/ \E kept \in BOOLEAN : Latch(s, kept)
  \/ \E b \in Buffer : Import(b) \/ Forget(b)

Spec == Init /\ [][Next]_vars
===========================================================================
