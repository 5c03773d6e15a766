------------------------------- MODULE Queues -------------------------------
(***************************************************************************)
(* The lists and queues of the bridge, when an element leaves: the others  *)
(* keep their order.  The places are counted one after the other, as the   *)
(* loops of the code go over them.                                         *)
(***************************************************************************)
EXTENDS Naturals, Sequences

\* What is left of q with only the members of S, in the order of q
Keeping(q, S) ==
  LET kept[n \in 0..Len(q)] ==
        IF n = 0 THEN <<>>
        ELSE IF q[n] \in S THEN Append(kept[n - 1], q[n])
        ELSE kept[n - 1]
  IN kept[Len(q)]

\* What is left of q without the members of S
Without(q, S) == Keeping(q, {q[i] : i \in DOMAIN q} \ S)
=============================================================================
