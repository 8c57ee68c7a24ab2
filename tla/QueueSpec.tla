------------------------------ MODULE QueueSpec ------------------------------
(***************************************************************************)
(* What the intrusive MPSC queue of fumio-utils/src/mpsc.rs promises: a    *)
(* FIFO of distinct items.  A push appends; the consumer removes from the  *)
(* front.  MpscQueue is checked to implement it.                           *)
(***************************************************************************)
EXTENDS Sequences, SequencesExt

CONSTANT Items

VARIABLE q

Init == q = <<>>

\* An item already on the queue is never pushed again.
Enqueue(x) ==
  /\ ~Contains(q, x)
  /\ q' = Append(q, x)

Dequeue ==
  /\ q # <<>>
  /\ q' = Tail(q)

Next == (\E x \in Items : Enqueue(x)) \/ Dequeue

Spec == Init /\ [][Next]_q
=============================================================================
