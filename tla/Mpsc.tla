-------------------------------- MODULE Mpsc --------------------------------
(***************************************************************************)
(* The intrusive multi-producer single-consumer queue of                  *)
(* fumio-utils/src/mpsc.rs (Vyukov's queue with a stub node).             *)
(*                                                                         *)
(* A node is a link embedded in a task; `next` maps every node to its     *)
(* successor or Null, `tail` is the producers' atomic tail pointer and    *)
(* `head` the consumer cursor.  A push is two atomic steps (swap of the   *)
(* tail, then a store into the predecessor's next), so between them a     *)
(* node is reachable only through the producer that holds its            *)
(* predecessor: such in-flight links are passed to Chain by the module   *)
(* that instantiates this one.                                             *)
(*                                                                         *)
(* `head` stands for both Head::head and the PopAll iterator's `pos`:     *)
(* only the single consumer reads either, and the iterator writes `pos`   *)
(* back into `head` when it is dropped.                                   *)
(***************************************************************************)
EXTENDS Naturals, Sequences, FiniteSets

CONSTANTS Nodes,   \* every link that can ever be pushed, the stub included
          Stub,    \* Head::stub
          Null     \* the null pointer

ASSUME Stub \in Nodes /\ Null \notin Nodes

VARIABLES next, tail, head

\* Head::new: tail and head both point at the stub; Link::new: next is null.
Init ==
  /\ next = [n \in Nodes |-> Null]
  /\ tail = Stub
  /\ head = Stub

\* First half of Head::_push: prev = tail.swap(link).  The caller keeps the
\* returned predecessor (the pre-state value of tail).
SwapTail(link) ==
  /\ tail' = link
  /\ UNCHANGED <<next, head>>

\* Second half of Head::_push: prev.next.store(link).
StoreNext(prev, link) ==
  /\ next' = [next EXCEPT ![prev] = link]
  /\ UNCHANGED <<tail, head>>

\* One turn of PopAll::next: swap pos.next with null; if it was not null the
\* node at pos is popped (it is `head` in the pre-state) and pos advances.
CanPop == next[head] # Null

PopFront ==
  /\ CanPop
  /\ head' = next[head]
  /\ next' = [next EXCEPT ![head] = Null]
  /\ UNCHANGED tail

\* PopAll::next meeting the stub: pop it and push it back (_push).  Taken
\* as one step, which is sound for a consumer that reads nothing between
\* the two halves of its own push: producers never read the chain, and a
\* producer's store goes to a different next than the consumer's.
RepushStub ==
  /\ head = Stub
  /\ CanPop
  /\ head' = next[Stub]
  /\ tail' = Stub
  /\ next' = [next EXCEPT ![Stub] = Null, ![tail] = Stub]

(***************************************************************************)
(* The queue as the consumer will see it: the nodes from head on, in     *)
(* order, following `next` and, where a next is still null, the in-flight *)
(* link <<prev, node>> of a push between its two steps.  Fuel bounds the  *)
(* walk so that a corrupted (cyclic) structure still yields a sequence.   *)
(***************************************************************************)
RECURSIVE ChainFrom(_, _, _)
ChainFrom(n, links, fuel) ==
  LET succ == IF next[n] # Null THEN {next[n]}
              ELSE {l[2] : l \in {k \in links : k[1] = n}}
  IN  IF fuel = 0 THEN <<>>
      ELSE IF succ = {} THEN <<n>>
      ELSE <<n>> \o ChainFrom(CHOOSE s \in succ : TRUE, links, fuel - 1)

Chain(links) == ChainFrom(head, links, Cardinality(Nodes) + 1)

\* The queued items: the chain without the stub.
Items(links) == SelectSeq(Chain(links), LAMBDA n : n # Stub)
=============================================================================
