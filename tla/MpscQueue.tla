------------------------------ MODULE MpscQueue ------------------------------
(***************************************************************************)
(* The typed queue the mpsc! macro of fumio-utils/src/mpsc.rs generates    *)
(* around Head: producer threads push Arc'd elements (the queue keeps     *)
(* their reference), the one consumer thread pops them with start_pop's   *)
(* PopAll iterator, and dropping the head drains it before Head::drop     *)
(* asserts that the tail is the stub.                                      *)
(*                                                                         *)
(* Checked to implement QueueSpec, with the queue read as the consumer     *)
(* will see it (Mpsc's Items, pushes between their two steps included).    *)
(***************************************************************************)
EXTENDS Naturals, Sequences, SequencesExt

CONSTANTS Elems,      \* the elements (each embeds a Link)
          Producers,  \* threads calling push
          MaxPushes,  \* bound on the pushes of a behaviour
          Stub, Null

ASSUME MaxPushes \in Nat

VARIABLES
  next, tail, head,   \* Head (head also stands for PopAll's pos)
  free,        \* elements no queue holds: the caller owns their Arc
  ppc,         \* each producer: "idle" or between swap and store
  pnode,       \* the element a producer is pushing
  pprev,       \* the predecessor its tail.swap returned
  cpc,         \* the consumer: where it is
  repushed,    \* PopAll::repushed_stub
  last,        \* break_loop of the stub re-push in progress
  sprev,       \* predecessor of the consumer's re-push of the stub
  pushes       \* pushes so far

vars == <<next, tail, head, free, ppc, pnode, pprev, cpc, repushed, last,
          sprev, pushes>>

Nodes == Elems \cup {Stub}

G == INSTANCE Mpsc

\* Pushes between their two steps, as <<predecessor, node>>.
InFlight ==
  {<<pprev[p], pnode[p]>> : p \in {r \in Producers : ppc[r] = "link"}}
  \cup (IF cpc \in {"stubLink", "dropStubLink"} THEN {<<sprev, Stub>>}
                                                ELSE {})

Queue == INSTANCE QueueSpec WITH Items <- Elems, q <- G!Items(InFlight)

\* The macro head's new(): Head::new with the stub as head and tail.
Init ==
  /\ G!Init
  /\ free = Elems
  /\ ppc = [p \in Producers |-> "idle"]
  /\ pnode = [p \in Producers |-> Null]
  /\ pprev = [p \in Producers |-> Null]
  /\ cpc = "idle"
  /\ repushed = FALSE /\ last = FALSE
  /\ sprev = Null
  /\ pushes = 0

(***************************************************************************)
(* Producers                                                               *)
(***************************************************************************)

\* The head's drop has begun (or finished).
Dropping ==
  cpc \in {"drop", "dropStubSwap", "dropStubLink", "dropped", "gone"}

\* The macro's push: the Arc becomes the queue's (ManuallyDrop), then
\* Head::push -> _push: prev = tail.swap(link).  Nobody pushes once the
\* head is being dropped (drop takes &mut self).
Push(p, n) ==
  /\ ppc[p] = "idle"
  /\ n \in free
  /\ pushes < MaxPushes
  /\ ~Dropping
  /\ free' = free \ {n}
  /\ pushes' = pushes + 1
  /\ pprev' = [pprev EXCEPT ![p] = tail]
  /\ pnode' = [pnode EXCEPT ![p] = n]
  /\ G!SwapTail(n)
  /\ ppc' = [ppc EXCEPT ![p] = "link"]
  /\ UNCHANGED <<cpc, repushed, last, sprev>>

\* Mutant of Link: the store goes to the node tail points at now rather
\* than to the predecessor the swap returned.
LinkRereadsTail(p) ==
  /\ ppc[p] = "link"
  /\ next' = [next EXCEPT ![tail] = pnode[p]]
  /\ ppc' = [ppc EXCEPT ![p] = "idle"]
  /\ UNCHANGED <<tail, head, free, pnode, pprev, cpc, repushed, last, sprev,
                 pushes>>

\* ... prev.next.store(link).
Link(p) ==
  /\ ppc[p] = "link"
  /\ G!StoreNext(pprev[p], pnode[p])
  /\ ppc' = [ppc EXCEPT ![p] = "idle"]
  /\ UNCHANGED <<free, pnode, pprev, cpc, repushed, last, sprev, pushes>>

(***************************************************************************)
(* The consumer: start_pop and the PopAll iterator, or the head's drop,   *)
(* which runs the same iterator to the end.                                *)
(***************************************************************************)

\* Iterating, for start_pop's caller or for the drop.
Iterating == cpc \in {"pop", "drop"}

\* start_pop: PopAll { pos: head, repushed_stub: false }.
StartPop ==
  /\ cpc = "idle"
  /\ cpc' = "pop"
  /\ repushed' = FALSE
  /\ UNCHANGED <<next, tail, head, free, ppc, pnode, pprev, last, sprev,
                 pushes>>

\* Mutant of StartDrop: the macro head's drop leaves the queue undrained.
StartDropSkipsDrain ==
  /\ cpc = "idle"
  /\ \A p \in Producers : ppc[p] = "idle"
  /\ cpc' = "dropped"
  /\ UNCHANGED <<next, tail, head, free, ppc, pnode, pprev, repushed, last,
                 sprev, pushes>>

\* Drop for the macro head: `for _ in start_pop() {}`.  The caller's
\* &mut self means no push is in progress.
StartDrop ==
  /\ cpc = "idle"
  /\ \A p \in Producers : ppc[p] = "idle"
  /\ cpc' = "drop"
  /\ repushed' = FALSE
  /\ UNCHANGED <<next, tail, head, free, ppc, pnode, pprev, last, sprev,
                 pushes>>

\* Stage names of the stub re-push, for a pop or for the drop.
SwapStage == IF cpc = "pop" THEN "stubSwap" ELSE "dropStubSwap"
LinkStage(c) == IF c = "stubSwap" THEN "stubLink" ELSE "dropStubLink"
IterStage(c) == IF c = "stubLink" THEN "pop" ELSE "drop"

\* Mutant of PopNext: the stub is handed out as an element.
PopNextYieldsStub ==
  /\ Iterating
  /\ \/ /\ ~G!CanPop
        /\ cpc' = IF cpc = "pop" THEN "idle" ELSE "dropped"
        /\ UNCHANGED <<next, tail, head, free, repushed, last>>
     \/ /\ G!PopFront
        /\ free' = free \cup {head}
        /\ UNCHANGED <<cpc, repushed, last>>
  /\ UNCHANGED <<ppc, pnode, pprev, sprev, pushes>>

\* One turn of PopAll::next: swap pos.next with null.  Null ends the
\* iteration (PopAll's drop stores pos back into head).  Otherwise pos is
\* popped: the stub is re-pushed (the second re-push ends the iteration),
\* any other node is returned and its Arc (Arc::from_raw in start_pop)
\* goes back to the caller.
PopNext ==
  /\ Iterating
  /\ \/ /\ ~G!CanPop
        /\ cpc' = IF cpc = "pop" THEN "idle" ELSE "dropped"
        /\ UNCHANGED <<next, tail, head, free, repushed, last>>
     \/ /\ G!PopFront
        /\ head = Stub
        /\ last' = repushed
        /\ repushed' = TRUE
        /\ cpc' = SwapStage
        /\ UNCHANGED free
     \/ /\ G!PopFront
        /\ head # Stub
        /\ free' = free \cup {head}
        /\ UNCHANGED <<cpc, repushed, last>>
  /\ UNCHANGED <<ppc, pnode, pprev, sprev, pushes>>

\* Mutant of StubSwap: the iteration ends before the second re-push.
StubSwapBreaksFirst ==
  /\ cpc \in {"stubSwap", "dropStubSwap"}
  /\ IF last
     THEN /\ cpc' = IF cpc = "stubSwap" THEN "idle" ELSE "dropped"
          /\ UNCHANGED <<tail, sprev>>
     ELSE /\ sprev' = tail
          /\ G!SwapTail(Stub)
          /\ cpc' = LinkStage(cpc)
  /\ UNCHANGED <<next, head, free, ppc, pnode, pprev, repushed, last, pushes>>

\* The stub's re-push, _push: tail.swap ...
StubSwap ==
  /\ cpc \in {"stubSwap", "dropStubSwap"}
  /\ sprev' = tail
  /\ G!SwapTail(Stub)
  /\ cpc' = LinkStage(cpc)
  /\ UNCHANGED <<free, ppc, pnode, pprev, repushed, last, pushes>>

\* ... then prev.next.store; after the second re-push next returns None.
StubLink ==
  /\ cpc \in {"stubLink", "dropStubLink"}
  /\ G!StoreNext(sprev, Stub)
  /\ cpc' = IF ~last THEN IterStage(cpc)
            ELSE IF cpc = "stubLink" THEN "idle" ELSE "dropped"
  /\ UNCHANGED <<free, ppc, pnode, pprev, repushed, last, sprev, pushes>>

\* Head::drop: assert_eq!(tail, stub), then the head is gone.
HeadDrop ==
  /\ cpc = "dropped"
  /\ cpc' = "gone"
  /\ UNCHANGED <<next, tail, head, free, ppc, pnode, pprev, repushed, last,
                 sprev, pushes>>

\* Nothing is left to do once the head is gone.
Gone ==
  /\ cpc = "gone"
  /\ UNCHANGED vars

ProducerStep(p) == (\E n \in Elems : Push(p, n)) \/ Link(p)

ConsumerStep ==
  StartPop \/ StartDrop \/ PopNext \/ StubSwap \/ StubLink \/ HeadDrop

Next == (\E p \in Producers : ProducerStep(p)) \/ ConsumerStep \/ Gone

\* A producer finishes the push it started (the store has no blocking
\* point); the consumer keeps popping, as the pool does on every round
\* that follows a push's wake.  Starting the drop is never forced.
Fairness ==
  /\ \A p \in Producers : WF_vars(Link(p))
  /\ WF_vars(PopNext \/ StubSwap \/ StubLink \/ HeadDrop)
  /\ WF_vars(StartPop)

Spec == Init /\ [][Next]_vars
FairSpec == Spec /\ Fairness

(***************************************************************************)
(* Properties                                                              *)
(***************************************************************************)

TypeOK ==
  /\ next \in [Nodes -> Nodes \cup {Null}]
  /\ tail \in Nodes /\ head \in Nodes
  /\ free \subseteq Elems
  /\ ppc \in [Producers -> {"idle", "link"}]
  /\ pnode \in [Producers -> Elems \cup {Null}]
  /\ pprev \in [Producers -> Nodes \cup {Null}]
  /\ cpc \in {"idle", "pop", "stubSwap", "stubLink", "drop", "dropStubSwap",
              "dropStubLink", "dropped", "gone"}
  /\ pushes \in 0..MaxPushes

\* The queue is a FIFO: every step of producers and consumer is a push, a
\* pop of the oldest element, or leaves the elements as they were (the
\* stub's re-push, the store that completes a push).
ImplementsQueueSpec == Queue!Spec

\* Head::drop's assert: when the macro head's drop has run start_pop to the
\* end, the tail is the stub again and every element's Arc was returned.
DropLeavesStub ==
  cpc \in {"dropped", "gone"} => tail = Stub /\ free = Elems

\* An element pushed is eventually popped, however pushes and the stub's
\* re-pushes interleave (the break_loop guards against starving it).
PushedIsPopped ==
  \A n \in Elems : Contains(G!Items(InFlight), n) ~> n \in free
=============================================================================
