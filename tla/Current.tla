------------------------------- MODULE Current -------------------------------
(***************************************************************************)
(* The thread-local "current" handles of one thread: fumio_utils::current  *)
(* (fumio-utils/src/current.rs), a RefCell<Option<T>> per key, used for    *)
(* the reactor handle (fumio-reactor/src/reactor/executor.rs) and the      *)
(* local spawner (fumio-pool/src/current.rs).                              *)
(*                                                                         *)
(* guards is the thread's stack of live Reset guards, innermost last: the  *)
(* _reset of each Current::enter whose callback has not returned or       *)
(* unwound yet.  The RefCell borrows never overlap on one thread (with's  *)
(* callbacks only clone), so they are left out.  A library module:         *)
(* Runtime instantiates it.                                                *)
(***************************************************************************)
EXTENDS Naturals, Sequences

CONSTANTS Keys,   \* the thread-local Current instances
          None    \* Option::None

VARIABLES slot,   \* slot[k]: the value in key k's RefCell
          guards  \* live Reset guards as [key, val], innermost last

\* Current::new for every key, and no call in progress.
Init ==
  /\ slot = [k \in Keys |-> None]
  /\ guards = <<>>

\* Current::enter up to f: borrow_mut, assert!(inner.is_none()), store the
\* value, then create the Reset guard.
Enter(k, v) ==
  /\ slot[k] = None
  /\ slot' = [slot EXCEPT ![k] = v]
  /\ guards' = Append(guards, [key |-> k, val |-> v])

\* Mutant of EnterPanics: the Reset guard is created before the assert, so
\* the unwinding of the failed assert clears the outer enter's value.
EnterPanicsAfterGuard(k, v) ==
  /\ slot[k] # None
  /\ guards' = Append(guards, [key |-> k, val |-> v])
  /\ UNCHANGED slot

\* ... the assert fails ("can't enter more than once at a time"): the panic
\* starts before any guard exists, and nothing is stored.
EnterPanics(k, v) ==
  /\ slot[k] # None
  /\ UNCHANGED <<slot, guards>>

\* Drop for Reset, for every guard above the n outermost, innermost first:
\* each clears its key (the callback returned, or a panic unwinds through).
ResetTo(n) ==
  /\ slot' = [k \in Keys |->
                IF \E i \in n+1..Len(guards) : guards[i].key = k
                THEN None ELSE slot[k]]
  /\ guards' = SubSeq(guards, 1, n)

\* Current::with(|h| h.cloned()): what current() / current_local() return.
With(k) == slot[k]

TypeOK(Vals) ==
  /\ slot \in [Keys -> Vals \cup {None}]
  /\ guards \in Seq([key : Keys, val : Vals])

\* The guards of a key, outermost first.
GuardsOf(k) == SelectSeq(guards, LAMBDA g : g.key = k)

\* Scoped values: each key holds the value of its one live enter, and
\* nothing once every enter of it has returned or unwound, whatever the
\* nesting, the failed asserts and the panics caught in between.
SlotMatchesGuards ==
  \A k \in Keys :
    /\ Len(GuardsOf(k)) <= 1
    /\ slot[k] = IF GuardsOf(k) = <<>> THEN None ELSE GuardsOf(k)[1].val
====
