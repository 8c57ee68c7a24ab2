-------------------------------- MODULE Pool --------------------------------
(***************************************************************************)
(* The single-threaded task pool of fumio-pool (src/pool.rs and           *)
(* src/pool/task.rs) driven by LocalPool::run, with wakers fired from     *)
(* the pool thread (local_notify) and from foreign threads                *)
(* (global_notify through the global MPSC queue of Mpsc).                 *)
(*                                                                         *)
(* Futures are abstracted to what the pool can observe: a poll returns    *)
(* Ready, returns Pending after handing clones of its waker to foreign    *)
(* threads and/or waking tasks on the pool thread, or panics.  A task     *)
(* returns Ready at the latest on its MaxPolls-th poll.  The Park the     *)
(* pool runs on is its contract (fumio-utils/src/park.rs): a wake token   *)
(* that park(None) waits for and consumes, with spurious returns allowed. *)
(***************************************************************************)
EXTENDS Naturals, Sequences, FiniteSets, SequencesExt

CONSTANTS Tasks,     \* the futures that can be spawned
          Foreign,   \* threads other than the pool thread holding wakers
          MaxPolls,  \* bound on the polls of one task
          Panics,    \* whether a poll may panic (unwinding out of run)
          Stub, Null

ASSUME MaxPolls \in Nat \ {0} /\ Panics \in BOOLEAN

VARIABLES
  \* TaskList
  pending,     \* local_pending: the ready list, a sequence of tasks
  registered,  \* waker: the AtomicWaker holds the park's waker
  gnext, gtail, ghead,  \* global_pending: the MPSC queue
  \* Task
  spawned,     \* tasks added by add_task so far
  alive,       \* Task::alive (and membership of local_all)
  queued,      \* Task::queued
  \* the futures
  polls,       \* number of polls of each task so far
  armed,       \* foreign threads holding an unfired clone of a task's waker
  \* the pool thread
  pc,          \* where the pool thread is in run / poll
  pollList,    \* PollList::pending of the round in progress
  repushed,    \* PopAll::repushed_stub
  last,        \* PopAll::next's break_loop for the stub being re-pushed
  cur,         \* the task popped from the MPSC and being moved to pending
  sprev,       \* predecessor returned by the consumer's re-push of the stub
  \* Park
  token,       \* a wake of the park's waker not yet consumed by park
  \* foreign threads inside global_notify
  fpc, ftask, fprev,
  \* history: the task was woken (or spawned) since its last poll began
  woken

mpscVars    == <<gnext, gtail, ghead>>
taskVars    == <<spawned, alive, queued, polls, armed, woken>>
poolVars    == <<pc, pollList, pending, repushed, last, cur, sprev>>
wakeVars    == <<registered, token>>
foreignVars == <<fpc, ftask, fprev>>
vars == <<mpscVars, taskVars, poolVars, wakeVars, foreignVars>>

G == INSTANCE Mpsc WITH Nodes <- Tasks \cup {Stub},
                        next <- gnext, tail <- gtail, head <- ghead

PoolPcs == {"idle", "drain", "ack", "stubSwap", "stubLink", "poll", "park",
            "done", "dropped"}
ForeignPcs == {"idle", "swap", "link", "notify"}

(***************************************************************************)
(* Helpers                                                                 *)
(***************************************************************************)

\* The local_pending link is linked while the task is on local_pending or on
\* the PollList that took it over (TaskPendingLink::is_unlinked).
Linked(t) == Contains(pending, t) \/ Contains(pollList, t)

\* Pushes between their two steps, as <<predecessor, node>>: the foreign
\* ones and the consumer's re-push of the stub.
InFlight ==
  {<<fprev[f], ftask[f]>> : f \in {g \in Foreign : fpc[g] = "link"}}
  \cup (IF pc = "stubLink" THEN {<<sprev, Stub>>} ELSE {})

\* AtomicWaker::wake: take the registered waker and wake the park.
AtomicWake ==
  IF registered THEN registered' = FALSE /\ token' = TRUE
                ELSE UNCHANGED wakeVars

\* Mutant of local_notify_wake: the AtomicWaker is never woken.
local_notify_wake_dropped(notified) == UNCHANGED wakeVars

\* The wake in TaskList::local_notify, done only when the task was appended.
local_notify_wake(notified) ==
  IF notified # <<>> THEN AtomicWake ELSE UNCHANGED wakeVars

\* End of fetch_global_notifies, then the start of TaskList::poll:
\* poll_list.pending.take_from(&self.local_pending).
EndDrain ==
  /\ pollList' = pending
  /\ pending' = <<>>
  /\ pc' = "poll"

(***************************************************************************)
(* Pool thread                                                             *)
(***************************************************************************)

Init ==
  /\ G!Init
  /\ pending = <<>>
  /\ registered = FALSE
  /\ spawned = {}
  /\ alive = [t \in Tasks |-> FALSE]
  /\ queued = [t \in Tasks |-> FALSE]
  /\ polls = [t \in Tasks |-> 0]
  /\ armed = [t \in Tasks |-> {}]
  /\ pc = "idle"
  /\ pollList = <<>>
  /\ repushed = FALSE
  /\ last = FALSE
  /\ cur = Null
  /\ sprev = Null
  /\ token = FALSE
  /\ fpc = [f \in Foreign |-> "idle"]
  /\ ftask = [f \in Foreign |-> Null]
  /\ fprev = [f \in Foreign |-> Null]
  /\ woken = [t \in Tasks |-> FALSE]

\* LocalPool::spawn -> LocalTaskList::add_task: append to local_all, then
\* local_notify schedules the first poll.  In pc "poll" it is a spawn made
\* by the future polled last.
add_task(t) ==
  /\ pc \in {"idle", "poll"}
  /\ t \notin spawned
  /\ spawned' = spawned \cup {t}
  /\ alive' = [alive EXCEPT ![t] = TRUE]
  /\ pending' = Append(pending, t)
  /\ woken' = [woken EXCEPT ![t] = TRUE]
  /\ local_notify_wake(<<t>>)
  /\ UNCHANGED <<mpscVars, queued, polls, armed, pc, pollList, repushed,
                 last, cur, sprev, foreignVars>>

\* LocalTaskList::poll: register the run loop's waker, start draining.
StartRound ==
  /\ pc = "idle"
  /\ registered' = TRUE
  /\ pc' = "drain"
  /\ repushed' = FALSE
  /\ UNCHANGED <<mpscVars, taskVars, pending, pollList, last, cur, sprev,
                 token, foreignVars>>

\* Mutant of DrainNext: the iterator hands out the stub like any other node.
DrainNextYieldsStub ==
  /\ pc = "drain"
  /\ \/ /\ ~G!CanPop
        /\ EndDrain
        /\ UNCHANGED <<mpscVars, repushed, last, cur>>
     \/ /\ G!PopFront
        /\ cur' = ghead
        /\ pc' = "ack"
        /\ UNCHANGED <<pending, pollList, repushed, last>>
  /\ UNCHANGED <<taskVars, sprev, wakeVars, foreignVars>>

\* fetch_global_notifies, one turn of the PopAll iterator.
DrainNext ==
  /\ pc = "drain"
  /\ \/ /\ ~G!CanPop
        /\ EndDrain
        /\ UNCHANGED <<mpscVars, repushed, last, cur>>
     \/ /\ G!PopFront
        /\ ghead = Stub
        /\ last' = repushed
        /\ repushed' = TRUE
        /\ pc' = "stubSwap"
        /\ UNCHANGED <<pending, pollList, cur>>
     \/ /\ G!PopFront
        /\ ghead # Stub
        /\ cur' = ghead
        /\ pc' = "ack"
        /\ UNCHANGED <<pending, pollList, repushed, last>>
  /\ UNCHANGED <<taskVars, sprev, wakeVars, foreignVars>>

\* PopAll::next re-pushes the stub: tail.swap ...
StubSwap ==
  /\ pc = "stubSwap"
  /\ sprev' = gtail
  /\ G!SwapTail(Stub)
  /\ pc' = "stubLink"
  /\ UNCHANGED <<taskVars, pending, pollList, repushed, last, cur,
                 wakeVars, foreignVars>>

\* ... then prev.next.store; the second re-push ends the iteration.
StubLink ==
  /\ pc = "stubLink"
  /\ G!StoreNext(sprev, Stub)
  /\ IF last THEN EndDrain
             ELSE pc' = "drain" /\ UNCHANGED <<pending, pollList>>
  /\ UNCHANGED <<taskVars, repushed, last, cur, sprev, wakeVars, foreignVars>>

\* Mutant of Ack: the is_unlinked check is missing.
AckIgnoresLink ==
  /\ pc = "ack"
  /\ queued' = [queued EXCEPT ![cur] = FALSE]
  /\ pending' = IF alive[cur] THEN Append(pending, cur) ELSE pending
  /\ pc' = "drain"
  /\ UNCHANGED <<mpscVars, spawned, alive, polls, armed, woken, pollList,
                 repushed, last, cur, sprev, wakeVars, foreignVars>>

\* Body of the fetch_global_notifies loop: queued.swap(false), then move the
\* task to local_pending if it is alive and not linked.
Ack ==
  /\ pc = "ack"
  /\ queued' = [queued EXCEPT ![cur] = FALSE]
  /\ pending' = IF alive[cur] /\ ~Linked(cur) THEN Append(pending, cur)
                                             ELSE pending
  /\ pc' = "drain"
  /\ UNCHANGED <<mpscVars, spawned, alive, polls, armed, woken, pollList,
                 repushed, last, cur, sprev, wakeVars, foreignVars>>

\* Task::local_clear on task t, which the caller has already popped from the
\* PollList (so its pending link is unlinked): queued is set, alive cleared,
\* the future dropped.
Cleared(t) ==
  /\ queued' = [queued EXCEPT ![t] = TRUE]
  /\ alive' = [alive EXCEPT ![t] = FALSE]

\* Mutant of PollListDrop: the rest of the round is dropped on a panic.
PollListDropLoses(rest) == pending' = pending

\* Drop for PollList: pop_back each remaining task and prepend it onto
\* local_pending if it is alive and unlinked, which keeps the round's order.
PollListDrop(rest) == pending' = SelectSeq(rest, LAMBDA u : alive[u]) \o pending

\* TaskList::poll pops the front of the PollList and runs Task::local_poll.
\* The future returns Ready (local_clear), or Pending after giving its waker
\* to the threads H and waking the tasks ws on this thread (local_notify,
\* which appends and wakes the AtomicWaker only for an alive, unlinked
\* task), or panics: ClearOnPanic clears it, PollList::drop prepends the
\* rest of the round back onto local_pending, and the panic leaves run.
PollTask ==
  /\ pc = "poll"
  /\ pollList # <<>>
  /\ LET t == Head(pollList)
         rest == Tail(pollList)
     IN
     /\ polls' = [polls EXCEPT ![t] = @ + 1]
     /\ \/ /\ Cleared(t)
           /\ pollList' = rest
           /\ woken' = [woken EXCEPT ![t] = FALSE]
           /\ UNCHANGED <<pending, armed, pc, wakeVars>>
        \/ /\ polls[t] + 1 < MaxPolls
           /\ \E H \in SUBSET Foreign, ws \in SetToAllKPermutations(spawned) :
                LET notified == SelectSeq(ws, LAMBDA u :
                                  alive[u] /\ ~Contains(pending, u)
                                           /\ ~Contains(rest, u))
                IN
                /\ H # {} \/ Contains(ws, t)
                /\ armed' = [armed EXCEPT ![t] = @ \cup H]
                /\ pending' = pending \o notified
                /\ woken' = [u \in Tasks |-> IF Contains(ws, u) THEN TRUE
                                             ELSE IF u = t THEN FALSE
                                             ELSE woken[u]]
                /\ local_notify_wake(notified)
           /\ pollList' = rest
           /\ UNCHANGED <<queued, alive, pc>>
        \/ /\ Panics
           /\ Cleared(t)
           /\ pollList' = <<>>
           /\ PollListDrop(rest)
           /\ woken' = [woken EXCEPT ![t] = FALSE]
           /\ pc' = "idle"
           /\ UNCHANGED <<armed, wakeVars>>
  /\ UNCHANGED <<mpscVars, spawned, repushed, last, cur, sprev, foreignVars>>

\* TaskList::poll returns Ready iff local_all is empty; run_executor then
\* returns, and otherwise parks.
EndRound ==
  /\ pc = "poll"
  /\ pollList = <<>>
  /\ pc' = IF \E t \in Tasks : alive[t] THEN "park" ELSE "done"
  /\ UNCHANGED <<mpscVars, taskVars, pending, pollList, repushed, last, cur,
                 sprev, wakeVars, foreignVars>>

\* Park::park(None) returns once the park's waker was woken, consuming it.
Unpark ==
  /\ pc = "park"
  /\ token
  /\ token' = FALSE
  /\ pc' = "idle"
  /\ UNCHANGED <<mpscVars, taskVars, pending, pollList, repushed, last, cur,
                 sprev, registered, foreignVars>>

\* ParkThread::park (thread::park) may also return spuriously.
SpuriousUnpark ==
  /\ pc = "park"
  /\ pc' = "idle"
  /\ UNCHANGED <<mpscVars, taskVars, pending, pollList, repushed, last, cur,
                 sprev, wakeVars, foreignVars>>

\* Drop for LocalTaskList: local_clear every task on local_all.
DropPool ==
  /\ pc \in {"idle", "done"}
  /\ queued' = [t \in Tasks |-> IF alive[t] THEN TRUE ELSE queued[t]]
  /\ alive' = [t \in Tasks |-> FALSE]
  /\ pending' = <<>>
  /\ pc' = "dropped"
  /\ UNCHANGED <<mpscVars, spawned, polls, armed, woken, pollList, repushed,
                 last, cur, sprev, wakeVars, foreignVars>>

(***************************************************************************)
(* Foreign threads: Task::wake_by_ref off the pool thread -> global_notify *)
(***************************************************************************)

\* Mutant of global_notify: the result of queued.swap is ignored.
global_notify_always_pushes(f, t) ==
  /\ fpc[f] = "idle"
  /\ f \in armed[t]
  /\ armed' = [armed EXCEPT ![t] = @ \ {f}]
  /\ woken' = [woken EXCEPT ![t] = TRUE]
  /\ queued' = [queued EXCEPT ![t] = TRUE]
  /\ fpc' = [fpc EXCEPT ![f] = "swap"]
  /\ ftask' = [ftask EXCEPT ![f] = t]
  /\ UNCHANGED <<mpscVars, spawned, alive, polls, poolVars, wakeVars, fprev>>

\* A foreign thread fires its clone of t's waker: queued.swap(true); only
\* the thread that found it false pushes.
global_notify(f, t) ==
  /\ fpc[f] = "idle"
  /\ f \in armed[t]
  /\ armed' = [armed EXCEPT ![t] = @ \ {f}]
  /\ woken' = [woken EXCEPT ![t] = TRUE]
  /\ queued' = [queued EXCEPT ![t] = TRUE]
  /\ IF queued[t] THEN UNCHANGED foreignVars
                  ELSE fpc' = [fpc EXCEPT ![f] = "swap"]
                       /\ ftask' = [ftask EXCEPT ![f] = t]
                       /\ UNCHANGED fprev
  /\ UNCHANGED <<mpscVars, spawned, alive, polls, poolVars, wakeVars>>

\* global_pending.push: tail.swap ...
PushSwap(f) ==
  /\ fpc[f] = "swap"
  /\ fprev' = [fprev EXCEPT ![f] = gtail]
  /\ G!SwapTail(ftask[f])
  /\ fpc' = [fpc EXCEPT ![f] = "link"]
  /\ UNCHANGED <<taskVars, poolVars, wakeVars, ftask>>

\* ... then prev.next.store.
PushLink(f) ==
  /\ fpc[f] = "link"
  /\ G!StoreNext(fprev[f], ftask[f])
  /\ fpc' = [fpc EXCEPT ![f] = "notify"]
  /\ UNCHANGED <<taskVars, poolVars, wakeVars, ftask, fprev>>

\* Mutant of Notify: the pool's waker is not woken after the push.
NotifySkipsWake(f) ==
  /\ fpc[f] = "notify"
  /\ fpc' = [fpc EXCEPT ![f] = "idle"]
  /\ UNCHANGED <<mpscVars, taskVars, poolVars, wakeVars, ftask, fprev>>

\* self.waker.wake() after the push.
Notify(f) ==
  /\ fpc[f] = "notify"
  /\ AtomicWake
  /\ fpc' = [fpc EXCEPT ![f] = "idle"]
  /\ UNCHANGED <<mpscVars, taskVars, poolVars, ftask, fprev>>

\* run has returned (or the pool is gone) and every waker has been fired.
Terminated ==
  /\ pc \in {"done", "dropped"}
  /\ \A f \in Foreign : fpc[f] = "idle"
  /\ \A t \in Tasks : armed[t] = {}
  /\ UNCHANGED vars

PoolStep ==
  \/ \E t \in Tasks : add_task(t)
  \/ StartRound \/ DrainNext \/ StubSwap \/ StubLink \/ Ack
  \/ PollTask \/ EndRound \/ Unpark \/ DropPool

ForeignStep(f) ==
  \/ \E t \in Tasks : global_notify(f, t)
  \/ PushSwap(f) \/ PushLink(f) \/ Notify(f)

Next ==
  \/ PoolStep
  \/ SpuriousUnpark
  \/ \E f \in Foreign : ForeignStep(f)
  \/ Terminated

(***************************************************************************)
(* The pool thread runs whenever it can; a spurious return from park is    *)
(* allowed but never forced.  A foreign thread that started a wake         *)
(* finishes it, and a waker handed to a foreign thread is eventually       *)
(* fired: the contract of a future that returns Pending.                   *)
(***************************************************************************)
Fairness ==
  /\ WF_vars(PoolStep)
  /\ \A f \in Foreign : WF_vars(ForeignStep(f))

Spec == Init /\ [][Next]_vars
FairSpec == Spec /\ Fairness

(***************************************************************************)
(* Properties                                                              *)
(***************************************************************************)

TypeOK ==
  /\ pending \in Seq(Tasks)
  /\ pollList \in Seq(Tasks)
  /\ registered \in BOOLEAN /\ token \in BOOLEAN
  /\ gnext \in [Tasks \cup {Stub} -> Tasks \cup {Stub, Null}]
  /\ gtail \in Tasks \cup {Stub} /\ ghead \in Tasks \cup {Stub}
  /\ spawned \subseteq Tasks
  /\ alive \in [Tasks -> BOOLEAN] /\ queued \in [Tasks -> BOOLEAN]
  /\ polls \in [Tasks -> 0..MaxPolls]
  /\ armed \in [Tasks -> SUBSET Foreign]
  /\ pc \in PoolPcs
  /\ repushed \in BOOLEAN /\ last \in BOOLEAN
  /\ cur \in Tasks \cup {Null} /\ sprev \in Tasks \cup {Stub, Null}
  /\ fpc \in [Foreign -> ForeignPcs]
  /\ ftask \in [Foreign -> Tasks \cup {Null}]
  /\ fprev \in [Foreign -> Tasks \cup {Stub, Null}]
  /\ woken \in [Tasks -> BOOLEAN]

\* The task is somewhere the pool thread will find it: on local_pending, on
\* the PollList of this round, on the global queue, popped from it and
\* about to be moved, or claimed by a foreign thread that will push it.
Scheduled(t) ==
  \/ Linked(t)
  \/ Contains(G!Items(InFlight), t)
  \/ pc = "ack" /\ cur = t
  \/ \E f \in Foreign : fpc[f] = "swap" /\ ftask[f] = t

\* No lost wake-up: a live task woken (by either path) or spawned since its
\* last poll began is scheduled to be polled.  A wake that global_notify
\* coalesces on `queued` relies on the earlier push still being pending.
NoLostWake ==
  \A t \in Tasks : alive[t] /\ woken[t] => Scheduled(t)

\* The global MPSC stays one well-formed list: from head it reaches tail
\* without visiting a node twice, it holds the stub unless the consumer is
\* re-pushing it, and a task on it is marked queued, so that global_notify
\* never pushes a task that is already on the queue.
QueueWellFormed ==
  LET c == G!Chain(InFlight)
  IN  /\ c[Len(c)] = gtail
      /\ IsInjective(c)
      /\ Contains(c, Stub) \/ pc = "stubSwap"
      /\ \A t \in Tasks : Contains(c, t) => queued[t]

\* Every task the pool will poll (local_pending and the PollList) is alive
\* and appears once: local_poll's expect("pending futures must be alive")
\* never fires and no task is polled twice for one scheduling.
ReadyListsConsistent ==
  LET r == pollList \o pending
  IN  /\ IsInjective(r)
      /\ \A i \in DOMAIN r : alive[r[i]]

\* local_clear marks a completed task queued because "won't poll ever again
\* though, no need to queue anymore": no foreign wake ever pushes a task
\* that local_clear has cleared onto the global queue.
ClearedTaskNeverQueued ==
  [][\A f \in Foreign :
       fpc[f] = "idle" /\ fpc'[f] = "swap" => alive[ftask'[f]]]_vars

\* The strong references to task t's Arc, as TaskList's comments assign
\* them: local_all's while the task is alive, one per occurrence on the
\* global queue (the stub is not counted), the clone a foreign thread holds
\* as its waker or is pushing, and the task fetch_global_notifies popped.
TaskRefs(t) ==
  (IF alive[t] THEN 1 ELSE 0)
  + Cardinality({i \in DOMAIN G!Items(InFlight) : G!Items(InFlight)[i] = t})
  + Cardinality(armed[t])
  + Cardinality({f \in Foreign : fpc[f] # "idle" /\ ftask[f] = t})
  + (IF pc = "ack" /\ cur = t THEN 1 ELSE 0)

\* Dropping the pool frees every task: once LocalTaskList is dropped and no
\* other thread holds a waker or is inside global_notify, no task has a
\* strong reference left.  A task still on global_pending keeps its
\* task_list Arc, and the TaskList owns global_pending, so such a task and
\* the TaskList would never be freed.
FreedAfterDrop ==
  (pc = "dropped" /\ \A f \in Foreign : fpc[f] = "idle"
                  /\ \A t \in Tasks : armed[t] = {})
    => \A t \in Tasks : TaskRefs(t) = 0

\* A woken live task is eventually polled (or dies).
WokenTaskPolled ==
  \A t \in Tasks : (alive[t] /\ woken[t]) ~> (~woken[t] \/ ~alive[t])

\* LocalPool::run returns once every spawned task has completed.
RunReturns == <>(pc \in {"done", "dropped"})
=============================================================================
