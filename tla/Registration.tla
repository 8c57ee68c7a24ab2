----------------------------- MODULE Registration -----------------------------
(***************************************************************************)
(* The task slot of one fumio_reactor::Registration                        *)
(* (fumio-reactor/src/reactor/registration.rs), used by several threads.   *)
(*                                                                         *)
(* TaskState is a word holding a lock bit and the token of the current     *)
(* ReactorTask (an Arc<InnerTask> read back with from_token).  Every       *)
(* InnerTask ("slot") carries an explicit strong count in `refs`.          *)
(*                                                                         *)
(* The reactor side is abstracted to what the registration can observe:   *)
(* the token mio holds for the io (a registered fd is rejected by a second *)
(* register, as epoll does with EEXIST), and the references handed to the  *)
(* reactor by add_task and deregister_task, which it releases once the     *)
(* slot has been deregistered (ReactorTasks checks that side).  `alive`    *)
(* says whether the Reactor still exists: once it is dropped,             *)
(* Handle::upgrade fails, mio's Poll is closed and Tasks::drop has let go  *)
(* of every reference the reactor held.                                    *)
(***************************************************************************)
EXTENDS Naturals, FiniteSets

CONSTANTS Threads,    \* threads calling into the same Registration
          Slots,      \* InnerTasks that register may create
          None,       \* no task: the word's pointer bits are zero
          MioFails,   \* whether mio's register/deregister may fail
          MaxCalls    \* bound on the calls made in a behaviour

ASSUME None \notin Slots

VARIABLES wslot,        \* TaskState::task, pointer bits
          locked,       \* TaskState::task, lock bit
          refs,         \* strong count of each InnerTask
          created,      \* InnerTasks that exist
          reactorRefs,  \* references moved into the reactor's Tasks
          deregd,       \* slots passed to Tasks::deregister_task
          mioTok,       \* token the io is registered with in mio
          pc,           \* each thread's position in its call
          op,           \* the call each thread is in
          held,         \* TaskStateLock::task of the thread holding the lock
          task,         \* a ReactorTask owned by the call (taken or new)
          calls,        \* calls started so far
          mioFailed,    \* history: a mio register or deregister has failed
          alive         \* the Reactor still holds its Arc<Inner>

vars == <<wslot, locked, refs, created, reactorRefs, deregd, mioTok, pc, op,
          held, task, calls, mioFailed, alive>>

\* "borrow" stands for the calls that only borrow the task: clear_*_ready,
\* poll_*_ready, reregister and handle().
Ops == {"register", "deregister", "borrow"}

Pcs == {"idle", "dLock", "dMio", "rLock", "rMio", "bLock", "bUse"}

\* Positions at which the thread holds the spin lock.
LockedPcs == {"dMio", "rMio", "bUse"}

Inc(r, s) == IF s = None THEN r ELSE [r EXCEPT ![s] = @ + 1]
Dec(r, s) == IF s = None THEN r ELSE [r EXCEPT ![s] = @ - 1]

Init ==
  /\ wslot = None /\ locked = FALSE
  /\ refs = [s \in Slots |-> 0] /\ created = {}
  /\ reactorRefs = [s \in Slots |-> 0] /\ deregd = {}
  /\ mioTok = None
  /\ pc = [t \in Threads |-> "idle"] /\ op = [t \in Threads |-> "borrow"]
  /\ held = [t \in Threads |-> None] /\ task = [t \in Threads |-> None]
  /\ calls = 0 /\ mioFailed = FALSE /\ alive = TRUE

(***************************************************************************)
(* TaskState::lock: fetch_or(1) until the lock bit was clear; the task is  *)
(* rebuilt from the pointer bits with from_token, which adds a reference,  *)
(* and kept in a ManuallyDrop.  Dropping the TaskStateLock only clears the *)
(* lock bit (fetch_and(!1)): the ManuallyDrop is never dropped.            *)
(***************************************************************************)

TryLock == ~locked

\* A call starts.  Registration::register begins with self.deregister().
Call(t, o) ==
  /\ pc[t] = "idle"
  /\ calls < MaxCalls
  /\ op' = [op EXCEPT ![t] = o]
  /\ pc' = [pc EXCEPT ![t] = CASE o \in {"register", "deregister"} -> "dLock"
                               [] OTHER -> "bLock"]
  /\ calls' = calls + 1
  /\ UNCHANGED <<wslot, locked, refs, created, reactorRefs, deregd, mioTok,
                 held, task, mioFailed>>

\* Mutant of Take: the word is cleared with store(0), lock bit included.
TakeStoresZero ==
  /\ wslot' = None
  /\ locked' = FALSE

\* TaskStateLock::take with a task: store(1) writes the whole word, empty
\* pointer bits and the lock bit still set.
Take ==
  /\ wslot' = None
  /\ locked' = TRUE

\* Mutant of DeregLock: take() moves the task out without store(1).
DeregLockKeepsWord(t) ==
  /\ pc[t] = "dLock"
  /\ TryLock
  /\ IF wslot # None
     THEN /\ locked' = TRUE
          /\ refs' = Inc(refs, wslot)
          /\ task' = [task EXCEPT ![t] = wslot]
          /\ pc' = [pc EXCEPT ![t] = "dMio"]
          /\ UNCHANGED wslot
     ELSE /\ UNCHANGED <<locked, refs, task, wslot>>
          /\ pc' = [pc EXCEPT ![t] = IF op[t] = "register" THEN "rLock"
                                                            ELSE "idle"]
  /\ UNCHANGED <<created, reactorRefs, deregd, mioTok, op, held,
                 calls, mioFailed>>

\* Registration::deregister: lock, then TaskStateLock::take: if a task is
\* set, store(1) clears the pointer bits and the task moves out of the
\* ManuallyDrop.  With no task the lock is dropped at once, and register
\* goes on to lock again.
DeregLock(t) ==
  /\ pc[t] = "dLock"
  /\ TryLock
  /\ IF wslot # None
     THEN /\ Take
          /\ refs' = Inc(refs, wslot)
          /\ task' = [task EXCEPT ![t] = wslot]
          /\ pc' = [pc EXCEPT ![t] = "dMio"]
     ELSE /\ UNCHANGED <<locked, refs, task, wslot>>
          /\ pc' = [pc EXCEPT ![t] = IF op[t] = "register" THEN "rLock"
                                                            ELSE "idle"]
  /\ UNCHANGED <<created, reactorRefs, deregd, mioTok, op, held,
                 calls, mioFailed>>

\* task.reactor().upgrade(), then HandlePriv::deregister(io, task):
\* poll.deregister(io)?, then Tasks::deregister_task(task), which takes the
\* task's reference.  On a mio error the task is dropped and the error
\* returned, also out of register.  If the reactor is gone the task is
\* only dropped.  The lock is released when deregister returns.
DeregMio(t) ==
  /\ pc[t] = "dMio"
  /\ LET s == task[t] IN
     \/ /\ alive
        /\ mioTok' = None
        /\ reactorRefs' = [reactorRefs EXCEPT ![s] = @ + 1]
        /\ deregd' = deregd \cup {s}
        /\ pc' = [pc EXCEPT ![t] = IF op[t] = "register" THEN "rLock"
                                                          ELSE "idle"]
        /\ UNCHANGED <<refs, mioFailed>>
     \/ /\ alive /\ MioFails
        /\ refs' = Dec(refs, s)
        /\ pc' = [pc EXCEPT ![t] = "idle"]
        /\ mioFailed' = TRUE
        /\ UNCHANGED <<mioTok, reactorRefs, deregd>>
     \/ /\ ~alive
        /\ refs' = Dec(refs, s)
        /\ pc' = [pc EXCEPT ![t] = IF op[t] = "register" THEN "rLock"
                                                          ELSE "idle"]
        /\ UNCHANGED <<mioTok, reactorRefs, deregd, mioFailed>>
  /\ locked' = FALSE
  /\ task' = [task EXCEPT ![t] = None]
  /\ UNCHANGED <<wslot, created, op, held, calls>>

\* Registration::register after its deregister: lock again,
\* handle.expect_upgrade(), then ReactorTask::new (count 1) and
\* reactor.register(io, task.clone(), ...), whose Tasks::add_task moves the
\* clone onto the reactor's change queue.
RegLock(t) ==
  /\ pc[t] = "rLock"
  /\ TryLock
  /\ alive
  /\ \E s \in Slots \ created :
       /\ created' = created \cup {s}
       /\ refs' = [Inc(refs, wslot) EXCEPT ![s] = 2]
       /\ reactorRefs' = [reactorRefs EXCEPT ![s] = 1]
       /\ task' = [task EXCEPT ![t] = s]
  /\ locked' = TRUE
  /\ held' = [held EXCEPT ![t] = wslot]
  /\ pc' = [pc EXCEPT ![t] = "rMio"]
  /\ UNCHANGED <<wslot, deregd, mioTok, op, calls, mioFailed>>

\* ... expect_upgrade fails: register returns the error, and dropping taskl
\* releases the lock without dropping the task from_token read.
RegLockGone(t) ==
  /\ pc[t] = "rLock"
  /\ TryLock
  /\ ~alive
  /\ refs' = Inc(refs, wslot)
  /\ pc' = [pc EXCEPT ![t] = "idle"]
  /\ UNCHANGED <<wslot, locked, created, reactorRefs, deregd, mioTok, op,
                 held, task, calls, mioFailed>>

\* Mutant of Set: the new task is dropped instead of kept.
SetDropsTask(t, s) ==
  /\ refs' = Dec(Dec(refs, held[t]), s)
  /\ wslot' = s

\* TaskStateLock::set(task): drop the old task if one is held, keep the new
\* one (stealing its reference) and store its token with the lock bit.
Set(t, s) ==
  /\ refs' = Dec(refs, held[t])
  /\ wslot' = s

\* Mutant of RegMio: the error of poll.register is ignored.
RegMioSetsOnError(t) ==
  /\ pc[t] = "rMio"
  /\ LET s == task[t] IN
     \/ /\ mioTok = None
        /\ mioTok' = s
        /\ Set(t, s)
        /\ UNCHANGED mioFailed
     \/ /\ mioTok # None \/ MioFails
        /\ mioFailed' = (mioFailed \/ mioTok = None)
        /\ Set(t, s)
        /\ UNCHANGED mioTok
  /\ locked' = FALSE
  /\ held' = [held EXCEPT ![t] = None]
  /\ task' = [task EXCEPT ![t] = None]
  /\ pc' = [pc EXCEPT ![t] = "idle"]
  /\ UNCHANGED <<created, reactorRefs, deregd, op, calls>>

\* poll.register(io, token, ...)?: mio rejects an io that is registered
\* already; on success taskl.set(task).  Either way taskl is dropped.
RegMio(t) ==
  /\ pc[t] = "rMio"
  /\ LET s == task[t] IN
     \/ /\ mioTok = None
        /\ mioTok' = s
        /\ Set(t, s)
        /\ UNCHANGED mioFailed
     \/ /\ mioTok # None \/ MioFails
        /\ mioFailed' = (mioFailed \/ mioTok = None)
        /\ refs' = Dec(refs, s)
        /\ UNCHANGED <<mioTok, wslot>>
  /\ locked' = FALSE
  /\ held' = [held EXCEPT ![t] = None]
  /\ task' = [task EXCEPT ![t] = None]
  /\ pc' = [pc EXCEPT ![t] = "idle"]
  /\ UNCHANGED <<created, reactorRefs, deregd, op, calls>>

\* The borrowing calls: lock, then taskl.as_ref().
BorrowLock(t) ==
  /\ pc[t] = "bLock"
  /\ TryLock
  /\ locked' = TRUE
  /\ refs' = Inc(refs, wslot)
  /\ held' = [held EXCEPT ![t] = wslot]
  /\ pc' = [pc EXCEPT ![t] = "bUse"]
  /\ UNCHANGED <<wslot, created, reactorRefs, deregd, mioTok, op, task,
                 calls, mioFailed>>

\* Use the borrowed task, or fail with "not registered" (an error, or a
\* panic in poll_write_ready and reregister, whose unwinding drops taskl
\* all the same), then drop taskl.
BorrowUse(t) ==
  /\ pc[t] = "bUse"
  /\ locked' = FALSE
  /\ held' = [held EXCEPT ![t] = None]
  /\ pc' = [pc EXCEPT ![t] = "idle"]
  /\ UNCHANGED <<wslot, refs, created, reactorRefs, deregd, mioTok, op, task,
                 calls, mioFailed>>

\* The reactor's cleanup_tasks drops its references to a deregistered slot.
ReactorRelease(s) ==
  /\ s \in deregd
  /\ reactorRefs[s] > 0
  /\ refs' = [refs EXCEPT ![s] = @ - reactorRefs[s]]
  /\ reactorRefs' = [reactorRefs EXCEPT ![s] = 0]
  /\ UNCHANGED <<wslot, locked, created, deregd, mioTok, pc, op, held, task,
                 calls, mioFailed>>

\* The Reactor is dropped while no register holds the Arc<Inner> it
\* upgraded (between expect_upgrade and poll.register): Inner goes with it.
\* Poll closes, so mio holds no token for the io, and Tasks::drop runs
\* cleanup_tasks and empties local_list, dropping every reference the
\* reactor held.  The Registrations keep their tasks.
ReactorGone ==
  /\ alive
  /\ \A t \in Threads : pc[t] # "rMio"
  /\ alive' = FALSE
  /\ mioTok' = None
  /\ refs' = [s \in Slots |-> refs[s] - reactorRefs[s]]
  /\ reactorRefs' = [s \in Slots |-> 0]
  /\ UNCHANGED <<wslot, locked, created, deregd, pc, op, held, task, calls,
                 mioFailed>>

\* Every call has been made and returned.
Finished ==
  /\ calls = MaxCalls
  /\ \A t \in Threads : pc[t] = "idle"
  /\ UNCHANGED vars

\* The steps of the calling threads and of the reactor thread; none of
\* them drops the Reactor.
Step ==
  \/ \E t \in Threads :
       \/ \E o \in Ops : Call(t, o)
       \/ DeregLock(t) \/ DeregMio(t) \/ RegLock(t) \/ RegLockGone(t)
       \/ RegMio(t) \/ BorrowLock(t) \/ BorrowUse(t)
  \/ \E s \in Slots : ReactorRelease(s)

Next ==
  \/ Step /\ UNCHANGED alive
  \/ ReactorGone
  \/ Finished

Spec == Init /\ [][Next]_vars

(***************************************************************************)
(* Properties                                                              *)
(***************************************************************************)

Count(S) == Cardinality(S)

\* The references each slot should have: the word's one (spec 4.1: the slot
\* holds an optional strong reference), the task a lock holder read with
\* from_token, the task a call owns, and those moved into the reactor.
Owners(s) ==
  (IF wslot = s THEN 1 ELSE 0) + Count({t \in Threads : held[t] = s})
    + Count({t \in Threads : task[t] = s}) + reactorRefs[s]

TypeOK ==
  /\ wslot \in Slots \cup {None} /\ locked \in BOOLEAN
  /\ refs \in [Slots -> Nat] /\ created \subseteq Slots
  /\ reactorRefs \in [Slots -> 0..2] /\ deregd \subseteq created
  /\ mioTok \in Slots \cup {None}
  /\ pc \in [Threads -> Pcs] /\ op \in [Threads -> Ops]
  /\ held \in [Threads -> Slots \cup {None}]
  /\ task \in [Threads -> Slots \cup {None}]
  /\ calls \in 0..MaxCalls /\ mioFailed \in BOOLEAN /\ alive \in BOOLEAN

\* The spin lock of TaskState::lock excludes: at most one thread is between
\* a successful fetch_or(1) and the fetch_and(!1) of TaskStateLock::drop,
\* and the lock bit is set exactly while one is, although take and set
\* overwrite the whole word, lock bit included, while the lock is held.
MutualExclusion ==
  /\ Count({t \in Threads : pc[t] \in LockedPcs}) <= 1
  /\ locked <=> \E t \in Threads : pc[t] \in LockedPcs

\* No InnerTask is freed while something still refers to it: every slot
\* has at least as many strong references as owners, through any
\* interleaving of register, deregister and borrowing calls.
NoUseAfterFree == \A s \in created : refs[s] >= Owners(s)

\* ... and exactly as many: a borrowing call or a take does not leave a
\* reference behind, so a slot is freed once its owners are gone.
RefCountExact == \A s \in created : refs[s] = Owners(s)

\* While no thread holds the lock, and as long as no mio call has failed,
\* mio delivers the io's events with the token of the task in the word (or
\* the io is not registered and the word is empty): concurrent register and
\* deregister calls, with the gap between register's deregister and its
\* second lock, keep the two in step; once the Reactor is dropped, mio
\* holds no token, and no register may hand one to a closed Poll.  (A
\* failed poll.deregister leaves the io in mio after the word was emptied:
\* Registration::deregister's take comes first.)
WordMatchesMio ==
  ~mioFailed /\ (\A t \in Threads : pc[t] \notin LockedPcs) =>
    mioTok = IF alive THEN wslot ELSE None

\* Every slot the reactor holds that was never deregistered can still be
\* deregistered: it is the word's task or owned by a call in progress.
\* Otherwise it stays on the reactor's local_list for good.
NoOrphanSlot ==
  \A s \in created :
    reactorRefs[s] > 0 /\ s \notin deregd =>
      s = wslot \/ \E t \in Threads : task[t] = s
=============================================================================
