------------------------------- MODULE Runtime -------------------------------
(***************************************************************************)
(* The composed runtime of src/runtime.rs: Runtime::run_until drives       *)
(* LocalPool::run_until (fumio-pool/src/pool.rs) on the TimerReactor's     *)
(* Park, which is the reactor's Reactor::poll (fumio-reactor) with its     *)
(* POLLING/PENDING self-wake (reactor/waker.rs).  One OS thread is both    *)
(* the pool thread and the reactor thread.                                 *)
(*                                                                         *)
(* The driving future spawns one task through the spawner and joins the   *)
(* oneshot receivers: one completed by that task once its socket is        *)
(* readable, one by each foreign thread (work handed to other threads).    *)
(* The task polls the read side of its PollEvented; the socket becomes     *)
(* readable when a peer sends.  Every waker the driving future registers   *)
(* is the run loop's own, the reactor waker; the task's waker is a pool    *)
(* Task waker, woken on the pool thread by update_ready.                   *)
(*                                                                         *)
(* A oneshot's complete flag and waker slot are updated under its lock, so *)
(* a send and a receiver poll are each one step.  The timer wheel has no   *)
(* timers: Timer::turn(None) parks the reactor with no timeout.            *)
(*                                                                         *)
(* Around the loop, Runtime::enter enters the reactor handle and the       *)
(* spawner into the thread's Current slots (Current), which is how the    *)
(* futures polled in the loop find them.  The caller may already be inside *)
(* a fumio::Handle::enter of this or another runtime, and may catch the    *)
(* panic of run_until with catch_unwind.                                   *)
(***************************************************************************)
EXTENDS Naturals, Sequences, Bitwise

CONSTANTS Msgs,     \* messages the peer sends; the task reads them all
          Foreign   \* threads each completing one oneshot

ASSUME Msgs \in Nat \ {0} /\ "task" \notin Foreign

Senders == {"task"} \cup Foreign

VARIABLES
  pc,        \* the runtime thread: where it is in run_executor's loop
  wstate,    \* reactor waker Inner::state (STATE_POLLING, STATE_PENDING)
  zero,      \* Reactor::poll passes a zero timeout to mio
  tok0,      \* an event is queued on the self-wake registration (token 0)
  ioEvent,   \* an event is queued on the task's socket registration
  gotIo,     \* the events mio returned hold the socket's event
  acc,       \* the socket's read_readiness
  ioWaker,   \* read_waker holds the task's waker
  poolWaker, \* TaskList::waker holds the run loop's waker
  task,      \* the spawned task: "none", "alive" or "done"
  queued,    \* the task is on local_pending
  done,      \* done[s]: the oneshot from s is complete
  rxWaker,   \* rxWaker[s]: the oneshot from s holds the driving future's waker
  fpc,       \* the foreign threads
  sent,      \* messages the peer has sent
  inbox,     \* messages in the socket buffer
  got,       \* messages the task has read
  slot, guards,  \* the thread's Current slots and live Reset guards
  outer,     \* the handle the caller entered before run_until, or "none"
  base,      \* the guards live when run_until was called
  catching   \* run_until is called inside catch_unwind

scopeVars == <<slot, guards, outer, base, catching>>

vars == <<pc, wstate, zero, tok0, ioEvent, gotIo, acc, ioWaker, poolWaker,
          task, queued, done, rxWaker, fpc, sent, inbox, got, scopeVars>>

C == INSTANCE Current WITH Keys <- {"reactor", "spawner"}, None <- "none"

\* Handles of this runtime and of another one the caller may have entered.
Handles == {"rt", "other"}

STATE_POLLING == 1
STATE_PENDING == 2

Polling(s) == (s & STATE_POLLING) # 0
Pending(s) == (s & STATE_PENDING) # 0

\* Runtime::new: a fresh reactor, waker state 0, an empty pool.
Init ==
  /\ pc = "user"
  /\ C!Init /\ outer = "none" /\ base = 0 /\ catching = FALSE
  /\ wstate = 0 /\ zero = FALSE /\ tok0 = FALSE
  /\ ioEvent = FALSE /\ gotIo = FALSE
  /\ acc = FALSE /\ ioWaker = FALSE /\ poolWaker = FALSE
  /\ task = "none" /\ queued = FALSE
  /\ done = [s \in Senders |-> FALSE]
  /\ rxWaker = [s \in Senders |-> FALSE]
  /\ fpc = [f \in Foreign |-> "run"] /\ sent = 0 /\ inbox = 0 /\ got = 0

(***************************************************************************)
(* Wakes made on the runtime thread, as operators on the waker state.      *)
(***************************************************************************)

\* Mutant of ReactorWake: fetch_add in place of fetch_or.
ReactorWakeFetchAdd ==
  /\ wstate' = wstate + STATE_PENDING
  /\ tok0' = (tok0 \/ (~Pending(wstate) /\ Polling(wstate)))

\* Inner::wake_by_ref: fetch_or(PENDING); only if PENDING was clear and
\* POLLING set does it make token 0 readable.
ReactorWake ==
  /\ wstate' = wstate | STATE_PENDING
  /\ tok0' = (tok0 \/ (~Pending(wstate) /\ Polling(wstate)))

\* The run loop's waker, if the AtomicWaker TaskList::waker holds it.
local_notify_wake ==
  IF poolWaker THEN poolWaker' = FALSE /\ ReactorWake
               ELSE UNCHANGED <<poolWaker, wstate, tok0>>

\* Task::wake_by_ref on the pool thread -> TaskList::local_notify: append
\* an alive, unlinked task to local_pending and wake TaskList::waker.
local_notify ==
  IF task = "alive" /\ ~queued
  THEN queued' = TRUE /\ local_notify_wake
  ELSE UNCHANGED <<queued, poolWaker, wstate, tok0>>

(***************************************************************************)
(* The runtime thread: run_executor's loop of f (the run_until closure)    *)
(* and park.park(enter, None).                                             *)
(***************************************************************************)

\* The driving future's first poll spawns the task: LocalSpawner's Weak
\* upgrades (the pool is alive inside run_until), add_task appends it to
\* local_all and local_notify schedules its first poll.
Spawn ==
  /\ task' = "alive"
  /\ queued' = TRUE
  /\ local_notify_wake

\* run_until's closure polls the driving future first: a join of the two
\* receivers, each of which returns its value or registers the waker.
PollMain ==
  /\ pc = "main"
  /\ IF task = "none" THEN Spawn
                      ELSE UNCHANGED <<task, queued, poolWaker, wstate, tok0>>
  /\ rxWaker' = [s \in Senders |-> ~done[s]]
  /\ pc' = IF \A s \in Senders : done[s] THEN "returned" ELSE "pool"
  /\ UNCHANGED <<zero, ioEvent, gotIo, acc, ioWaker, done, fpc, sent, inbox,
                 got>>

\* The task's poll: poll_read_ready takes the readiness.  With some it
\* reads what the socket holds; after the last message it completes its
\* oneshot, which wakes the driving future's waker (the reactor waker) on
\* this thread, and finishes (local_clear); otherwise the read would block
\* and it polls again.  With none, poll_read_ready registers the waker and
\* takes again (nothing runs in between on this thread): Pending.
TaskPoll ==
  /\ acc' = FALSE
  /\ inbox' = IF acc THEN 0 ELSE inbox
  /\ got' = IF acc THEN got + inbox ELSE got
  /\ IF acc /\ got + inbox = Msgs
     THEN /\ task' = "done"
          /\ done' = [done EXCEPT !["task"] = TRUE]
          /\ rxWaker' = [rxWaker EXCEPT !["task"] = FALSE]
          /\ IF rxWaker["task"] THEN ReactorWake
                               ELSE UNCHANGED <<wstate, tok0>>
          /\ UNCHANGED ioWaker
     ELSE /\ ioWaker' = TRUE
          /\ UNCHANGED <<task, done, rxWaker, wstate, tok0>>

\* run_executor calls park.park(enter, None): TimerReactor::park turns the
\* timer wheel, which (with no timers) parks ParkReactor with no timeout,
\* and that is Reactor::poll(None).
Park == pc' = "start"

\* Mutant of PollPool: run_until parks as soon as the driving future is
\* pending, without polling the pool.
PollPoolSkipped ==
  /\ pc = "pool"
  /\ Park
  /\ UNCHANGED <<wstate, zero, tok0, ioEvent, gotIo, acc, ioWaker, poolWaker,
                 task, queued, done, rxWaker, fpc, sent, inbox, got>>

\* poll_pool -> LocalTaskList::poll: register the run loop's waker, then
\* TaskList::poll polls the tasks on local_pending.  run_until ignores the
\* result and its closure returns Pending, so run_executor parks.
PollPool ==
  /\ pc = "pool"
  /\ IF queued THEN /\ queued' = FALSE
                    /\ TaskPoll
                    /\ poolWaker' = TRUE
               ELSE /\ poolWaker' = TRUE
                    /\ UNCHANGED <<queued, acc, ioWaker, task, done, rxWaker,
                                   wstate, tok0, inbox, got>>
  /\ Park
  /\ UNCHANGED <<zero, ioEvent, gotIo, fpc, sent>>

\* Reactor::poll -> ReactorWaker::start_poll: with PENDING already set, poll without
\* blocking and without setting POLLING.
StartPoll ==
  /\ pc = "start"
  /\ IF Pending(wstate) THEN zero' = TRUE /\ pc' = "os_poll"
                        ELSE pc' = "set_polling" /\ UNCHANGED zero
  /\ UNCHANGED <<wstate, tok0, ioEvent, gotIo, acc, ioWaker, poolWaker, task,
                 queued, done, rxWaker, fpc, sent, inbox, got>>

\* fetch_or(POLLING): a PENDING set meanwhile means no blocking.
SetPolling ==
  /\ pc = "set_polling"
  /\ wstate' = wstate | STATE_POLLING
  /\ IF Pending(wstate) THEN pc' = "unset_polling" /\ UNCHANGED zero
                        ELSE pc' = "os_poll" /\ zero' = FALSE
  /\ UNCHANGED <<tok0, ioEvent, gotIo, acc, ioWaker, poolWaker, task, queued,
                 done, rxWaker, fpc, sent, inbox, got>>

\* fetch_and(!POLLING); poll gets Some(0).
UnsetPolling ==
  /\ pc = "unset_polling"
  /\ wstate' = wstate & STATE_PENDING
  /\ zero' = TRUE
  /\ pc' = "os_poll"
  /\ UNCHANGED <<tok0, ioEvent, gotIo, acc, ioWaker, poolWaker, task, queued,
                 done, rxWaker, fpc, sent, inbox, got>>

\* mio::Poll::poll returns the queued events (edge-triggered: each is
\* returned once); with no timeout it blocks until there is one.
OsPoll ==
  /\ pc = "os_poll"
  /\ zero \/ tok0 \/ ioEvent
  /\ gotIo' = ioEvent
  /\ ioEvent' = FALSE /\ tok0' = FALSE
  /\ pc' = "dispatch"
  /\ UNCHANGED <<wstate, zero, acc, ioWaker, poolWaker, task, queued, done,
                 rxWaker, fpc, sent, inbox, got>>

\* The event loop skips token 0 and hands the socket's event to
\* update_ready: fetch_or into read_readiness, then read_waker.wake(),
\* which wakes the task on this thread (local_notify).
Dispatch ==
  /\ pc = "dispatch"
  /\ IF gotIo
     THEN /\ acc' = TRUE
          /\ ioWaker' = FALSE
          /\ IF ioWaker THEN local_notify
                        ELSE UNCHANGED <<queued, poolWaker, wstate, tok0>>
     ELSE UNCHANGED <<acc, ioWaker, queued, poolWaker, wstate, tok0>>
  /\ gotIo' = FALSE
  /\ pc' = "guard_drop"
  /\ UNCHANGED <<zero, ioEvent, task, done, rxWaker, fpc, sent, inbox, got>>

\* Drop for ReactorWakerPollling at the end of Reactor::poll: swap(0)
\* resets POLLING and PENDING; park returns and run_executor calls f.
GuardDrop ==
  /\ pc = "guard_drop"
  /\ wstate' = 0
  /\ pc' = "main"
  /\ UNCHANGED <<zero, tok0, ioEvent, gotIo, acc, ioWaker, poolWaker, task,
                 queued, done, rxWaker, fpc, sent, inbox, got>>

(***************************************************************************)
(* Each foreign thread completes its oneshot; the wake of the driving      *)
(* future's waker (the reactor waker) is two atomic steps.                 *)
(***************************************************************************)

\* Sender::send: mark complete and take the receiver's waker, if any.
Complete(f) ==
  /\ fpc[f] = "run"
  /\ done' = [done EXCEPT ![f] = TRUE]
  /\ rxWaker' = [rxWaker EXCEPT ![f] = FALSE]
  /\ fpc' = [fpc EXCEPT ![f] = IF rxWaker[f] THEN "wake" ELSE "idle"]
  /\ UNCHANGED <<pc, wstate, zero, tok0, ioEvent, gotIo, acc, ioWaker,
                 poolWaker, task, queued, sent, inbox, got>>

\* Mutant of WakeOr: set_readiness is never called.
WakeOrNoSignal(f) ==
  /\ fpc[f] = "wake"
  /\ wstate' = wstate | STATE_PENDING
  /\ fpc' = [fpc EXCEPT ![f] = "idle"]
  /\ UNCHANGED <<pc, zero, tok0, ioEvent, gotIo, acc, ioWaker, poolWaker,
                 task, queued, done, rxWaker, sent, inbox, got>>

\* Inner::wake_by_ref: prev = fetch_or(PENDING); return if PENDING was
\* already set or POLLING was not.
WakeOr(f) ==
  /\ fpc[f] = "wake"
  /\ wstate' = wstate | STATE_PENDING
  /\ fpc' = [fpc EXCEPT ![f] = IF ~Pending(wstate) /\ Polling(wstate)
                                THEN "signal" ELSE "idle"]
  /\ UNCHANGED <<pc, zero, tok0, ioEvent, gotIo, acc, ioWaker, poolWaker,
                 task, queued, done, rxWaker, sent, inbox, got>>

\* set_readiness(readable) on the token 0 registration.
Signal(f) ==
  /\ fpc[f] = "signal"
  /\ tok0' = TRUE
  /\ fpc' = [fpc EXCEPT ![f] = "idle"]
  /\ UNCHANGED <<pc, wstate, zero, ioEvent, gotIo, acc, ioWaker, poolWaker,
                 task, queued, done, rxWaker, sent, inbox, got>>

\* The peer sends a message: the socket's registration gets an event.
PeerSend ==
  /\ sent < Msgs
  /\ sent' = sent + 1
  /\ inbox' = inbox + 1
  /\ ioEvent' = TRUE
  /\ UNCHANGED <<pc, wstate, zero, tok0, gotIo, acc, ioWaker, poolWaker,
                 task, queued, done, rxWaker, fpc, got, scopeVars>>

(***************************************************************************)
(* The runtime thread's enters around the loop (Current)                   *)
(***************************************************************************)

loopVars == <<wstate, zero, tok0, ioEvent, gotIo, acc, ioWaker, poolWaker,
              task, queued, done, rxWaker, fpc, sent, inbox, got>>

\* reactor::Handle::enter -> executor::enter -> Current::enter.
ReactorEnter(h) == C!Enter("reactor", h)

\* LocalSpawner::enter -> current::enter_local -> Current::enter.
SpawnerEnter(h) == C!Enter("spawner", h)

\* reactor::current() (LazyHandle::bind of an unbound handle) and
\* current_local().
current == C!With("reactor")
current_local == C!With("spawner")

\* The caller enters runtime h's reactor handle: reactor::Handle::enter
\* alone, or as the first part of fumio::Handle::enter (the slots are
\* empty, so the assert passes) ...
UserEnterReactor(h) ==
  /\ pc = "user"
  /\ ReactorEnter(h)
  /\ outer' = h
  /\ pc' \in {"user_in", "user_spawner"}
  /\ UNCHANGED <<base, catching>>

\* ... then, after the timer default, its spawner; or LocalSpawner::enter
\* alone.
UserEnterSpawner(h) ==
  /\ \/ pc = "user_spawner" /\ h = outer
     \/ pc = "user"
  /\ SpawnerEnter(h)
  /\ outer' = h
  /\ pc' = "user_in"
  /\ UNCHANGED <<base, catching>>

\* Runtime::run_until (the Enter is the caller's, or futures_executor's),
\* called directly or inside catch_unwind.
RunUntil ==
  /\ pc \in {"user", "user_in"}
  /\ base' = Len(guards)
  /\ catching' \in BOOLEAN
  /\ pc' = "enter_reactor"
  /\ UNCHANGED <<slot, guards, outer>>

\* Runtime::enter: this runtime's reactor handle, then (after the timer
\* default) its spawner; a failed assert panics.
EnterReactor ==
  /\ pc = "enter_reactor"
  /\ \/ ReactorEnter("rt") /\ pc' = "enter_spawner"
     \/ C!EnterPanics("reactor", "rt") /\ pc' = "unwind"
  /\ UNCHANGED <<outer, base, catching>>

EnterSpawner ==
  /\ pc = "enter_spawner"
  /\ \/ SpawnerEnter("rt") /\ pc' = "main"
     \/ C!EnterPanics("spawner", "rt") /\ pc' = "unwind"
  /\ UNCHANGED <<outer, base, catching>>

\* The panic unwinds through the Reset guards run_until created, up to the
\* caller's catch_unwind; uncaught, through every guard: the thread dies.
Unwind ==
  /\ pc = "unwind"
  /\ IF catching THEN C!ResetTo(base) /\ pc' = "after"
                  ELSE C!ResetTo(0) /\ pc' = "panicked"
  /\ UNCHANGED <<outer, base, catching>>

\* run_until returns: the spawner's and the reactor's guards drop.
Return ==
  /\ pc = "returned"
  /\ C!ResetTo(base)
  /\ pc' = "after"
  /\ UNCHANGED <<outer, base, catching>>

\* The caller's Handle::enter returns.
UserExit ==
  /\ pc = "after"
  /\ C!ResetTo(0)
  /\ pc' = "exited"
  /\ UNCHANGED <<outer, base, catching>>

ScopeStep ==
  /\ \/ \E h \in Handles : UserEnterReactor(h) \/ UserEnterSpawner(h)
     \/ RunUntil \/ EnterReactor \/ EnterSpawner
     \/ Unwind \/ Return \/ UserExit
  /\ UNCHANGED loopVars

\* The thread has left every call, and the foreign threads are finished.
Terminated ==
  /\ pc \in {"exited", "panicked"}
  /\ \A f \in Foreign : fpc[f] = "idle"
  /\ UNCHANGED vars

LoopStep ==
  \/ PollMain \/ PollPool \/ StartPoll \/ SetPolling \/ UnsetPolling
  \/ OsPoll \/ Dispatch \/ GuardDrop

RuntimeStep == (LoopStep /\ UNCHANGED scopeVars) \/ ScopeStep

ForeignStep(f) ==
  (Complete(f) \/ WakeOr(f) \/ Signal(f)) /\ UNCHANGED scopeVars

Next ==
  \/ RuntimeStep
  \/ \E f \in Foreign : ForeignStep(f)
  \/ PeerSend
  \/ Terminated

\* The runtime thread runs whenever it is not blocked in mio's poll; the
\* foreign threads finish their work and their wakes; the peer sends.
Fairness ==
  /\ WF_vars(RuntimeStep)
  /\ \A f \in Foreign : WF_vars(ForeignStep(f))
  /\ WF_vars(PeerSend)

Spec == Init /\ [][Next]_vars
FairSpec == Spec /\ Fairness

(***************************************************************************)
(* Properties                                                              *)
(***************************************************************************)

\* Where the run loop is, inside Runtime::enter.
LoopPcs == {"main", "pool", "start", "set_polling", "unset_polling",
            "os_poll", "dispatch", "guard_drop", "returned"}

TypeOK ==
  /\ pc \in LoopPcs \cup {"user", "user_spawner", "user_in", "enter_reactor",
                          "enter_spawner", "unwind", "after", "exited",
                          "panicked"}
  /\ C!TypeOK(Handles)
  /\ outer \in Handles \cup {"none"} /\ base \in 0..2
  /\ catching \in BOOLEAN
  /\ wstate \in 0..3
  /\ {zero, tok0, ioEvent, gotIo, acc, ioWaker, poolWaker, queued}
       \subseteq BOOLEAN
  /\ sent \in 0..Msgs /\ inbox \in 0..Msgs /\ got \in 0..Msgs
  /\ task \in {"none", "alive", "done"}
  /\ done \in [Senders -> BOOLEAN] /\ rxWaker \in [Senders -> BOOLEAN]
  /\ fpc \in [Foreign -> {"run", "wake", "signal", "idle"}]

\* The run loop has work: the task is on local_pending, or readiness waits
\* for it, or the driving future can complete.
HasWork ==
  \/ queued
  \/ task = "alive" /\ acc
  \/ \A s \in Senders : done[s]

\* Blocked: in mio's poll with no timeout and nothing queued to return.
Blocked == pc = "os_poll" /\ ~zero /\ ~tok0 /\ ~ioEvent

\* The single runtime thread never sleeps in mio's poll while it has work,
\* unless a foreign thread's wake is still on its way: wakes from the
\* pool (local_notify), from the task's oneshot, from update_ready and from
\* the foreign threads all go through the POLLING/PENDING word and the
\* guard's swap(0), and none of them may be lost between them.
NoSleepWithWork ==
  Blocked /\ HasWork => \E f \in Foreign : fpc[f] \in {"wake", "signal"}

\* Runtime::run_until, once it has entered the runtime, returns once the
\* peer and the foreign threads have done their part: every wake reaches
\* the driving future.
RunUntilReturns == (pc = "main") ~> (pc = "returned")

\* Current::enter's scoping holds through the runtime's enters: each slot
\* holds the value of its one live enter and is empty once it returned or
\* unwound, also after run_until panicked inside the caller's
\* Handle::enter and the caller caught the panic.
SlotMatchesGuards == C!SlotMatchesGuards
=============================================================================
