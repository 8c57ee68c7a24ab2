# TLA+ models of fumio

This project holds TLA+ models of the concurrency core of fumio: the single-threaded task pool, its lock-free wake queue, the intrusive doubly linked list, the reactor's self-wake as part of the composed runtime loop, the reactor's registration life cycle (change queue, dispatch by token, cleanup), the spin-locked task slot of a `Registration`, the thread-local current handles that `Runtime::enter` sets around its loop, and a socket driven through `PollEvented`: its lazy registration, the two I/O attempts around `poll_*_ready`, and the readiness handshake between the reactor and the polling task. They are checked with TLC.

Each module is translated from the Rust source under `src/`. `PROJECT.json` maps every modelled definition to the lines it stands for, and it lists every run, mutant, finding and hazard.

## The system

fumio is an async runtime built from three crates and a top-level crate.

- **fumio-utils** provides the shared building blocks:
  - `mpsc.rs`: an intrusive Vyukov multi-producer single-consumer queue with a stub node.
  - `local_dl_list.rs`: an intrusive doubly linked list for one thread.
  - `park.rs`: the `Park` trait and `ParkThread`.
  - `current.rs`: thread-local "current handle" slots.
- **fumio-pool** provides `LocalPool`, a single-threaded executor.
  - A task is an `Arc<Task>` with two flags:
    - `alive`: on `local_all`, only touched by the pool thread.
    - `queued`: an `AtomicBool` that gates the global queue.
  - Waking a task on the pool thread (`local_notify`) appends it to `local_pending`.
  - Waking it from another thread (`global_notify`) sets `queued`, pushes it onto the MPSC queue `global_pending`, and wakes the pool's `AtomicWaker`.
  - One round of `LocalTaskList::poll` runs in this order:
    1. registers the run loop's waker;
    2. drains the MPSC queue into `local_pending` (`fetch_global_notifies`);
    3. moves `local_pending` onto a `PollList`;
    4. polls each task once.
  - `LocalPool::run` then parks until it is woken.
- **fumio-reactor** is a mio-based reactor.
  - `Reactor::poll` uses `ReactorWaker` (a state word with bits `POLLING` and `PENDING`, plus a mio readiness at token 0) so that wakes from any thread stop a blocking poll.
  - Registrations (`Registration`, with a spin lock over the task pointer) register a `ReactorTask` with the reactor. The reactor's change queue (`Tasks`, another MPSC) carries the add and deregister requests to the reactor thread.
  - The reactor thread dispatches readiness events to each task's `AtomicWaker`s.
- **fumio** (`src/src`): a `Runtime` that runs a `LocalPool` on a `tokio_timer::Timer` parked on the reactor.

The parts interact through wakers:
- A future polled by the pool hands its task's waker to the reactor or to another thread.
- Firing that waker off the pool thread goes through the MPSC queue and wakes the pool's park.
- When the pool parks on the reactor, that wake is the reactor waker.

## Modules

| Module | Models | State | Actions |
|---|---|---|---|
| `Mpsc` | `fumio-utils/src/mpsc.rs` | `next`, `tail`, `head` (`head` stands for `Head::head` and the iterator's `pos`) | `SwapTail` and `StoreNext` (the two atomic halves of `_push`), `PopFront` (one turn of `PopAll::next`); `Chain`/`Items` read the queue as the consumer will see it, counting pushes between their two steps |
| `QueueSpec` | what the `mpsc!` head promises | `q`: a sequence of distinct elements | `Enqueue`, `Dequeue` |
| `MpscQueue` | the head the `mpsc!` macro generates in `fumio-utils/src/mpsc.rs`, over `Head` and `PopAll` | `Mpsc`'s `next`, `tail`, `head` (via `INSTANCE Mpsc`); the elements whose `Arc` the caller holds; per producer pc, node and the predecessor its swap returned; the consumer's pc, `repushed_stub`, `break_loop` and the stub re-push's predecessor | per producer `Push` (the macro's `push` and `tail.swap`), `Link` (the store); consumer `StartPop`, `PopNext` (one turn of `PopAll::next`), `StubSwap`/`StubLink` (the stub re-push), `StartDrop` (the macro head's drop), `HeadDrop` (`Head::drop`'s assert). `Queue == INSTANCE QueueSpec WITH q <- G!Items(InFlight)` is the refinement mapping |
| `Pool` | `fumio-pool/src/pool/task.rs`, `pool.rs`, the `Park` contract and `ParkThread` | `local_pending` and the `PollList` as sequences; `alive`, `queued`; the MPSC via `INSTANCE Mpsc`; the `AtomicWaker` registration; the park token; a program counter for the pool thread and for each foreign thread | `add_task`, `StartRound`, `DrainNext`/`StubSwap`/`StubLink`/`Ack` (`fetch_global_notifies` with the stub re-push), `PollTask` (a poll returning Ready, Pending after handing out wakers, or panicking, with `PollList::drop`), `EndRound`, `Unpark`, `SpuriousUnpark`, `DropPool`; per foreign thread `global_notify`, `PushSwap`, `PushLink`, `Notify` |
| `ListSpec` | what a `local_dl_list!` head promises | `lists`: a sequence per head | `AppendElem`, `PrependElem`, `PopFront`, `PopBack`, `RemoveElem`, `TakeFrom` |
| `LocalDLList` | `fumio-utils/src/local_dl_list.rs` | `next`, `prev` per head and element (null while unlinked; a list is a ring through its head) | each `LocalDLHead` function is a pure operator on a pointer record (`InitRing`, `Unlink`, `InsertAfter`/`InsertBefore` with their four stores in order, `TakeFrom`); actions are the generated methods `prepend`, `append`, `pop_front`, `pop_back`, `unlink`, `take_from`. `ListOf(h)` walks the ring, and `INSTANCE ListSpec WITH lists <- [h \in Heads \|-> ListOf(h)]` is the refinement mapping |
| `ReactorTasks` | `fumio-reactor/src/reactor/task.rs` (`Tasks`, `from_token`), `HandlePriv::register`/`deregister` in `reactor.rs`, the calls from `Registration::register`/`deregister` | per slot the state byte (`QUEUED`/`DEREGISTERED`, via `Bitwise`) and the `Arc` reference count; `local_list` as a set; the change queue via `INSTANCE Mpsc`; mio's registered set and pending events; the reactor's pc and event batch; whether the `Reactor` itself still exists; each client thread's pc and slot; per slot the reference `Registration::deregister` leaves behind (`leaked`) | `register` (the slot's creation and `add_task`'s CAS), `PushSwap`/`PushLink`, `MioRegister` (success or failure), `deregister` (the `TaskState` lock's `from_token` and `take`, which leaves the word's reference behind as finding 4 describes, then mio deregister, success or failure), `deregister_task`; `OsEvent`, `Poll`, `Dispatch` (`from_token` + `update_ready`), `StartCleanup`, `CleanupNext` (one turn of `cleanup_tasks`: stub re-push, or `fetch_and` then `local_remove`/`local_add`); the reactor going away: `ReactorDrop` (the `Reactor` lets go of its `Arc<Inner>`), `InnerDrop` (the last strong reference is gone: mio's `Poll` closes, `Tasks::drop` starts with `cleanup_tasks`), `DrainLocal` (the rest of `Tasks::drop`). `Strong` is the condition under which `Handle::upgrade` succeeds: the `Reactor`, or a call in progress, still holds an `Arc<Inner>`. Without it `register` creates nothing and `deregister` drops its task without calling the reactor |
| `Registration` | `fumio-reactor/src/reactor/registration.rs` (`TaskState`, `TaskStateLock`, `Registration`) | the word's pointer bits and lock bit; the strong count of each `InnerTask`; the references moved into the reactor and the set of deregistered slots; the token mio holds for the io; `mioFailed`, a history variable recording that a mio call has failed; whether the `Reactor` still exists; per thread pc, call kind, the lock's `ManuallyDrop` task and the task the call owns | `Call` (a `register`, `deregister` or borrowing call starts), `DeregLock` (lock + `take`, whose `store(1)` is `Take`: it writes the whole word, lock bit included), `DeregMio` (`HandlePriv::deregister`, success or failure; the lock is released), `RegLock` (the second lock, `ReactorTask::new`, `add_task`), `RegMio` (`poll.register`, rejected if mio has the io already, then `set`), `BorrowLock`/`BorrowUse` (lock, `as_ref`, panic on `unwrap` if empty, unlock), `ReactorRelease`, `Finished`; the reactor going away: `ReactorGone` (the `Reactor` and its `Inner` are dropped while no `register` holds the `Arc<Inner>` it upgraded: mio's `Poll` closes and `Tasks::drop` releases every reference the reactor held), `RegLockGone` (`expect_upgrade` fails after the second lock), and `DeregMio`'s third case (`upgrade` fails, the task is only dropped). `Step` groups the steps that leave the `Reactor` alone |
| `Readiness` | `ReactorTask::update_ready` and `poll_*_ready` in `reactor/task.rs` (a library module: `PollEvented` instantiates it) | per side the accumulator (a set of `mio::Ready` bits), whether the `AtomicWaker` holds the task's waker, whether the task is woken; each side's call stage; the reactor's stage in `update_ready` and the event it serves | `UpdateOr`, `UpdateWake` (per side, read then write, each masked); `PollTake`, `Register`, `Retake` (the take, `register`, take of `poll_*_ready`) |
| `PollEvented` | `PollEvented` (`reactor/evented.rs`: `register`, `try_mut_read`/`try_mut_write`), `Registration::poll_*_ready` on a registered or failed registration, the callers in `udp_socket.rs`, `tcp_listen.rs` and `helper.rs`, the reactor's poll in `reactor.rs` | `Readiness`'s variables (via `INSTANCE Readiness`); per side whether the socket can make progress; the readiness mio holds for the source; the `Once` and what `register` returned; the current call's side and pc; a bound on readiness edges; whether the reactor still exists | `BecomeReady` (a datagram arrives or room frees; mio reports the edge once registered), `Poll` (`Reactor::poll` hands the event to `update_ready`), `Start`, `Op1` (the first operation), `register` (the `Once`; success reports current readiness, failure is dropped), `PollReady` (`Readiness`'s steps), `PollNotRegistered` (error on the read side, `unwrap` panic on the write side), `Op2` (the second operation; `wake_by_ref` and `Pending` if it would block), `Resume` (the woken task polls the future again), `ReactorGone` (the `Reactor` is dropped between two polls: no more events, and `register` fails on `expect_upgrade`), `RetakeGone` (an empty second take with the reactor gone: `expect_upgrade` returns "reactor not running anymore" instead of `Pending`) |
| `Current` | `fumio-utils/src/current.rs` (`Current<T>`, `Reset`) for one thread (a library module: `Runtime` instantiates it) | per key the value in the `RefCell`; the stack of live `Reset` guards | `Enter` (assert, store, guard), `EnterPanics` (the assert fails before any guard exists), `ResetTo` (guards dropped on return or unwinding), `With` |
| `Runtime` | `Runtime::run_until` and `Runtime::enter` (`src/src/runtime.rs`), `Handle::enter`, `LocalSpawner::enter`, `LocalPool::run_until` and `run_executor` (`pool.rs`), `TimerReactor`'s `Park`, `Reactor::poll`, `ReactorWaker` (`reactor/waker.rs`) | the runtime thread's pc; the waker's state word (0..3, bits via `Bitwise`), the zero timeout, the queued events of token 0 and of one socket; that socket's read readiness and `read_waker`; `TaskList::waker`; the spawned task and whether it is on `local_pending`; per oneshot its complete flag and waker; each foreign thread's pc; the peer's messages; the reactor and spawner slots and guards (via `INSTANCE Current`), the handle the caller entered, the guards live at the call, whether the call is inside `catch_unwind` | `UserEnterReactor`/`UserEnterSpawner` (the caller's `fumio::Handle::enter`, `reactor::Handle::enter` or `LocalSpawner::enter`, of this runtime or another), `RunUntil`, `EnterReactor`/`EnterSpawner` (`Runtime::enter`; an occupied slot panics), `Unwind` (up to the caller's `catch_unwind`, or out of the thread), `Return`, `UserExit`; `PollMain` (the driving future's poll, which spawns the task through the spawner on its first poll), `PollPool` (`TaskPoll`: `poll_read_ready`, read, complete the oneshot), `StartPoll`, `SetPolling`, `UnsetPolling`, `OsPoll`, `Dispatch` (`update_ready` and `local_notify`), `GuardDrop`; per foreign thread `Complete`, `WakeOr`, `Signal`; `PeerSend` |

Futures are abstracted to what the pool can observe. A poll returns Ready, returns Pending after cloning the task's waker to some foreign threads and/or waking tasks on the pool thread, or panics. A future that hands its waker to a foreign thread is trusted to fire it eventually: that is the contract of `Poll::Pending`.

The history variable `woken` records a wake (or the spawn) that no poll has consumed yet.

In `Runtime` the one OS thread is both the pool thread and the reactor thread, so a task's poll (take, register, take) and `update_ready` never interleave; the other threads are the foreign threads, which call the reactor waker, and the peer, whose sends reach mio. The driving future stands for a program like spec scenario S4: it spawns a task that reads a socket and joins oneshots from that task and from foreign threads. A oneshot's send and a receiver's poll each run under the oneshot's lock and are single steps.

## Runs

| Run | cfg | Expect | What it shows |
|---|---|---|---|
| `pool` | `MCPool.cfg` | pass | `NoLostWake`: every live task with an unconsumed wake is on a ready list, on the global queue, or being pushed or moved there. `QueueWellFormed`: the MPSC is one injective chain from head to tail that holds the stub, and every task on it has `queued` set. `ReadyListsConsistent`: the ready lists hold only live tasks, each once. `WokenTaskPolled`: a woken live task is eventually polled or dies. `RunReturns`: `run` returns once all tasks complete, panics included. |
| `mpsc_refinement` | `MCMpscQueue.cfg` | pass | `ImplementsQueueSpec`: every step of the producers and the consumer is a FIFO push, a pop of the oldest element, or no change to the elements. `PushedIsPopped`: every pushed element is eventually popped (the `break_loop` of the second stub re-push ends an iteration without starving one). `DropLeavesStub`: the macro head's drop pops every element and leaves the tail at the stub, so `Head::drop`'s assert holds. |
| `cleared_task_requeued` | `MCPool_ClearedTaskNeverQueued.cfg` | violation | The comment in `local_clear` does not hold (see Findings). |
| `pool_drop_leak` | `MCPool_FreedAfterDrop.cfg` | violation | `FreedAfterDrop`: once the pool is dropped and no thread holds a waker, every task's strong count (`TaskRefs`: `local_all`, each occurrence on the global queue, a foreign waker or push, the drain's pop) is zero. It is not: dropping the pool leaks a task left on the global queue (see Findings). |
| `dl_list_refinement` | `MCLocalDLList.cfg` | pass | `PointersConsistent`: every node is fully linked or fully unlinked, and its neighbours point back at it. `ImplementsListSpec`: every step of the pointer-level list is the matching step of `ListSpec` on sequences. |
| `reactor_tasks` | `MCReactorTasks.cfg` | pass | With one client's mio register/deregister allowed to fail: `RefCountExact`: each slot's reference count equals its owners (the client call in progress, each occurrence on the change queue, `local_list`, and the reference `deregister`'s lock and `take` leave behind). `TokenValid`: a token registered with mio or in the event batch being dispatched always names a slot holding a reference besides the leaked one, so `from_token` would be sound even with finding 4's leak fixed. `ChangeQueueQueued`: the change queue never holds a slot twice and every slot on it has `QUEUED` (the `assert!` in `cleanup_tasks`). `DeregisteredSlotReleased`: a slot whose `deregister_task` ran is eventually released by the reactor and the call, whether or not cleanup had processed its add yet; only the leaked reference remains, so the slot is freed once finding 4 is fixed. `ReactorDropReleasesSlots`: once the `Reactor` is dropped, every slot that no `Registration` holds eventually keeps only its leaked reference. This covers slots added by a call that upgraded through another call's `HandlePriv` after the drop. It also covers a `Registration` whose later `deregister` finds the reactor gone. |
| `registration` | `MCRegistration.cfg` | pass | With mio failures: `MutualExclusion`: the `TaskState` spin lock excludes, and its lock bit is set exactly while a thread holds it, although `take` rewrites the whole word while the lock is held. `NoUseAfterFree`: no `InnerTask` ever has fewer strong references than owners (the word, a lock holder, a call, the reactor). `WordMatchesMio`: whenever no thread holds the lock and no mio call has failed, mio's token for the io is the word's task, through concurrent `register`/`deregister` calls; once the `Reactor` is dropped, mio holds no token, so no `register` hands one to a closed `Poll`. |
| `registration_ref_leak` | `MCRegistration_RefCountExact.cfg` | violation | `RefCountExact`: one borrowing call leaves a reference behind (see Findings). |
| `registration_orphan_slot` | `MCRegistration_NoOrphanSlot.cfg` | violation | `NoOrphanSlot`: two concurrent `register` calls orphan a reactor slot (see Findings). |
| `pollevented` | `MCPollEvented.cfg` | pass | With `register` allowed to fail: `NoLostReadiness` (spec property 2): a side parked in `Pending` with bits in its accumulator has been woken, or `update_ready` is about to wake it. `WaitingCallCompletes`: a call suspended in `Pending` while its side of the socket is ready eventually completes, through mio's edge, `register`'s report of current readiness, or `Op2`'s self-wake, unless the reactor is dropped first. `ReactorGoneSurfaces` (spec scenario S5): once the reactor is dropped, a call that runs ends. Its operation succeeds, or `register` fails, or, after the readiness left in the accumulator is used up, `poll_*_ready` returns the reactor-gone error. It does not wait for a wake no one will send. A call already parked in `Pending` at the drop is not covered: nothing wakes it (see the hazards). |
| `pollevented_write_panic` | `MCPollEvented_NoPanic.cfg` | violation | `NoPanic`: after a failed lazy `register`, a write-side call panics in `poll_write_ready` (see Findings). |
| `runtime` | `MCRuntime.cfg` | pass | `NoSleepWithWork`: the runtime thread is never blocked in mio's `poll(None)` with nothing queued for it while a task is on `local_pending`, readiness waits for the task, or the driving future can complete, unless a foreign thread's wake is still on its way. `SlotMatchesGuards`: each slot holds the value of its one live enter and is empty once that enter returned or unwound, also when `run_until` panics inside the caller's enter (after `Runtime::enter` already stored the reactor) and the caller catches the panic. `RunUntilReturns`: `Runtime::run_until`, once it has entered the runtime, returns. Wakes from `local_notify`, from the task's oneshot, from `update_ready` and from the foreign threads all meet the `POLLING`/`PENDING` word and the guard's `swap(0)`. |

Every property of a passing run has a mutant in `PROJECT.json`. A mutant is a plausible bug in the mapped code, and TLC finds the property violated with it in place:
- the stub handed out as a task, in the pool's drain and in `PopAll::next`;
- a push whose store re-reads the tail instead of using the swap's result;
- an iteration that ends before the second stub re-push; a head drop that does not drain;
- `PollList::drop` losing the rest of the round;
- `global_notify` ignoring `queued.swap`;
- a missing `is_unlinked` check in the drain;
- a missing `waker.wake()` after a push or after a local notify;
- `fetch_add` instead of `fetch_or`;
- `run_until` parking without polling the pool;
- a wake that never sets the readiness;
- `unlink` not repairing the successor's `prev`; `take_from` leaving the old head in the ring;
- `poll_*_ready` returning `Pending` without its `expect_upgrade` check;
- `local_add` dropping the queue's reference instead of moving it onto `local_list`;
- `local_remove` with its link check inverted, or without the `Arc::from_raw` that releases the list's reference;
- `deregister` skipping mio's deregister; `deregister_task` ignoring the result of its swap;
- `Tasks::drop` without its leading `cleanup_tasks`, so it empties only `local_list`;
- `take` clearing the word with `store(0)`, lock bit included; `set` dropping the new task; `take` not clearing the word; `register` ignoring mio's error;
- `poll_read_ready` without its second take; `update_ready` without the mask;
- `Current::enter`'s `Reset` guard created before the assert;
- `try_mut_*` returning `Pending` after a failed second operation without `wake_by_ref`.

### Bounds

- **`MCPool`:** two tasks (`t1`, `t2`) and two foreign threads (`f1`, `f2`), with `MaxPolls = 2`.
  - Two foreign threads are the fewest for which a second `global_notify` is coalesced on `queued` while the first is still between its two push steps.
  - Two tasks let one task's push link behind another's.
  - Two polls let a task be woken, drained, and woken again.
  - The run covers about 710 000 distinct states, with panics and under fairness, in about three minutes.
- **`MCRuntime`:** three messages from the peer and two foreign threads (about 10 300 states). The caller starts at top level, or inside an enter of this runtime's or another runtime's reactor handle, spawner or both, with or without `catch_unwind`: every way `Runtime::enter` can meet an occupied slot, on either key. Three messages let a read find the socket empty after a coalesced event, so the task registers again over several parks. Two foreign threads let one wake find `PENDING` already set by the other while the second still has to end a blocking poll.

- **`MCMpscQueue`:** two producers, two elements and four pushes (about 5 300 states). Two producers race their swaps and stores, and four pushes let an element be pushed again after it was popped, behind the other one, while the consumer's stub re-push interleaves with both.
- **`MCLocalDLList`:** two heads and four elements (392 states). Two heads are needed for `take_from` and for an element moving between lists; four elements give lists of length three next to a non-empty second list.
- **`MCReactorTasks`:** three slots and two client threads. A client may register again after deregistering, so a second slot enters the change queue while the first is still on it or on `local_list`; the third slot lets both clients hold a slot while a freed one is still being cleaned up. Only the first client's mio calls may fail; the second races it with calls that succeed. Letting both fail reaches no new code path and grows the run past a few minutes. A new slot takes the first free address in a fixed order (addresses are interchangeable, so branching over them adds only renamed states). The `Reactor` may be dropped in any state between two polls. The run covers about 500 000 states.

- **`MCRegistration`:** three threads and six calls (six slots, so a register never runs out). Two threads race `register` against `register` or `deregister`; the third lets a borrowing call hold the lock while both others spin. Threads and slots are symmetric (`Permutations`). The `Reactor` may be dropped at any point between calls. The run with failures covers about 67 000 distinct states (after symmetry).
- **`MCPollEvented`:** one socket with both sides, the masks of `PollEvented::new` (hup is left out: no event carries it), `register` allowed to fail, and `MaxReady = 3` readiness edges. The reactor may be dropped between any two polls (about 78 000 states). Three edges let a side become ready before registration (reported by `register`), again while a call is between its operations, and once more after a stale `Op2`, so the self-wake and the reactor's wake race.

### Fairness

- **Pool:** weak fairness on the pool thread's steps and on each foreign thread's steps.
  - The pool thread runs whenever it is not parked; a poll that panics is one of its steps, so the run also ends with panics.
  - A foreign thread that started `global_notify` finishes it, because the push and the wake have no blocking points.
  - `SpuriousUnpark` carries no fairness: a spurious return is allowed but never forced.
  - Deadlock is checked: `Terminated` is the only stopping state, once `run` has returned and every waker has been fired.
- **MpscQueue:** weak fairness on each producer's store (it has no blocking point) and on the consumer's iteration and its start. The pool's consumer runs `start_pop` on each round after a push's wake. Starting the head's drop is never forced. Deadlock is checked: `Gone` is the only stop, after the drop.
- **ReactorTasks:** weak fairness on the reactor thread and on each client's steps inside a call (`register` through `MioRegister`, `deregister` through the push). A call into `HandlePriv` has no blocking point, so a started call finishes. Starting a `register` or a `deregister` is never forced: a registration may stay registered forever, and `DeregisteredSlotReleased` is only about slots whose deregistration reached the reactor. The `Reactor`'s drop is not forced. Once it has happened, the drop of `Inner` and the rest of `Tasks::drop` are part of the reactor's fair steps: they run on the thread that releases the last reference, and nothing there blocks. Deadlock is checked. While the `Reactor` exists it can always poll again; after it is gone and every call has returned, `Terminated` is the end state.
- **Registration:** no fairness and no liveness property. The spin lock is not fair (a thread may spin forever while others take turns), so nothing is claimed about a call returning. Deadlock is checked: `Finished` is the only stop, once every call has been made and has returned.
- **PollEvented:** weak fairness on the reactor thread's steps (it keeps polling, and a started `update_ready` finishes) and on the task's steps inside a call (no step of `try_mut_*` blocks; a woken task is polled again, as `Pool`'s `WokenTaskPolled` shows). Starting a call, the socket becoming ready and the reactor's drop are never forced. `CHECK_DEADLOCK FALSE`: once the socket stops becoming ready, a call may wait in `Pending` for good, and a write call that panicked stops the task.
- **Runtime:** weak fairness on the runtime thread's steps (it runs whenever it is not blocked in mio's poll, whose step is enabled only with an event queued or a zero timeout), on each foreign thread (its work and its `wake_by_ref` have no blocking point), and on the peer's sends (the scenario's peer sends all its messages). The steps of the enters and of the unwinding are runtime-thread steps, with no blocking point. Deadlock is checked: `Terminated` is the only stop, once the thread has left every call (or died of the panic) and every foreign thread is done. The timer wheel has no timers, so `Timer::turn(None)` parks the reactor with no timeout.

## Findings

1. **A cleared task can be pushed again (`task.rs:99`).**
   - `local_clear` sets `queued` so that a finished task "won't [be] queue[d] anymore".
   - If the task was on the global queue when it completed, the next drain resets `queued` to false.
   - A waker clone still held by another thread then pushes the dead task again and wakes the pool.
2. **Dropping the pool leaks every task left on the global queue (`task.rs:180`).** Run `pool_drop_leak`.
   - `LocalTaskList::drop` pops `local_all` and `local_clear`s each task, but it does not drain `global_pending`.
   - A foreign wake that pushed a task after the last drain leaves it there, holding the queue's strong reference.
   - The task holds its `task_list` `Arc`, and the `TaskList` owns `global_pending`, so neither is ever freed, and the mpsc head's drain never runs.
   - About a dozen steps reach it: spawn, a round whose poll hands a waker to a foreign thread, the park, that thread's `global_notify` and push, the unpark, and the drop.
3. **A reactor slot is orphaned when `HandlePriv::register`'s mio register fails (`reactor.rs:176`), including with no OS failure (`registration.rs:164`).** Run `registration_orphan_slot`.
   - `HandlePriv::register` pushes the new slot onto the change queue (`add_task`) before `poll.register`. If that fails, `Registration::register` returns the error and keeps no task, so `deregister_task` is never called.
   - `cleanup_tasks` then moves the queue's reference onto `local_list`, where the slot stays until the reactor is dropped.
   - No OS failure is needed. `Registration::register` deregisters, drops the lock, and locks again, so two threads registering concurrently both pass their deregister. The later one's `poll.register` meets the io mio already has (epoll's `EEXIST`).
   - The same happens when `poll.deregister` fails after `Registration::deregister` has taken the task.
   - Spec §4.2.5 says the lock guards register/deregister races, and §3.3 describes a slot as freed once deregistered. The `reactor_tasks` run shows that a slot that does reach `deregister_task` is always released by the reactor; only finding 4's leaked reference keeps it alive.
4. **Every `InnerTask` leaks through `TaskState::lock` (`registration.rs:39`).** Run `registration_ref_leak`.
   - `lock` rebuilds the task with `ReactorTask::from_token`, which adds a strong reference, and keeps it in a `ManuallyDrop` that `TaskStateLock::drop` never drops.
   - Each `clear_*_ready`, `poll_*_ready`, `reregister` or `handle` call therefore leaks one reference, and `take`/`set` lose the word's own reference.
   - No `InnerTask` (nor the wakers its `AtomicWaker`s hold) is ever freed. Spec §4.1 describes the slot as holding one optional strong reference.
   - The `registration` run shows the opposite error never happens: no count drops below its owners.
5. **A failed lazy registration panics the write side (`registration.rs:155`).** Run `pollevented_write_panic`.
   - `PollEvented::register` runs `Registration::register` in a `Once` and drops its error (`evented.rs:38`), so a failed registration leaves the `Registration` empty for good.
   - `poll_read_ready` then returns the "not registered" error, but `poll_write_ready` `unwrap`s it and panics (so does `reregister`).
   - Spec §9 names the unwrap as accidental and asks for the error to be propagated. `Registration` models the lock around the panic: the unwinding releases it like a return.

## Not modelled yet, and the plan

Components not modelled, with the reasons, are listed in `PROJECT.json`:
- `TcpStream`'s connect future and the `AsyncRead`/`AsyncWrite` byte paths of the sockets, whose control is `PollEvented`'s (modelled) over OS I/O;
- `tokio_timer`, an external crate.

Also not modelled: `clear_*_ready` (no caller in the crates); `Registration::drop`, `into_inner` and `TaskState::drop`, which run once nothing else can call in; `reregister`'s change of interest. A reactor that is gone is modelled in `ReactorTasks` (the drop of `Inner` and `Tasks::drop`), in `PollEvented` (the reactor-gone error of `poll_*_ready`) and in `Registration` (upgrade failing in `register` and `deregister`); `Registration` takes the drop of the `Reactor` and of its `Inner` as one step, which `ReactorTasks` splits.

Next sittings, in this order:

1. **`Runtime` with the full pool:** `Runtime` abstracts the pool to one task on `local_pending`; instancing `Pool` there would add foreign task wakes through the MPSC queue to the runtime loop. The spawner's shutdown error after the pool is dropped, and `run_until` returning with tasks still pending (spec §11), belong to the same step.
2. **Pool reference counts while running:** `TaskRefs` is only checked at the drop; stating that no task is freed while it is still referenced (every state with a reference has a positive count) would cover `local_clear`'s `Arc::from_raw` and the drain's drop of the popped `Arc`.
