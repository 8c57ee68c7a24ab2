----------------------------- MODULE ReactorTasks -----------------------------
(***************************************************************************)
(* The reactor's task slots (fumio-reactor/src/reactor/task.rs) and how   *)
(* HandlePriv::register / deregister and Reactor::poll (src/reactor.rs)   *)
(* use them.  A slot (InnerTask) is reference counted; its address is the *)
(* mio token.  Registering threads push the slot onto the change queue     *)
(* (an Mpsc) with STATE_QUEUED, deregistering threads push it again with   *)
(* STATE_DEREGISTERED; the reactor thread harvests events, turns each      *)
(* token back into a slot (from_token), then runs cleanup_tasks, which     *)
(* moves slots onto local_list or off it.  Readiness and wakers are the    *)
(* subject of Readiness; the reactor's self-wake that register and         *)
(* deregister fire is the subject of Runtime.                              *)
(***************************************************************************)
EXTENDS Naturals, FiniteSets, Sequences, SequencesExt, Bitwise

CONSTANTS Tasks,     \* task slots that can be allocated
          Clients,   \* threads calling register / deregister
          MioFails,  \* clients whose mio register / deregister may fail
          Stub, Null

ASSUME MioFails \subseteq Clients

VARIABLES
  state,      \* InnerTask::state: STATE_DEREGISTERED | STATE_QUEUED
  refs,       \* strong count of each InnerTask
  created,    \* slots allocated so far (ReactorTask::new)
  localList,  \* Tasks::local_list
  gnext, gtail, ghead,  \* Tasks::list, the change queue
  mioReg,     \* tokens registered with mio::Poll
  events,     \* tokens with readiness mio has not returned yet
  batch,      \* tokens returned by the last poll, not yet dispatched
  rpc,        \* reactor side: "idle", "dispatch", "cleanup", then on drop
              \* "cleanup", "drain" and "gone"
  owner,      \* the Reactor (owner of one Arc<Inner>) is not dropped yet
  repushed,   \* PopAll::repushed_stub of cleanup_tasks
  cpc,        \* client threads: where they are in register / deregister
  mine,       \* the slot each client is registering or holds
  prevTail,   \* predecessor each client got from its tail.swap
  leaked      \* references Registration::deregister leaves behind

STATE_DEREGISTERED == 1
STATE_QUEUED == 2

G == INSTANCE Mpsc WITH Nodes <- Tasks \cup {Stub},
                        next <- gnext, tail <- gtail, head <- ghead

mpscVars == <<gnext, gtail, ghead>>
reactorVars == <<events, batch, rpc, repushed, owner>>
clientVars == <<cpc, mine, prevTail, leaked>>
vars == <<state, refs, created, localList, mpscVars, mioReg, reactorVars,
          clientVars>>

ClientPcs == {"idle", "addSwap", "addLink", "mioReg", "registered",
              "deregTask", "deregSwap", "deregLink"}

\* Pushes between their two halves, as <<predecessor, slot>>.
InFlight ==
  {<<prevTail[c], mine[c]>> : c \in {d \in Clients : cpc[d] \in {"addLink", "deregLink"}}}

OnQueue(t) == Contains(G!Items(InFlight), t)

\* A thread inside HandlePriv::register or ::deregister holds the
\* HandlePriv that Handle::upgrade returned, a strong Arc<Inner>.
InCall(c) == cpc[c] \notin {"idle", "registered"}

\* Weak::upgrade succeeds while some strong Arc<Inner> is left: the
\* Reactor's own, or one held by a call in progress.
Strong == owner \/ \E c \in Clients : InCall(c)

Init ==
  /\ state = [t \in Tasks |-> 0]
  /\ refs = [t \in Tasks |-> 0]
  /\ created = {}
  /\ localList = {}
  /\ G!Init
  /\ mioReg = {} /\ events = {} /\ batch = {}
  /\ rpc = "idle" /\ repushed = FALSE /\ owner = TRUE
  /\ cpc = [c \in Clients |-> "idle"]
  /\ mine = [c \in Clients |-> Null]
  /\ prevTail = [c \in Clients |-> Null]
  /\ leaked = [t \in Tasks |-> 0]

(***************************************************************************)
(* Client threads                                                          *)
(***************************************************************************)

\* Registration::register creates a slot (count 1) and hands a clone to
\* HandlePriv::register (count 2), which calls Tasks::add_task:
\* compare_and_swap(0, STATE_QUEUED).  No other thread can see a fresh slot,
\* so the exchange always succeeds and is taken together with the creation.
register(c, t) ==
  /\ cpc[c] = "idle"
  /\ Strong
  /\ t \notin created
  /\ created' = created \cup {t}
  /\ refs' = [refs EXCEPT ![t] = 2]
  /\ state' = [state EXCEPT ![t] = STATE_QUEUED]
  /\ mine' = [mine EXCEPT ![c] = t]
  /\ cpc' = [cpc EXCEPT ![c] = "addSwap"]
  /\ UNCHANGED <<localList, mpscVars, mioReg, reactorVars, prevTail, leaked>>

\* self.list.push(task.inner), first half: tail.swap.  The reference moves
\* into the queue.
PushSwap(c) ==
  /\ cpc[c] \in {"addSwap", "deregSwap"}
  /\ prevTail' = [prevTail EXCEPT ![c] = gtail]
  /\ G!SwapTail(mine[c])
  /\ cpc' = [cpc EXCEPT ![c] = IF @ = "addSwap" THEN "addLink" ELSE "deregLink"]
  /\ UNCHANGED <<state, refs, created, localList, mioReg, reactorVars, mine,
                 leaked>>

\* ... second half: prev.next.store.  add_task goes on to poll.register;
\* deregister_task returns.
PushLink(c) ==
  /\ cpc[c] \in {"addLink", "deregLink"}
  /\ G!StoreNext(prevTail[c], mine[c])
  /\ cpc' = [cpc EXCEPT ![c] = IF @ = "addLink" THEN "mioReg" ELSE "idle"]
  /\ mine' = [mine EXCEPT ![c] = IF cpc[c] = "addLink" THEN @ ELSE Null]
  /\ UNCHANGED <<state, refs, created, localList, mioReg, reactorVars, prevTail,
                 leaked>>

\* self.inner.poll.register(io, token, ...)?: on success the Registration
\* keeps its reference (TaskStateLock::set); on failure the error returns
\* through Registration::register, which drops its ReactorTask.
MioRegister(c) ==
  /\ cpc[c] = "mioReg"
  /\ \/ /\ mioReg' = mioReg \cup {mine[c]}
        /\ cpc' = [cpc EXCEPT ![c] = "registered"]
        /\ UNCHANGED <<refs, mine>>
     \/ /\ c \in MioFails
        /\ refs' = [refs EXCEPT ![mine[c]] = @ - 1]
        /\ cpc' = [cpc EXCEPT ![c] = "idle"]
        /\ mine' = [mine EXCEPT ![c] = Null]
        /\ UNCHANGED mioReg
  /\ UNCHANGED <<state, created, localList, mpscVars, reactorVars, prevTail,
                 leaked>>

\* Mutant of deregister: mio's deregister is left out.
deregisterSkipsMio(c) ==
  /\ cpc[c] = "registered"
  /\ leaked' = [leaked EXCEPT ![mine[c]] = @ + 1]
  /\ refs' = [refs EXCEPT ![mine[c]] = @ + 1]
  /\ cpc' = [cpc EXCEPT ![c] = "deregTask"]
  /\ UNCHANGED <<state, created, localList, mpscVars, mioReg,
                 reactorVars, mine, prevTail>>

\* Registration::deregister locks the TaskState, whose from_token adds a
\* reference, and takes the task: store(1) clears the word without dropping
\* the reference the word held, which is left behind for good.  Then
\* HandlePriv::deregister: self.inner.poll.deregister(io)? (mio reports no
\* event for it after this); on failure the taken ReactorTask is dropped
\* and nothing is queued.  If task.reactor().upgrade() fails the reactor is
\* gone: the task is dropped and mio is not called.
deregister(c) ==
  /\ cpc[c] = "registered"
  /\ leaked' = [leaked EXCEPT ![mine[c]] = @ + 1]
  /\ \/ /\ Strong
        /\ refs' = [refs EXCEPT ![mine[c]] = @ + 1]
        /\ mioReg' = mioReg \ {mine[c]}
        /\ events' = events \ {mine[c]}
        /\ cpc' = [cpc EXCEPT ![c] = "deregTask"]
        /\ UNCHANGED mine
     \/ /\ ~Strong
        /\ cpc' = [cpc EXCEPT ![c] = "idle"]
        /\ mine' = [mine EXCEPT ![c] = Null]
        /\ UNCHANGED <<refs, mioReg, events>>
     \/ /\ Strong
        /\ c \in MioFails
        /\ cpc' = [cpc EXCEPT ![c] = "idle"]
        /\ mine' = [mine EXCEPT ![c] = Null]
        /\ UNCHANGED <<refs, mioReg, events>>
  /\ UNCHANGED <<state, created, localList, mpscVars, batch, rpc, repushed,
                 owner, prevTail>>

\* Mutant of deregister_task: the result of the swap is ignored.
deregister_task_always_pushes(c) ==
  /\ cpc[c] = "deregTask"
  /\ state' = [state EXCEPT ![mine[c]] = STATE_QUEUED | STATE_DEREGISTERED]
  /\ cpc' = [cpc EXCEPT ![c] = "deregSwap"]
  /\ UNCHANGED <<refs, created, localList, mpscVars, mioReg, reactorVars,
                 mine, prevTail, leaked>>

\* Tasks::deregister_task: swap(STATE_QUEUED | STATE_DEREGISTERED); if the
\* slot was queued or deregistered already, return (dropping the task),
\* otherwise push it.
deregister_task(c) ==
  /\ cpc[c] = "deregTask"
  /\ state' = [state EXCEPT ![mine[c]] = STATE_QUEUED | STATE_DEREGISTERED]
  /\ IF state[mine[c]] # 0
     THEN /\ refs' = [refs EXCEPT ![mine[c]] = @ - 1]
          /\ cpc' = [cpc EXCEPT ![c] = "idle"]
          /\ mine' = [mine EXCEPT ![c] = Null]
     ELSE /\ cpc' = [cpc EXCEPT ![c] = "deregSwap"]
          /\ UNCHANGED <<refs, mine>>
  /\ UNCHANGED <<created, localList, mpscVars, mioReg, reactorVars, prevTail,
                 leaked>>

(***************************************************************************)
(* The operating system and the reactor thread                            *)
(***************************************************************************)

\* A registered source becomes ready.
OsEvent(t) ==
  /\ t \in mioReg \ events
  /\ events' = events \cup {t}
  /\ UNCHANGED <<state, refs, created, localList, mpscVars, mioReg, batch,
                 rpc, repushed, owner, clientVars>>

\* Reactor::poll: self.handlep.inner.poll.poll(&mut self.events, timeout).
Poll ==
  /\ owner
  /\ rpc = "idle"
  /\ batch' = events
  /\ events' = {}
  /\ rpc' = "dispatch"
  /\ UNCHANGED <<state, refs, created, localList, mpscVars, mioReg, repushed,
                 owner, clientVars>>

\* One event: ReactorTask::from_token(token) (a clone, dropped after
\* update_ready, so the count is unchanged) and update_ready.
Dispatch(t) ==
  /\ rpc = "dispatch"
  /\ t \in batch
  /\ batch' = batch \ {t}
  /\ UNCHANGED <<state, refs, created, localList, mpscVars, mioReg, events,
                 rpc, repushed, owner, clientVars>>

\* After the events loop: self.handlep.inner.tasks.cleanup_tasks().
StartCleanup ==
  /\ rpc = "dispatch"
  /\ batch = {}
  /\ rpc' = "cleanup"
  /\ repushed' = FALSE
  /\ UNCHANGED <<state, refs, created, localList, mpscVars, mioReg, events,
                 batch, owner, clientVars>>

\* Mutant of local_remove: the link check is inverted.
local_remove_inverted(t) ==
  IF t \notin localList
  THEN localList' = localList \ {t} /\ refs' = [refs EXCEPT ![t] = @ - 2]
  ELSE UNCHANGED localList /\ refs' = [refs EXCEPT ![t] = @ - 1]

\* Mutant of local_remove: the slot is unlinked but the list's reference
\* is not released (the Arc::from_raw is missing).
local_remove_keeps_list_ref(t) ==
  IF t \in localList
  THEN localList' = localList \ {t} /\ refs' = [refs EXCEPT ![t] = @ - 1]
  ELSE UNCHANGED localList /\ refs' = [refs EXCEPT ![t] = @ - 1]

\* Tasks::local_remove: unlink and drop the list's reference if linked; the
\* queue's reference is dropped on return.
local_remove(t) ==
  IF t \in localList
  THEN localList' = localList \ {t} /\ refs' = [refs EXCEPT ![t] = @ - 2]
  ELSE UNCHANGED localList /\ refs' = [refs EXCEPT ![t] = @ - 1]

\* Mutant of local_add: the queue's reference is dropped instead of being
\* moved onto local_list (Arc::into_raw missing).
local_add_drops_ref(t) ==
  IF t \notin localList
  THEN localList' = localList \cup {t} /\ refs' = [refs EXCEPT ![t] = @ - 1]
  ELSE UNCHANGED localList /\ refs' = [refs EXCEPT ![t] = @ - 1]

\* Tasks::local_add: move the queue's reference onto local_list unless the
\* slot is linked already, in which case it is dropped.
local_add(t) ==
  IF t \notin localList
  THEN localList' = localList \cup {t} /\ UNCHANGED refs
  ELSE UNCHANGED localList /\ refs' = [refs EXCEPT ![t] = @ - 1]

\* Where the end of cleanup_tasks leads: back to the event loop, or on to
\* the rest of Tasks::drop.
CleanupDone == IF owner THEN "idle" ELSE "drain"

\* One turn of the cleanup_tasks loop over PopAll.  A popped slot:
\* fetch_and(!STATE_QUEUED) (the complement over the two bits in use), then
\* local_remove if STATE_DEREGISTERED was set, local_add otherwise.  The
\* stub is re-pushed; meeting it the second time, or an empty queue, ends
\* cleanup_tasks, and with it Reactor::poll or the first half of
\* Tasks::drop.
CleanupNext ==
  /\ rpc = "cleanup"
  /\ \/ /\ ~G!CanPop
        /\ rpc' = CleanupDone
        /\ UNCHANGED <<state, refs, localList, mpscVars, repushed>>
     \/ /\ G!RepushStub
        /\ repushed' = TRUE
        /\ rpc' = IF repushed THEN CleanupDone ELSE "cleanup"
        /\ UNCHANGED <<state, refs, localList>>
     \/ /\ G!PopFront
        /\ ghead # Stub
        /\ LET t == ghead IN
           /\ state' = [state EXCEPT ![t] = @ & STATE_DEREGISTERED]
           /\ IF (state[t] & STATE_DEREGISTERED) # 0 THEN local_remove(t)
                                                    ELSE local_add(t)
        /\ UNCHANGED <<rpc, repushed>>
  /\ UNCHANGED <<created, mioReg, events, batch, owner, clientVars>>

(***************************************************************************)
(* The reactor goes away                                                   *)
(***************************************************************************)

\* The Reactor is dropped between two polls (poll takes &mut self), and
\* with it its HandlePriv: one strong Arc<Inner> less.
ReactorDrop ==
  /\ owner
  /\ rpc = "idle"
  /\ owner' = FALSE
  /\ UNCHANGED <<state, refs, created, localList, mpscVars, mioReg, events,
                 batch, rpc, repushed, clientVars>>

\* Mutant of InnerDrop: Tasks::drop only empties local_list.
InnerDropSkipsCleanup ==
  /\ ~Strong
  /\ rpc = "idle"
  /\ mioReg' = {} /\ events' = {}
  /\ rpc' = "drain"
  /\ UNCHANGED <<state, refs, created, localList, mpscVars, batch, repushed,
                 owner, clientVars>>

\* The last strong Arc<Inner> is gone (the Reactor's, or the HandlePriv of
\* the last call in progress, on that thread): Inner's fields drop in
\* order.  Dropping mio::Poll closes the selector, so mio holds no
\* registration and reports no event any more; the waker follows; then
\* Tasks::drop begins with cleanup_tasks.  No push is half done: every
\* pusher held a strong Arc.
InnerDrop ==
  /\ ~Strong
  /\ rpc = "idle"
  /\ mioReg' = {} /\ events' = {}
  /\ rpc' = "cleanup"
  /\ repushed' = FALSE
  /\ UNCHANGED <<state, refs, created, localList, mpscVars, batch,
                 owner, clientVars>>

\* The rest of Tasks::drop: pop_front each slot left on local_list and drop
\* the list's reference (Arc::from_raw).
DrainLocal ==
  /\ rpc = "drain"
  /\ \/ \E t \in localList :
          /\ localList' = localList \ {t}
          /\ refs' = [refs EXCEPT ![t] = @ - 1]
          /\ UNCHANGED rpc
     \/ /\ localList = {}
        /\ rpc' = "gone"
        /\ UNCHANGED <<refs, localList>>
  /\ UNCHANGED <<state, created, mpscVars, mioReg, events, batch, repushed,
                 owner, clientVars>>

\* The reactor is gone and every call has returned: nothing is left to do.
Terminated ==
  /\ rpc = "gone"
  /\ \A c \in Clients : cpc[c] = "idle"
  /\ UNCHANGED vars

\* The slot ReactorTask::new allocates next.  Slot addresses are
\* interchangeable (none is reused here), so the model takes them in a fixed
\* order rather than branching over which free address the allocator picks.
NextSlot == CHOOSE t \in Tasks \ created : TRUE

ClientStep(c) ==
  \/ created # Tasks /\ register(c, NextSlot)
  \/ PushSwap(c) \/ PushLink(c) \/ MioRegister(c)
  \/ deregister(c) \/ deregister_task(c)

ReactorStep ==
  \/ Poll \/ (\E t \in Tasks : Dispatch(t)) \/ StartCleanup \/ CleanupNext
  \/ InnerDrop \/ DrainLocal

Next ==
  \/ \E c \in Clients : ClientStep(c)
  \/ \E t \in Tasks : OsEvent(t)
  \/ ReactorStep
  \/ ReactorDrop
  \/ Terminated

(***************************************************************************)
(* A thread inside register or deregister finishes the call (none of its  *)
(* steps blocks); whether a thread calls register or deregister at all is *)
(* its own choice and is not forced.  The reactor thread keeps polling    *)
(* until the Reactor is dropped, which is not forced either; the drop of  *)
(* Inner follows the release of the last strong reference, on that thread.*)
(***************************************************************************)
Fairness ==
  /\ \A c \in Clients : WF_vars(InCall(c) /\ ClientStep(c))
  /\ WF_vars(ReactorStep)

Spec == Init /\ [][Next]_vars
FairSpec == Spec /\ Fairness

(***************************************************************************)
(* Properties                                                              *)
(***************************************************************************)

\* The references a client's call holds on its slot: the Registration's
\* and, until the push, the clone handed to add_task.
CallRefs(pc) ==
  CASE pc = "addSwap" -> 2
    [] pc \in {"addLink", "mioReg", "registered", "deregTask", "deregSwap"} -> 1
    [] OTHER -> 0

\* The references the reactor holds on slot t: one per occurrence on the
\* change queue, and local_list's.
ReactorRefs(t) ==
  Len(SelectSeq(G!Items(InFlight), LAMBDA u : u = t))
    + (IF t \in localList THEN 1 ELSE 0)

\* Who owns a reference to slot t: the client that created it, the
\* reactor, and the reference a deregister left behind.
Owners(t) ==
  LET cs == {c \in Clients : mine[c] = t}
  IN  (IF cs = {} THEN 0 ELSE CallRefs(cpc[CHOOSE c \in cs : TRUE]))
      + ReactorRefs(t) + leaked[t]

TypeOK ==
  /\ state \in [Tasks -> 0..3]
  /\ \A t \in Tasks : refs[t] \in 0..3
  /\ leaked \in [Tasks -> 0..1]
  /\ created \subseteq Tasks /\ localList \subseteq Tasks
  /\ mioReg \subseteq Tasks /\ events \subseteq mioReg /\ batch \subseteq Tasks
  /\ rpc \in {"idle", "dispatch", "cleanup", "drain", "gone"}
  /\ repushed \in BOOLEAN /\ owner \in BOOLEAN
  /\ cpc \in [Clients -> ClientPcs]
  /\ mine \in [Clients -> Tasks \cup {Null}]

\* The strong count of every slot equals the number of its owners: the
\* clones, pushes, ManuallyDrop hand-overs and drops of register,
\* deregister_task and cleanup_tasks balance, whatever the interleaving.
RefCountExact == \A t \in created : refs[t] = Owners(t)

\* Spec property 3 (token round-trip): a token that mio may still return,
\* or that the reactor has harvested and not dispatched yet, names a slot
\* whose memory is alive, so ReactorTask::from_token is sound, and alive
\* by a reference someone will release: not only by the one
\* Registration::deregister leaves behind.
TokenValid == \A t \in mioReg \cup batch : refs[t] > leaked[t]

\* Every slot on the change queue has STATE_QUEUED set, and no slot is on
\* it twice: the assert in cleanup_tasks ("invalid internal state") holds
\* and the queue stays a list.
ChangeQueueQueued ==
  /\ IsInjective(G!Chain(InFlight))
  /\ \A t \in Tasks : OnQueue(t) => (state[t] & STATE_QUEUED) # 0

\* A slot whose deregister_task has run is eventually released by the
\* reactor and the deregistering call: whether the swap found it still
\* queued (add not yet processed) or not, cleanup_tasks sees
\* STATE_DEREGISTERED and unlinks it, and only the reference
\* Registration::deregister left behind remains (without that leak the
\* slot would be freed).
DeregisteredSlotReleased ==
  \A t \in Tasks : (state[t] & STATE_DEREGISTERED) # 0 ~> refs[t] = leaked[t]

\* Once the Reactor is dropped, every slot no Registration holds any more
\* is eventually released: Tasks::drop releases the references of the
\* change queue (through cleanup_tasks) and of local_list, after the last
\* call in progress has let go of Inner, and a Registration whose reactor
\* is gone drops its task without a deregister_task.  Only the references
\* Registration::deregister left behind remain.
ReactorDropReleasesSlots ==
  \A t \in Tasks : ~owner /\ (\A c \in Clients : mine[c] # t) ~> refs[t] = leaked[t]
=============================================================================
