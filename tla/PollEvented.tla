------------------------------ MODULE PollEvented ------------------------------
(***************************************************************************)
(* One socket driven through fumio_reactor::PollEvented                    *)
(* (fumio-reactor/src/reactor/evented.rs) by the task that owns it, as     *)
(* UdpSocket::poll_recv_from / poll_send_to and TcpListener::poll_accept   *)
(* do: try_mut_read / try_mut_write run the I/O operation, lazily register *)
(* the source (a Once whose error is dropped), poll the side's readiness   *)
(* and run the operation a second time.                                    *)
(*                                                                         *)
(* The readiness handshake (update_ready against poll_*_ready) is          *)
(* Readiness's, instantiated here; its per-side task becomes the one task  *)
(* of the socket (try_mut_* take &mut self, so one call runs at a time,    *)
(* and both sides' wakers wake that task).  The OS side is mio in          *)
(* edge-triggered mode: a side reports readiness when it becomes ready,    *)
(* and registering reports what is ready already (epoll's ADD).            *)
(*                                                                         *)
(* The reactor may be dropped between two polls.  After that no event is  *)
(* dispatched, Handle::upgrade fails, and poll_*_ready returns "reactor   *)
(* not running anymore" where it would have returned Pending.             *)
(***************************************************************************)
EXTENDS Naturals

CONSTANTS MaxReady,  \* bound on the times a side of the socket becomes ready
          RegFails   \* whether PollEvented::register's registration may fail

ASSUME MaxReady \in Nat /\ RegFails \in BOOLEAN

\* mio::Ready bits; hup is left out (no event in this model carries it).
Bits == {"readable", "writable"}

\* PollEvented::new: read_mask = all - writable, write_mask = writable | hup.
Mask == [read |-> Bits \ {"writable"}, write |-> {"writable"}]

\* The readiness a side's socket reports when it becomes ready.
ReadyBits(s) == IF s = "read" THEN {"readable"} ELSE {"writable"}

VARIABLES acc, waker, woken, cpc, rpc, ev,  \* as in Readiness
          avail,    \* each side: the socket can make progress (data, room)
          osev,     \* readiness mio holds for the source, not yet polled
          reg,      \* the Once and what register returned
          side,     \* the side the current try_mut_* call is on
          tpc,      \* the task: where its call is
          readies,  \* times a side became ready so far
          alive     \* the reactor has not been dropped

R == INSTANCE Readiness

Sides == R!Sides

socketVars == <<avail, osev, reg, side, tpc, readies, alive>>
vars == <<acc, waker, woken, cpc, rpc, ev, socketVars>>

Init ==
  /\ R!Init
  /\ avail = [read |-> 0, write |-> 1]
  /\ osev = {}
  /\ reg = "none"
  /\ side = "read" /\ tpc = "idle"
  /\ readies = 0
  /\ alive = TRUE

(***************************************************************************)
(* The socket and mio                                                      *)
(***************************************************************************)

\* A datagram arrives, or the send buffer drains.  Once registered, mio
\* reports the edge.
BecomeReady(s) ==
  /\ avail[s] = 0
  /\ readies < MaxReady
  /\ avail' = [avail EXCEPT ![s] = 1]
  /\ readies' = readies + 1
  /\ osev' = IF reg = "ok" THEN osev \cup ReadyBits(s) ELSE osev
  /\ UNCHANGED <<acc, waker, woken, cpc, rpc, ev, reg, side, tpc, alive>>

(***************************************************************************)
(* The reactor thread: Reactor::poll returns the source's event, and      *)
(* update_ready serves both sides (Readiness's UpdateOr / UpdateWake).     *)
(***************************************************************************)

Poll ==
  /\ alive
  /\ rpc = R!Idle
  /\ osev # {}
  /\ ev' = osev
  /\ osev' = {}
  /\ rpc' = R!Stage("read", "or")
  /\ UNCHANGED <<acc, waker, woken, cpc, avail, reg, side, tpc, readies, alive>>

ReactorStep ==
  \/ Poll
  \/ \E s \in Sides : (R!UpdateOr(s) \/ R!UpdateWake(s)) /\ UNCHANGED socketVars

\* The Reactor is dropped between two polls.
ReactorGone ==
  /\ alive
  /\ rpc = R!Idle
  /\ alive' = FALSE
  /\ UNCHANGED <<acc, waker, woken, cpc, rpc, ev, avail, osev, reg, side, tpc,
                 readies>>

(***************************************************************************)
(* The task                                                                *)
(***************************************************************************)

\* poll_recv_from / poll_send_to (or poll_accept): a new call on side s.
Start(s) ==
  /\ tpc = "idle"
  /\ side' = s
  /\ tpc' = "op1"
  /\ UNCHANGED <<acc, waker, woken, cpc, rpc, ev, avail, osev, reg, readies, alive>>

\* The operation through async_io: it succeeds, and the socket may still
\* be ready afterwards (more datagrams, more room), or it would block.
OpSucceeds ==
  /\ avail[side] = 1
  /\ \E left \in {0, 1} : avail' = [avail EXCEPT ![side] = left]

\* try_mut_*: the first operation; Ready ends the call, WouldBlock goes on
\* to register.
Op1 ==
  /\ tpc = "op1"
  /\ \/ OpSucceeds /\ tpc' = "idle"
     \/ avail[side] = 0 /\ tpc' = "reg" /\ UNCHANGED avail
  /\ UNCHANGED <<acc, waker, woken, cpc, rpc, ev, osev, reg, side, readies, alive>>

\* PollEvented::register: call_once of Registration::register; its error
\* is dropped (let _ =), and later calls do nothing.  A successful register
\* makes mio report what is ready already.  With the reactor gone,
\* Registration::register fails on expect_upgrade.
register ==
  /\ tpc = "reg"
  /\ \/ /\ reg = "none" /\ alive
        /\ reg' = "ok"
        /\ osev' = osev \cup UNION {ReadyBits(s) : s \in {t \in Sides : avail[t] = 1}}
     \/ /\ reg = "none" /\ (RegFails \/ ~alive)
        /\ reg' = "failed"
        /\ UNCHANGED osev
     \/ /\ reg # "none"
        /\ UNCHANGED <<reg, osev>>
  /\ tpc' = "poll"
  /\ UNCHANGED <<acc, waker, woken, cpc, rpc, ev, avail, side, readies, alive>>

\* Registration::poll_read_ready / poll_write_ready with a live task: the
\* take, register, take of ReactorTask (Readiness); an empty second take
\* returns Pending only if expect_upgrade finds the reactor alive.
PollReady ==
  /\ tpc = "poll" /\ reg = "ok"
  /\ \/ R!PollTake(side) \/ R!Register(side)
     \/ R!Retake(side) /\ (alive \/ acc[side] # {})
  /\ UNCHANGED socketVars

\* Mutant of RetakeGone: no expect_upgrade before Poll::Pending.
RetakePendsWhenGone ==
  /\ tpc = "poll" /\ reg = "ok"
  /\ cpc[side] = "retake" /\ acc[side] = {} /\ ~alive
  /\ cpc' = [cpc EXCEPT ![side] = "pending"]
  /\ UNCHANGED <<acc, waker, woken, rpc, ev, socketVars>>

\* ... with the reactor gone: expect_upgrade()? returns the error, which
\* try_mut_* returns: the call ends.  The waker stays registered.
RetakeGone ==
  /\ tpc = "poll" /\ reg = "ok"
  /\ cpc[side] = "retake" /\ acc[side] = {} /\ ~alive
  /\ cpc' = [cpc EXCEPT ![side] = "start"]
  /\ tpc' = "idle"
  /\ UNCHANGED <<acc, waker, woken, rpc, ev, avail, osev, reg, side, readies,
                 alive>>

\* ... with no task: poll_read_ready returns the "not registered" error,
\* which ends the call; poll_write_ready unwraps it and panics.
PollNotRegistered ==
  /\ tpc = "poll" /\ reg = "failed"
  /\ tpc' = IF side = "read" THEN "idle" ELSE "panicked"
  /\ UNCHANGED <<acc, waker, woken, cpc, rpc, ev, avail, osev, reg, side,
                 readies, alive>>

\* Mutant of Op2: after a failed second operation the call returns Pending
\* without waking itself.
Op2NoRewake ==
  /\ tpc = "poll" /\ cpc[side] = "ready"
  /\ \/ OpSucceeds /\ tpc' = "idle" /\ cpc' = [cpc EXCEPT ![side] = "start"]
     \/ /\ avail[side] = 0
        /\ cpc' = [cpc EXCEPT ![side] = "pending"]
        /\ UNCHANGED <<avail, tpc>>
  /\ UNCHANGED <<acc, waker, woken, rpc, ev, osev, reg, side, readies, alive>>

\* Readiness was reported: the second operation.  If it would block again,
\* the readiness was stale: wake_by_ref and return Pending.
Op2 ==
  /\ tpc = "poll" /\ cpc[side] = "ready"
  /\ \/ /\ OpSucceeds
        /\ tpc' = "idle"
        /\ cpc' = [cpc EXCEPT ![side] = "start"]
        /\ UNCHANGED woken
     \/ /\ avail[side] = 0
        /\ woken' = [woken EXCEPT ![side] = TRUE]
        /\ cpc' = [cpc EXCEPT ![side] = "pending"]
        /\ UNCHANGED <<avail, tpc>>
  /\ UNCHANGED <<acc, waker, rpc, ev, osev, reg, side, readies, alive>>

\* The task's waker was woken (by either side, or by itself): the pool
\* polls the future again, which calls try_mut_* from the top.
Resume ==
  /\ tpc = "poll" /\ cpc[side] = "pending"
  /\ \E s \in Sides : woken[s]
  /\ woken' = [s \in Sides |-> FALSE]
  /\ cpc' = [cpc EXCEPT ![side] = "start"]
  /\ tpc' = "op1"
  /\ UNCHANGED <<acc, waker, rpc, ev, avail, osev, reg, side, readies, alive>>

TaskStep ==
  Op1 \/ register \/ PollReady \/ RetakeGone \/ PollNotRegistered \/ Op2 \/ Resume

Next ==
  \/ \E s \in Sides : BecomeReady(s) \/ Start(s)
  \/ ReactorStep
  \/ ReactorGone
  \/ TaskStep

(***************************************************************************)
(* The reactor thread keeps polling; a task inside a call finishes it      *)
(* (no step of try_mut_* blocks), and a woken task is polled again (Pool's *)
(* WokenTaskPolled).  Starting a call and the socket becoming ready are    *)
(* never forced, and neither is the reactor's drop.                        *)
(***************************************************************************)
Fairness == WF_vars(ReactorStep) /\ WF_vars(TaskStep)

Spec == Init /\ [][Next]_vars
FairSpec == Spec /\ Fairness

(***************************************************************************)
(* Properties                                                              *)
(***************************************************************************)

TypeOK ==
  /\ R!TypeOK
  /\ avail \in [Sides -> 0..1]
  /\ osev \subseteq Bits
  /\ reg \in {"none", "ok", "failed"}
  /\ side \in Sides
  /\ tpc \in {"idle", "op1", "reg", "poll", "panicked"}
  /\ readies \in 0..MaxReady
  /\ alive \in BOOLEAN

\* The call returned Pending and waits for its waker.
Waiting == tpc = "poll" /\ cpc[side] = "pending"

\* A call suspended in Pending while its side of the socket is ready is
\* eventually completed: the readiness reaches the task through mio's edge
\* (or the report of register), update_ready and the waker, or the second
\* operation's self-wake, whatever the order of the task's take, register
\* and operations against the reactor's fetch_or and wake.
WaitingCallCompletes == (Waiting /\ avail[side] = 1) ~> (tpc = "idle" \/ ~alive)

\* Spec scenario S5: once the reactor is gone, a call that runs (starts, or
\* is polled again) gets to an end instead of waiting for a wake no one
\* will send: its operation succeeds, or the lazy register fails, or
\* poll_*_ready returns "reactor not running anymore" once the readiness
\* left in the accumulator has been used up by the self-wake loop.
ReactorGoneSurfaces ==
  (~alive /\ tpc = "op1") ~> tpc \in {"idle", "panicked"}

\* Readiness's NoLostReadiness for the socket's task: a side parked in
\* Pending with bits in its accumulator has been woken, or update_ready is
\* about to wake its registered waker, now that the takes and the register
\* of poll_*_ready sit between the two operations of try_mut_*.
NoLostReadiness == R!NoLostReadiness

\* No call panics: a registration that failed surfaces as the "not
\* registered" error of poll_*_ready (spec 9 asks for propagation).
NoPanic == tpc # "panicked"
=============================================================================
