------------------------------- MODULE Readiness -------------------------------
(***************************************************************************)
(* The readiness handshake of one ReactorTask                              *)
(* (fumio-reactor/src/reactor/task.rs): the reactor thread's update_ready  *)
(* (fetch_or into a side's accumulator, then AtomicWaker::wake) against    *)
(* the task polling that side (poll_read_ready / poll_write_ready: take,  *)
(* register the waker, take again).                                        *)
(*                                                                         *)
(* AtomicWaker::register and ::wake are single steps: the futures          *)
(* AtomicWaker makes a wake that races a register wake the newly           *)
(* registered waker.  PollEvented instantiates this module with the        *)
(* socket, mio's events and the task's try_mut_* calls around it.          *)
(***************************************************************************)
CONSTANTS Bits,       \* readiness bits mio reports (mio::Ready)
          Mask        \* Mask[side]: read_mask / write_mask

Sides == {"read", "write"}

ASSUME Mask \in [Sides -> SUBSET Bits]

VARIABLES acc,        \* read_readiness / write_readiness
          waker,      \* the AtomicWaker holds the task's waker
          woken,      \* the task has been woken and not yet re-polled
          cpc,        \* each side's task: where its poll is
          rpc,        \* the reactor's position in update_ready
          ev          \* readiness of the event being dispatched

\* The reactor's position: a stage of update_ready for a side, or idle.
Stage(s, step) == <<s, step>>
Idle == Stage("none", "idle")

Init ==
  /\ acc = [s \in Sides |-> {}]
  /\ waker = [s \in Sides |-> FALSE]
  /\ woken = [s \in Sides |-> FALSE]
  /\ cpc = [s \in Sides |-> "start"]
  /\ rpc = Idle /\ ev = {}

(***************************************************************************)
(* The reactor thread: update_ready serves the read side, then the write  *)
(* side of the event Reactor::poll hands it.                               *)
(***************************************************************************)

Following(s) == IF s = "read" THEN Stage("write", "or") ELSE Idle

\* Mutant of UpdateOr: the event's readiness is not masked.
UpdateOrUnmasked(s) ==
  /\ rpc = Stage(s, "or")
  /\ acc' = [acc EXCEPT ![s] = @ \cup ev]
  /\ rpc' = Stage(s, "wake")
  /\ UNCHANGED <<waker, woken, cpc, ev>>

\* bits = mask & readiness; if 0 != bits { readiness.fetch_or(bits) ... }
UpdateOr(s) ==
  /\ rpc = Stage(s, "or")
  /\ LET bits == Mask[s] \cap ev IN
     IF bits # {}
     THEN /\ acc' = [acc EXCEPT ![s] = @ \cup bits]
          /\ rpc' = Stage(s, "wake")
     ELSE /\ rpc' = Following(s)
          /\ UNCHANGED acc
  /\ UNCHANGED <<waker, woken, cpc, ev>>

\* ... waker.wake(): take the registered waker, if any, and wake it.
UpdateWake(s) ==
  /\ rpc = Stage(s, "wake")
  /\ woken' = [woken EXCEPT ![s] = @ \/ waker[s]]
  /\ waker' = [waker EXCEPT ![s] = FALSE]
  /\ rpc' = Following(s)
  /\ UNCHANGED <<acc, cpc, ev>>

(***************************************************************************)
(* The task polling side s.                                                *)
(***************************************************************************)

\* take_*_ready: readiness.swap(0); the bits taken decide where to go.
Take(s, ifEmpty) ==
  /\ acc' = [acc EXCEPT ![s] = {}]
  /\ cpc' = [cpc EXCEPT ![s] = IF acc[s] # {} THEN "ready" ELSE ifEmpty]

\* poll_*_ready, first take: Ready if bits were pending.
PollTake(s) ==
  /\ cpc[s] = "start"
  /\ Take(s, "register")
  /\ UNCHANGED <<waker, woken, rpc, ev>>

\* Mutant of Register: the second take is left out.
RegisterOnly(s) ==
  /\ cpc[s] = "register"
  /\ waker' = [waker EXCEPT ![s] = TRUE]
  /\ cpc' = [cpc EXCEPT ![s] = "pending"]
  /\ UNCHANGED <<acc, woken, rpc, ev>>

\* waker.register(context.waker()).
Register(s) ==
  /\ cpc[s] = "register"
  /\ waker' = [waker EXCEPT ![s] = TRUE]
  /\ cpc' = [cpc EXCEPT ![s] = "retake"]
  /\ UNCHANGED <<acc, woken, rpc, ev>>

\* Second take: Ready if bits arrived meanwhile, otherwise Poll::Pending.
Retake(s) ==
  /\ cpc[s] = "retake"
  /\ Take(s, "pending")
  /\ UNCHANGED <<waker, woken, rpc, ev>>

(***************************************************************************)
(* Properties                                                              *)
(***************************************************************************)

TypeOK ==
  /\ acc \in [Sides -> SUBSET Bits]
  /\ \A s \in Sides : acc[s] \subseteq Mask[s]
  /\ waker \in [Sides -> BOOLEAN] /\ woken \in [Sides -> BOOLEAN]
  /\ cpc \in [Sides -> {"start", "register", "retake", "ready", "pending"}]

\* No readiness is lost (spec property 2): a task parked in Pending while
\* bits wait in its accumulator has been woken, or the reactor is about to
\* wake it.  Breaking it takes a reactor fetch_or and wake falling between
\* the task's take and its waker registration.
NoLostReadiness ==
  \A s \in Sides :
    cpc[s] = "pending" /\ acc[s] # {} =>
      woken[s] \/ (rpc = Stage(s, "wake") /\ waker[s])
=============================================================================
