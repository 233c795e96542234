------------------------------ MODULE Delivery ------------------------------
(***************************************************************************)
(* What the outbox promises to whoever commits a notification with a       *)
(* mutation: it is tried, at most MaxAttempts times, and settles for good: *)
(* delivered, refused as invalid, or given up when the attempts are used.  *)
(* It settles unless the queue is stalled.                                 *)
(***************************************************************************)
EXTENDS Naturals

CONSTANTS Jobs, MaxAttempts

VARIABLES
    job,        \* per job: what became of it and how often it was tried
    stalled     \* something no retry removes keeps jobs from being tried

Fates == {"absent", "waiting", "delivered", "invalid", "exhausted"}

JobType == [fate : Fates, tries : 0..MaxAttempts]

Settled(j) == job[j].fate \in {"delivered", "invalid", "exhausted"}

Submitted(m, n) == m.fate = "absent" /\ n.fate = "waiting" /\ n.tries = 0

Tried(m, n) ==
    m.fate = "waiting" /\ n.fate = "waiting" /\ n.tries = m.tries + 1

(* Nothing settles that was never tried, and giving up takes every try.    *)
Settles(m, n) ==
    /\ m.fate = "waiting" /\ m.tries > 0 /\ n.tries = m.tries
    /\ \/ n.fate \in {"delivered", "invalid"}
       \/ n.fate = "exhausted" /\ m.tries = MaxAttempts

Init == job = [j \in Jobs |-> [fate |-> "absent", tries |-> 0]]

(* One claim of the outbox moves several jobs.                             *)
Next ==
    /\ job' \in [Jobs -> JobType]
    /\ \A j \in Jobs :
          \/ job'[j] = job[j]
          \/ Submitted(job[j], job'[j])
          \/ Tried(job[j], job'[j])
          \/ Settles(job[j], job'[j])

Safety == Init /\ [][Next]_job

(* Every submitted notification settles, or the queue stalls.  A stall     *)
(* that ends leaves what waits to be settled after it.                     *)
EventuallySettled ==
    \A j \in Jobs : job[j].fate = "waiting" ~> Settled(j) \/ stalled

Spec == Safety /\ EventuallySettled
=============================================================================
