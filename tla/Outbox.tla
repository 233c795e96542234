------------------------------- MODULE Outbox -------------------------------
(***************************************************************************)
(* The durable outbox and the worker loops that drain it: rows written     *)
(* with a mutation, leased in batches by several worker processes,         *)
(* dispatched concurrently and acknowledged under a fence of generation    *)
(* and lease.                                                              *)
(*                                                                         *)
(* Each SQL function locks the row it judges, so it is one action.  An     *)
(* acknowledgement travels: it may reach the database after its worker     *)
(* stopped or its lease was taken over, or never.  A claim reads its rows  *)
(* inside its transaction: one row the store cannot project rolls the      *)
(* whole claim back.  Operators whose name starts with Bug belong to no    *)
(* specification.                                                          *)
(***************************************************************************)
EXTENDS Integers, FiniteSets

CONSTANTS
    Jobs,           \* outbox event ids
    Workers,        \* worker processes
    MaxAttempts,    \* 5 in the code
    ClaimLimit,     \* rows of one claim, at most 50 in the code
    MaxClaimErrors, \* failed claims in a row that stop a worker, 10 in the code
    LeaseTime,      \* 30 seconds in the code
    Backoff         \* Backoff[n] = least(60, 2^n) seconds after attempt n

ASSUME OutboxAssumption ==
    /\ MaxAttempts \in Nat \ {0} /\ ClaimLimit \in Nat \ {0}
    /\ MaxClaimErrors \in Nat \ {0} /\ LeaseTime \in Nat \ {0}
    /\ Backoff \in [1..MaxAttempts -> Nat]
    /\ IsFiniteSet(Jobs)

VARIABLES
    row,        \* outbox_events: [state, attempts, failure]
    timer,      \* time until lease_until of a leased row, available_at of a
                \* pending one; a lease is past when it is negative
    unreadable, \* jobs whose row the deployed store cannot project
    running,    \* per worker: its loop claims and acknowledges
    errors,     \* per worker: claims that failed since one succeeded
    hold,       \* per worker and job: generation of its lease, 0 if the job
                \* is not in the batch at work
    acks        \* acknowledgements on their way: [job, generation, outcome]

vars == <<row, timer, unreadable, running, errors, hold, acks>>

States   == {"absent", "pending", "leased", "completed", "dead_letter"}
(* dependency_unavailable and handler_failed are "failed": they differ only *)
(* in the code that is stored.                                             *)
Failures == {"failed", "invalid_event"}
Outcomes == Failures \cup {"ok"}

Generations == 1..MaxAttempts

(* lease_generation and attempt_count grow together, from zero and only in *)
(* the claim: row.attempts stands for both.                                *)
RowType  == [state : States, attempts : 0..MaxAttempts,
             failure : Failures \cup {"none", "attempts_exhausted"}]
AckType  == [job : Jobs, generation : Generations, outcome : Outcomes]

Init ==
    /\ row     = [j \in Jobs |-> [state |-> "absent", attempts |-> 0,
                                  failure |-> "none"]]
    /\ timer   = [j \in Jobs |-> 0]
    /\ unreadable = {}
    /\ running = [w \in Workers |-> TRUE]
    /\ errors  = [w \in Workers |-> 0]
    /\ hold    = [w \in Workers |-> [j \in Jobs |-> 0]]
    /\ acks    = {}

-----------------------------------------------------------------------------
(* The database.                                                           *)

(* A committed mutation leaves its row behind, available at once.  It may  *)
(* be of a kind that the store of the running workers does not know.       *)
Enqueue(j) ==
    /\ row[j].state = "absent"
    /\ row' = [row EXCEPT ![j].state = "pending"]
    /\ timer' = [timer EXCEPT ![j] = 0]
    /\ unreadable' \in {unreadable, unreadable \cup {j}}
    /\ UNCHANGED <<running, errors, hold, acks>>

(* Workers whose store knows the row are deployed, or somebody mends it.   *)
Mend(j) ==
    /\ j \in unreadable
    /\ unreadable' = unreadable \ {j}
    /\ UNCHANGED <<row, timer, running, errors, hold, acks>>

BugExhausted(j) ==
    row[j].state = "leased" /\ row[j].attempts >= MaxAttempts - 1 /\ timer[j] < 0

Exhausted(j) ==
    row[j].state = "leased" /\ row[j].attempts >= MaxAttempts /\ timer[j] < 0

Claimable(j) ==
    /\ row[j].attempts < MaxAttempts
    /\ \/ row[j].state = "pending" /\ timer[j] <= 0
       \/ row[j].state = "leased"  /\ timer[j] < 0

(* The oldest rows within the limit that nobody else holds locked.         *)
Batches(S) == {T \in SUBSET S : Cardinality(T) <= ClaimLimit}
Burials == Batches({j \in Jobs : Exhausted(j)})
Leases  == Batches({j \in Jobs : Claimable(j)})

Idle(w) == running[w] /\ \A j \in Jobs : hold[w][j] = 0

BugLeased(j) == [row[j] EXCEPT !.state = "leased", !.failure = "none",
                 !.attempts = IF row[j].state = "pending" THEN @ + 1 ELSE @]

Leased(j) == [row[j] EXCEPT !.state = "leased", !.failure = "none",
                            !.attempts = @ + 1]

GivenUp(j) == [row[j] EXCEPT !.state = "dead_letter",
                             !.failure = "attempts_exhausted"]

(* Rows D whose last lease ran out are buried, rows S are leased.          *)
ClaimJobs(D, S) ==
    /\ row' = [j \in Jobs |-> IF j \in D THEN GivenUp(j)
                              ELSE IF j \in S THEN Leased(j) ELSE row[j]]
    /\ timer' = [j \in Jobs |-> IF j \in D THEN 0
                                ELSE IF j \in S THEN LeaseTime ELSE timer[j]]

(* The transaction commits only if every row it leased can be projected.   *)
Commits(D, S) == ClaimJobs(D, S) /\ S \cap unreadable = {}

(* A worker whose last batch settled claims the next one, maybe an empty   *)
(* one.                                                                    *)
Claim(w, D, S) ==
    /\ Idle(w)
    /\ Commits(D, S)
    /\ hold' = [hold EXCEPT ![w] =
          [j \in Jobs |-> IF j \in S THEN row'[j].attempts ELSE 0]]
    /\ errors' = [errors EXCEPT ![w] = 0]
    /\ UNCHANGED <<unreadable, running, acks>>

(* The claim fails: the database is out of reach, or one row could not be  *)
(* projected and the burials and leases are rolled back with it; or it     *)
(* commits and the worker does not learn of it.  Too many failures in a    *)
(* row stop the worker.                                                    *)
ClaimFails(w) ==
    /\ Idle(w)
    /\ \/ UNCHANGED <<row, timer>>
       \/ \E D \in Burials, S \in Leases : Commits(D, S)
    /\ LET last == errors[w] + 1 = MaxClaimErrors IN
          /\ errors' = [errors EXCEPT ![w] = IF last THEN 0 ELSE @ + 1]
          /\ running' = [running EXCEPT ![w] = ~last]
    /\ UNCHANGED <<unreadable, hold, acks>>

BugFenced(j, g) == row[j].state = "leased" /\ timer[j] > 0

(* Judged after the row lock is held, on a fresh clock.                    *)
Fenced(j, g) ==
    row[j].state = "leased" /\ row[j].attempts = g /\ timer[j] > 0

Completed(j) == [row[j] EXCEPT !.state = "completed", !.failure = "none"]

BugFailed(j, code) ==
    [row[j] EXCEPT
        !.state = IF code = "invalid_event" \/ row[j].attempts > MaxAttempts
                  THEN "dead_letter" ELSE "pending",
        !.failure = code]

Failed(j, code) ==
    IF code = "invalid_event" THEN
        [row[j] EXCEPT !.state = "dead_letter", !.failure = code]
    ELSE IF row[j].attempts >= MaxAttempts THEN GivenUp(j)
    ELSE [row[j] EXCEPT !.state = "pending", !.failure = code]

(* complete_outbox_job or fail_outbox_job; a stale one returns false.      *)
Acknowledge(m) ==
    /\ acks' = acks \ {m}
    /\ \/ /\ Fenced(m.job, m.generation)
          /\ row' = [row EXCEPT ![m.job] =
                IF m.outcome = "ok" THEN Completed(m.job)
                ELSE Failed(m.job, m.outcome)]
          /\ timer' = [timer EXCEPT ![m.job] =
                IF row'[m.job].state = "pending"
                THEN Backoff[row[m.job].attempts] ELSE 0]
       \/ ~Fenced(m.job, m.generation) /\ UNCHANGED <<row, timer>>
    /\ UNCHANGED <<unreadable, running, errors, hold>>

AckLost(m) ==
    /\ acks' = acks \ {m}
    /\ UNCHANGED <<row, timer, unreadable, running, errors, hold>>

-----------------------------------------------------------------------------
(* The worker loop.                                                        *)

Held(w, j) == hold[w][j] > 0

(* The handler returned, threw, timed out, or refused the event: one       *)
(* acknowledgement for one outcome, and whatever its reply says, or if     *)
(* none comes, it is not repeated.                                         *)
SendAck(w, j, o) ==
    /\ running[w] /\ Held(w, j)
    /\ acks' = acks \cup {[job |-> j, generation |-> hold[w][j], outcome |-> o]}
    /\ hold' = [hold EXCEPT ![w][j] = 0]
    /\ UNCHANGED <<row, timer, unreadable, running, errors>>

(* The lease ran out before the handler was called, or the batch deadline  *)
(* passed: nothing is acknowledged, the database recovers the row.         *)
Abandon(w, j) ==
    /\ running[w] /\ Held(w, j)
    /\ hold' = [hold EXCEPT ![w][j] = 0]
    /\ UNCHANGED <<row, timer, unreadable, running, errors, acks>>

(* A crash or a shutdown.                                                  *)
Stop(w) ==
    /\ running[w]
    /\ running' = [running EXCEPT ![w] = FALSE]
    /\ errors' = [errors EXCEPT ![w] = 0]
    /\ hold' = [hold EXCEPT ![w] = [j \in Jobs |-> 0]]
    /\ UNCHANGED <<row, timer, unreadable, acks>>

Start(w) ==
    /\ ~running[w]
    /\ running' = [running EXCEPT ![w] = TRUE]
    /\ UNCHANGED <<row, timer, unreadable, errors, hold, acks>>

(* A pending row that is available and a lease that is past change no more *)
(* as time goes on.                                                        *)
Tick ==
    /\ timer' = [j \in Jobs |->
          IF timer[j] > 0 \/ (row[j].state = "leased" /\ timer[j] = 0)
          THEN timer[j] - 1 ELSE timer[j]]
    /\ UNCHANGED <<row, unreadable, running, errors, hold, acks>>

-----------------------------------------------------------------------------

Next ==
    \/ \E j \in Jobs : Enqueue(j) \/ Mend(j)
    \/ \E w \in Workers :
          \/ \E D \in Burials, S \in Leases : Claim(w, D, S)
          \/ ClaimFails(w)
    \/ \E m \in acks : Acknowledge(m) \/ AckLost(m)
    \/ \E w \in Workers, j \in Jobs :
          (\E o \in Outcomes : SendAck(w, j, o)) \/ Abandon(w, j)
    \/ \E w \in Workers : Stop(w) \/ Start(w)
    \/ Tick

Safety == Init /\ [][Next]_vars

(* The claim of a worker gets some row, and every row can be projected.    *)
ClaimSome ==
    /\ unreadable = {}
    /\ \E w \in Workers, D \in Burials, S \in Leases :
          D \cup S # {} /\ Claim(w, D, S)

(* The clock runs, and of the workers that stopped, one is started again;  *)
(* batches come to their end (every handler and every batch has a          *)
(* deadline); and while all rows can be projected, of the claims that the  *)
(* loops repeat one gets through: database and locks are not out of reach  *)
(* for ever.  Nothing is assumed of claims while a row cannot be           *)
(* projected, nor that anybody ever mends it.                              *)
Fairness ==
    /\ WF_vars(Tick)
    /\ SF_vars(ClaimSome)
    /\ WF_vars(\E w \in Workers : Start(w))
    /\ WF_vars(\E w \in Workers, j \in Jobs :
          (\E o \in Outcomes : SendAck(w, j, o)) \/ Abandon(w, j))

Spec == Safety /\ Fairness

-----------------------------------------------------------------------------
(* Properties.                                                             *)

(* Rows stay in the domain of the CHECK constraints, and a message or a    *)
(* batch never names a generation beyond the bound.                        *)
TypeOK ==
    /\ row \in [Jobs -> RowType]
    /\ timer \in [Jobs -> Int]
    /\ unreadable \in SUBSET Jobs
    /\ running \in [Workers -> BOOLEAN]
    /\ errors \in [Workers -> 0..(MaxClaimErrors - 1)]
    /\ hold \in [Workers -> [Jobs -> 0..MaxAttempts]]
    /\ acks \in SUBSET AckType

(* Everyone who may still acknowledge job j in generation g.               *)
Bearers(j, g) ==
    ({"batch"} \X {w \in Workers : hold[w][j] = g}) \cup
    ({"message"} \X {m \in acks : m.job = j /\ m.generation = g})

(* No generation is acknowledged twice or by two workers, whatever was     *)
(* delayed, abandoned or taken over: at most one bearer per generation,    *)
(* none of a generation the row has not reached (0003, the claim and its   *)
(* fence).                                                                 *)
OneBearer ==
    \A j \in Jobs, g \in Generations :
        /\ Cardinality(Bearers(j, g)) <= 1
        /\ g > row[j].attempts => Bearers(j, g) = {}

(* The step from leased to a settled state or back to pending is taken by  *)
(* an acknowledgement of the lease in force, and only as that says; a      *)
(* lease that ran out on the last attempt is the one exception (0003,      *)
(* complete, fail and claim; worker.ts acknowledges what the handler did). *)
SettledByHolder ==
    [][\A j \in Jobs :
        row[j].state = "leased" /\ row'[j].state # "leased" =>
            \/ \E m \in acks \ acks' :
                  /\ m.job = j /\ m.generation = row[j].attempts
                  /\ timer[j] > 0
                  /\ row'[j].state = "completed" <=> m.outcome = "ok"
            \/ /\ timer[j] < 0 /\ row[j].attempts = MaxAttempts
               /\ row'[j].failure = "attempts_exhausted"]_vars

Fate(j) ==
    CASE row[j].state = "absent"               -> "absent"
      [] row[j].state \in {"pending", "leased"} -> "waiting"
      [] row[j].state = "completed"            -> "delivered"
      [] row[j].state = "dead_letter"          ->
            IF row[j].failure = "invalid_event" THEN "invalid"
            ELSE "exhausted"

Promise == INSTANCE Delivery WITH
    job <- [j \in Jobs |-> [fate |-> Fate(j), tries |-> row[j].attempts]],
    stalled <- unreadable # {}

(* The outbox is a Delivery: what is settled stays settled, nothing is     *)
(* settled untried and nothing given up early, though workers crash at     *)
(* will, claims fail and acknowledgements get lost.                        *)
Delivers == Promise!Safety

(* Every notification settles in the end, delivered or dead-lettered,      *)
(* unless a row that cannot be projected stands in the way: it fails every *)
(* claim that takes it, for good (worker.ts:102-108, 216-225).  As soon as *)
(* it is mended the promise is back for all that waits, that row included: *)
(* the failed claims and the workers they stopped cost no row its tries.   *)
NothingWaitsForEver == Promise!EventuallySettled
=============================================================================
