----------------------------- MODULE Observation -----------------------------
(***************************************************************************)
(* The settlement observers: worker processes that lease dispatched        *)
(* payment attempts, ask the gateway about each, and record a positive     *)
(* answer or release the lease.                                            *)
(*                                                                         *)
(* A claim is one statement that reads a snapshot, locks the attempt rows  *)
(* it selected and then writes leases, which are rows of another table; a  *)
(* record locks the lease first and the attempt later.  Both take more     *)
(* than one action here.  Operators whose name starts with Bug belong to   *)
(* no specification.                                                       *)
(***************************************************************************)
EXTENDS Integers, FiniteSets

CONSTANTS
    Attempts,       \* payment attempts
    Workers,        \* observer processes
    Nobody,         \* owner of a row nobody locked
    Nothing,        \* no attempt
    MaxClaims,      \* 10 in the code: leases of one attempt
    ClaimLimit,     \* rows of one claim, at most 25 in the code
    LeaseTime       \* 120 seconds in the code

ASSUME ObservationAssumption ==
    /\ MaxClaims \in Nat \ {0} /\ ClaimLimit \in Nat \ {0}
    /\ LeaseTime \in Nat \ {0} /\ IsFiniteSet(Attempts)
    /\ Nobody \notin Workers /\ Nothing \notin Attempts

VARIABLES
    state,      \* payment_attempts.state
    gateway,    \* what became of the transfer at the gateway
    claims,     \* lease_generation and attempt_count, which grow together
    left,       \* time until lease_until, NoLease if that is NULL
    rowLock,    \* the worker whose transaction locks the attempt
    leaseLock,  \* the worker whose transaction locks the lease
    pc,         \* per worker: where its loop is
    age,        \* per worker: time since its claim read the clock
    seen,       \* per worker: rows its claim selected, then locked
    earlier,    \* per worker: claims under way that read the clock before
    late,       \* per worker: attempts leased by a claim with a later clock
    batch,      \* per worker and attempt: the generation it still has to do
    processed,  \* per worker: the attempts of this sweep
    current,    \* per worker: the attempt it asked about, and the answer
    asked       \* per attempt: times the gateway was asked

database  == <<state, claims, left, rowLock, leaseLock>>
statement == <<age, seen, earlier, late>>
vars == <<database, gateway, pc, statement, batch, processed, current, asked>>

NoLease    == -2
NoQuestion == [attempt |-> Nothing, answer |-> "none"]

Init ==
    /\ state     = [x \in Attempts |-> "persisted"]
    /\ gateway   = [x \in Attempts |-> "absent"]
    /\ claims    = [x \in Attempts |-> 0]
    /\ left      = [x \in Attempts |-> NoLease]
    /\ rowLock   = [x \in Attempts |-> Nobody]
    /\ leaseLock = [x \in Attempts |-> Nobody]
    /\ pc        = [w \in Workers |-> "idle"]
    /\ age       = [w \in Workers |-> 0]
    /\ seen      = [w \in Workers |-> {}]
    /\ earlier   = [w \in Workers |-> {}]
    /\ late      = [w \in Workers |-> {}]
    /\ batch     = [w \in Workers |-> [x \in Attempts |-> 0]]
    /\ processed = [w \in Workers |-> {}]
    /\ current   = [w \in Workers |-> NoQuestion]
    /\ asked     = [x \in Attempts |-> 0]

-----------------------------------------------------------------------------
(* The buyer dispatches, and the gateway settles in its own time.          *)

Dispatch(x) ==
    /\ state[x] = "persisted"
    /\ state' = [state EXCEPT ![x] = "unknown"]
    /\ UNCHANGED <<gateway, claims, left, rowLock, leaseLock, pc, statement,
                   batch, processed, current, asked>>

GatewayAdvances(x) ==
    /\ state[x] # "persisted" /\ gateway[x] # "completed"
    /\ gateway' = [gateway EXCEPT ![x] =
            IF @ = "absent" THEN "pending" ELSE "completed"]
    /\ UNCHANGED <<database, pc, statement, batch, processed, current, asked>>

-----------------------------------------------------------------------------
(* The claim.                                                              *)

Observable(x) == state[x] \in {"unknown", "pending"}

BugSelectable(x) ==
    Observable(x) /\ claims[x] < MaxClaims /\ left[x] = NoLease

Selectable(x) == Observable(x) /\ claims[x] < MaxClaims /\ left[x] < 0

(* The clock is read, then the snapshot of the statement taken.            *)
ClaimBegin(w) ==
    /\ pc[w] = "idle"
    /\ pc' = [pc EXCEPT ![w] = "snapshot"]
    /\ age' = [age EXCEPT ![w] = 0]
    /\ seen' = [seen EXCEPT ![w] = {x \in Attempts : Selectable(x)}]
    /\ earlier' = [earlier EXCEPT ![w] =
            {v \in Workers : pc[v] \in {"snapshot", "locked"}}]
    /\ late' = [late EXCEPT ![w] = {}]
    /\ UNCHANGED <<database, gateway, batch, processed, current, asked>>

(* FOR UPDATE OF p SKIP LOCKED: rows somebody locked are passed over.  The *)
(* lock looks at the newest version of the attempt, not of the lease.      *)
ClaimLock(w) ==
    /\ pc[w] = "snapshot"
    /\ \E L \in SUBSET {x \in seen[w] : rowLock[x] = Nobody /\ Observable(x)} :
          /\ Cardinality(L) <= ClaimLimit
          /\ \A x \in seen[w] \ L :
                rowLock[x] # Nobody \/ ~Observable(x)
                    \/ Cardinality(L) = ClaimLimit
          /\ seen' = [seen EXCEPT ![w] = L]
          /\ rowLock' = [x \in Attempts |-> IF x \in L THEN w ELSE rowLock[x]]
    /\ pc' = [pc EXCEPT ![w] = "locked"]
    /\ UNCHANGED <<state, gateway, claims, left, leaseLock, age, earlier, late,
                   batch, processed, current, asked>>

Unlocked(lock, w) == [x \in Attempts |-> IF lock[x] = w THEN Nobody ELSE lock[x]]

LeaseEnd(w) == IF age[w] <= LeaseTime THEN LeaseTime - age[w] ELSE -1

BugLeasable(w, x) == x \notin late[w]

(* The CHECK constraint on attempt_count, and the trigger that refuses to  *)
(* set last_claimed_at back.                                               *)
Leasable(w, x) == claims[x] < MaxClaims /\ x \notin late[w]

(* The statement of w is over, having leased the attempts L.               *)
StatementEnds(w, L) ==
    /\ age' = [age EXCEPT ![w] = 0]
    /\ seen' = [seen EXCEPT ![w] = {}]
    /\ earlier' = [v \in Workers |-> IF v = w THEN {} ELSE earlier[v] \ {w}]
    /\ late' = [v \in Workers |->
          IF v = w THEN {} ELSE IF v \in earlier[w] THEN late[v] \cup L
          ELSE late[v]]
    /\ rowLock' = Unlocked(rowLock, w)

(* The leases are written and the transaction ends.  An attempt of this    *)
(* sweep is not processed again: its lease is left to run out, and if      *)
(* there is no other the sweep is over.  Without a reply the worker knows  *)
(* of no lease.                                                            *)
ClaimCommit(w, replyArrives) ==
    LET fresh == seen[w] \ processed[w] IN
    /\ pc[w] = "locked"
    /\ \A x \in seen[w] : leaseLock[x] = Nobody /\ Leasable(w, x)
    /\ claims' = [x \in Attempts |-> claims[x] + IF x \in seen[w] THEN 1 ELSE 0]
    /\ left' = [x \in Attempts |-> IF x \in seen[w] THEN LeaseEnd(w) ELSE left[x]]
    /\ StatementEnds(w, seen[w])
    /\ \/ /\ replyArrives
          /\ batch' = [batch EXCEPT ![w] =
                [x \in Attempts |-> IF x \in fresh THEN claims'[x] ELSE 0]]
          /\ processed' = [processed EXCEPT ![w] =
                IF fresh = {} THEN {} ELSE @ \cup fresh]
          /\ pc' = [pc EXCEPT ![w] = IF fresh = {} THEN "idle" ELSE "batch"]
       \/ /\ ~replyArrives
          /\ pc' = [pc EXCEPT ![w] = "idle"]
          /\ UNCHANGED <<batch, processed>>
    /\ UNCHANGED <<state, gateway, leaseLock, current, asked>>

(* A claim that fails is rolled back and tried again later.                *)
ClaimRollsBack(w) ==
    /\ pc' = [pc EXCEPT ![w] = "idle"]
    /\ StatementEnds(w, {})
    /\ UNCHANGED <<state, gateway, claims, left, leaseLock, batch, processed,
                   current, asked>>

ClaimFails(w) ==
    /\ pc[w] = "locked"
    /\ \E x \in seen[w] : leaseLock[x] = Nobody /\ ~Leasable(w, x)
    /\ ClaimRollsBack(w)

(* The connection fails before the claim commits; the loop backs off.      *)
ClaimLost(w) ==
    /\ pc[w] \in {"snapshot", "locked"}
    /\ pc' = [pc EXCEPT ![w] = "down"]
    /\ StatementEnds(w, {})
    /\ UNCHANGED <<state, gateway, claims, left, leaseLock, batch, processed,
                   current, asked>>

-----------------------------------------------------------------------------
(* The batch, one attempt after the other.                                 *)

BugAnswers(x) ==
    {"unclear"} \cup (IF gateway[x] = "absent" THEN {} ELSE {"committed"})

(* Every answer but a matching record of the gateway is unclear.           *)
Answers(x) ==
    {"unclear"} \cup
    CASE gateway[x] = "absent"    -> {}
      [] gateway[x] = "pending"   -> {"pending"}
      [] gateway[x] = "completed" -> {"committed"}

Ask(w, x) ==
    /\ pc[w] = "batch" /\ batch[w][x] > 0
    /\ \E answer \in Answers(x) :
          /\ current' = [current EXCEPT ![w] =
                [attempt |-> x, answer |-> answer]]
          /\ asked' = [asked EXCEPT ![x] = @ + 1]
    /\ pc' = [pc EXCEPT ![w] = "answered"]
    /\ UNCHANGED <<database, gateway, statement, batch, processed>>

Done(w, x) ==
    /\ batch' = [batch EXCEPT ![w][x] = 0]
    /\ current' = [current EXCEPT ![w] = NoQuestion]
    /\ pc' = [pc EXCEPT ![w] =
            IF \E y \in Attempts \ {x} : batch[w][y] > 0
            THEN "batch" ELSE "idle"]

(* The lease is past on the local clock, or the batch deadline is.         *)
Skip(w, x) ==
    /\ pc[w] = "batch" /\ batch[w][x] > 0
    /\ Done(w, x)
    /\ UNCHANGED <<database, gateway, statement, processed, asked>>

(* An unclear answer ends the lease, if it still is the one of the claim   *)
(* and the call gets through.                                              *)
Release(w, x) ==
    /\ pc[w] = "answered" /\ current[w].attempt = x
    /\ current[w].answer = "unclear"
    /\ leaseLock[x] = Nobody
    /\ \/ /\ claims[x] = batch[w][x] /\ left[x] # NoLease
          /\ left' = [left EXCEPT ![x] = NoLease]
       \/ UNCHANGED left
    /\ Done(w, x)
    /\ UNCHANGED <<state, gateway, claims, rowLock, leaseLock, statement,
                   processed, asked>>

LeaseInForce(w, x) == claims[x] = batch[w][x] /\ left[x] > 0

(* The record locks the lease and judges it.                               *)
BugRecordBegin(w, x) ==
    /\ pc[w] = "answered" /\ current[w].attempt = x
    /\ current[w].answer # "unclear"
    /\ leaseLock[x] = Nobody /\ LeaseInForce(w, x)
    /\ pc' = [pc EXCEPT ![w] = "recording"]
    /\ UNCHANGED <<database, gateway, statement, batch, processed, current,
                   asked>>

RecordBegin(w, x) ==
    /\ pc[w] = "answered" /\ current[w].attempt = x
    /\ current[w].answer # "unclear"
    /\ leaseLock[x] = Nobody /\ LeaseInForce(w, x)
    /\ leaseLock' = [leaseLock EXCEPT ![x] = w]
    /\ pc' = [pc EXCEPT ![w] = "recording"]
    /\ UNCHANGED <<state, gateway, claims, left, rowLock, statement, batch,
                   processed, current, asked>>

(* Nothing is recorded: the lease is stale, or the call was lost.  It is   *)
(* not repeated.                                                           *)
RecordStale(w, x) ==
    /\ pc[w] = "answered" /\ current[w].attempt = x
    /\ current[w].answer # "unclear"
    /\ Done(w, x)
    /\ UNCHANGED <<database, gateway, statement, processed, asked>>

(* Once the attempt row is locked too, the answer is recorded and the      *)
(* lease consumed.  An attempt that is committed by now refuses it, and a  *)
(* pending one does unless the gateway's status moved on meanwhile; then   *)
(* the lease is kept as it was.                                            *)
RecordCommit(w, x) ==
    /\ pc[w] = "recording" /\ current[w].attempt = x
    /\ rowLock[x] = Nobody
    /\ \/ /\ Observable(x)
          /\ state' = [state EXCEPT ![x] = current[w].answer]
          /\ left' = [left EXCEPT ![x] = NoLease]
       \/ /\ ~Observable(x) \/ state[x] = current[w].answer
          /\ UNCHANGED <<state, left>>
    /\ leaseLock' = Unlocked(leaseLock, w)
    /\ Done(w, x)
    /\ UNCHANGED <<gateway, claims, rowLock, statement, processed, asked>>

(* The record fails while it waits, and is rolled back.                    *)
RecordFails(w, x) ==
    /\ pc[w] = "recording" /\ current[w].attempt = x
    /\ leaseLock' = Unlocked(leaseLock, w)
    /\ Done(w, x)
    /\ UNCHANGED <<state, gateway, claims, left, rowLock, statement, processed,
                   asked>>

-----------------------------------------------------------------------------
(* The database and the processes at large.                                *)

(* Recorder w waits for an attempt that claim v locked, and v waits for    *)
(* the lease of it.                                                        *)
Deadlocked(w, v, x) ==
    /\ pc[w] = "recording" /\ current[w].attempt = x
    /\ pc[v] = "locked" /\ rowLock[x] = v /\ leaseLock[x] = w

(* The database breaks the circle and aborts one of the two.               *)
DeadlockBroken(w, v, x) ==
    /\ Deadlocked(w, v, x)
    /\ ClaimRollsBack(v) \/ RecordFails(w, x)

(* A worker stops anywhere; its transaction is rolled back and its memory  *)
(* lost.                                                                   *)
Crash(w) ==
    /\ pc[w] # "down"
    /\ pc' = [pc EXCEPT ![w] = "down"]
    /\ StatementEnds(w, {})
    /\ batch' = [batch EXCEPT ![w] = [x \in Attempts |-> 0]]
    /\ processed' = [processed EXCEPT ![w] = {}]
    /\ current' = [current EXCEPT ![w] = NoQuestion]
    /\ leaseLock' = Unlocked(leaseLock, w)
    /\ UNCHANGED <<state, gateway, claims, left, asked>>

Outage(w) == Crash(w) \/ ClaimLost(w)

Restart(w) ==
    /\ pc[w] = "down"
    /\ pc' = [pc EXCEPT ![w] = "idle"]
    /\ UNCHANGED <<database, gateway, statement, batch, processed, current,
                   asked>>

Tick ==
    /\ left' = [x \in Attempts |-> IF left[x] >= 0 THEN left[x] - 1 ELSE left[x]]
    /\ age' = [w \in Workers |->
            IF pc[w] \in {"snapshot", "locked"} /\ age[w] <= LeaseTime
            THEN age[w] + 1 ELSE age[w]]
    /\ UNCHANGED <<state, gateway, claims, rowLock, leaseLock, pc, seen, earlier,
                   late, batch, processed, current, asked>>

-----------------------------------------------------------------------------

ClaimEnds(w) == (\E arrives \in BOOLEAN : ClaimCommit(w, arrives)) \/ ClaimFails(w)

Claiming(w) == ClaimBegin(w) \/ ClaimLock(w) \/ ClaimEnds(w)

Observing(w, x) ==
    \/ Ask(w, x) \/ Skip(w, x) \/ Release(w, x)
    \/ RecordBegin(w, x) \/ RecordStale(w, x) \/ RecordCommit(w, x)
    \/ RecordFails(w, x)

Next ==
    \/ \E x \in Attempts : Dispatch(x) \/ GatewayAdvances(x)
    \/ \E w \in Workers : Claiming(w) \/ Outage(w) \/ Restart(w)
    \/ \E w \in Workers, x \in Attempts : Observing(w, x)
    \/ \E w, v \in Workers, x \in Attempts : DeadlockBroken(w, v, x)
    \/ Tick

Safety == Init /\ [][Next]_vars

(* Time passes, the database breaks deadlocks, every lookup and every call *)
(* of the store has a deadline, a worker keeps claiming, comes back after  *)
(* an outage, and has no more of them in the end.                          *)
Spec ==
    /\ Safety
    /\ WF_vars(Tick)
    /\ \A w \in Workers :
          /\ <>[][~Outage(w)]_vars
          /\ WF_vars(Restart(w))
          /\ WF_vars(ClaimBegin(w))
          /\ WF_vars(ClaimLock(w))
          /\ WF_vars(ClaimEnds(w))
          /\ WF_vars(\E x \in Attempts : Observing(w, x))
          /\ WF_vars(\E v \in Workers, x \in Attempts : DeadlockBroken(w, v, x))

(* Workers that never crash, whose calls all get through, and that are     *)
(* faster than their leases.                                               *)
SteadyNext ==
    \/ \E x \in Attempts : Dispatch(x) \/ GatewayAdvances(x)
    \/ \E w \in Workers :
          ClaimBegin(w) \/ ClaimLock(w) \/ ClaimCommit(w, TRUE)
    \/ \E w \in Workers, x \in Attempts :
          \/ Ask(w, x) \/ RecordBegin(w, x) \/ RecordCommit(w, x)
          \/ Release(w, x) /\ left'[x] = NoLease
    \/ Tick /\ \A w \in Workers : pc[w] = "idle"

SteadySpec == Init /\ [][SteadyNext]_vars

-----------------------------------------------------------------------------
(* Properties.                                                             *)

States  == {"persisted", "unknown", "pending", "committed"}
Places  == {"down", "idle", "snapshot", "locked", "batch", "answered",
            "recording"}

QuestionType == [attempt : Attempts \cup {Nothing},
                 answer : {"none", "unclear", "pending", "committed"}]

DatabaseTyped ==
    /\ state \in [Attempts -> States]
    /\ gateway \in [Attempts -> {"absent", "pending", "completed"}]
    /\ claims \in [Attempts -> 0..MaxClaims]
    /\ left \in [Attempts -> -2..LeaseTime]
    /\ rowLock \in [Attempts -> Workers \cup {Nobody}]
    /\ leaseLock \in [Attempts -> Workers \cup {Nobody}]

LoopsTyped ==
    /\ pc \in [Workers -> Places]
    /\ age \in [Workers -> 0..(LeaseTime + 1)]
    /\ seen \in [Workers -> SUBSET Attempts]
    /\ earlier \in [Workers -> SUBSET Workers]
    /\ late \in [Workers -> SUBSET Attempts]
    /\ batch \in [Workers -> [Attempts -> 0..MaxClaims]]
    /\ processed \in [Workers -> SUBSET Attempts]
    /\ current \in [Workers -> QuestionType]
    /\ asked \in [Attempts -> Nat]

(* The tables and the loops stay in their domains; no attempt is leased    *)
(* more than MaxClaims times (0017, the CHECK constraints).                *)
TypeOK == DatabaseTyped /\ LoopsTyped

(* While an answer is being recorded nobody takes its lease over, though   *)
(* the lease runs out and is claimable meanwhile; so no two workers ever   *)
(* record the same attempt at once (0017, the lease is locked first).      *)
RecorderKeepsLease ==
    \A w \in Workers : pc[w] = "recording" =>
        claims[current[w].attempt] = batch[w][current[w].attempt]

(* What is recorded is never ahead of the gateway: pending needs a record  *)
(* of the transfer, committed a completed one, however late the answer is  *)
(* written down (settlement-observation.ts, decideFromExposure).           *)
NothingInvented ==
    \A x \in Attempts :
        /\ state[x] = "pending" => gateway[x] # "absent"
        /\ state[x] = "committed" => gateway[x] = "completed"

(* Every dispatched attempt is either settled or leased as often as the    *)
(* retries allow, whatever crashes: no lease is lost for good. A lease may *)
(* end without a question (NoRetryBurned).                                 *)
ObservedOrExhausted ==
    \A x \in Attempts :
        state[x] = "unknown" ~> state[x] = "committed" \/ claims[x] = MaxClaims

(* 0017 says that with SKIP LOCKED two workers never observe the same      *)
(* attempt concurrently, the store that a lease is exclusive: an attempt   *)
(* under a live lease is not leased again.                                 *)
LeaseExclusive ==
    [][\A x \in Attempts : claims'[x] # claims[x] => left[x] < 0]_vars

(* The loop says that a hold cannot burn two of the bounded retries of an  *)
(* attempt: while nothing but holds came of it, every claim that is not in *)
(* the hands of a worker led to a question.                                *)
NoRetryBurned ==
    \A x \in Attempts : state[x] = "unknown" =>
        claims[x] <= asked[x]
                     + Cardinality({w \in Workers : batch[w][x] > 0})
=============================================================================
