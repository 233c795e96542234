---------------------------- MODULE OutboxProofs ----------------------------
(***************************************************************************)
(* What holds of the outbox for any number of jobs, workers, attempts and  *)
(* any lease and backoff.                                                  *)
(***************************************************************************)
EXTENDS Outbox, FiniteSetTheorems, TLAPS

(* A row that was not written yet was not claimed either.                  *)
AbsentUntried ==
    \A j \in Jobs : row[j].state = "absent" => row[j].attempts = 0

RowInv == TypeOK /\ AbsentUntried

LEMMA InitRowInv == Init => RowInv
BY OutboxAssumption
DEF Init, RowInv, TypeOK, AbsentUntried, RowType, States, AckType

(* What a claim, a completion, a failure and a burial make of a row.       *)
LEMMA RowsTyped ==
    ASSUME RowInv, NEW j \in Jobs
    PROVE  /\ GivenUp(j) \in RowType
           /\ Completed(j) \in RowType
           /\ row[j].attempts < MaxAttempts => Leased(j) \in RowType
           /\ \A code \in Failures : Failed(j, code) \in RowType
<1>1. row[j] \in RowType
  BY DEF RowInv, TypeOK
<1>2. row[j].attempts \in 0..MaxAttempts /\ MaxAttempts \in Nat
  BY <1>1, OutboxAssumption DEF RowType
<1>3. GivenUp(j) \in RowType
  BY <1>1 DEF GivenUp, RowType, States
<1>4. Completed(j) \in RowType
  BY <1>1 DEF Completed, RowType, States
<1>5. row[j].attempts < MaxAttempts => Leased(j) \in RowType
  <2>1. SUFFICES ASSUME row[j].attempts < MaxAttempts
                 PROVE  Leased(j) \in RowType
    OBVIOUS
  <2>2. row[j].attempts + 1 \in 0..MaxAttempts
    BY <1>2, <2>1
  <2>3. QED
    BY <1>1, <2>2 DEF Leased, RowType, States
<1>6. ASSUME NEW code \in Failures
      PROVE  Failed(j, code) \in RowType
  <2>1. ASSUME NEW st \in States
        PROVE  [row[j] EXCEPT !.state = st, !.failure = code] \in RowType
    BY <1>1 DEF RowType
  <2>2. QED
    BY <1>3, <2>1 DEF Failed, States
<1>7. QED
  BY <1>3, <1>4, <1>5, <1>6

(* What a claim takes are rows that may be buried or leased.               *)
LEMMA Takeable ==
    /\ \A D \in Burials : D \in SUBSET Jobs /\ \A j \in D : Exhausted(j)
    /\ \A S \in Leases : S \in SUBSET Jobs /\ \A j \in S : Claimable(j)
BY DEF Burials, Leases, Batches

LEMMA ClaimJobsRows ==
    ASSUME RowInv, NEW D \in Burials, NEW S \in Leases, ClaimJobs(D, S)
    PROVE  /\ row' \in [Jobs -> RowType]
           /\ timer' \in [Jobs -> Int]
           /\ AbsentUntried'
<1> USE DEF RowInv, TypeOK
<1>1. ASSUME NEW j \in Jobs
      PROVE  row'[j] \in RowType /\ (row'[j].state = "absent" => row'[j] = row[j])
  <2>1. CASE j \in D
    BY <2>1, RowsTyped DEF ClaimJobs, GivenUp, RowType
  <2>2. CASE j \in S \ D
    <3>1. row'[j] = Leased(j)
      BY <2>2 DEF ClaimJobs
    <3>2. Leased(j) \in RowType /\ Leased(j).state = "leased"
      <4>1. Claimable(j)
        BY <2>2, Takeable
      <4>2. Leased(j) \in RowType
        BY <4>1, RowsTyped DEF Claimable
      <4>3. QED
        BY <4>2 DEF Leased, RowType
    <3>3. QED
      BY <3>1, <3>2
  <2>3. CASE j \notin S \cup D
    BY <2>3 DEF ClaimJobs
  <2>4. QED
    BY <2>1, <2>2, <2>3
<1>2. row' \in [Jobs -> RowType]
  <2>1. row' = [j \in Jobs |-> row'[j]]
    BY DEF ClaimJobs
  <2>2. QED
    BY <1>1, <2>1
<1>3. timer' \in [Jobs -> Int]
  BY OutboxAssumption DEF ClaimJobs
<1>4. QED
  BY <1>1, <1>2, <1>3 DEF AbsentUntried

LEMMA ClaimRowInv ==
    ASSUME RowInv, NEW w \in Workers, NEW D \in Burials, NEW S \in Leases,
           Claim(w, D, S)
    PROVE  RowInv'
<1> USE DEF RowInv, TypeOK
<1>1. row' \in [Jobs -> RowType] /\ timer' \in [Jobs -> Int] /\ AbsentUntried'
  BY ClaimJobsRows DEF Claim, Commits
<1>2. hold' \in [Workers -> [Jobs -> 0..MaxAttempts]]
  <2>1. ASSUME NEW j \in Jobs
        PROVE  row'[j].attempts \in 0..MaxAttempts /\ 0 \in 0..MaxAttempts
    BY <1>1, OutboxAssumption DEF RowType
  <2>2. [j \in Jobs |-> IF j \in S THEN row'[j].attempts ELSE 0]
            \in [Jobs -> 0..MaxAttempts]
    BY <2>1
  <2>3. QED
    BY <2>2 DEF Claim
<1>3. errors' \in [Workers -> 0..(MaxClaimErrors - 1)]
  BY OutboxAssumption DEF Claim
<1>4. QED
  BY <1>1, <1>2, <1>3 DEF Claim

LEMMA ClaimFailsRowInv ==
    ASSUME RowInv, NEW w \in Workers, ClaimFails(w)
    PROVE  RowInv'
<1> USE DEF RowInv, TypeOK
<1>1. row' \in [Jobs -> RowType] /\ timer' \in [Jobs -> Int] /\ AbsentUntried'
  <2>1. CASE UNCHANGED <<row, timer>>
    BY <2>1 DEF AbsentUntried
  <2>2. CASE \E D \in Burials, S \in Leases : Commits(D, S)
    BY <2>2, ClaimJobsRows DEF Commits
  <2>3. QED
    BY <2>1, <2>2 DEF ClaimFails
<1>2. errors' \in [Workers -> 0..(MaxClaimErrors - 1)]
  BY OutboxAssumption DEF ClaimFails
<1>3. running' \in [Workers -> BOOLEAN]
  BY DEF ClaimFails
<1>4. QED
  BY <1>1, <1>2, <1>3 DEF ClaimFails

LEMMA AcknowledgeRowInv ==
    ASSUME RowInv, NEW m \in acks, Acknowledge(m)
    PROVE  RowInv'
<1> USE DEF RowInv, TypeOK
<1>1. m \in AckType /\ m.job \in Jobs
  BY DEF AckType
<1>2. CASE Fenced(m.job, m.generation) /\ row' # row
  <2> DEFINE r == IF m.outcome = "ok" THEN Completed(m.job)
                  ELSE Failed(m.job, m.outcome)
  <2>1. row' = [row EXCEPT ![m.job] = r]
    BY <1>2 DEF Acknowledge
  <2>2. r \in RowType
    BY <1>1, RowsTyped DEF AckType, Outcomes
  <2>3. r.state # "absent"
    BY <1>1 DEF Completed, Failed, GivenUp, RowType
  <2>4. row' \in [Jobs -> RowType] /\ AbsentUntried'
    BY <1>1, <2>1, <2>2, <2>3 DEF AbsentUntried
  <2>5. row[m.job].attempts \in 1..MaxAttempts
    BY <1>1, <1>2, OutboxAssumption DEF Fenced, AckType, Generations
  <2>6. timer' \in [Jobs -> Int]
    BY <1>1, <1>2, <2>5, OutboxAssumption DEF Acknowledge
  <2>7. QED
    BY <2>4, <2>6 DEF Acknowledge
<1>3. CASE UNCHANGED row
  <2>1. timer' \in [Jobs -> Int]
    <3>1. CASE UNCHANGED timer
      BY <3>1
    <3>2. CASE Fenced(m.job, m.generation) /\ timer' # timer
      <4>1. row[m.job].attempts \in 1..MaxAttempts
        BY <1>1, <3>2, OutboxAssumption DEF Fenced, AckType, Generations
      <4>2. QED
        BY <1>1, <3>2, <4>1, OutboxAssumption DEF Acknowledge
    <3>3. QED
      BY <3>1, <3>2 DEF Acknowledge
  <2>2. QED
    BY <1>3, <2>1 DEF Acknowledge, AbsentUntried
<1>4. QED
  BY <1>2, <1>3 DEF Acknowledge

LEMMA NextRowInv == RowInv /\ [Next]_vars => RowInv'
<1> SUFFICES ASSUME RowInv, [Next]_vars
             PROVE  RowInv'
  OBVIOUS
<1> USE DEF RowInv, TypeOK
<1>1. ASSUME NEW j \in Jobs, Enqueue(j)
      PROVE  RowInv'
  <2>1. [row[j] EXCEPT !.state = "pending"] \in RowType
    BY DEF RowType, States
  <2>2. row' \in [Jobs -> RowType] /\ AbsentUntried'
    BY <1>1, <2>1 DEF Enqueue, RowType, AbsentUntried
  <2>3. timer' \in [Jobs -> Int]
    BY <1>1 DEF Enqueue
  <2>4. unreadable' \in SUBSET Jobs
    BY <1>1 DEF Enqueue
  <2>5. QED
    BY <1>1, <2>2, <2>3, <2>4 DEF Enqueue
<1>0. ASSUME NEW j \in Jobs, Mend(j)
      PROVE  RowInv'
  BY <1>0 DEF Mend, AbsentUntried
<1>2. ASSUME NEW w \in Workers,
             \/ \E D \in Burials, S \in Leases : Claim(w, D, S)
             \/ ClaimFails(w)
      PROVE  RowInv'
  BY <1>2, ClaimRowInv, ClaimFailsRowInv
<1>3. ASSUME NEW m \in acks, Acknowledge(m)
      PROVE  RowInv'
  BY <1>3, AcknowledgeRowInv
<1>4. ASSUME NEW m \in acks, AckLost(m)
      PROVE  RowInv'
  BY <1>4 DEF AckLost, AbsentUntried
<1>6. 0 \in 0..MaxAttempts
  BY OutboxAssumption
<1>7. ASSUME NEW w \in Workers, NEW j \in Jobs, NEW o \in Outcomes,
             SendAck(w, j, o)
      PROVE  RowInv'
  <2>1. [job |-> j, generation |-> hold[w][j], outcome |-> o] \in AckType
    BY <1>7, OutboxAssumption DEF SendAck, Held, AckType, Generations
  <2>2. hold' \in [Workers -> [Jobs -> 0..MaxAttempts]]
    BY <1>6, <1>7 DEF SendAck
  <2>3. QED
    BY <1>7, <2>1, <2>2 DEF SendAck, AbsentUntried
<1>8. ASSUME NEW w \in Workers, NEW j \in Jobs, Abandon(w, j)
      PROVE  RowInv'
  BY <1>6, <1>8 DEF Abandon, AbsentUntried
<1>9. ASSUME NEW w \in Workers, Stop(w) \/ Start(w)
      PROVE  RowInv'
  <2>1. hold' \in [Workers -> [Jobs -> 0..MaxAttempts]]
    <3>1. [j \in Jobs |-> 0] \in [Jobs -> 0..MaxAttempts]
      BY <1>6
    <3>2. QED
      BY <1>9, <3>1 DEF Stop, Start
  <2>2. running' \in [Workers -> BOOLEAN]
    BY <1>9 DEF Stop, Start
  <2>3. errors' \in [Workers -> 0..(MaxClaimErrors - 1)]
    <3>1. 0 \in 0..(MaxClaimErrors - 1)
      BY OutboxAssumption
    <3>2. QED
      BY <1>9, <3>1 DEF Stop, Start
  <2>4. QED
    BY <1>9, <2>1, <2>2, <2>3 DEF Stop, Start, AbsentUntried
<1>10. CASE Tick
  BY <1>10 DEF Tick, AbsentUntried
<1>11. CASE UNCHANGED vars
  BY <1>11 DEF vars, AbsentUntried
<1>12. QED
  BY <1>0, <1>1, <1>2, <1>3, <1>4, <1>7, <1>8, <1>9, <1>10, <1>11 DEF Next

THEOREM RowInvariant == Safety => []RowInv
<1>1. QED
  BY InitRowInv, NextRowInv, PTL DEF Safety

(* No row is ever claimed more often than the table allows, and no batch   *)
(* or message names a generation that does not exist.                      *)
THEOREM OutboxTyped == Safety => []TypeOK
<1>1. RowInv => TypeOK
  BY DEF RowInv
<1>2. QED
  BY <1>1, RowInvariant, PTL
-----------------------------------------------------------------------------
(* The outbox implements the promise.                                      *)

Moves(j) ==
    LET m == [fate |-> Fate(j), tries |-> row[j].attempts] IN
    m' = m \/ Promise!Submitted(m, m') \/ Promise!Tried(m, m')
           \/ Promise!Settles(m, m')

LEMMA UnchangedMoves ==
    ASSUME NEW j \in Jobs, row'[j] = row[j]
    PROVE  Moves(j)
BY DEF Moves, Fate

LEMMA EveryJobMoves ==
    ASSUME RowInv, Next, NEW j \in Jobs
    PROVE  Moves(j)
<1> USE DEF Moves, Fate, Promise!Submitted, Promise!Tried, Promise!Settles
<1>1. /\ row[j] \in RowType /\ row \in [Jobs -> RowType]
      /\ row[j].attempts \in 0..MaxAttempts /\ MaxAttempts \in Nat \ {0}
      /\ row[j].state = "absent" => row[j].attempts = 0
  BY OutboxAssumption DEF RowInv, TypeOK, RowType, AbsentUntried
<1>2. ASSUME NEW i \in Jobs, Enqueue(i)
      PROVE  Moves(j)
  <2>1. CASE i = j
    BY <1>1, <1>2, <2>1 DEF Enqueue, RowType
  <2>2. CASE i # j
    BY <1>1, <1>2, <2>2, UnchangedMoves DEF Enqueue
  <2>3. QED
    BY <2>1, <2>2
<1>3. ASSUME NEW D \in Burials, NEW S \in Leases, ClaimJobs(D, S)
      PROVE  Moves(j)
  <2>1. CASE j \in D
    <3>1. Exhausted(j) /\ row'[j] = GivenUp(j)
      BY <1>3, <2>1, Takeable DEF ClaimJobs
    <3>2. /\ row[j].state = "leased" /\ row[j].attempts = MaxAttempts
          /\ row'[j].state = "dead_letter"
          /\ row'[j].failure = "attempts_exhausted"
          /\ row'[j].attempts = row[j].attempts
      BY <1>1, <3>1 DEF Exhausted, GivenUp, RowType
    <3>3. QED
      BY <1>1, <3>2
  <2>2. CASE j \in S \ D
    <3>1. Claimable(j) /\ row'[j] = Leased(j)
      BY <1>3, <2>2, Takeable DEF ClaimJobs
    <3>2. /\ row[j].state \in {"pending", "leased"}
          /\ row'[j].state = "leased"
          /\ row'[j].attempts = row[j].attempts + 1
      BY <1>1, <3>1 DEF Claimable, Leased, RowType
    <3>3. QED
      BY <1>1, <3>2
  <2>3. CASE j \notin S \cup D
    BY <1>3, <2>3, UnchangedMoves DEF ClaimJobs
  <2>4. QED
    BY <2>1, <2>2, <2>3
<1>4. ASSUME NEW m \in acks, Acknowledge(m)
      PROVE  Moves(j)
  <2>1. m \in AckType
    BY DEF RowInv, TypeOK
  <2>2. CASE m.job = j /\ Fenced(j, m.generation) /\ row' # row
    <3>1. /\ row'[j] = IF m.outcome = "ok" THEN Completed(j)
                       ELSE Failed(j, m.outcome)
          /\ row[j].state = "leased"
          /\ row[j].attempts \in 1..MaxAttempts
      BY <1>1, <1>4, <2>1, <2>2
      DEF Acknowledge, Fenced, AckType, Generations
    <3>2. row'[j].attempts = row[j].attempts
      BY <1>1, <3>1 DEF Completed, Failed, GivenUp, RowType
    <3>3. CASE m.outcome = "ok"
      BY <1>1, <3>1, <3>2, <3>3 DEF Completed, RowType
    <3>4. CASE m.outcome = "invalid_event"
      BY <1>1, <3>1, <3>2, <3>4 DEF Failed, RowType
    <3>5. CASE m.outcome \notin {"ok", "invalid_event"}
               /\ row[j].attempts >= MaxAttempts
      BY <1>1, <3>1, <3>2, <3>5 DEF Failed, GivenUp, RowType
    <3>6. CASE m.outcome \notin {"ok", "invalid_event"}
               /\ ~(row[j].attempts >= MaxAttempts)
      BY <1>1, <3>1, <3>2, <3>6 DEF Failed, RowType
    <3>7. QED
      BY <3>3, <3>4, <3>5, <3>6
  <2>3. CASE ~(m.job = j /\ Fenced(j, m.generation) /\ row' # row)
    <3>1. row'[j] = row[j]
      BY <1>1, <1>4, <2>1, <2>3 DEF Acknowledge, AckType
    <3>2. QED
      BY <3>1, UnchangedMoves
  <2>4. QED
    BY <2>2, <2>3
<1>5. CASE UNCHANGED row
  BY <1>5, UnchangedMoves
<1>6. QED
  BY <1>2, <1>3, <1>4, <1>5
  DEF Next, Mend, Claim, ClaimFails, Commits, AckLost, SendAck, Abandon, Stop,
      Start, Tick

(* For any number of workers, crashing at will, the outbox never delivers  *)
(* or buries an untried notification, never gives one up early and never   *)
(* takes back what it settled.                                             *)
THEOREM OutboxDelivers == Safety => Delivers
<1> DEFINE job == [j \in Jobs |-> [fate |-> Fate(j), tries |-> row[j].attempts]]
<1>1. Init => Promise!Init
  BY DEF Init, Promise!Init, Fate
<1>2. RowInv /\ RowInv' /\ [Next]_vars => [Promise!Next]_job
  <2> SUFFICES ASSUME RowInv, RowInv', [Next]_vars
               PROVE  [Promise!Next]_job
    OBVIOUS
  <2>1. CASE Next
    <3>1. ASSUME NEW j \in Jobs
          PROVE  Moves(j) /\ job'[j] \in Promise!JobType
      <4>1. row'[j].attempts \in 0..MaxAttempts /\ row'[j].state \in States
        BY DEF RowInv, TypeOK, RowType
      <4>2. Fate(j)' \in Promise!Fates
        BY <4>1 DEF Fate, States, Promise!Fates
      <4>3. QED
        BY <2>1, <4>1, <4>2, EveryJobMoves DEF Promise!JobType
    <3>2. job' \in [Jobs -> Promise!JobType]
      BY <3>1
    <3>3. QED
      BY <3>1, <3>2 DEF Promise!Next, Moves
  <2>2. CASE UNCHANGED vars
    BY <2>2 DEF vars, Fate
  <2>3. QED
    BY <2>1, <2>2
<1>3. QED
  BY <1>1, <1>2, RowInvariant, PTL DEF Delivers, Safety, Promise!Safety
-----------------------------------------------------------------------------
(* Who settles a leased row.                                               *)

(* Whatever acknowledgement is delayed past its lease or past a crash, a   *)
(* leased row moves on only by an acknowledgement of the lease in force,   *)
(* or because the last lease ran out.                                      *)
THEOREM HolderSettles == Safety => SettledByHolder
<1> DEFINE Step(j) ==
        row[j].state = "leased" /\ row'[j].state # "leased" =>
            \/ \E m \in acks \ acks' :
                  /\ m.job = j /\ m.generation = row[j].attempts
                  /\ timer[j] > 0
                  /\ row'[j].state = "completed" <=> m.outcome = "ok"
            \/ /\ timer[j] < 0 /\ row[j].attempts = MaxAttempts
               /\ row'[j].failure = "attempts_exhausted"
<1>1. RowInv /\ [Next]_vars => \A j \in Jobs : Step(j)
  <2> SUFFICES ASSUME RowInv, [Next]_vars, NEW j \in Jobs,
                      row[j].state = "leased", row'[j].state # "leased"
               PROVE  Step(j)
    OBVIOUS
  <2>1. /\ row \in [Jobs -> RowType] /\ row[j] \in RowType
        /\ row[j].attempts \in 0..MaxAttempts /\ MaxAttempts \in Nat
    BY OutboxAssumption DEF RowInv, TypeOK, RowType
  <2>2. ASSUME NEW D \in Burials, NEW S \in Leases, ClaimJobs(D, S)
        PROVE  Step(j)
    <3>1. CASE j \in D
      <4>1. Exhausted(j) /\ row'[j] = GivenUp(j)
        BY <2>2, <3>1, Takeable DEF ClaimJobs
      <4>2. /\ timer[j] < 0 /\ row[j].attempts = MaxAttempts
            /\ row'[j].failure = "attempts_exhausted"
        BY <2>1, <4>1 DEF Exhausted, GivenUp, RowType
      <4>3. QED
        BY <4>2
    <3>2. CASE j \in S \ D
      BY <2>1, <2>2, <3>2 DEF ClaimJobs, Leased, RowType
    <3>3. CASE j \notin S \cup D
      BY <2>2, <3>3 DEF ClaimJobs
    <3>4. QED
      BY <3>1, <3>2, <3>3
  <2>3. ASSUME NEW m \in acks, Acknowledge(m)
        PROVE  Step(j)
    <3>1. m \in AckType /\ m \in acks \ acks'
      BY <2>3 DEF Acknowledge, RowInv, TypeOK
    <3>2. m.job = j /\ Fenced(j, m.generation)
      BY <2>1, <2>3, <3>1 DEF Acknowledge, AckType
    <3>3. row'[j] = IF m.outcome = "ok" THEN Completed(j)
                    ELSE Failed(j, m.outcome)
      BY <2>1, <2>3, <3>2 DEF Acknowledge
    <3>4. row'[j].state = "completed" <=> m.outcome = "ok"
      <4>1. CASE m.outcome = "ok"
        BY <2>1, <3>3, <4>1 DEF Completed, RowType
      <4>2. CASE m.outcome # "ok"
        BY <2>1, <3>3, <4>2 DEF Failed, GivenUp, RowType
      <4>3. QED
        BY <4>1, <4>2
    <3>5. QED
      BY <3>1, <3>2, <3>4 DEF Fenced
  <2>4. ASSUME NEW i \in Jobs, Enqueue(i)
        PROVE  Step(j)
    BY <2>1, <2>4 DEF Enqueue
  <2>5. CASE UNCHANGED row
    BY <2>5
  <2>6. QED
    BY <2>2, <2>3, <2>4, <2>5
    DEF Next, vars, Mend, Claim, ClaimFails, Commits, AckLost, SendAck, Abandon,
        Stop, Start, Tick
<1>2. QED
  BY <1>1, RowInvariant, PTL DEF Safety, SettledByHolder
-----------------------------------------------------------------------------
(* Who bears a generation.                                                 *)

BearersAgree ==
    \A j \in Jobs, g \in Generations :
        /\ \A p, q \in Bearers(j, g) : p = q
        /\ g > row[j].attempts => Bearers(j, g) = {}

(* A step that adds no bearer of a generation keeps what is claimed of it. *)
LEMMA FewerBearers ==
    ASSUME RowInv, RowInv', BearersAgree, NEW j \in Jobs, NEW g \in Generations,
           Bearers(j, g)' \in SUBSET Bearers(j, g),
           row'[j].attempts >= row[j].attempts
    PROVE  /\ \A p, q \in Bearers(j, g)' : p = q
           /\ g > row'[j].attempts => Bearers(j, g)' = {}
<1>1. /\ row[j].attempts \in Nat /\ row'[j].attempts \in Nat /\ g \in Nat
  BY OutboxAssumption DEF RowInv, TypeOK, RowType, Generations
<1>2. g > row'[j].attempts => g > row[j].attempts
  BY <1>1
<1>3. QED
  BY <1>2 DEF BearersAgree

LEMMA ClaimBearers ==
    ASSUME RowInv, RowInv', BearersAgree, NEW w \in Workers,
           NEW D \in Burials, NEW S \in Leases, Claim(w, D, S)
    PROVE  BearersAgree'
<1> SUFFICES ASSUME NEW j \in Jobs, NEW g \in Generations
             PROVE  /\ \A p, q \in Bearers(j, g)' : p = q
                    /\ g > row'[j].attempts => Bearers(j, g)' = {}
  BY DEF BearersAgree
<1>1. /\ row[j].attempts \in Nat /\ row[j] \in RowType /\ g \in Nat \ {0}
      /\ hold \in [Workers -> [Jobs -> 0..MaxAttempts]]
  BY OutboxAssumption DEF RowInv, TypeOK, RowType, Generations
<1>2. hold[w][j] = 0
  BY DEF Claim, Idle
<1>3. \A u \in Workers \ {w} : hold'[u][j] = hold[u][j]
  BY <1>1 DEF Claim
<1>4. acks' = acks
  BY DEF Claim
<1>5. CASE j \in S
  <2>1. row'[j] = Leased(j)
    <3>1. Claimable(j) /\ (j \in D => Exhausted(j))
      BY <1>5, Takeable
    <3>2. j \notin D
      BY <1>1, <3>1, OutboxAssumption DEF Claimable, Exhausted
    <3>3. QED
      BY <1>5, <3>2 DEF Claim, Commits, ClaimJobs
  <2>2. row'[j].attempts = row[j].attempts + 1
    BY <1>1, <2>1 DEF Leased, RowType
  <2>3. hold'[w][j] = row[j].attempts + 1
    BY <1>1, <1>5, <2>2 DEF Claim
  <2>4. CASE g = row[j].attempts + 1
    <3>1. Bearers(j, g) = {}
      BY <1>1, <2>4 DEF BearersAgree
    <3>2. Bearers(j, g)' \in SUBSET {<<"batch", w>>}
      BY <1>3, <1>4, <3>1 DEF Bearers
    <3>3. QED
      BY <1>1, <2>2, <2>4, <3>2
  <2>5. CASE g # row[j].attempts + 1
    <3>1. Bearers(j, g)' \in SUBSET Bearers(j, g)
      BY <1>3, <1>4, <2>3, <2>5 DEF Bearers
    <3>2. row'[j].attempts >= row[j].attempts
      BY <1>1, <2>2
    <3>3. QED
      BY <3>1, <3>2, FewerBearers
  <2>6. QED
    BY <2>4, <2>5
<1>6. CASE j \notin S
  <2>1. hold'[w][j] = 0
    BY <1>1, <1>6 DEF Claim
  <2>2. Bearers(j, g)' \in SUBSET Bearers(j, g)
    BY <1>1, <1>3, <1>4, <2>1 DEF Bearers
  <2>3. row'[j].attempts >= row[j].attempts
    <3>1. row'[j] = row[j] \/ row'[j] = GivenUp(j)
      BY <1>6 DEF Claim, Commits, ClaimJobs
    <3>2. row'[j].attempts = row[j].attempts
      BY <1>1, <3>1 DEF GivenUp, RowType
    <3>3. QED
      BY <1>1, <3>2
  <2>4. QED
    BY <2>2, <2>3, FewerBearers
<1>7. QED
  BY <1>5, <1>6

LEMMA SendAckBearers ==
    ASSUME RowInv, RowInv', BearersAgree, NEW w \in Workers, NEW i \in Jobs,
           NEW o \in Outcomes, SendAck(w, i, o), NEW j \in Jobs, NEW g \in Generations
    PROVE  /\ \A p, q \in Bearers(j, g)' : p = q
           /\ g > row'[j].attempts => Bearers(j, g)' = {}
<1> DEFINE m == [job |-> i, generation |-> hold[w][i], outcome |-> o]
<1>1. /\ hold \in [Workers -> [Jobs -> 0..MaxAttempts]]
      /\ row' = row /\ row[j].attempts \in Nat /\ g \in Nat \ {0}
      /\ acks' = acks \cup {m}
      /\ hold' = [hold EXCEPT ![w][i] = 0]
  BY OutboxAssumption DEF RowInv, TypeOK, RowType, SendAck, Generations
<1>2. /\ \A u \in Workers : u # w => hold'[u] = hold[u]
      /\ hold'[w][i] = 0
      /\ \A k \in Jobs : k # i => hold'[w][k] = hold[w][k]
  BY <1>1
<1>4. {u \in Workers : hold'[u][j] = g}
          \in SUBSET {u \in Workers : hold[u][j] = g}
  <2>1. CASE j = i
    BY <1>1, <1>2, <2>1
  <2>2. CASE j # i
    BY <1>2, <2>2
  <2>3. QED
    BY <2>1, <2>2
<1>5. CASE j = i /\ g = hold[w][i]
  <2>1. <<"batch", w>> \in Bearers(j, g)
    BY <1>5 DEF Bearers
  <2>2. Bearers(j, g) = {<<"batch", w>>}
    BY <2>1 DEF BearersAgree
  <2>3. Bearers(j, g)' \in SUBSET {<<"batch", w>>, <<"message", m>>}
    BY <1>1, <1>4, <2>2 DEF Bearers
  <2>4. <<"batch", w>> \notin Bearers(j, g)'
    BY <1>1, <1>2, <1>5 DEF Bearers
  <2>5. ~(g > row'[j].attempts)
    BY <1>1, <2>1 DEF BearersAgree
  <2>6. QED
    BY <2>3, <2>4, <2>5
<1>6. CASE ~(j = i /\ g = hold[w][i])
  <2>1. {u \in acks' : u.job = j /\ u.generation = g}
            \in SUBSET {u \in acks : u.job = j /\ u.generation = g}
    BY <1>1, <1>6
  <2>2. Bearers(j, g)' \in SUBSET Bearers(j, g)
    BY <1>4, <2>1 DEF Bearers
  <2>3. row'[j].attempts >= row[j].attempts
    BY <1>1
  <2>4. QED
    BY <2>2, <2>3, FewerBearers
<1>7. QED
  BY <1>5, <1>6

(* A claim that fails, or whose reply is lost, hands out no generation.    *)
LEMMA ClaimFailsBearers ==
    ASSUME RowInv, RowInv', BearersAgree, NEW w \in Workers, ClaimFails(w)
    PROVE  BearersAgree'
<1> SUFFICES ASSUME NEW j \in Jobs, NEW g \in Generations
             PROVE  /\ \A p, q \in Bearers(j, g)' : p = q
                    /\ g > row'[j].attempts => Bearers(j, g)' = {}
  BY DEF BearersAgree
<1>1. Bearers(j, g)' = Bearers(j, g)
  BY DEF ClaimFails, Bearers
<1>2. row[j].attempts \in Nat /\ row[j] \in RowType
  BY OutboxAssumption DEF RowInv, TypeOK, RowType
<1>3. row'[j] \in {row[j], GivenUp(j), Leased(j)}
  BY DEF ClaimFails, Commits, ClaimJobs
<1>4. row'[j].attempts >= row[j].attempts
  <2>1. /\ GivenUp(j).attempts = row[j].attempts
        /\ Leased(j).attempts = row[j].attempts + 1
    BY <1>2 DEF GivenUp, Leased, RowType
  <2>2. QED
    BY <1>2, <1>3, <2>1
<1>5. QED
  BY <1>1, <1>4, FewerBearers

LEMMA NextBearers == RowInv /\ RowInv' /\ BearersAgree /\ [Next]_vars
                        => BearersAgree'
<1> SUFFICES ASSUME RowInv, RowInv', BearersAgree, [Next]_vars
             PROVE  BearersAgree'
  OBVIOUS
<1>1. /\ row \in [Jobs -> RowType] /\ hold \in [Workers -> [Jobs -> 0..MaxAttempts]]
      /\ acks \in SUBSET AckType
      /\ \A j \in Jobs : row[j].attempts \in Nat /\ row[j] \in RowType
  BY OutboxAssumption DEF RowInv, TypeOK, RowType
<1>2. ASSUME \A j \in Jobs : row'[j].attempts = row[j].attempts,
             acks' \in SUBSET acks,
             \A w \in Workers, j \in Jobs :
                \/ hold'[w][j] = hold[w][j]
                \/ hold'[w][j] = 0
      PROVE  BearersAgree'
  <2> SUFFICES ASSUME NEW j \in Jobs, NEW g \in Generations
               PROVE  /\ \A p, q \in Bearers(j, g)' : p = q
                      /\ g > row'[j].attempts => Bearers(j, g)' = {}
    BY DEF BearersAgree
  <2>1. g # 0
    BY DEF Generations
  <2>2. Bearers(j, g)' \in SUBSET Bearers(j, g)
    BY <1>2, <2>1 DEF Bearers
  <2>3. row'[j].attempts >= row[j].attempts
    BY <1>1, <1>2
  <2>4. QED
    BY <2>2, <2>3, FewerBearers
<1>0. ASSUME NEW j \in Jobs, Mend(j)
      PROVE  BearersAgree'
  BY <1>0, <1>2 DEF Mend
<1>3. ASSUME NEW w \in Workers,
             \E D \in Burials, S \in Leases : Claim(w, D, S)
      PROVE  BearersAgree'
  BY <1>3, ClaimBearers
<1>8. ASSUME NEW w \in Workers, ClaimFails(w)
      PROVE  BearersAgree'
  BY <1>8, ClaimFailsBearers
<1>4. ASSUME NEW w \in Workers, NEW j \in Jobs, NEW o \in Outcomes,
             SendAck(w, j, o)
      PROVE  BearersAgree'
  BY <1>4, SendAckBearers DEF BearersAgree
<1>5. ASSUME NEW j \in Jobs, Enqueue(j)
      PROVE  BearersAgree'
  BY <1>1, <1>2, <1>5 DEF Enqueue, RowType
<1>6. ASSUME NEW m \in acks, Acknowledge(m)
      PROVE  BearersAgree'
  <2>1. m.job \in Jobs
    BY <1>1 DEF AckType
  <2>2. /\ Completed(m.job).attempts = row[m.job].attempts
        /\ Failed(m.job, m.outcome).attempts = row[m.job].attempts
    BY <1>1, <2>1 DEF Completed, Failed, GivenUp, RowType
  <2>3. \/ row' = row
        \/ row' = [row EXCEPT ![m.job] = IF m.outcome = "ok"
                       THEN Completed(m.job) ELSE Failed(m.job, m.outcome)]
    BY <1>6 DEF Acknowledge
  <2>4. \A j \in Jobs : row'[j].attempts = row[j].attempts
    BY <1>1, <2>1, <2>2, <2>3
  <2>5. QED
    BY <1>2, <1>6, <2>4 DEF Acknowledge
<1>7. ASSUME NEW m \in acks, AckLost(m)
      PROVE  BearersAgree'
  BY <1>2, <1>7 DEF AckLost
<1>9. ASSUME NEW w \in Workers, NEW j \in Jobs, Abandon(w, j)
      PROVE  BearersAgree'
  <2>1. \A u \in Workers, k \in Jobs :
            \/ hold'[u][k] = hold[u][k]
            \/ hold'[u][k] = 0
    BY <1>1, <1>9 DEF Abandon
  <2>2. QED
    BY <1>2, <1>9, <2>1 DEF Abandon
<1>10. ASSUME NEW w \in Workers, Stop(w) \/ Start(w)
       PROVE  BearersAgree'
  <2>1. \A u \in Workers, k \in Jobs :
            \/ hold'[u][k] = hold[u][k]
            \/ hold'[u][k] = 0
    BY <1>1, <1>10 DEF Stop, Start
  <2>2. QED
    BY <1>2, <1>10, <2>1 DEF Stop, Start
<1>11. CASE Tick \/ UNCHANGED vars
  BY <1>2, <1>11 DEF Tick, vars
<1>12. QED
  BY <1>0, <1>3, <1>4, <1>5, <1>6, <1>7, <1>8, <1>9, <1>10, <1>11 DEF Next

(* A generation is never in two hands, so it is acknowledged at most once. *)
THEOREM OneBearerOnly == Safety => []OneBearer
<1>1. Init => BearersAgree
  <2> SUFFICES ASSUME Init, NEW j \in Jobs, NEW g \in Generations
               PROVE  Bearers(j, g) = {}
    BY DEF BearersAgree
  <2>1. g # 0
    BY DEF Generations
  <2>2. QED
    BY <2>1 DEF Init, Bearers
<1>2. BearersAgree => OneBearer
  <2> SUFFICES ASSUME BearersAgree, NEW j \in Jobs, NEW g \in Generations
               PROVE  Cardinality(Bearers(j, g)) <= 1
    BY DEF BearersAgree, OneBearer
  <2>1. CASE Bearers(j, g) = {}
    BY <2>1, FS_EmptySet
  <2>2. CASE Bearers(j, g) # {}
    <3>1. PICK p \in Bearers(j, g) : TRUE
      BY <2>2
    <3>2. Bearers(j, g) = {p}
      BY <3>1 DEF BearersAgree
    <3>3. Cardinality({p}) = 1
      BY ONLY FS_Singleton
    <3>4. QED
      BY <3>2, <3>3
  <2>3. QED
    BY <2>1, <2>2
<1>3. QED
  BY <1>1, <1>2, NextBearers, RowInvariant, PTL DEF Safety
-----------------------------------------------------------------------------
(* What a row that cannot be projected suffers.                            *)

Untouched(j) == row[j].state = "pending" /\ row[j].attempts = 0

UnreadableUntouched == \A j \in unreadable : Untouched(j)

LEMMA CommitLeavesUnreadable ==
    ASSUME RowInv, UnreadableUntouched, NEW j \in unreadable,
           NEW D \in Burials, NEW S \in Leases, Commits(D, S)
    PROVE  row'[j] = row[j]
<1>1. j \in Jobs /\ row[j].state = "pending"
  BY DEF RowInv, TypeOK, UnreadableUntouched, Untouched
<1>2. j \notin S
  BY DEF Commits
<1>3. j \notin D
  BY <1>1, Takeable DEF Exhausted
<1>4. QED
  BY <1>1, <1>2, <1>3 DEF Commits, ClaimJobs

LEMMA NextUnreadable ==
    RowInv /\ UnreadableUntouched /\ [Next]_vars => UnreadableUntouched'
<1> SUFFICES ASSUME RowInv, UnreadableUntouched, [Next]_vars
             PROVE  UnreadableUntouched'
  OBVIOUS
<1>1. row \in [Jobs -> RowType] /\ unreadable \in SUBSET Jobs
  BY DEF RowInv, TypeOK
<1>2. ASSUME unreadable' \in SUBSET unreadable,
             \A j \in unreadable : row'[j] = row[j]
      PROVE  UnreadableUntouched'
  BY <1>2 DEF UnreadableUntouched, Untouched
<1>3. ASSUME NEW j \in Jobs, Enqueue(j)
      PROVE  UnreadableUntouched'
  <2>1. row[j].state = "absent" /\ row[j].attempts = 0
    BY <1>3 DEF Enqueue, RowInv, AbsentUntried
  <2>2. Untouched(j)'
    BY <1>1, <1>3, <2>1 DEF Enqueue, Untouched, RowType
  <2>3. \A i \in unreadable : i # j => row'[i] = row[i]
    BY <1>1, <1>3 DEF Enqueue
  <2>4. unreadable' \in {unreadable, unreadable \cup {j}}
    BY <1>3 DEF Enqueue
  <2>5. QED
    BY <2>2, <2>3, <2>4 DEF UnreadableUntouched, Untouched
<1>4. ASSUME NEW j \in Jobs, Mend(j)
      PROVE  UnreadableUntouched'
  BY <1>2, <1>4 DEF Mend
<1>5. ASSUME NEW w \in Workers, NEW D \in Burials, NEW S \in Leases,
             Claim(w, D, S)
      PROVE  UnreadableUntouched'
  <2>1. Commits(D, S) /\ UNCHANGED unreadable
    BY <1>5 DEF Claim
  <2>2. QED
    BY <1>2, <2>1, CommitLeavesUnreadable
<1>6. ASSUME NEW w \in Workers, ClaimFails(w)
      PROVE  UnreadableUntouched'
  <2>1. UNCHANGED unreadable
    BY <1>6 DEF ClaimFails
  <2>2. \A j \in unreadable : row'[j] = row[j]
    BY <1>6, CommitLeavesUnreadable DEF ClaimFails
  <2>3. QED
    BY <1>2, <2>1, <2>2
<1>7. ASSUME NEW m \in acks, Acknowledge(m)
      PROVE  UnreadableUntouched'
  <2>1. ASSUME NEW j \in unreadable
        PROVE  row'[j] = row[j]
    <3>1. row[j].state = "pending"
      BY DEF UnreadableUntouched, Untouched
    <3>2. CASE m.job = j
      BY <1>7, <3>1, <3>2 DEF Acknowledge, Fenced
    <3>3. CASE m.job # j
      BY <1>1, <1>7, <3>3 DEF Acknowledge
    <3>4. QED
      BY <3>2, <3>3
  <2>2. QED
    BY <1>2, <1>7, <2>1 DEF Acknowledge
<1>8. CASE UNCHANGED <<row, unreadable>>
  BY <1>2, <1>8
<1>9. QED
  BY <1>3, <1>4, <1>5, <1>6, <1>7, <1>8
  DEF Next, vars, AckLost, SendAck, Abandon, Stop, Start, Tick

(* However often claims of it fail and however many workers they stop, a   *)
(* row that cannot be projected is never leased, tried or buried: no retry *)
(* removes it from the queue, and once mended it has all its tries left    *)
(* (outbox-store.ts, claim; worker.ts:102-108).                            *)
THEOREM FailedClaimsCostNothing == Safety => []UnreadableUntouched
<1>1. Init => UnreadableUntouched
  BY DEF Init, UnreadableUntouched
<1>2. QED
  BY <1>1, NextUnreadable, RowInvariant, PTL DEF Safety
=============================================================================
