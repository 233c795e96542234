-------------------------- MODULE ObservationProofs --------------------------
(***************************************************************************)
(* What holds of the settlement observers for any number of workers and    *)
(* attempts and any lease and retry limit.                                 *)
(***************************************************************************)
EXTENDS Observation, TLAPS

-----------------------------------------------------------------------------
(* Types.                                                                  *)

LEMMA InitTyped == Init => TypeOK
BY ObservationAssumption
DEF Init, TypeOK, DatabaseTyped, LoopsTyped, States, Places, NoLease,
    NoQuestion, QuestionType

LEMMA UnlockedTyped ==
    ASSUME TypeOK, NEW w \in Workers
    PROVE  /\ Unlocked(rowLock, w) \in [Attempts -> Workers \cup {Nobody}]
           /\ Unlocked(leaseLock, w) \in [Attempts -> Workers \cup {Nobody}]
BY DEF TypeOK, DatabaseTyped, Unlocked

LEMMA StatementTyped ==
    ASSUME TypeOK, NEW w \in Workers, NEW L \in SUBSET Attempts,
           StatementEnds(w, L)
    PROVE  /\ rowLock' \in [Attempts -> Workers \cup {Nobody}]
           /\ age' \in [Workers -> 0..(LeaseTime + 1)]
           /\ seen' \in [Workers -> SUBSET Attempts]
           /\ earlier' \in [Workers -> SUBSET Workers]
           /\ late' \in [Workers -> SUBSET Attempts]
<1> USE DEF TypeOK, LoopsTyped
<1>1. rowLock' \in [Attempts -> Workers \cup {Nobody}]
  BY UnlockedTyped DEF StatementEnds
<1>2. age' \in [Workers -> 0..(LeaseTime + 1)]
  BY ObservationAssumption DEF StatementEnds
<1>3. seen' \in [Workers -> SUBSET Attempts]
  BY DEF StatementEnds
<1>4. earlier' \in [Workers -> SUBSET Workers]
  BY DEF StatementEnds
<1>5. late' \in [Workers -> SUBSET Attempts]
  BY DEF StatementEnds
<1>6. QED
  BY <1>1, <1>2, <1>3, <1>4, <1>5

LEMMA DoneTyped ==
    ASSUME TypeOK, NEW w \in Workers, NEW x \in Attempts, Done(w, x)
    PROVE  /\ pc' \in [Workers -> Places]
           /\ batch' \in [Workers -> [Attempts -> 0..MaxClaims]]
           /\ current' \in [Workers -> QuestionType]
<1> USE DEF TypeOK, LoopsTyped, Done
<1>1. pc' \in [Workers -> Places]
  BY DEF Places
<1>2. batch' \in [Workers -> [Attempts -> 0..MaxClaims]]
  BY ObservationAssumption
<1>3. current' \in [Workers -> QuestionType]
  BY DEF NoQuestion, QuestionType
<1>4. QED
  BY <1>1, <1>2, <1>3

LEMMA ClaimTyped ==
    ASSUME TypeOK, NEW w \in Workers, Claiming(w)
    PROVE  TypeOK'
<1> USE DEF TypeOK, DatabaseTyped, LoopsTyped
<1>1. CASE ClaimBegin(w)
  BY <1>1, ObservationAssumption
  DEF ClaimBegin, database, Places
<1>2. CASE ClaimLock(w)
  <2>1. PICK L \in SUBSET {x \in seen[w] : rowLock[x] = Nobody /\ Observable(x)} :
            /\ seen' = [seen EXCEPT ![w] = L]
            /\ rowLock' = [x \in Attempts |-> IF x \in L THEN w ELSE rowLock[x]]
    BY <1>2 DEF ClaimLock
  <2>2. seen' \in [Workers -> SUBSET Attempts]
    BY <2>1
  <2>3. rowLock' \in [Attempts -> Workers \cup {Nobody}]
    BY <2>1
  <2>4. pc' \in [Workers -> Places]
    BY <1>2 DEF ClaimLock, Places
  <2>5. QED
    BY <1>2, <2>2, <2>3, <2>4 DEF ClaimLock
<1>3. ASSUME NEW arrives \in BOOLEAN, ClaimCommit(w, arrives)
      PROVE  TypeOK'
  <2>1. claims' \in [Attempts -> 0..MaxClaims]
    <3>1. ASSUME NEW x \in Attempts
          PROVE  claims[x] + (IF x \in seen[w] THEN 1 ELSE 0) \in 0..MaxClaims
      BY <1>3, ObservationAssumption DEF ClaimCommit, Leasable
    <3>2. QED
      BY <1>3, <3>1 DEF ClaimCommit
  <2>2. left' \in [Attempts -> -2..LeaseTime]
    <3>1. LeaseEnd(w) \in -2..LeaseTime
      BY ObservationAssumption DEF LeaseEnd
    <3>2. QED
      BY <1>3, <3>1 DEF ClaimCommit
  <2>3. StatementEnds(w, seen[w]) /\ seen[w] \in SUBSET Attempts
    BY <1>3 DEF ClaimCommit
  <2>4. pc' \in [Workers -> Places]
    BY <1>3 DEF ClaimCommit, Places
  <2>5. batch' \in [Workers -> [Attempts -> 0..MaxClaims]]
    <3> DEFINE leased == [x \in Attempts |->
                             IF x \in seen[w] \ processed[w] THEN claims'[x]
                             ELSE 0]
    <3>1. leased \in [Attempts -> 0..MaxClaims]
      BY <2>1, ObservationAssumption
    <3>2. batch' = [batch EXCEPT ![w] = leased] \/ batch' = batch
      BY <1>3 DEF ClaimCommit
    <3>3. QED
      BY <3>1, <3>2
  <2>6. processed' \in [Workers -> SUBSET Attempts]
    BY <1>3 DEF ClaimCommit
  <2>7. QED
    BY <1>3, <2>1, <2>2, <2>3, <2>4, <2>5, <2>6, StatementTyped
    DEF ClaimCommit
<1>4. CASE ClaimFails(w)
  BY <1>4, StatementTyped DEF ClaimFails, ClaimRollsBack, Places
<1>5. QED
  BY <1>1, <1>2, <1>3, <1>4 DEF Claiming, ClaimEnds

(* Only a positive answer gets as far as the record.                       *)
ClearAnswer(w) ==
    /\ pc[w] = "answered" => current[w].answer # "none"
    /\ pc[w] = "recording" => current[w].answer \in {"pending", "committed"}

LEMMA ObservingTyped ==
    ASSUME TypeOK, NEW w \in Workers, ClearAnswer(w),
           NEW x \in Attempts, Observing(w, x)
    PROVE  TypeOK'
<1> USE DEF TypeOK, DatabaseTyped, LoopsTyped
<1>1. CASE Ask(w, x)
  <2>1. PICK answer \in Answers(x) :
            /\ current' = [current EXCEPT ![w] =
                  [attempt |-> x, answer |-> answer]]
            /\ asked' = [asked EXCEPT ![x] = @ + 1]
    BY <1>1 DEF Ask
  <2>2. answer \in {"unclear", "pending", "committed"}
    BY DEF Answers
  <2>3. current' \in [Workers -> QuestionType]
    BY <2>1, <2>2 DEF QuestionType
  <2>4. asked' \in [Attempts -> Nat]
    BY <2>1
  <2>5. pc' \in [Workers -> Places]
    BY <1>1 DEF Ask, Places
  <2>6. QED
    BY <1>1, <2>3, <2>4, <2>5 DEF Ask, database, statement
<1>2. CASE Skip(w, x)
  BY <1>2, DoneTyped DEF Skip, database, statement
<1>3. CASE Release(w, x)
  <2>1. NoLease \in -2..LeaseTime
    BY ObservationAssumption DEF NoLease
  <2>2. left \in [Attempts -> -2..LeaseTime]
    OBVIOUS
  <2>3. left' = [left EXCEPT ![x] = NoLease] \/ left' = left
    BY <1>3 DEF Release
  <2>4. left' \in [Attempts -> -2..LeaseTime]
    BY <2>1, <2>2, <2>3
  <2>5. QED
    BY <1>3, <2>4, DoneTyped DEF Release, statement
<1>4. CASE RecordBegin(w, x)
  BY <1>4 DEF RecordBegin, Places, statement
<1>5. CASE RecordStale(w, x)
  BY <1>5, DoneTyped DEF RecordStale, database, statement
<1>6. CASE RecordFails(w, x)
  BY <1>6, DoneTyped, UnlockedTyped DEF RecordFails, statement
<1>7. CASE RecordCommit(w, x)
  <2>1. left' \in [Attempts -> -2..LeaseTime]
    <3>1. NoLease \in -2..LeaseTime
      BY ObservationAssumption DEF NoLease
    <3>2. left' = [left EXCEPT ![x] = NoLease] \/ left' = left
      BY <1>7 DEF RecordCommit
    <3>3. QED
      BY <3>1, <3>2
  <2>2. state' \in [Attempts -> States]
    BY <1>7 DEF RecordCommit, ClearAnswer, States
  <2>3. QED
    BY <1>7, <2>1, <2>2, DoneTyped, UnlockedTyped DEF RecordCommit, statement
<1>8. QED
  BY <1>1, <1>2, <1>3, <1>4, <1>5, <1>6, <1>7 DEF Observing

LEMMA WorldTyped ==
    ASSUME TypeOK,
           \/ Tick
           \/ \E x \in Attempts : Dispatch(x) \/ GatewayAdvances(x)
           \/ \E w \in Workers : Outage(w) \/ Restart(w)
    PROVE  TypeOK'
<1> USE DEF TypeOK, DatabaseTyped, LoopsTyped
<1>1. CASE Tick
  <2>1. left' \in [Attempts -> -2..LeaseTime]
    BY <1>1, ObservationAssumption DEF Tick
  <2>2. age' \in [Workers -> 0..(LeaseTime + 1)]
    BY <1>1, ObservationAssumption DEF Tick
  <2>3. QED
    BY <1>1, <2>1, <2>2 DEF Tick
<1>2. ASSUME NEW x \in Attempts, Dispatch(x)
      PROVE  TypeOK'
  BY <1>2 DEF Dispatch, States, statement
<1>3. ASSUME NEW x \in Attempts, GatewayAdvances(x)
      PROVE  TypeOK'
  BY <1>3 DEF GatewayAdvances, database, statement
<1>4. ASSUME NEW w \in Workers, Crash(w)
      PROVE  TypeOK'
  <2>1. pc' \in [Workers -> Places] /\ processed' \in [Workers -> SUBSET Attempts]
    BY <1>4 DEF Crash, Places
  <2>2. batch' \in [Workers -> [Attempts -> 0..MaxClaims]]
    BY <1>4, ObservationAssumption DEF Crash
  <2>3. current' \in [Workers -> QuestionType]
    BY <1>4 DEF Crash, QuestionType, NoQuestion
  <2>4. QED
    BY <1>4, <2>1, <2>2, <2>3, StatementTyped, UnlockedTyped DEF Crash
<1>5. ASSUME NEW w \in Workers, ClaimLost(w)
      PROVE  TypeOK'
  BY <1>5, StatementTyped DEF ClaimLost, Places
<1>6. ASSUME NEW w \in Workers, Restart(w)
      PROVE  TypeOK'
  BY <1>6 DEF Restart, Places, database, statement
<1>7. QED
  BY <1>1, <1>2, <1>3, <1>4, <1>5, <1>6 DEF Outage

LEMMA DeadlockTyped ==
    ASSUME TypeOK, NEW w \in Workers, NEW v \in Workers, NEW x \in Attempts,
           DeadlockBroken(w, v, x)
    PROVE  TypeOK'
<1> USE DEF TypeOK, DatabaseTyped, LoopsTyped
<1>1. CASE ClaimRollsBack(v)
  BY <1>1, StatementTyped DEF ClaimRollsBack, Places
<1>2. CASE RecordFails(w, x)
  BY <1>2, DoneTyped, UnlockedTyped DEF RecordFails, statement
<1>3. QED
  BY <1>1, <1>2 DEF DeadlockBroken

-----------------------------------------------------------------------------
(* Who records, and what.                                                  *)

(* A recorder holds the lock of the lease it was given.                    *)
Recorder(w) ==
    pc[w] = "recording" =>
        /\ current[w].attempt \in Attempts
        /\ leaseLock[current[w].attempt] = w
        /\ claims[current[w].attempt] = batch[w][current[w].attempt]

(* An answer stays true, for the gateway never goes back.                  *)
TrueAnswer(w) ==
    current[w].attempt \in Attempts =>
        /\ current[w].answer = "pending" => gateway[current[w].attempt] # "absent"
        /\ current[w].answer = "committed" =>
              gateway[current[w].attempt] = "completed"

WorkerInv(w) == Recorder(w) /\ TrueAnswer(w) /\ ClearAnswer(w)

ObservationInv ==
    /\ TypeOK
    /\ \A w \in Workers : WorkerInv(w)
    /\ NothingInvented

LEMMA InitObservationInv == Init => ObservationInv
BY InitTyped
DEF Init, ObservationInv, WorkerInv, Recorder, TrueAnswer, ClearAnswer,
    NothingInvented, NoQuestion

(* A worker that is not in a batch has nothing to prove.                   *)
LEMMA IdleInv ==
    ASSUME NEW w \in Workers, TrueAnswer(w), UNCHANGED current,
           pc'[w] \notin {"answered", "recording"}, UNCHANGED gateway
    PROVE  WorkerInv(w)'
BY DEF WorkerInv, Recorder, TrueAnswer, ClearAnswer

(* Nor has one that has dropped its question.                              *)
LEMMA NoQuestionInv ==
    ASSUME NEW w \in Workers, current'[w] = NoQuestion,
           pc'[w] \notin {"answered", "recording"}
    PROVE  WorkerInv(w)'
BY ObservationAssumption
DEF WorkerInv, Recorder, TrueAnswer, ClearAnswer, NoQuestion

(* Another worker u is disturbed only if its lease or its lock is.         *)
LEMMA OtherInv ==
    ASSUME NEW u \in Workers, WorkerInv(u),
           pc'[u] = pc[u], current'[u] = current[u], batch'[u] = batch[u],
           UNCHANGED gateway,
           \A x \in Attempts : leaseLock[x] = u =>
               leaseLock'[x] = u /\ claims'[x] = claims[x]
    PROVE  WorkerInv(u)'
BY DEF WorkerInv, Recorder, TrueAnswer, ClearAnswer

LEMMA UnlockedOther ==
    ASSUME NEW w \in Workers, NEW u \in Workers \ {w}, NEW x \in Attempts,
           leaseLock[x] = u
    PROVE  Unlocked(leaseLock, w)[x] = u
BY DEF Unlocked

LEMMA DoneQuestion ==
    ASSUME TypeOK, NEW w \in Workers, NEW x \in Attempts, Done(w, x)
    PROVE  /\ current'[w] = NoQuestion
           /\ pc'[w] \notin {"answered", "recording"}
           /\ \A u \in Workers \ {w} :
                 /\ pc'[u] = pc[u] /\ current'[u] = current[u]
                 /\ batch'[u] = batch[u]
BY DEF TypeOK, LoopsTyped, Done

LEMMA ClaimingInv ==
    ASSUME ObservationInv, NEW w \in Workers, Claiming(w)
    PROVE  \A u \in Workers : WorkerInv(u)'
<1> USE DEF ObservationInv
<1>1. UNCHANGED <<current, gateway, leaseLock>>
  BY DEF Claiming, ClaimBegin, ClaimLock, ClaimEnds, ClaimCommit, ClaimFails,
         ClaimRollsBack, database
<1>2. pc'[w] \notin {"answered", "recording"}
  BY DEF Claiming, ClaimBegin, ClaimLock, ClaimEnds, ClaimCommit, ClaimFails,
         ClaimRollsBack, TypeOK, LoopsTyped
<1>3. WorkerInv(w)'
  BY <1>1, <1>2, IdleInv DEF WorkerInv
<1>4. ASSUME NEW u \in Workers \ {w}
      PROVE  WorkerInv(u)'
  <2>1. pc'[u] = pc[u] /\ batch'[u] = batch[u]
    BY DEF Claiming, ClaimBegin, ClaimLock, ClaimEnds, ClaimCommit, ClaimFails,
           ClaimRollsBack, TypeOK, LoopsTyped
  <2>2. ASSUME NEW x \in Attempts, leaseLock[x] = u
        PROVE  claims'[x] = claims[x]
    <3>1. u # Nobody
      BY ObservationAssumption
    <3>2. CASE UNCHANGED claims
      BY <3>2
    <3>3. ASSUME NEW arrives \in BOOLEAN, ClaimCommit(w, arrives)
          PROVE  claims'[x] = claims[x]
      BY <2>2, <3>1, <3>3 DEF ClaimCommit, TypeOK, DatabaseTyped
    <3>4. QED
      BY <3>2, <3>3 DEF Claiming, ClaimBegin, ClaimLock, ClaimEnds, ClaimFails,
                        ClaimRollsBack, database
  <2>3. QED
    BY <1>1, <2>1, <2>2, OtherInv
<1>5. QED
  BY <1>3, <1>4

LEMMA ObservingInv ==
    ASSUME ObservationInv, NEW w \in Workers, NEW x \in Attempts, Observing(w, x)
    PROVE  \A u \in Workers : WorkerInv(u)'
<1> USE DEF ObservationInv
<1>1. UNCHANGED <<gateway, claims>>
  BY DEF Observing, Ask, Skip, Release, RecordBegin, RecordStale, RecordCommit,
         RecordFails, database
<1>2. ASSUME NEW u \in Workers \ {w}
      PROVE  WorkerInv(u)'
  <2>1. /\ pc'[u] = pc[u] /\ current'[u] = current[u] /\ batch'[u] = batch[u]
    BY DoneQuestion
    DEF Observing, Ask, Skip, Release, RecordBegin, RecordStale, RecordCommit,
        RecordFails, TypeOK, LoopsTyped
  <2>2. ASSUME NEW y \in Attempts, leaseLock[y] = u
        PROVE  leaseLock'[y] = u
    <3>1. u # Nobody
      BY ObservationAssumption
    <3>2. CASE RecordBegin(w, x)
      BY <2>2, <3>1, <3>2 DEF RecordBegin, TypeOK, DatabaseTyped
    <3>3. CASE leaseLock' = Unlocked(leaseLock, w) \/ UNCHANGED leaseLock
      BY <2>2, <3>3, UnlockedOther
    <3>4. QED
      BY <3>2, <3>3 DEF Observing, Ask, Skip, Release, RecordStale,
                        RecordCommit, RecordFails, database
  <2>3. QED
    BY <1>1, <2>1, <2>2, OtherInv
<1>3. CASE Done(w, x)
  BY <1>2, <1>3, DoneQuestion, NoQuestionInv
<1>4. CASE Ask(w, x)
  <2>1. PICK answer \in Answers(x) :
            current'[w] = [attempt |-> x, answer |-> answer]
    BY <1>4 DEF Ask, TypeOK, LoopsTyped
  <2>2. /\ answer # "none"
        /\ answer = "pending" => gateway[x] # "absent"
        /\ answer = "committed" => gateway[x] = "completed"
    BY DEF Answers, TypeOK, DatabaseTyped
  <2>3. pc'[w] = "answered"
    BY <1>4 DEF Ask, TypeOK, LoopsTyped
  <2>4. WorkerInv(w)'
    BY <1>1, <2>1, <2>2, <2>3 DEF WorkerInv, Recorder, TrueAnswer, ClearAnswer
  <2>5. QED
    BY <1>2, <2>4
<1>5. CASE RecordBegin(w, x)
  <2>1. /\ current[w].attempt = x /\ current[w].answer \in {"pending", "committed"}
    BY <1>5 DEF RecordBegin, TypeOK, LoopsTyped, QuestionType, WorkerInv,
                ClearAnswer
  <2>2. /\ leaseLock'[x] = w /\ claims[x] = batch[w][x]
        /\ UNCHANGED <<batch, current>>
    BY <1>5 DEF RecordBegin, LeaseInForce, TypeOK, DatabaseTyped
  <2>3. WorkerInv(w)'
    BY <1>1, <2>1, <2>2 DEF WorkerInv, Recorder, TrueAnswer, ClearAnswer
  <2>4. QED
    BY <1>2, <2>3
<1>6. QED
  BY <1>3, <1>4, <1>5
  DEF Observing, Skip, Release, RecordStale, RecordCommit, RecordFails

LEMMA WorldInv ==
    ASSUME ObservationInv,
           \/ Tick
           \/ \E x \in Attempts : Dispatch(x) \/ GatewayAdvances(x)
           \/ \E w \in Workers : Outage(w) \/ Restart(w)
    PROVE  \A u \in Workers : WorkerInv(u)'
<1> USE DEF ObservationInv
<1>1. CASE Tick \/ \E x \in Attempts : Dispatch(x)
  <2>1. UNCHANGED <<pc, current, batch, gateway, leaseLock, claims>>
    BY <1>1 DEF Tick, Dispatch
  <2>2. QED
    BY <2>1, OtherInv
<1>2. ASSUME NEW x \in Attempts, GatewayAdvances(x)
      PROVE  \A u \in Workers : WorkerInv(u)'
  <2>1. /\ UNCHANGED <<pc, current, batch, leaseLock, claims>>
        /\ \A y \in Attempts :
              /\ gateway[y] # "absent" => gateway'[y] # "absent"
              /\ gateway[y] = "completed" => gateway'[y] = "completed"
    BY <1>2 DEF GatewayAdvances, database, TypeOK, DatabaseTyped
  <2>2. QED
    BY <2>1 DEF WorkerInv, Recorder, TrueAnswer, ClearAnswer
<1>3. ASSUME NEW w \in Workers, Crash(w)
      PROVE  \A u \in Workers : WorkerInv(u)'
  <2>1. current'[w] = NoQuestion /\ pc'[w] = "down"
    BY <1>3 DEF Crash, TypeOK, LoopsTyped
  <2>2. ASSUME NEW u \in Workers \ {w}
        PROVE  WorkerInv(u)'
    <3>1. /\ pc'[u] = pc[u] /\ current'[u] = current[u] /\ batch'[u] = batch[u]
          /\ UNCHANGED <<gateway, claims>>
      BY <1>3 DEF Crash, TypeOK, LoopsTyped
    <3>2. \A x \in Attempts : leaseLock[x] = u => leaseLock'[x] = u
      BY <1>3, UnlockedOther DEF Crash
    <3>3. QED
      BY <3>1, <3>2, OtherInv
  <2>3. QED
    BY <2>1, <2>2, NoQuestionInv
<1>4. ASSUME NEW w \in Workers, ClaimLost(w) \/ Restart(w)
      PROVE  \A u \in Workers : WorkerInv(u)'
  <2>1. /\ UNCHANGED <<current, batch, gateway, leaseLock, claims>>
        /\ pc'[w] \in {"down", "idle"}
        /\ \A u \in Workers \ {w} : pc'[u] = pc[u]
    BY <1>4 DEF ClaimLost, Restart, database, TypeOK, LoopsTyped
  <2>2. WorkerInv(w)'
    BY <2>1, IdleInv DEF WorkerInv
  <2>3. ASSUME NEW u \in Workers \ {w}
        PROVE  WorkerInv(u)'
    BY <2>1, OtherInv
  <2>4. QED
    BY <2>2, <2>3
<1>5. QED
  BY <1>1, <1>2, <1>3, <1>4 DEF Outage

(* A claim the database aborts ends like one that fails.                   *)
LEMMA DeadlockInv ==
    ASSUME ObservationInv, NEW w \in Workers, NEW v \in Workers,
           NEW x \in Attempts, DeadlockBroken(w, v, x)
    PROVE  \A u \in Workers : WorkerInv(u)'
<1>1. CASE RecordFails(w, x)
  BY <1>1, ObservingInv DEF Observing
<1>2. CASE ClaimRollsBack(v)
  <2>1. /\ UNCHANGED <<current, batch, gateway, leaseLock, claims>>
        /\ pc'[v] = "idle"
        /\ \A u \in Workers \ {v} : pc'[u] = pc[u]
    BY <1>2 DEF ClaimRollsBack, ObservationInv, TypeOK, LoopsTyped
  <2>2. WorkerInv(v)'
    BY <2>1, IdleInv DEF ObservationInv, WorkerInv
  <2>3. ASSUME NEW u \in Workers \ {v}
        PROVE  WorkerInv(u)'
    BY <2>1, OtherInv DEF ObservationInv
  <2>4. QED
    BY <2>2, <2>3
<1>3. QED
  BY <1>1, <1>2 DEF DeadlockBroken

(* The one step that writes an answer into an attempt is a record, and the *)
(* answer of a recorder is true.                                           *)
LEMMA NextInvents ==
    ASSUME ObservationInv, Next
    PROVE  NothingInvented'
<1> USE DEF ObservationInv
<1>1. ASSUME NEW w \in Workers, NEW x \in Attempts, RecordCommit(w, x)
      PROVE  NothingInvented'
  <2>1. current[w].attempt = x /\ TrueAnswer(w) /\ UNCHANGED gateway
    BY <1>1 DEF RecordCommit, WorkerInv
  <2>2. \/ state' = [state EXCEPT ![x] = current[w].answer]
        \/ UNCHANGED state
    BY <1>1 DEF RecordCommit
  <2>3. QED
    BY <2>1, <2>2 DEF TrueAnswer, NothingInvented, TypeOK, DatabaseTyped
<1>2. ASSUME NEW x \in Attempts, Dispatch(x)
      PROVE  NothingInvented'
  BY <1>2 DEF Dispatch, NothingInvented, TypeOK, DatabaseTyped
<1>3. ASSUME NEW x \in Attempts, GatewayAdvances(x)
      PROVE  NothingInvented'
  BY <1>3 DEF GatewayAdvances, NothingInvented, database, TypeOK, DatabaseTyped
<1>4. CASE UNCHANGED <<state, gateway>>
  BY <1>4 DEF NothingInvented
<1>5. ASSUME NEW w \in Workers, Claiming(w) \/ Outage(w) \/ Restart(w)
      PROVE  UNCHANGED <<state, gateway>>
  BY <1>5 DEF Claiming, ClaimBegin, ClaimLock, ClaimEnds, ClaimCommit,
              ClaimFails, ClaimRollsBack, Outage, Crash, ClaimLost, Restart,
              database
<1>6. ASSUME NEW w \in Workers, NEW x \in Attempts,
             Observing(w, x), ~RecordCommit(w, x)
      PROVE  UNCHANGED <<state, gateway>>
  BY <1>6 DEF Observing, Ask, Skip, Release, RecordBegin, RecordStale,
              RecordFails, database
<1>7. ASSUME NEW w \in Workers, NEW v \in Workers, NEW x \in Attempts,
             DeadlockBroken(w, v, x)
      PROVE  UNCHANGED <<state, gateway>>
  BY <1>7 DEF DeadlockBroken, ClaimRollsBack, RecordFails
<1>8. CASE Tick
  BY <1>4, <1>8 DEF Tick
<1>9. QED
  BY <1>1, <1>2, <1>3, <1>4, <1>5, <1>6, <1>7, <1>8 DEF Next

LEMMA NextObservationInv == ObservationInv /\ [Next]_vars => ObservationInv'
<1> SUFFICES ASSUME ObservationInv, [Next]_vars
             PROVE  ObservationInv'
  OBVIOUS
<1> USE DEF ObservationInv
<1>1. CASE Next
  <2>1. TypeOK'
    BY <1>1, ClaimTyped, ObservingTyped, WorldTyped, DeadlockTyped
    DEF Next, WorkerInv
  <2>2. \A u \in Workers : WorkerInv(u)'
    BY <1>1, ClaimingInv, ObservingInv, WorldInv, DeadlockInv DEF Next
  <2>3. QED
    BY <1>1, <2>1, <2>2, NextInvents
<1>2. CASE UNCHANGED vars
  BY <1>2 DEF vars, database, statement, TypeOK, DatabaseTyped, LoopsTyped,
              WorkerInv, Recorder, TrueAnswer, ClearAnswer, NothingInvented
<1>3. QED
  BY <1>1, <1>2

-----------------------------------------------------------------------------
(* The theorems.                                                           *)

(* The inductive invariant of the observers: whoever records holds the     *)
(* lock of its lease, and every answer under way is true.                  *)
THEOREM ObserverInvariant == Safety => []ObservationInv
<1>1. QED
  BY InitObservationInv, NextObservationInv, PTL DEF Safety

(* The tables and the loops stay in their domains, and no attempt is       *)
(* leased more often than the bound says, however many claims overlap      *)
(* (0017, the lease table and its claim).                                  *)
THEOREM ObservationTyped == Safety => []TypeOK
<1>1. ObservationInv => TypeOK
  BY DEF ObservationInv
<1>2. QED
  BY <1>1, ObserverInvariant, PTL

(* Nobody takes the lease of an attempt over while an answer is being      *)
(* recorded under it (0017, record_leased_payment_attempt_observation).    *)
THEOREM RecorderSafe == Safety => []RecorderKeepsLease
<1>1. ObservationInv => RecorderKeepsLease
  BY DEF ObservationInv, WorkerInv, Recorder, RecorderKeepsLease
<1>2. QED
  BY <1>1, ObserverInvariant, PTL

(* No attempt is recorded further than the gateway got with it, however    *)
(* the answers of several observers overtake each other.                   *)
THEOREM NeverAhead == Safety => []NothingInvented
<1>1. ObservationInv => NothingInvented
  BY DEF ObservationInv
<1>2. QED
  BY <1>1, ObserverInvariant, PTL
==============================================================================
