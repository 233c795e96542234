----------------------------- MODULE VaultProofs -----------------------------
(***************************************************************************)
(* What holds of the encrypted workspace for any number of tabs, records   *)
(* and revisions.                                                          *)
(***************************************************************************)
EXTENDS Vault, TLAPS

-----------------------------------------------------------------------------
(* Types, and what the kind of an operation says of its step.              *)

OpType ==
    [kind : {"none", "create", "import", "unlock", "save", "remove", "rewrap",
             "egress"},
     step : {"none", "decrypt", "accept", "write", "check", "send", "answer",
             "outcome"},
     base : Metas, fresh : Version, record : Records \cup {Nothing},
     seen : [Records -> Version]]

ReadType == [of : {"none", "poll", "signal", "lock"}, meta : Metas]

MessageType == [type : Types, vault : Version]

(* Only a workspace that is not marked is open or worked on.               *)
Shaped ==
    \A t \in Tabs :
        /\ phase[t] = "unlocked" => ~held[t].deleting
        /\ op[t].step # "none" => ~op[t].base.deleting
        /\ op[t].kind \in {"none", "create", "import"} => op[t].step = "none"
        /\ op[t].kind = "unlock" => op[t].step \in {"decrypt", "accept"}
        /\ op[t].kind \in {"save", "remove", "rewrap"} => op[t].step = "write"
        /\ op[t].kind = "egress" =>
                op[t].step \in {"write", "check", "send", "answer", "outcome"}
        /\ op[t].kind \in {"save", "remove", "egress"} =>
                op[t].record \in Records

LEMMA ConstantsTyped ==
    /\ 0 \in Version /\ NoMeta \in Metas /\ NoRows \in [Records -> Version]
    /\ NoOp \in OpType /\ NoRead \in ReadType /\ NoMessage \in MessageType
    /\ \A n \in Version : NewVault(n) \in Metas
    /\ ~NoMeta.deleting /\ \A n : ~NewVault(n).deleting
BY VaultAssumption
DEF Version, NoMeta, Metas, NoRows, NoOp, OpType, NewVault, NoRead, ReadType,
    NoMessage, MessageType, Types

LEMMA PhaseOfTyped ==
    \A m : PhaseOf(m) \in Phases /\ PhaseOf(m) # "unlocked"
BY DEF PhaseOf, Phases

(* The parts of TypeOK and Shaped that showing something else disturbs.    *)
Screens ==
    /\ phase \in [Tabs -> Phases] /\ held \in [Tabs -> Metas]
    /\ op \in [Tabs -> OpType] /\ read \in [Tabs -> ReadType]
    /\ Shaped

(* The type invariant together with Shaped.                                *)
Typed ==
    /\ Screens
    /\ meta \in Metas
    /\ rows \in [Records -> Version] /\ manifest \in [Records -> Version]
    /\ fresh \in Version
    /\ hint \in [Tabs -> Metas]
    /\ signal \in [Tabs -> [kind : {"none", "lock", "mark"},
                            vault : Version, fresh : Version]]
    /\ channel \in [Tabs -> MessageType]
    /\ sent \subseteq [record : Records, vault : Version]
    /\ removed \subseteq Records

LEMMA TypedIsTypeOK == Typed => TypeOK
BY DEF Typed, TypeOK, Screens, OpType, ReadType, MessageType

LEMMA ShowTyped ==
    ASSUME Screens, NEW t \in Tabs, NEW p \in Phases, NEW m \in Metas,
           Show(t, p, m)
    PROVE  /\ phase' \in [Tabs -> Phases] /\ held' \in [Tabs -> Metas]
           /\ \A u \in Tabs :
                /\ phase'[u] = IF u = t THEN p ELSE phase[u]
                /\ held'[u] = IF u = t THEN m ELSE held[u]
BY DEF Screens, Show

LEMMA ClearTyped ==
    ASSUME Screens, NEW t \in Tabs, NEW p \in Phases, NEW m \in Metas,
           p = "unlocked" => ~m.deleting, Clear(t, p, m)
    PROVE  Screens'
<1>1. /\ phase' \in [Tabs -> Phases] /\ held' \in [Tabs -> Metas]
      /\ op' \in [Tabs -> OpType] /\ read' \in [Tabs -> ReadType]
  BY ConstantsTyped DEF Screens, Clear, Show, Rotate
<1>2. ASSUME NEW u \in Tabs
      PROVE  /\ phase'[u] = IF u = t THEN p ELSE phase[u]
             /\ held'[u] = IF u = t THEN m ELSE held[u]
             /\ op'[u] = IF u = t THEN NoOp ELSE op[u]
  BY DEF Screens, Clear, Show, Rotate
<1>3. Shaped'
  BY <1>2 DEF Screens, Shaped, NoOp
<1> QED BY <1>1, <1>3 DEF Screens

LEMMA BoundaryTyped ==
    ASSUME Screens, meta \in Metas, NEW t \in Tabs, Boundary(t)
    PROVE  Screens'
BY ClearTyped, PhaseOfTyped DEF Boundary

(* An operation goes on, or another begins.                                *)
LEMMA OpTyped ==
    ASSUME Screens, NEW t \in Tabs, NEW o \in OpType,
           op' = [op EXCEPT ![t] = o], UNCHANGED <<phase, held>>,
           read' \in [Tabs -> ReadType],
           /\ o.step # "none" => ~o.base.deleting
           /\ o.kind \in {"none", "create", "import"} => o.step = "none"
           /\ o.kind = "unlock" => o.step \in {"decrypt", "accept"}
           /\ o.kind \in {"save", "remove", "rewrap"} => o.step = "write"
           /\ o.kind = "egress" =>
                  o.step \in {"write", "check", "send", "answer", "outcome"}
           /\ o.kind \in {"save", "remove", "egress"} => o.record \in Records
    PROVE  Screens'
<1>1. op' \in [Tabs -> OpType]
  BY DEF Screens
<1>2. \A u \in Tabs : op'[u] = IF u = t THEN o ELSE op[u]
  BY DEF Screens
<1>3. Shaped'
  BY <1>2 DEF Screens, Shaped
<1> QED BY <1>1, <1>3 DEF Screens

LEMMA WriteTyped ==
    ASSUME meta \in Metas, rows \in [Records -> Version], NEW o \in OpType,
           Write(o)
    PROVE  /\ meta' \in Metas /\ NextMeta(o) \in Metas
           /\ NextMeta(o).deleting = o.base.deleting
           /\ rows' \in [Records -> Version]
           /\ manifest' \in [Records -> Version]
BY ConstantsTyped
DEF Write, OpType, NextMeta, Metas, Written

LEMMA TellTyped ==
    ASSUME channel \in [Tabs -> MessageType], NEW T,
           NEW type \in {"lock", "deleting"}, NEW v \in Version,
           Tell(T, type, v)
    PROVE  channel' \in [Tabs -> MessageType]
BY DEF Tell, Types, MessageType

-----------------------------------------------------------------------------
(* Every action keeps the types.                                           *)

LEMMA FreeFacts ==
    ASSUME Typed, fresh < MaxFresh
    PROVE  fresh + 1 \in Version
BY VaultAssumption DEF Typed, Version

LEMMA CreateTyped ==
    ASSUME Typed, NEW t \in Tabs, BeginCreate(t) \/ CommitCreate(t)
    PROVE  Typed'
<1> USE DEF Typed
<1>1. CASE BeginCreate(t)
  <2>1. CASE meta # NoMeta /\ Boundary(t) /\ UNCHANGED <<hint, signal, egress>>
    BY <2>1, BoundaryTyped DEF Boundary, database, egress
  <2>2. CASE /\ phase[t] = "empty" /\ Free(t) /\ meta = NoMeta
             /\ op' = [op EXCEPT ![t] =
                   [NoOp EXCEPT !.kind = "create", !.fresh = fresh + 1]]
             /\ fresh' = fresh + 1
             /\ UNCHANGED <<database, phase, held, read, channel>>
             /\ UNCHANGED <<hint, signal, egress>>
    <3> DEFINE o == [NoOp EXCEPT !.kind = "create", !.fresh = fresh + 1]
    <3>1. fresh + 1 \in Version
      BY <2>2, FreeFacts DEF Free
    <3>2. o \in OpType /\ o.step = "none" /\ o.kind = "create"
      BY <3>1, ConstantsTyped DEF NoOp, OpType
    <3>3. Screens'
      BY <2>2, <3>2, OpTyped DEF Screens
    <3> QED BY <2>2, <3>1, <3>3 DEF database, egress
  <2> QED BY <1>1, <2>1, <2>2 DEF BeginCreate
<1>2. CASE CommitCreate(t)
  <2>1. CASE meta # NoMeta /\ Boundary(t) /\ UNCHANGED <<hint, signal, egress>>
    BY <2>1, BoundaryTyped DEF Boundary, database, egress
  <2>2. CASE LET m == NewVault(op[t].fresh) IN
                /\ meta' = m
                /\ \E f \in {NoRows, Backup(op[t])} : rows' = f /\ manifest' = f
                /\ Clear(t, "unlocked", m)
                /\ Broadcast(t, "lock", m.vault)
                /\ UNCHANGED fresh
                /\ UNCHANGED <<hint, signal, egress>>
    <3>1. op[t].fresh \in Version
      BY DEF Screens, OpType
    <3>2. Backup(op[t]) \in [Records -> Version]
      BY <3>1 DEF Backup
    <3>3. Screens'
      BY <2>2, <3>1, ConstantsTyped, ClearTyped DEF Phases
    <3>4. NewVault(op[t].fresh).vault \in Version
      BY <3>1 DEF NewVault
    <3>5. channel' \in [Tabs -> MessageType]
      BY <2>2, <3>4, TellTyped DEF Broadcast
    <3> QED BY <2>2, <3>1, <3>2, <3>3, <3>5, ConstantsTyped DEF egress
  <2> QED BY <1>2, <2>1, <2>2 DEF CommitCreate, ReplaceDatabase
<1> QED BY <1>1, <1>2

LEMMA ImportTyped ==
    ASSUME Typed, NEW t \in Tabs, BeginImport(t) \/ CommitImport(t)
    PROVE  Typed'
<1> USE DEF Typed
<1>1. CASE BeginImport(t)
  <2>1. CASE meta.deleting /\ Boundary(t) /\ UNCHANGED <<hint, signal, egress>>
    BY <2>1, BoundaryTyped DEF Boundary, database, egress
  <2>2. CASE /\ Free(t)
             /\ op' = [op EXCEPT ![t] =
                   [NoOp EXCEPT !.kind = "import", !.fresh = fresh + 1,
                      !.base = IF phase[t] = "unlocked" THEN held[t] ELSE meta]]
             /\ fresh' = fresh + 1
             /\ UNCHANGED <<database, phase, held, read, channel>>
             /\ UNCHANGED <<hint, signal, egress>>
    <3> DEFINE b == IF phase[t] = "unlocked" THEN held[t] ELSE meta
               o == [NoOp EXCEPT !.kind = "import", !.fresh = fresh + 1, !.base = b]
    <3>1. fresh + 1 \in Version
      BY <2>2, FreeFacts DEF Free
    <3>2. b \in Metas
      BY DEF Screens
    <3>3. o \in OpType /\ o.step = "none" /\ o.kind = "import"
      BY <3>1, <3>2, ConstantsTyped DEF NoOp, OpType
    <3>4. Screens'
      BY <2>2, <3>3, OpTyped DEF Screens
    <3> QED BY <2>2, <3>1, <3>4 DEF database, egress
  <2> QED BY <1>1, <2>1, <2>2 DEF BeginImport
<1>2. CASE CommitImport(t)
  <2>1. CASE Boundary(t) /\ UNCHANGED <<hint, signal, egress>>
    BY <2>1, BoundaryTyped DEF Boundary, database, egress
  <2>2. CASE LET m == NewVault(op[t].fresh) IN
                /\ meta' = m /\ rows' = Backup(op[t]) /\ manifest' = Backup(op[t])
                /\ Clear(t, "unlocked", m)
                /\ Broadcast(t, "lock", m.vault)
                /\ UNCHANGED fresh
                /\ UNCHANGED <<hint, signal, egress>>
    <3>1. op[t].fresh \in Version
      BY DEF Screens, OpType
    <3>2. Backup(op[t]) \in [Records -> Version]
      BY <3>1 DEF Backup
    <3>3. Screens'
      BY <2>2, <3>1, ConstantsTyped, ClearTyped DEF Phases
    <3>4. NewVault(op[t].fresh).vault \in Version
      BY <3>1 DEF NewVault
    <3>5. channel' \in [Tabs -> MessageType]
      BY <2>2, <3>4, TellTyped DEF Broadcast
    <3> QED BY <2>2, <3>1, <3>2, <3>3, <3>5, ConstantsTyped DEF egress
  <2> QED BY <1>2, <2>1, <2>2 DEF CommitImport, ReplaceDatabase
<1> QED BY <1>1, <1>2

LEMMA UnlockTyped ==
    ASSUME Typed, NEW t \in Tabs,
           \/ BeginUnlock(t) \/ RecheckUnlock(t)
           \/ RejectUnlock(t) \/ AcceptUnlock(t)
    PROVE  Typed'
<1> USE DEF Typed
<1>0. op[t] \in OpType /\ op[t].base \in Metas
  BY DEF Screens, OpType
<1>1. CASE Boundary(t) /\ UNCHANGED <<hint, signal, egress>>
  BY <1>1, BoundaryTyped DEF Boundary, database, egress
<1>2. CASE BeginUnlock(t) /\ ~Boundary(t)
  <2> DEFINE o == [NoOp EXCEPT !.kind = "unlock", !.step = "decrypt",
                               !.base = meta]
  <2>1. /\ Show(t, "unlocking", meta) /\ op' = [op EXCEPT ![t] = o]
        /\ read' = [read EXCEPT ![t] = NoRead]
        /\ UNCHANGED <<database, fresh, channel, hint, signal, egress>>
        /\ ~meta.deleting
    BY <1>2, ConstantsTyped DEF BeginUnlock, PhaseOf
  <2>2. /\ o \in OpType /\ o.step = "decrypt" /\ o.kind = "unlock"
        /\ o.base = meta
    BY ConstantsTyped DEF NoOp, OpType
  <2>3. /\ phase' \in [Tabs -> Phases] /\ held' \in [Tabs -> Metas]
        /\ op' \in [Tabs -> OpType] /\ read' \in [Tabs -> ReadType]
    BY <2>1, <2>2, ConstantsTyped DEF Show, Screens, Phases
  <2>4. ASSUME NEW u \in Tabs
        PROVE  /\ phase'[u] = IF u = t THEN "unlocking" ELSE phase[u]
               /\ held'[u] = IF u = t THEN meta ELSE held[u]
               /\ op'[u] = IF u = t THEN o ELSE op[u]
    BY <2>1 DEF Show, Screens
  <2>5. Shaped'
    BY <2>1, <2>2, <2>4 DEF Screens, Shaped
  <2> QED BY <2>1, <2>3, <2>5 DEF Screens, database, egress
<1>3. CASE RecheckUnlock(t) /\ ~Boundary(t)
  <2> DEFINE o == [op[t] EXCEPT !.step = "accept"]
  <2>1. /\ o \in OpType /\ o.step = "accept" /\ o.kind = "unlock"
        /\ ~o.base.deleting /\ op' = [op EXCEPT ![t] = o]
    BY <1>0, <1>3 DEF RecheckUnlock, OpType, Screens, Shaped
  <2>2. Screens'
    BY <1>3, <2>1, OpTyped DEF RecheckUnlock, Screens
  <2> QED BY <1>3, <2>2 DEF RecheckUnlock, database, egress
<1>4. CASE RejectUnlock(t)
  BY <1>0, <1>4, ClearTyped DEF RejectUnlock, Phases, database, egress
<1>5. CASE AcceptUnlock(t)
  <2>1. ~op[t].base.deleting
    BY <1>5 DEF AcceptUnlock, Screens, Shaped
  <2> QED BY <1>0, <1>5, <2>1, ClearTyped
          DEF AcceptUnlock, Phases, database, egress
<1> QED BY <1>1, <1>2, <1>3, <1>4, <1>5 DEF BeginUnlock, RecheckUnlock

LEMMA CommitTyped ==
    ASSUME Typed, NEW t \in Tabs, op[t].step # "none",
           Write(op[t]), Clear(t, "unlocked", NextMeta(op[t])),
           Broadcast(t, "lock", meta.vault),
           removed' \in SUBSET Records,
           UNCHANGED <<fresh, hint, signal, sent>>
    PROVE  Typed'
<1> USE DEF Typed
<1>1. op[t] \in OpType /\ ~op[t].base.deleting
  BY DEF Screens, Shaped
<1>2. /\ meta' \in Metas /\ NextMeta(op[t]) \in Metas
      /\ ~NextMeta(op[t]).deleting
      /\ rows' \in [Records -> Version] /\ manifest' \in [Records -> Version]
  BY <1>1, WriteTyped
<1>3. Screens'
  BY <1>2, ClearTyped DEF Phases
<1>4. channel' \in [Tabs -> MessageType]
  BY TellTyped DEF Broadcast, Metas
<1> QED BY <1>2, <1>3, <1>4

LEMMA WritesTyped ==
    ASSUME Typed, NEW t \in Tabs, BeginWrite(t) \/ CommitWrite(t)
    PROVE  Typed'
<1> USE DEF Typed
<1>1. CASE Boundary(t) /\ UNCHANGED <<hint, signal, egress>>
  BY <1>1, BoundaryTyped DEF Boundary, database, egress
<1>2. CASE BeginWrite(t) /\ ~Boundary(t)
  <2> DEFINE b == IF phase[t] = "unlocked" THEN held[t] ELSE meta
  <2>1. PICK kind \in {"save", "remove", "rewrap"},
             r \in Records \cup {Nothing} :
          /\ (kind = "rewrap") <=> (r = Nothing)
          /\ op' = [op EXCEPT ![t] = SnapshotOp(t, kind, r, b)]
    BY <1>2 DEF BeginWrite
  <2>2. /\ Matches(b) /\ Free(t) /\ fresh' = fresh + 1
        /\ UNCHANGED <<database, phase, held, read, channel>>
        /\ UNCHANGED <<hint, signal, egress>>
    BY <1>2 DEF BeginWrite
  <2>3. fresh + 1 \in Version
    BY <2>2, FreeFacts DEF Free
  <2>4. b \in Metas /\ ~b.deleting
    BY <2>2 DEF Screens, Shaped, Matches
  <2>5. SnapshotOp(t, kind, r, b) \in OpType
    BY <2>3, <2>4 DEF SnapshotOp, OpType
  <2>6. Screens'
    BY <2>1, <2>2, <2>4, <2>5, OpTyped DEF SnapshotOp, Screens
  <2> QED BY <2>2, <2>3, <2>6 DEF database, egress
<1>3. CASE CommitWrite(t) /\ Matches(op[t].base)
  <2>1. op[t].step # "none"
    BY <1>3 DEF CommitWrite, Screens, Shaped
  <2>2. removed' \in SUBSET Records
    BY <1>3 DEF CommitWrite, Screens, Shaped
  <2>3. /\ Write(op[t]) /\ Clear(t, "unlocked", NextMeta(op[t]))
        /\ Broadcast(t, "lock", meta.vault)
        /\ UNCHANGED <<fresh, hint, signal, sent>>
    BY <1>3 DEF CommitWrite
  <2> HIDE DEF Typed
  <2> QED BY <2>1, <2>2, <2>3, CommitTyped
<1> QED BY <1>1, <1>2, <1>3 DEF BeginWrite, CommitWrite, egress

LEMMA EgressTyped ==
    ASSUME Typed, NEW t \in Tabs,
           \/ BeginEgress(t) \/ CommitApproval(t) \/ VerifyStored(t)
           \/ Send(t) \/ BeginOutcome(t) \/ CommitOutcome(t)
    PROVE  Typed'
<1> USE DEF Typed
<1>0. op[t] \in OpType /\ op[t].base \in Metas
  BY DEF Screens, OpType
<1>1. CASE Boundary(t) /\ UNCHANGED <<hint, signal, egress>>
  BY <1>1, BoundaryTyped DEF Boundary, database, egress
<1>2. CASE BeginEgress(t) /\ ~Boundary(t)
  <2>1. PICK r \in Records :
            op' = [op EXCEPT ![t] = SnapshotOp(t, "egress", r, held[t])]
    BY <1>2 DEF BeginEgress
  <2>2. /\ Free(t) /\ fresh' = fresh + 1 /\ phase[t] = "unlocked"
        /\ UNCHANGED <<database, phase, held, read, channel>>
        /\ UNCHANGED <<hint, signal, egress>>
    BY <1>2 DEF BeginEgress
  <2>3. fresh + 1 \in Version
    BY <2>2, FreeFacts DEF Free
  <2>4. held[t] \in Metas /\ ~held[t].deleting
    BY <2>2 DEF Screens, Shaped
  <2>5. SnapshotOp(t, "egress", r, held[t]) \in OpType
    BY <2>3, <2>4 DEF SnapshotOp, OpType
  <2>6. Screens'
    BY <2>1, <2>2, <2>4, <2>5, OpTyped DEF SnapshotOp, Screens
  <2> QED BY <2>2, <2>3, <2>6 DEF database, egress
<1>3. CASE CommitApproval(t) /\ ~Boundary(t)
  <2> DEFINE m == NextMeta(op[t])
             o == [op[t] EXCEPT !.step = "check", !.base = m, !.seen = NoRows]
  <2>1. /\ Write(op[t]) /\ Show(t, "unlocked", m)
        /\ op' = [op EXCEPT ![t] = o]
        /\ read' = [read EXCEPT ![t] = NoRead]
        /\ Broadcast(t, "lock", meta.vault)
        /\ UNCHANGED <<fresh, hint, signal, egress>>
        /\ op[t].kind = "egress"
    BY <1>3 DEF CommitApproval
  <2>2. ~op[t].base.deleting /\ op[t].record \in Records
    BY <1>3 DEF CommitApproval, Screens, Shaped
  <2>3. /\ meta' \in Metas /\ m \in Metas /\ ~m.deleting
        /\ rows' \in [Records -> Version]
        /\ manifest' \in [Records -> Version]
    BY <1>0, <2>1, <2>2, WriteTyped
  <2>4. /\ o \in OpType /\ o.step = "check" /\ o.kind = "egress"
        /\ o.base = m /\ o.record \in Records
    BY <1>0, <2>1, <2>2, <2>3, ConstantsTyped DEF OpType
  <2>5. /\ phase' \in [Tabs -> Phases] /\ held' \in [Tabs -> Metas]
        /\ op' \in [Tabs -> OpType] /\ read' \in [Tabs -> ReadType]
    BY <2>1, <2>3, <2>4, ConstantsTyped DEF Show, Screens, Phases
  <2>6. ASSUME NEW u \in Tabs
        PROVE  /\ phase'[u] = IF u = t THEN "unlocked" ELSE phase[u]
               /\ held'[u] = IF u = t THEN m ELSE held[u]
               /\ op'[u] = IF u = t THEN o ELSE op[u]
    BY <2>1 DEF Show, Screens
  <2>7. Shaped'
    <3> HIDE DEF m, o
    <3> QED BY <2>3, <2>4, <2>6 DEF Screens, Shaped
  <2>8. channel' \in [Tabs -> MessageType]
    BY <2>1, TellTyped DEF Broadcast, Metas
  <2> QED BY <2>1, <2>3, <2>5, <2>7, <2>8 DEF Screens, egress
<1>4. CASE VerifyStored(t) /\ ~Boundary(t)
  <2> DEFINE o == [op[t] EXCEPT !.step = "send"]
  <2>1. /\ o \in OpType /\ o.step = "send" /\ o.kind = "egress"
        /\ ~o.base.deleting /\ o.record \in Records
        /\ op' = [op EXCEPT ![t] = o]
    BY <1>0, <1>4 DEF VerifyStored, OpType, Screens, Shaped
  <2>2. Screens'
    BY <1>4, <2>1, OpTyped DEF VerifyStored, Screens
  <2> QED BY <1>4, <2>2 DEF VerifyStored, database, egress
<1>5. CASE Send(t)
  <2> DEFINE o == [op[t] EXCEPT !.step = "answer"]
  <2>1. /\ o \in OpType /\ o.step = "answer" /\ o.kind = "egress"
        /\ ~o.base.deleting /\ o.record \in Records
        /\ op' = [op EXCEPT ![t] = o]
    BY <1>0, <1>5 DEF Send, OpType, Screens, Shaped
  <2>2. Screens'
    BY <1>5, <2>1, OpTyped DEF Send, Screens
  <2>3. [record |-> op[t].record, vault |-> op[t].base.vault]
            \in [record : Records, vault : Version]
    BY <1>0, <2>1 DEF OpType, Metas
  <2> QED BY <1>5, <2>2, <2>3 DEF Send, database
<1>6. CASE BeginOutcome(t) /\ ~Boundary(t)
  <2> DEFINE o == [op[t] EXCEPT !.step = "outcome", !.seen = rows,
                                !.fresh = fresh + 1]
  <2>1. fresh + 1 \in Version
    BY <1>6, FreeFacts DEF BeginOutcome
  <2>2. /\ o \in OpType /\ o.step = "outcome" /\ o.kind = "egress"
        /\ ~o.base.deleting /\ o.record \in Records
        /\ op' = [op EXCEPT ![t] = o]
    BY <1>0, <1>6, <2>1 DEF BeginOutcome, OpType, Screens, Shaped
  <2>3. Screens'
    BY <1>6, <2>2, OpTyped DEF BeginOutcome, Screens
  <2> QED BY <1>6, <2>1, <2>3 DEF BeginOutcome, database, egress
<1>7. CASE CommitOutcome(t) /\ ~Boundary(t)
  BY <1>7, CommitTyped DEF CommitOutcome, egress
<1> QED BY <1>1, <1>2, <1>3, <1>4, <1>5, <1>6, <1>7
        DEF BeginEgress, CommitApproval, VerifyStored, BeginOutcome,
            CommitOutcome

LEMMA OutsideTyped ==
    ASSUME Screens, NEW t \in Tabs, LockFromOutside(t)
    PROVE  Screens'
<1>1. held[t] \in Metas /\ Show(t, "locking", held[t]) /\ "locking" \in Phases
  BY DEF LockFromOutside, Screens, Phases
<1>2. /\ phase' \in [Tabs -> Phases] /\ held' \in [Tabs -> Metas]
      /\ \A u \in Tabs : /\ phase'[u] = IF u = t THEN "locking" ELSE phase[u]
                         /\ held'[u] = IF u = t THEN held[t] ELSE held[u]
  BY <1>1, ShowTyped
<1>3. op' \in [Tabs -> OpType] /\ read' \in [Tabs -> ReadType]
  BY ConstantsTyped DEF LockFromOutside, Screens, ReadType
<1>4. \A u \in Tabs : op'[u] = IF u = t THEN NoOp ELSE op[u]
  BY DEF LockFromOutside, Screens
<1>5. Shaped'
  BY <1>2, <1>4 DEF Screens, Shaped, NoOp
<1> QED BY <1>2, <1>3, <1>5 DEF Screens

LEMMA LeaveTyped ==
    ASSUME Typed, NEW t \in Tabs, Leave(t)
    PROVE  Typed'
<1> USE DEF Typed
<1>0. held[t] \in Metas /\ op[t] \in OpType /\ op[t].base \in Metas
  BY DEF Screens, OpType
<1>1. CASE Lock(t)
  <2>1. fresh + 1 \in Version
    BY <1>1, FreeFacts DEF Lock
  <2>2. held[t].vault \in Version
    BY <1>0 DEF Metas
  <2>3. /\ phase' \in [Tabs -> Phases] /\ held' \in [Tabs -> Metas]
        /\ op' \in [Tabs -> OpType] /\ read' \in [Tabs -> ReadType]
    BY <1>0, <1>1, ConstantsTyped DEF Lock, Show, Screens, Phases, ReadType
  <2>4. Shaped'
    BY <1>1 DEF Lock, Show, Screens, Shaped, NoOp
  <2>5. channel' \in [Tabs -> MessageType]
    BY <1>1, <2>2, TellTyped DEF Lock, Broadcast
  <2> QED BY <1>1, <2>1, <2>2, <2>3, <2>4, <2>5
          DEF Lock, Screens, database, egress
<1>2. CASE Hide(t)
  <2>1. Clear(t, IF phase[t] = "unlocking" THEN "locked" ELSE phase[t], held[t])
    BY <1>2 DEF Hide
  <2>2. /\ phase[t] \in {"unlocking", "locked", "empty"}
        /\ UNCHANGED <<database, fresh, hint, signal, channel, egress>>
    BY <1>2 DEF Hide
  <2>3. Screens'
    <3> DEFINE p == IF phase[t] = "unlocking" THEN "locked" ELSE phase[t]
    <3>1. p \in Phases /\ p # "unlocked"
      BY <2>2 DEF Phases
    <3> HIDE DEF p
    <3> QED BY <1>0, <2>1, <3>1, ClearTyped DEF p
  <2> QED BY <2>2, <2>3 DEF database, egress
<1>9. CASE GiveUp(t)
  <2>1. Screens'
    BY <1>9, ConstantsTyped DEF GiveUp, Screens, Shaped, NoOp
  <2> QED BY <1>9, <2>1 DEF GiveUp, database, egress
<1>3. CASE CommitLock(t)
  <2>1. signal[t].fresh \in Version
    OBVIOUS
  <2>2. meta' \in Metas
    BY <1>3, <2>1 DEF CommitLock, Signalled, Metas
  <2>3. CASE /\ Show(t, PhaseOf(meta'), meta')
             /\ read' = [read EXCEPT ![t] = NoRead]
    <3>1. /\ phase' \in [Tabs -> Phases] /\ held' \in [Tabs -> Metas]
          /\ \A u \in Tabs :
                /\ phase'[u] = IF u = t THEN PhaseOf(meta') ELSE phase[u]
                /\ held'[u] = IF u = t THEN meta' ELSE held[u]
      BY <2>2, <2>3, ShowTyped, PhaseOfTyped
    <3>2. Shaped'
      BY <1>3, <3>1, PhaseOfTyped DEF CommitLock, Screens, Shaped
    <3>3. Screens'
      BY <1>3, <2>3, <3>1, <3>2, ConstantsTyped DEF CommitLock, Screens
    <3> QED BY <1>3, <2>2, <3>3, ConstantsTyped
            DEF CommitLock, egress, NoSignal
  <2>4. CASE UNCHANGED <<phase, held, read>>
    <3>1. Screens'
      BY <1>3, <2>4 DEF CommitLock, Screens, Shaped
    <3> QED BY <1>3, <2>2, <3>1, ConstantsTyped
            DEF CommitLock, egress, NoSignal
  <2> QED BY <1>3, <2>3, <2>4 DEF CommitLock
<1>4. CASE SessionEnds(t)
  BY <1>4, OutsideTyped DEF SessionEnds, database, egress
<1>5. CASE BeginDestroy(t)
  <2> DEFINE m == IF phase[t] = "unlocked" THEN held[t] ELSE meta
  <2>1. fresh + 1 \in Version /\ m \in Metas
    BY <1>0, <1>5, FreeFacts DEF BeginDestroy
  <2>2. \/ Clear(t, "deleting", m) \/ Clear(t, "empty", NoMeta)
    BY <1>5 DEF BeginDestroy
  <2>3. Screens'
    BY <2>1, <2>2, ClearTyped, ConstantsTyped DEF Phases
  <2>4. /\ signal' \in [Tabs -> [kind : {"none", "lock", "mark"},
                                 vault : Version, fresh : Version]]
        /\ fresh' \in Version
    BY <1>5, <2>1 DEF BeginDestroy, Metas
  <2> QED BY <1>5, <2>3, <2>4 DEF BeginDestroy, database, egress
<1>6. CASE CommitMark(t)
  <2>1. signal' \in [Tabs -> [kind : {"none", "lock", "mark"},
                              vault : Version, fresh : Version]]
    BY <1>6, ConstantsTyped DEF CommitMark, NoSignal
  <2>2. CASE /\ meta' = [meta EXCEPT !.coord = signal[t].fresh, !.deleting = TRUE]
             /\ Show(t, "deleting", meta')
             /\ read' = [read EXCEPT ![t] = NoRead]
             /\ Broadcast(t, "deleting", meta.vault)
             /\ UNCHANGED op
    <3>1. meta' \in Metas
      BY <2>2 DEF Metas
    <3>2. Screens'
      BY <2>2, <3>1, ConstantsTyped DEF Show, Screens, Shaped, Phases
    <3>3. channel' \in [Tabs -> MessageType]
      BY <2>2, TellTyped DEF Broadcast, Metas
    <3> QED BY <1>6, <2>1, <3>1, <3>2, <3>3 DEF CommitMark, egress
  <2>3. CASE /\ Clear(t, IF meta = NoMeta THEN "empty" ELSE "locked", meta)
             /\ UNCHANGED <<meta, channel>>
    <3>1. Screens'
      BY <2>3, ClearTyped DEF Phases
    <3> QED BY <1>6, <2>1, <2>3, <3>1 DEF CommitMark, egress
  <2> QED BY <1>6, <2>2, <2>3 DEF CommitMark
<1>7. CASE DeleteDatabase(t)
  <2>1. /\ phase' \in [Tabs -> Phases] /\ held' \in [Tabs -> Metas]
        /\ op' \in [Tabs -> OpType] /\ read' \in [Tabs -> ReadType]
    BY <1>7, ConstantsTyped DEF DeleteDatabase, Screens, Phases
  <2>2. ASSUME NEW u \in Tabs
        PROVE  /\ phase'[u] = "unlocked" =>
                      phase[u] = "unlocked" /\ held'[u] = held[u]
               /\ op'[u] = op[u] \/ op'[u] = NoOp
    BY <1>7 DEF DeleteDatabase, Screens
  <2>3. Shaped'
    BY <2>2 DEF Screens, Shaped, NoOp
  <2> QED BY <1>7, <2>1, <2>3, ConstantsTyped
          DEF DeleteDatabase, ReplaceDatabase, Screens, egress
<1>8. CASE Close(t) \/ Reload(t)
  <2>1. PICK p \in Phases \ {"unlocked"}, m \in Metas : Restart(t, p, m)
    BY <1>8, PhaseOfTyped, ConstantsTyped DEF Close, Reload, Phases
  <2>2. Screens'
    BY <2>1, ClearTyped DEF Restart
  <2> QED BY <2>1, <2>2, ConstantsTyped
          DEF Restart, database, egress, NoSignal
<1> QED BY <1>1, <1>2, <1>3, <1>4, <1>5, <1>6, <1>7, <1>8, <1>9 DEF Leave

LEMMA LearnTyped ==
    ASSUME Typed, NEW t \in Tabs, Learn(t)
    PROVE  Typed'
<1> USE DEF Typed
<1>1. CASE Poll(t)
  BY <1>1 DEF Poll, Screens, Shaped, ReadType, database, egress
<1>2. CASE ApplyPoll(t)
  <2>1. read[t].meta \in Metas /\ PhaseOf(read[t].meta) # "unlocked"
    BY PhaseOfTyped DEF Screens, ReadType
  <2>2. CASE Clear(t, PhaseOf(read[t].meta), read[t].meta)
    BY <1>2, <2>1, <2>2, ClearTyped, PhaseOfTyped
    DEF ApplyPoll, database, egress
  <2>3. CASE UNCHANGED <<phase, held, op>>
    <3>1. read' \in [Tabs -> ReadType]
      BY <1>2, ConstantsTyped DEF ApplyPoll, Screens
    <3> QED BY <1>2, <2>3, <3>1 DEF ApplyPoll, Screens, Shaped, database, egress
  <2> QED BY <1>2, <2>2, <2>3 DEF ApplyPoll, Clear, Rotate
<1>3. CASE ShowStored(t)
  <2>1. /\ phase' \in [Tabs -> Phases] /\ held' \in [Tabs -> Metas]
        /\ op' \in [Tabs -> OpType] /\ read' \in [Tabs -> ReadType]
    BY <1>3, PhaseOfTyped, ConstantsTyped DEF ShowStored, Show, Screens
  <2>2. Shaped'
    BY <1>3, PhaseOfTyped DEF ShowStored, Show, Screens, Shaped
  <2> QED BY <1>3, <2>1, <2>2 DEF ShowStored, Screens, database, egress
<1>4. CASE Receive(t)
  <2>1. \/ UNCHANGED <<phase, held, op, read>>
        \/ LockFromOutside(t)
    BY <1>4 DEF Receive
  <2>2. Screens'
    BY <2>1, OutsideTyped DEF Screens, Shaped
  <2>3. hint' \in [Tabs -> Metas] /\ channel' \in [Tabs -> MessageType]
    BY <1>4, ConstantsTyped DEF Receive
  <2> QED BY <1>4, <2>2, <2>3 DEF Receive, database, egress
<1>5. CASE ApplyHint(t)
  <2>1. hint[t] \in Metas
    OBVIOUS
  <2>2. Screens'
    BY <1>5, <2>1, ClearTyped, PhaseOfTyped DEF ApplyHint
  <2> QED BY <1>5, <2>2, ConstantsTyped DEF ApplyHint, database, egress
<1> QED BY <1>1, <1>2, <1>3, <1>4, <1>5 DEF Learn

LEMMA SessionLockTyped ==
    ASSUME Typed, SessionLock
    PROVE  Typed'
<1> USE DEF Typed
<1>1. fresh + 1 \in Version /\ meta.vault \in Version
  BY FreeFacts DEF SessionLock, Metas
<1>2. meta' \in Metas
  BY <1>1 DEF SessionLock, Signalled, Metas
<1>3. channel' \in [Tabs -> MessageType]
  BY <1>1, TellTyped DEF SessionLock
<1> QED BY <1>1, <1>2, <1>3 DEF SessionLock, Screens, Shaped, egress

LEMMA TypedInit == Init => Typed
BY ConstantsTyped, VaultAssumption
DEF Init, Typed, Screens, Shaped, NoOp, Phases, NoSignal, Version

LEMMA TypedStep ==
    ASSUME Typed, [Next]_vars
    PROVE  Typed'
<1>1. CASE SessionLock
  BY <1>1, SessionLockTyped
<1>2. ASSUME NEW t \in Tabs, Work(t) \/ Leave(t) \/ Learn(t)
      PROVE  Typed'
  BY <1>2, CreateTyped, ImportTyped, UnlockTyped, WritesTyped, EgressTyped,
     LeaveTyped, LearnTyped DEF Work
<1>3. CASE UNCHANGED vars
  BY <1>3 DEF vars, database, egress, Typed, Screens, Shaped
<1> QED BY <1>1, <1>2, <1>3 DEF Next

(* Values have their types, for any number of tabs and records.            *)
THEOREM VaultTypes == Safety => []TypeOK
<1>1. Safety => []Typed
  BY TypedInit, TypedStep, PTL DEF Safety
<1> QED BY <1>1, TypedIsTypeOK, PTL

-----------------------------------------------------------------------------
(* The numbers of operations, and the snapshots they write from.           *)

(* A number is drawn for a write that has not happened.                    *)
Waits(t) ==
    \/ op[t].kind \in {"create", "import"}
    \/ op[t].step \in {"write", "outcome"}

(* The operation goes by a version of the workspace.                       *)
Based(t) == op[t].step \in {"write", "check", "send", "answer", "outcome"}

(* The approval of a request was stored.                                   *)
Asked(t) == op[t].step \in {"check", "send", "answer", "outcome"}

Numbered ==
    /\ meta.vault <= fresh /\ meta.rev <= fresh
    /\ meta # NoMeta => meta.vault >= 1
    /\ \A t \in Tabs :
          /\ Waits(t) => op[t].fresh >= 1 /\ op[t].fresh <= fresh
          /\ Based(t) => /\ op[t].base.vault >= 1 /\ op[t].base.vault <= fresh
                         /\ op[t].base.rev <= fresh
    /\ \A s \in sent : s.vault >= 1 /\ s.vault <= fresh

Unwritten(n) ==
    /\ n # meta.vault /\ n # meta.rev
    /\ \A u \in Tabs :
          Based(u) => n # op[u].base.vault /\ n # op[u].base.rev
    /\ \A s \in sent : n # s.vault

(* Numbers still to be written are nobody else's.                          *)
Apart ==
    \A t \in Tabs : Waits(t) =>
        /\ Unwritten(op[t].fresh)
        /\ \A u \in Tabs : Waits(u) /\ u # t => op[u].fresh # op[t].fresh

SameData(m) == meta.vault = m.vault /\ meta.rev = m.rev

(* A snapshot is what is stored, while the version is the one it had.      *)
Snapshots ==
    \A t \in Tabs :
        op[t].step \in {"write", "outcome"} /\ SameData(op[t].base) =>
            op[t].seen = rows

Kept(v, r) == meta.vault = v => rows[r] # 0 \/ r \in removed

Approved ==
    \A t \in Tabs : Asked(t) => Kept(op[t].base.vault, op[t].record)

Data ==
    /\ Numbered /\ Apart /\ Snapshots /\ Approved
    /\ ManifestMatches /\ ApprovedBeforeSent

LEMMA OpParts ==
    ASSUME Typed
    PROVE  /\ fresh \in Nat /\ meta.vault \in Nat /\ meta.rev \in Nat
           /\ \A t \in Tabs : /\ op[t].fresh \in Nat
                              /\ op[t].base.vault \in Nat
                              /\ op[t].base.rev \in Nat
           /\ \A s \in sent : s.vault \in Nat /\ s.record \in Records
BY VaultAssumption DEF Typed, Screens, OpType, Metas, Version

(* A step that writes no data, and lets operations only end or go on with  *)
(* what they have.                                                         *)
LEMMA CalmStep ==
    ASSUME Typed, Typed', Data,
           SameData(meta'), meta' # NoMeta => meta # NoMeta,
           UNCHANGED <<rows, manifest, egress>>, fresh' >= fresh,
           \A u \in Tabs :
              \/ op'[u] = op[u]
              \/ ~Waits(u)' /\ ~Based(u)'
              \/ /\ Asked(u) /\ ~Waits(u)'
                 /\ op'[u].base = op[u].base /\ op'[u].record = op[u].record
    PROVE  Data'
<1> USE DEF Data
<1>1. \A u \in Tabs :
          /\ Waits(u)' => Waits(u) /\ op'[u] = op[u]
          /\ Based(u)' => Based(u) /\ op'[u].base = op[u].base
          /\ Asked(u)' => /\ Asked(u) /\ op'[u].base = op[u].base
                          /\ op'[u].record = op[u].record
  BY DEF Waits, Based, Asked
<1>2. Numbered'
  <2>1. /\ fresh \in Nat /\ fresh' \in Nat
        /\ \A u \in Tabs : /\ op[u].fresh \in Nat
                           /\ op[u].base.vault \in Nat
                           /\ op[u].base.rev \in Nat
        /\ \A s \in sent : s.vault \in Nat
        /\ meta.vault \in Nat /\ meta.rev \in Nat
    BY OpParts, VaultAssumption DEF Typed, Version
  <2>2. /\ meta'.vault <= fresh' /\ meta'.rev <= fresh'
        /\ meta' # NoMeta => meta'.vault >= 1
    BY <2>1 DEF Numbered, SameData
  <2>3. ASSUME NEW u \in Tabs
        PROVE  /\ Waits(u)' => op'[u].fresh >= 1 /\ op'[u].fresh <= fresh'
               /\ Based(u)' => /\ op'[u].base.vault >= 1
                               /\ op'[u].base.vault <= fresh'
                               /\ op'[u].base.rev <= fresh'
    BY <1>1, <2>1 DEF Numbered
  <2>4. \A s \in sent' : s.vault >= 1 /\ s.vault <= fresh'
    BY <2>1 DEF Numbered, egress
  <2> QED BY <2>2, <2>3, <2>4 DEF Numbered
<1>3. Apart'
  <2>1. ASSUME NEW n, Unwritten(n)
        PROVE  Unwritten(n)'
    BY <1>1, <2>1 DEF Unwritten, SameData, egress
  <2> QED BY <1>1, <2>1 DEF Apart
<1>4. Snapshots'
  <2>1. \A u \in Tabs : op'[u].step \in {"write", "outcome"} => op'[u] = op[u]
    BY <1>1 DEF Waits
  <2> QED BY <2>1 DEF Snapshots, SameData
<1>5. Approved'
  BY <1>1 DEF Approved, Kept, SameData, egress
<1>6. ManifestMatches' /\ ApprovedBeforeSent'
  BY DEF ManifestMatches, ApprovedBeforeSent, SameData, egress
<1> QED BY <1>2, <1>3, <1>4, <1>5, <1>6

(* A step that draws a number, for a new workspace or with a snapshot.     *)
LEMMA DrawStep ==
    ASSUME Typed, Data, NEW t \in Tabs,
           UNCHANGED <<database, egress>>, fresh' = fresh + 1,
           op' \in [Tabs -> OpType],
           \A u \in Tabs \ {t} : op'[u] = op[u],
           op'[t].fresh = fresh + 1,
           \/ op'[t].step = "none"
           \/ /\ op'[t].step = "write" /\ SameData(op'[t].base)
              /\ meta # NoMeta /\ op'[t].seen = rows
           \/ /\ op'[t].step = "outcome" /\ SameData(op'[t].base)
              /\ meta # NoMeta /\ op'[t].seen = rows
              /\ Asked(t) /\ op'[t].record = op[t].record
              /\ op'[t].base = op[t].base
    PROVE  Data'
<1> USE DEF Data
<1>1. \A u \in Tabs : Based(u)' =>
          IF u = t THEN SameData(op'[t].base) /\ meta # NoMeta
          ELSE Based(u) /\ op'[u] = op[u]
  BY DEF Based
<1>2. UNCHANGED <<meta, rows, manifest, sent, removed>>
  BY DEF database, egress
<1>3. Numbered'
  <2>1. ASSUME NEW u \in Tabs, Waits(u)'
        PROVE  op'[u].fresh >= 1 /\ op'[u].fresh <= fresh'
    <3>1. CASE u = t
      BY <3>1, OpParts
    <3>2. CASE u # t
      BY <2>1, <3>2, OpParts DEF Waits, Numbered
    <3> QED BY <3>1, <3>2
  <2>2. ASSUME NEW u \in Tabs, Based(u)'
        PROVE  /\ op'[u].base.vault >= 1 /\ op'[u].base.vault <= fresh'
               /\ op'[u].base.rev <= fresh'
    <3>1. CASE u = t
      BY <1>1, <2>2, <3>1, OpParts DEF Numbered, SameData
    <3>2. CASE u # t
      BY <1>1, <2>2, <3>2, OpParts DEF Numbered
    <3> QED BY <3>1, <3>2
  <2>3. \A s \in sent' : s.vault >= 1 /\ s.vault <= fresh'
    BY <1>2, OpParts DEF Numbered
  <2>4. /\ meta'.vault <= fresh' /\ meta'.rev <= fresh'
        /\ meta' # NoMeta => meta'.vault >= 1
    BY <1>2, OpParts DEF Numbered
  <2> QED BY <2>1, <2>2, <2>3, <2>4 DEF Numbered
<1>4. Apart'
  <2>1. ASSUME NEW n \in Nat, Unwritten(n)
        PROVE  Unwritten(n)'
    BY <1>1, <1>2, <2>1 DEF Unwritten, SameData
  <2>2. Unwritten(fresh + 1)
    BY OpParts DEF Unwritten, Numbered
  <2>3. ASSUME NEW u \in Tabs, Waits(u)'
        PROVE  /\ op'[u].fresh \in Nat /\ Unwritten(op'[u].fresh)
               /\ u # t => op'[u].fresh # fresh + 1
    <3>1. CASE u = t
      BY <2>2, <3>1, OpParts
    <3>2. CASE u # t
      BY <2>3, <3>2, OpParts DEF Waits, Apart, Numbered
    <3> QED BY <3>1, <3>2
  <2>4. ASSUME NEW u \in Tabs, NEW w \in Tabs, Waits(u)', Waits(w)', u # w
        PROVE  op'[u].fresh # op'[w].fresh
    <3>1. CASE u = t \/ w = t
      BY <2>3, <2>4, <3>1
    <3>2. CASE u # t /\ w # t
      BY <2>4, <3>2 DEF Waits, Apart
    <3> QED BY <3>1, <3>2
  <2> QED BY <2>1, <2>3, <2>4 DEF Apart
<1>5. Snapshots'
  BY <1>2 DEF Snapshots, SameData
<1>6. Approved'
  <2>1. ASSUME NEW u \in Tabs, Asked(u)'
        PROVE  Kept(op'[u].base.vault, op'[u].record)
    <3>1. Asked(u) /\ op'[u].base = op[u].base /\ op'[u].record = op[u].record
      BY <2>1 DEF Asked
    <3> QED BY <3>1 DEF Approved
  <2> QED BY <1>2, <2>1 DEF Approved, Kept
<1>7. ManifestMatches' /\ ApprovedBeforeSent'
  BY <1>2 DEF ManifestMatches, ApprovedBeforeSent
<1> QED BY <1>3, <1>4, <1>5, <1>6, <1>7

(* A write of an operation whose version is the one stored.                *)
LEMMA WriteStep ==
    ASSUME Typed, Data, NEW t \in Tabs,
           op[t].step \in {"write", "outcome"}, Matches(op[t].base),
           Write(op[t]), UNCHANGED <<fresh, sent>>,
           removed \subseteq removed',
           op[t].kind = "remove" => op[t].record \in removed',
           \A u \in Tabs \ {t} : op'[u] = op[u],
           \/ op'[t] = NoOp
           \/ /\ op'[t].step = "check" /\ op'[t].kind = "egress"
              /\ op'[t].base = NextMeta(op[t])
              /\ op'[t].record = op[t].record /\ op[t].kind = "egress"
    PROVE  Data'
<1> USE DEF Data
<1> DEFINE n == op[t].fresh
           r == op[t].record
<1>1. /\ Waits(t) /\ Based(t) /\ op[t].seen = rows
      /\ meta.vault = op[t].base.vault /\ meta # NoMeta /\ n >= 1 /\ n <= fresh
  BY DEF Waits, Based, Matches, SameVersion, SameData, Snapshots, Numbered
<1>2. /\ meta'.vault = meta.vault /\ meta'.rev = n
      /\ NextMeta(op[t]).vault = meta.vault /\ NextMeta(op[t]).rev = n
  BY <1>1 DEF Write, NextMeta, Typed, Screens, OpType, Metas
<1>3. rows' = Written(rows, op[t]) /\ manifest' = Written(rows, op[t])
  BY <1>1 DEF Write
<1>4. ManifestMatches'
  BY <1>3 DEF ManifestMatches
<1>5. \A x \in Records : rows[x] # 0 \/ x \in removed =>
                            rows'[x] # 0 \/ x \in removed'
  BY <1>1, <1>3, OpParts DEF Written, Typed, Screens, OpType
<1>6. op[t].kind = "egress" => rows'[r] # 0 /\ r \in Records
  BY <1>1, <1>3, OpParts, VaultAssumption
  DEF Written, Typed, Screens, Shaped, OpType
<1>7. \A u \in Tabs : Asked(u) => op[u].record \in Records
  BY DEF Asked, Typed, Screens, Shaped, OpType
<1>8. Approved'
  <2>1. ASSUME NEW u \in Tabs, Asked(u)'
        PROVE  Kept(op[u].base.vault, op[u].record)'
    <3>1. CASE u = t
      BY <1>6, <2>1, <3>1 DEF Asked, NoOp, Kept
    <3>2. CASE u # t
      <4>1. Asked(u) /\ op'[u] = op[u] /\ op[u].record \in Records
        BY <1>7, <2>1, <3>2 DEF Asked
      <4> QED BY <1>2, <1>5, <4>1 DEF Approved, Kept
    <3> QED BY <3>1, <3>2
  <2> QED BY <2>1 DEF Approved
<1>9. ApprovedBeforeSent'
  BY <1>2, <1>5, OpParts DEF ApprovedBeforeSent
<1>10. \A u \in Tabs : u # t =>
          /\ Waits(u)' <=> Waits(u)
          /\ Based(u)' <=> Based(u)
          /\ op'[u] = op[u]
  BY DEF Waits, Based
<1>11. ~Waits(t)'
  BY DEF Waits, NoOp
<1>12. Based(t)' => op'[t].base = NextMeta(op[t])
  BY DEF Based, NoOp
<1>13. Numbered'
  <2>1. ASSUME NEW u \in Tabs, Based(u)'
        PROVE  /\ op'[u].base.vault >= 1 /\ op'[u].base.vault <= fresh
               /\ op'[u].base.rev <= fresh
    BY <1>1, <1>2, <1>10, <1>12, <2>1 DEF Numbered
  <2>2. ASSUME NEW u \in Tabs, Waits(u)'
        PROVE  op'[u].fresh >= 1 /\ op'[u].fresh <= fresh
    BY <1>10, <1>11, <2>2 DEF Numbered
  <2>3. meta'.vault <= fresh /\ meta'.rev <= fresh /\ meta'.vault >= 1
    BY <1>1, <1>2 DEF Numbered
  <2>4. \A s \in sent' : s.vault >= 1 /\ s.vault <= fresh
    BY DEF Numbered
  <2> QED BY <2>1, <2>2, <2>3, <2>4 DEF Numbered
<1>14. Apart'
  <2>1. ASSUME NEW k, Unwritten(k), k # n
        PROVE  Unwritten(k)'
    <3>1. k # meta'.vault /\ k # meta'.rev
      BY <1>2, <2>1 DEF Unwritten
    <3>2. ASSUME NEW u \in Tabs, Based(u)'
          PROVE  k # op'[u].base.vault /\ k # op'[u].base.rev
      BY <1>2, <1>10, <1>12, <2>1, <3>2 DEF Unwritten
    <3> QED BY <2>1, <3>1, <3>2 DEF Unwritten
  <2>2. ASSUME NEW u \in Tabs, Waits(u)'
        PROVE  /\ u # t /\ Waits(u) /\ op'[u] = op[u]
               /\ Unwritten(op[u].fresh) /\ op[u].fresh # n
    BY <1>1, <1>10, <1>11, <2>2 DEF Apart
  <2> QED BY <2>1, <2>2 DEF Apart
<1>15. Snapshots'
  <2>1. ASSUME NEW u \in Tabs, op'[u].step \in {"write", "outcome"}
        PROVE  ~SameData(op[u].base)'
    <3>1. u # t /\ Based(u) /\ op'[u] = op[u]
      BY <2>1 DEF NoOp, Based
    <3>2. n # op[u].base.rev
      BY <1>1, <3>1 DEF Apart, Unwritten
    <3> QED BY <1>2, <3>1, <3>2 DEF SameData
  <2> QED BY <2>1 DEF Snapshots
<1> QED BY <1>4, <1>8, <1>9, <1>13, <1>14, <1>15

(* A new workspace in place of the one there was, or of none.              *)
LEMMA ReplaceStep ==
    ASSUME Typed, Data, NEW t \in Tabs, op[t].kind \in {"create", "import"},
           meta' = NewVault(op[t].fresh), rows' = manifest',
           UNCHANGED <<fresh, egress>>,
           op' = [op EXCEPT ![t] = NoOp]
    PROVE  Data'
<1> USE DEF Data
<1> DEFINE n == op[t].fresh
<1>1. Waits(t) /\ n >= 1 /\ n <= fresh /\ Unwritten(n)
  BY DEF Waits, Numbered, Apart
<1>2. meta'.vault = n /\ meta'.rev = n
  BY DEF NewVault
<1>3. \A u \in Tabs : op'[u] = IF u = t THEN NoOp ELSE op[u]
  BY DEF Typed, Screens
<1>4. \A u \in Tabs :
          /\ Waits(u)' => u # t /\ Waits(u) /\ op'[u] = op[u]
          /\ Based(u)' => u # t /\ Based(u) /\ op'[u] = op[u]
  BY <1>3 DEF Waits, Based, NoOp
<1>5. Numbered'
  BY <1>1, <1>2, <1>4 DEF Numbered, egress
<1>6. Apart'
  <2>1. ASSUME NEW k, Unwritten(k), k # n
        PROVE  Unwritten(k)'
    BY <1>2, <1>4, <2>1 DEF Unwritten, egress
  <2>2. ASSUME NEW u \in Tabs, Waits(u)'
        PROVE  Unwritten(op[u].fresh) /\ op[u].fresh # n /\ op'[u] = op[u]
    BY <1>1, <1>4, <2>2 DEF Apart
  <2> QED BY <1>4, <2>1, <2>2 DEF Apart
<1>7. Snapshots'
  <2>1. ASSUME NEW u \in Tabs, op'[u].step \in {"write", "outcome"}
        PROVE  ~SameData(op[u].base)'
    BY <1>1, <1>2, <1>3, <2>1 DEF NoOp, Based, Unwritten, SameData
  <2> QED BY <2>1 DEF Snapshots
<1>8. Approved'
  BY <1>1, <1>2, <1>3 DEF Approved, Asked, Based, NoOp, Kept, Unwritten
<1>9. ApprovedBeforeSent'
  BY <1>1, <1>2 DEF ApprovedBeforeSent, Unwritten, egress
<1> QED BY <1>5, <1>6, <1>7, <1>8, <1>9 DEF ManifestMatches

(* The database goes.                                                      *)
LEMMA EmptyStep ==
    ASSUME Typed, Data, meta' = NoMeta, rows' = NoRows, manifest' = NoRows,
           UNCHANGED <<fresh, egress>>,
           \A u \in Tabs : op'[u] = op[u] \/ op'[u] = NoOp
    PROVE  Data'
<1> USE DEF Data
<1>1. \A u \in Tabs :
          /\ Waits(u)' => Waits(u) /\ op'[u] = op[u]
          /\ Based(u)' => Based(u) /\ op'[u] = op[u]
          /\ Asked(u)' => Based(u) /\ op'[u] = op[u]
  BY DEF Waits, Based, Asked, NoOp
<1>2. meta'.vault = 0 /\ meta'.rev = 0
  BY DEF NoMeta
<1>3. Numbered'
  BY <1>1, <1>2, OpParts DEF Numbered, egress
<1>4. Apart'
  <2>1. ASSUME NEW k, Unwritten(k), k # 0
        PROVE  Unwritten(k)'
    BY <1>1, <1>2, <2>1 DEF Unwritten, egress
  <2>2. ASSUME NEW u \in Tabs, Waits(u)
        PROVE  op[u].fresh # 0
    BY <2>2, OpParts DEF Numbered
  <2> QED BY <1>1, <2>1, <2>2 DEF Apart
<1>5. Snapshots'
  <2>1. ASSUME NEW u \in Tabs, op'[u].step \in {"write", "outcome"}
        PROVE  ~SameData(op[u].base)'
    <3>1. Based(u) /\ op'[u] = op[u] /\ op[u].base.vault >= 1
      BY <1>1, <2>1 DEF Based, Numbered
    <3> QED BY <1>2, <3>1, OpParts DEF SameData
  <2> QED BY <2>1 DEF Snapshots
<1>6. Approved'
  <2>1. ASSUME NEW u \in Tabs, Asked(u)'
        PROVE  op'[u].base.vault # 0
    BY <1>1, <2>1, OpParts DEF Numbered
  <2> QED BY <1>2, <2>1 DEF Approved, Kept
<1>7. ApprovedBeforeSent'
  <2>1. \A s \in sent : s.vault # 0
    BY OpParts DEF Numbered
  <2> QED BY <1>2, <2>1 DEF ApprovedBeforeSent, egress
<1> QED BY <1>3, <1>4, <1>5, <1>6, <1>7 DEF ManifestMatches

(* Operations are dropped or left alone, and only a lock or mark is stored.*)
LEMMA DropStep ==
    ASSUME Typed, Typed', Data,
           SameData(meta'), meta' # NoMeta => meta # NoMeta,
           UNCHANGED <<rows, manifest, egress>>, fresh' >= fresh,
           \/ UNCHANGED op
           \/ \E t \in Tabs : op' = [op EXCEPT ![t] = NoOp]
    PROVE  Data'
<1>1. \A u \in Tabs : op'[u] = op[u] \/ op'[u] = NoOp
  BY DEF Typed, Screens
<1>2. \A u \in Tabs : op'[u] = op[u] \/ (~Waits(u)' /\ ~Based(u)')
  BY <1>1 DEF Waits, Based, NoOp
<1> QED BY <1>2, CalmStep

LEMMA BoundaryStep ==
    ASSUME Typed, Typed', Data, NEW t \in Tabs, Boundary(t), UNCHANGED egress
    PROVE  Data'
<1>1. /\ meta' = meta /\ UNCHANGED <<rows, manifest, egress, fresh>>
      /\ op' = [op EXCEPT ![t] = NoOp]
  BY DEF Boundary, Clear, Rotate, database
<1>2. fresh' >= fresh /\ SameData(meta')
  BY <1>1, OpParts DEF SameData
<1> QED BY <1>1, <1>2, DropStep

LEMMA CreateData ==
    ASSUME Typed, Typed', Data, NEW t \in Tabs,
           \/ BeginCreate(t) \/ CommitCreate(t)
           \/ BeginImport(t) \/ CommitImport(t)
    PROVE  Data'
<1>1. CASE Boundary(t) /\ UNCHANGED egress
  BY <1>1, BoundaryStep
<1>2. CASE (BeginCreate(t) \/ BeginImport(t)) /\ ~Boundary(t)
  <2>1. PICK o : /\ op' = [op EXCEPT ![t] = o]
                 /\ o.step = "none" /\ o.fresh = fresh + 1
    <3> DEFINE b == IF phase[t] = "unlocked" THEN held[t] ELSE meta
               c == [NoOp EXCEPT !.kind = "create", !.fresh = fresh + 1]
               i == [NoOp EXCEPT !.kind = "import", !.fresh = fresh + 1,
                                 !.base = b]
    <3>1. /\ c.step = "none" /\ c.fresh = fresh + 1
          /\ i.step = "none" /\ i.fresh = fresh + 1
      BY DEF NoOp
    <3>2. op' = [op EXCEPT ![t] = c] \/ op' = [op EXCEPT ![t] = i]
      BY <1>2 DEF BeginCreate, BeginImport
    <3> HIDE DEF c, i
    <3> QED BY <3>1, <3>2
  <2>2. /\ UNCHANGED <<database, egress>> /\ fresh' = fresh + 1
        /\ op' \in [Tabs -> OpType]
    BY <1>2 DEF BeginCreate, BeginImport, Typed, Screens
  <2>3. /\ op'[t].step = "none" /\ op'[t].fresh = fresh + 1
        /\ \A u \in Tabs \ {t} : op'[u] = op[u]
    BY <2>1 DEF Typed, Screens
  <2> QED BY <2>2, <2>3, DrawStep
<1>3. CASE (CommitCreate(t) \/ CommitImport(t)) /\ ~Boundary(t)
  <2>1. /\ meta' = NewVault(op[t].fresh) /\ rows' = manifest'
        /\ UNCHANGED <<fresh, egress>> /\ op' = [op EXCEPT ![t] = NoOp]
        /\ op[t].kind \in {"create", "import"}
    BY <1>3 DEF CommitCreate, CommitImport, ReplaceDatabase, Clear, Rotate
  <2> QED BY <2>1, ReplaceStep
<1> QED BY <1>1, <1>2, <1>3
        DEF BeginCreate, CommitCreate, BeginImport, CommitImport

LEMMA UnlockData ==
    ASSUME Typed, Typed', Data, NEW t \in Tabs,
           \/ BeginUnlock(t) \/ RecheckUnlock(t)
           \/ RejectUnlock(t) \/ AcceptUnlock(t)
    PROVE  Data'
<1>1. CASE Boundary(t) /\ UNCHANGED egress
  BY <1>1, BoundaryStep
<1>2. CASE (BeginUnlock(t) \/ RecheckUnlock(t)) /\ ~Boundary(t)
  <2>1. /\ UNCHANGED <<database, fresh, egress>>
        /\ op'[t].kind = "unlock" /\ op'[t].step \in {"decrypt", "accept"}
        /\ \A u \in Tabs \ {t} : op'[u] = op[u]
    <3>1. CASE BeginUnlock(t)
      <4> DEFINE o == [NoOp EXCEPT !.kind = "unlock", !.step = "decrypt",
                                   !.base = meta]
      <4>1. op' = [op EXCEPT ![t] = o] /\ UNCHANGED <<database, fresh, egress>>
        BY <1>2, <3>1 DEF BeginUnlock
      <4>2. o.kind = "unlock" /\ o.step = "decrypt"
        BY DEF NoOp
      <4> HIDE DEF o
      <4> QED BY <4>1, <4>2 DEF Typed, Screens
    <3>2. CASE RecheckUnlock(t)
      <4>1. op[t] \in OpType
        BY DEF Typed, Screens
      <4> QED BY <1>2, <3>2, <4>1 DEF RecheckUnlock, Typed, Screens, OpType
    <3> QED BY <1>2, <3>1, <3>2
  <2>2. ~Waits(t)' /\ ~Based(t)'
    BY <2>1 DEF Waits, Based
  <2> QED BY <2>1, <2>2, CalmStep, OpParts DEF database, SameData
<1>3. CASE RejectUnlock(t) \/ AcceptUnlock(t)
  BY <1>3, DropStep, OpParts
  DEF RejectUnlock, AcceptUnlock, Clear, Rotate, database, SameData
<1> QED BY <1>1, <1>2, <1>3 DEF BeginUnlock, RecheckUnlock

LEMMA MatchesData == \A m : Matches(m) => SameData(m) /\ meta # NoMeta
BY DEF Matches, SameVersion, SameData

LEMMA WriteData ==
    ASSUME Typed, Typed', Data, NEW t \in Tabs, BeginWrite(t) \/ CommitWrite(t)
    PROVE  Data'
<1>1. CASE Boundary(t) /\ UNCHANGED egress
  BY <1>1, BoundaryStep
<1>2. CASE BeginWrite(t) /\ ~Boundary(t)
  <2> DEFINE b == IF phase[t] = "unlocked" THEN held[t] ELSE meta
  <2>1. PICK kind, r : op' = [op EXCEPT ![t] = SnapshotOp(t, kind, r, b)]
    BY <1>2 DEF BeginWrite
  <2>2. /\ UNCHANGED <<database, egress>> /\ fresh' = fresh + 1 /\ Matches(b)
    BY <1>2 DEF BeginWrite
  <2>3. /\ op'[t].step = "write" /\ op'[t].base = b /\ op'[t].seen = rows
        /\ op'[t].fresh = fresh + 1
        /\ \A u \in Tabs \ {t} : op'[u] = op[u]
        /\ op' \in [Tabs -> OpType]
    BY <2>1 DEF SnapshotOp, Typed, Screens
  <2> QED BY <2>2, <2>3, DrawStep, MatchesData
<1>3. CASE CommitWrite(t) /\ Matches(op[t].base)
  <2>1. /\ op[t].step \in {"write", "outcome"}
        /\ \A u \in Tabs \ {t} : op'[u] = op[u]
    BY <1>3 DEF CommitWrite, Clear, Rotate, Boundary, Typed, Screens, Shaped
  <2>2. CASE Boundary(t) /\ UNCHANGED removed
    BY <1>3, <2>2, BoundaryStep DEF CommitWrite, egress
  <2>3. CASE ~(Boundary(t) /\ UNCHANGED removed)
    <3>1. /\ Write(op[t]) /\ UNCHANGED <<fresh, sent>> /\ op'[t] = NoOp
          /\ removed \subseteq removed'
          /\ op[t].kind = "remove" => op[t].record \in removed'
      BY <1>3, <2>3 DEF CommitWrite, Clear, Rotate, Typed, Screens
    <3> QED BY <1>3, <2>1, <3>1, WriteStep
  <2> QED BY <2>2, <2>3
<1> QED BY <1>1, <1>2, <1>3 DEF BeginWrite, CommitWrite, egress

LEMMA SendData ==
    ASSUME Typed, Typed', Data, NEW t \in Tabs, Send(t)
    PROVE  Data'
<1> USE DEF Data
<1> DEFINE s == [record |-> op[t].record, vault |-> op[t].base.vault]
<1>1. /\ op[t].step = "send" /\ sent' = sent \cup {s}
      /\ UNCHANGED <<meta, rows, manifest, fresh, removed>>
      /\ op'[t] = [op[t] EXCEPT !.step = "answer"]
      /\ \A u \in Tabs \ {t} : op'[u] = op[u]
  BY DEF Send, Typed, Screens, database
<1>2. /\ op'[t].step = "answer" /\ op'[t].kind = op[t].kind
      /\ op'[t].base = op[t].base /\ op'[t].record = op[t].record
      /\ op[t].kind = "egress"
  BY <1>1 DEF Send, Typed, Screens, OpType
<1>3. Based(t) /\ Asked(t) /\ ~Waits(t)'
  BY <1>1, <1>2 DEF Based, Asked, Waits
<1>4. \A u \in Tabs :
          /\ Waits(u)' => Waits(u) /\ op'[u] = op[u]
          /\ Based(u)' => Based(u) /\ op'[u].base = op[u].base
          /\ Asked(u)' => /\ Asked(u) /\ op'[u].base = op[u].base
                          /\ op'[u].record = op[u].record
  BY <1>1, <1>2, <1>3 DEF Waits, Based, Asked
<1>5. Numbered'
  BY <1>1, <1>3, <1>4 DEF Numbered
<1>6. Apart'
  <2>1. ASSUME NEW k, Unwritten(k)
        PROVE  Unwritten(k)'
    BY <1>1, <1>3, <1>4, <2>1 DEF Unwritten
  <2> QED BY <1>4, <2>1 DEF Apart
<1>7. Snapshots'
  BY <1>1, <1>2 DEF Snapshots, SameData
<1>8. Approved'
  BY <1>1, <1>4 DEF Approved, Kept
<1>9. ManifestMatches'
  BY <1>1 DEF ManifestMatches
<1>10. ApprovedBeforeSent'
  <2>1. Kept(s.vault, s.record)
    BY <1>3 DEF Approved
  <2> QED BY <1>1, <2>1 DEF ApprovedBeforeSent, Kept
<1> QED BY <1>5, <1>6, <1>7, <1>8, <1>9, <1>10

LEMMA EgressData ==
    ASSUME Typed, Typed', Data, NEW t \in Tabs,
           \/ BeginEgress(t) \/ CommitApproval(t) \/ VerifyStored(t)
           \/ BeginOutcome(t) \/ CommitOutcome(t)
    PROVE  Data'
<1>0. op[t] \in OpType
  BY DEF Typed, Screens
<1>1. CASE Boundary(t) /\ UNCHANGED egress
  BY <1>1, BoundaryStep
<1>2. CASE BeginEgress(t) /\ ~Boundary(t)
  <2>1. PICK r : op' = [op EXCEPT ![t] = SnapshotOp(t, "egress", r, held[t])]
    BY <1>2 DEF BeginEgress
  <2>2. /\ UNCHANGED <<database, egress>> /\ fresh' = fresh + 1
        /\ Matches(held[t])
    BY <1>2 DEF BeginEgress
  <2>3. /\ op'[t].step = "write" /\ op'[t].base = held[t]
        /\ op'[t].seen = rows /\ op'[t].fresh = fresh + 1
        /\ \A u \in Tabs \ {t} : op'[u] = op[u]
        /\ op' \in [Tabs -> OpType]
    BY <2>1 DEF SnapshotOp, Typed, Screens
  <2> QED BY <2>2, <2>3, DrawStep, MatchesData
<1>3. CASE CommitApproval(t) /\ ~Boundary(t)
  <2> DEFINE o == [op[t] EXCEPT !.step = "check", !.base = NextMeta(op[t]),
                                !.seen = NoRows]
  <2>1. /\ Write(op[t]) /\ UNCHANGED <<fresh, egress>>
        /\ op[t].kind = "egress" /\ op[t].step = "write"
        /\ Matches(op[t].base) /\ op' = [op EXCEPT ![t] = o]
    BY <1>3 DEF CommitApproval
  <2>2. /\ op'[t] = o /\ \A u \in Tabs \ {t} : op'[u] = op[u]
    BY <2>1 DEF Typed, Screens
  <2>3. /\ o.step = "check" /\ o.kind = "egress"
        /\ o.base = NextMeta(op[t]) /\ o.record = op[t].record
    BY <1>0, <2>1 DEF OpType
  <2> HIDE DEF o
  <2> QED BY <2>1, <2>2, <2>3, WriteStep DEF egress
<1>4. CASE VerifyStored(t) /\ ~Boundary(t)
  <2>1. /\ UNCHANGED <<database, fresh, egress>>
        /\ op[t].step = "check" /\ op'[t].step = "send"
        /\ op'[t].kind = "egress"
        /\ op'[t].base = op[t].base /\ op'[t].record = op[t].record
        /\ \A u \in Tabs \ {t} : op'[u] = op[u]
    BY <1>0, <1>4 DEF VerifyStored, Typed, Screens, OpType
  <2>2. Asked(t) /\ ~Waits(t)'
    BY <2>1 DEF Asked, Waits
  <2> QED BY <2>1, <2>2, CalmStep, OpParts DEF database, SameData
<1>5. CASE BeginOutcome(t) /\ ~Boundary(t)
  <2>1. /\ UNCHANGED <<database, egress>> /\ fresh' = fresh + 1
        /\ Matches(op[t].base) /\ op[t].step = "answer"
        /\ op'[t] = [op[t] EXCEPT !.step = "outcome", !.seen = rows,
                                  !.fresh = fresh + 1]
        /\ \A u \in Tabs \ {t} : op'[u] = op[u]
        /\ op' \in [Tabs -> OpType]
    BY <1>5 DEF BeginOutcome, Typed, Screens
  <2>2. /\ op'[t].step = "outcome" /\ op'[t].seen = rows
        /\ op'[t].fresh = fresh + 1 /\ op'[t].base = op[t].base
        /\ op'[t].record = op[t].record /\ Asked(t)
    BY <1>0, <2>1 DEF OpType, Asked
  <2> QED BY <2>1, <2>2, DrawStep, MatchesData
<1>6. CASE CommitOutcome(t) /\ ~Boundary(t)
  <2>1. /\ Write(op[t]) /\ UNCHANGED <<fresh, egress>>
        /\ op[t].kind = "egress" /\ op[t].step = "outcome"
        /\ Matches(op[t].base) /\ op'[t] = NoOp
        /\ \A u \in Tabs \ {t} : op'[u] = op[u]
    BY <1>6 DEF CommitOutcome, Clear, Rotate, Typed, Screens
  <2> QED BY <2>1, WriteStep DEF egress
<1> QED BY <1>1, <1>2, <1>3, <1>4, <1>5, <1>6
        DEF BeginEgress, CommitApproval, VerifyStored, BeginOutcome,
            CommitOutcome

LEMMA LeaveData ==
    ASSUME Typed, Typed', Data, NEW t \in Tabs, Leave(t)
    PROVE  Data'
<1>1. CASE Lock(t) \/ Hide(t) \/ GiveUp(t) \/ SessionEnds(t)
           \/ BeginDestroy(t) \/ Close(t) \/ Reload(t)
  BY <1>1, DropStep, OpParts
  DEF Lock, Hide, GiveUp, SessionEnds, LockFromOutside, BeginDestroy, Close, Reload,
      Restart, Clear, Rotate, database, SameData
<1>2. CASE CommitLock(t) \/ CommitMark(t)
  <2>1. /\ SameData(meta')
        /\ meta' # NoMeta => meta # NoMeta
        /\ UNCHANGED <<rows, manifest, egress, fresh>>
    BY <1>2 DEF CommitLock, CommitMark, Signalled, SameData, Typed, Metas
  <2>2. \/ UNCHANGED op
        \/ op' = [op EXCEPT ![t] = NoOp]
    BY <1>2 DEF CommitLock, CommitMark, Clear, Rotate
  <2>3. fresh' >= fresh
    BY <2>1, OpParts
  <2> QED BY <2>1, <2>2, <2>3, DropStep
<1>3. CASE DeleteDatabase(t)
  <2>1. \A u \in Tabs : op'[u] = op[u] \/ op'[u] = NoOp
    BY <1>3 DEF DeleteDatabase
  <2> QED BY <1>3, <2>1, EmptyStep DEF DeleteDatabase, ReplaceDatabase
<1> QED BY <1>1, <1>2, <1>3 DEF Leave

LEMMA LearnData ==
    ASSUME Typed, Typed', Data, NEW t \in Tabs, Learn(t)
    PROVE  Data'
<1>1. /\ UNCHANGED <<database, fresh, egress>>
      /\ UNCHANGED op \/ op' = [op EXCEPT ![t] = NoOp]
  BY DEF Learn, Poll, ApplyPoll, ShowStored, Receive, LockFromOutside,
         ApplyHint, Clear, Rotate
<1> QED BY <1>1, DropStep, OpParts DEF database, SameData

LEMMA SessionLockData ==
    ASSUME Typed, Typed', Data, SessionLock
    PROVE  Data'
<1>1. SameData(meta') /\ (meta' # NoMeta => meta # NoMeta)
  BY DEF SessionLock, Signalled, SameData, Typed, Metas
<1> QED BY <1>1, DropStep, OpParts DEF SessionLock

LEMMA DataInit == Init => Data
BY DEF Init, Data, Numbered, Apart, Snapshots, Approved, ManifestMatches,
       ApprovedBeforeSent, Waits, Based, Asked, NoOp, NoMeta

LEMMA DataStep ==
    ASSUME Typed, Data, [Next]_vars
    PROVE  Data'
<1>0. Typed'
  BY TypedStep
<1>1. CASE SessionLock
  BY <1>0, <1>1, SessionLockData
<1>2. ASSUME NEW t \in Tabs, Work(t) \/ Leave(t) \/ Learn(t)
      PROVE  Data'
  BY <1>0, <1>2, CreateData, UnlockData, WriteData, SendData, EgressData,
     LeaveData, LearnData DEF Work
<1>3. CASE UNCHANGED vars
  BY <1>0, <1>3, DropStep, OpParts DEF vars, database, SameData
<1> QED BY <1>1, <1>2, <1>3 DEF Next

LEMMA Invariance == Safety => [](Typed /\ Data)
<1>1. Init => Typed /\ Data
  BY TypedInit, DataInit
<1>2. Typed /\ Data /\ [Next]_vars => Typed' /\ Data'
  BY TypedStep, DataStep
<1> QED BY <1>1, <1>2, PTL DEF Safety

(* The sentinel lists exactly the records that are stored.                 *)
THEOREM VaultManifest == Safety => []ManifestMatches
BY Invariance, PTL DEF Data

(* No request is sent whose approval is not in the stored workspace.       *)
THEOREM VaultApproval == Safety => []ApprovedBeforeSent
BY Invariance, PTL DEF Data

-----------------------------------------------------------------------------
(* What a step may do to the stored metadata.                              *)

Signals ==
    /\ SameData(meta') /\ UNCHANGED rows
    /\ meta.deleting => meta'.deleting

Replaces(t) ==
    /\ op[t].kind \in {"create", "import"}
    /\ meta' = NewVault(op[t].fresh) /\ ~meta.deleting

Writes(t) ==
    op[t].step \in {"write", "outcome"} /\ Matches(op[t].base) /\ Write(op[t])

LEMMA MetaSteps ==
    ASSUME Typed, [Next]_vars
    PROVE  \/ Signals \/ meta' = NoMeta
           \/ \E t \in Tabs : Replaces(t) \/ Writes(t)
<1>1. ASSUME UNCHANGED database PROVE Signals
  BY <1>1 DEF database, Signals, SameData
<1>2. CASE SessionLock
  BY <1>2 DEF SessionLock, Signalled, Signals, SameData, Typed, Metas
<1>3. ASSUME NEW t \in Tabs, Work(t)
      PROVE  Signals \/ Replaces(t) \/ Writes(t)
  <2>1. \/ UNCHANGED database
        \/ (CommitCreate(t) \/ CommitImport(t)) /\ ~Boundary(t)
        \/ (CommitWrite(t) \/ CommitApproval(t) \/ CommitOutcome(t))
             /\ ~Boundary(t)
    BY <1>3
    DEF Work, Boundary, BeginCreate, BeginImport, BeginUnlock, RecheckUnlock,
        RejectUnlock, AcceptUnlock, BeginWrite, BeginEgress, VerifyStored,
        Send, BeginOutcome, CommitCreate, CommitImport, CommitWrite,
        CommitApproval, CommitOutcome
  <2>2. CASE (CommitCreate(t) \/ CommitImport(t)) /\ ~Boundary(t)
    BY <2>2, ConstantsTyped
    DEF CommitCreate, CommitImport, ReplaceDatabase, Replaces, MayReplace,
        Matches
  <2>3. CASE (CommitWrite(t) \/ CommitApproval(t) \/ CommitOutcome(t))
               /\ ~Boundary(t)
    BY <2>3 DEF CommitWrite, CommitApproval, CommitOutcome, Writes, Typed,
                Screens, Shaped
  <2> QED BY <1>1, <2>1, <2>2, <2>3
<1>4. ASSUME NEW t \in Tabs, Leave(t)
      PROVE  Signals \/ meta' = NoMeta
  <2>1. CASE CommitLock(t)
    BY <2>1 DEF CommitLock, Signalled, Signals, SameData, Typed, Metas
  <2>2. CASE CommitMark(t)
    BY <2>2 DEF CommitMark, Signals, SameData, Typed, Metas
  <2>3. CASE DeleteDatabase(t)
    BY <2>3 DEF DeleteDatabase, ReplaceDatabase
  <2>4. CASE \/ Lock(t) \/ Hide(t) \/ GiveUp(t) \/ SessionEnds(t)
             \/ BeginDestroy(t) \/ Close(t) \/ Reload(t)
    BY <1>1, <2>4
    DEF Lock, Hide, GiveUp, SessionEnds, BeginDestroy, Close, Reload, Restart
  <2> QED BY <1>4, <2>1, <2>2, <2>3, <2>4 DEF Leave
<1>5. ASSUME NEW t \in Tabs, Learn(t)
      PROVE  Signals
  BY <1>1, <1>5
  DEF Learn, Poll, ApplyPoll, ShowStored, Receive, ApplyHint
<1>6. CASE UNCHANGED vars
  BY <1>1, <1>6 DEF vars
<1> QED BY <1>2, <1>3, <1>4, <1>5, <1>6 DEF Next

(* A write never puts back a lock that another document replaced.          *)
THEOREM VaultWriteKeepsLock == Safety => WriteKeepsLock
<1> DEFINE A == meta'.vault = meta.vault /\ meta'.rev # meta.rev =>
                    meta'.coord = meta.coord /\ meta'.deleting = meta.deleting
<1>1. ASSUME Typed, Data, [Next]_vars
      PROVE  A
  <2>1. CASE Signals
    BY <2>1 DEF Signals, SameData
  <2>2. CASE meta' = NoMeta
    BY <1>1, <2>2, OpParts DEF NoMeta, Data, Numbered
  <2>3. ASSUME NEW t \in Tabs, Replaces(t)
        PROVE  A
    BY <1>1, <2>3 DEF Replaces, NewVault, Data, Apart, Waits, Unwritten
  <2>4. ASSUME NEW t \in Tabs, Writes(t)
        PROVE  A
    <3>1. ~op[t].base.deleting /\ ~meta.deleting /\ op[t].base \in Metas
      BY <1>1, <2>4 DEF Writes, Matches, Typed, Screens, Shaped, OpType
    <3> QED BY <2>4, <3>1, <1>1
            DEF Writes, Matches, SameVersion, Write, NextMeta, Metas, Typed
  <2> QED BY <1>1, <2>1, <2>2, <2>3, <2>4, MetaSteps
<1> HIDE DEF A
<1>2. Typed /\ Data /\ [Next]_vars => [A]_vars
  BY <1>1
<1>3. Safety => [][A]_vars
  BY <1>2, Invariance, PTL DEF Safety
<1> QED BY <1>3 DEF A, WriteKeepsLock

(* A marked workspace is changed by nothing but its deletion.              *)
THEOREM VaultMarkIsFinal == Safety => MarkIsFinal
<1> DEFINE A == meta.deleting =>
                    \/ meta' = NoMeta
                    \/ /\ meta'.deleting /\ meta'.vault = meta.vault
                       /\ meta'.rev = meta.rev /\ rows' = rows
<1>1. ASSUME Typed, [Next]_vars
      PROVE  A
  BY <1>1, MetaSteps DEF Signals, SameData, Replaces, Writes, Matches
<1> HIDE DEF A
<1>2. Typed /\ [Next]_vars => [A]_vars
  BY <1>1
<1>3. Safety => [][A]_vars
  BY <1>2, Invariance, PTL DEF Safety
<1> QED BY <1>3 DEF A, MarkIsFinal
=============================================================================
