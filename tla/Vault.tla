-------------------------------- MODULE Vault --------------------------------
(***************************************************************************)
(* The encrypted workspace of a browser origin: one IndexedDB database and *)
(* the tabs that show it.                                                  *)
(*                                                                         *)
(* An operation of a tab reads the database, works for a while (key        *)
(* derivation, encryption) and commits in one transaction that compares    *)
(* the stored revisions with those it read; the session boundary of the    *)
(* tab (a generation number and an AbortSignal in the code) drops it when  *)
(* the tab is locked meanwhile.  Dropping an operation here means that it  *)
(* has no further effect.  Tabs tell each other of changes on a channel    *)
(* that may lose messages, and poll the database.                          *)
(*                                                                         *)
(* Random revisions are numbers drawn from one counter.  A record is the   *)
(* revision that wrote it, 0 if there is none.  Operators whose name       *)
(* starts with Bug belong to no specification.                             *)
(***************************************************************************)
EXTENDS Integers, FiniteSets

CONSTANTS
    Tabs,       \* documents of the origin that show the workspace
    Records,    \* record identifiers
    Nothing,    \* no record
    MaxFresh    \* bound on the revisions drawn

ASSUME VaultAssumption ==
    MaxFresh \in Nat /\ Nothing \notin Records /\ IsFiniteSet(Tabs)

VARIABLES
    meta,       \* the row of store vaultMeta, NoMeta if there is none
    rows,       \* store records, without the sentinel
    manifest,   \* what the encrypted sentinel says the records are
    fresh,      \* revisions drawn so far
    phase,      \* per tab: phase of its screen
    held,       \* per tab: metadata of its screen or open workspace
    op,         \* per tab: the operation under way
    read,       \* per tab: a metadata read that the session boundary drops
    hint,       \* per tab: metadata read because of a message, and worth
                \* showing; nothing drops it
    signal,     \* per tab: a lock signal or deletion mark not yet committed
    channel,    \* per tab: the message on its way to it, at most one
    sent,       \* requests that left: the approval record and its workspace
    removed     \* records the user removed

database == <<meta, rows, manifest>>
egress   == <<sent, removed>>
vars == <<database, fresh, phase, held, op, read, hint, signal, channel, egress>>

NoMeta    == [vault |-> 0, rev |-> 0, coord |-> 0, deleting |-> FALSE]
NoRows    == [r \in Records |-> 0]
NoOp      == [kind |-> "none", step |-> "none", base |-> NoMeta, fresh |-> 0,
              record |-> Nothing, seen |-> NoRows]
NoRead    == [of |-> "none", meta |-> NoMeta]
NoMessage == [type |-> "none", vault |-> 0]
NoSignal  == [kind |-> "none", vault |-> 0, fresh |-> 0]

(* createVaultMaterial draws an identifier and both revisions.             *)
NewVault(n) == [vault |-> n, rev |-> n, coord |-> n, deleting |-> FALSE]

Init ==
    /\ meta = NoMeta /\ rows = NoRows /\ manifest = NoRows
    /\ fresh = 0
    /\ phase   = [t \in Tabs |-> "empty"]
    /\ held    = [t \in Tabs |-> NoMeta]
    /\ op      = [t \in Tabs |-> NoOp]
    /\ read    = [t \in Tabs |-> NoRead]
    /\ hint    = [t \in Tabs |-> NoMeta]
    /\ signal  = [t \in Tabs |-> NoSignal]
    /\ channel = [t \in Tabs |-> NoMessage]
    /\ sent    = {} /\ removed = {}

-----------------------------------------------------------------------------
(* Screens.                                                                *)

PhaseOf(m) ==
    IF m = NoMeta THEN "empty" ELSE IF m.deleting THEN "deleting" ELSE "locked"

(* setScreen: the effects that poll are set up anew, so a poll that was    *)
(* under way is dropped.                                                   *)
Show(t, p, m) ==
    /\ phase' = [phase EXCEPT ![t] = p]
    /\ held'  = [held EXCEPT ![t] = m]

(* rotateSessionBoundary: what was under way in this tab is dropped.       *)
Rotate(t) ==
    /\ op'   = [op EXCEPT ![t] = NoOp]
    /\ read' = [read EXCEPT ![t] = NoRead]

(* clearPrivateState.                                                      *)
Clear(t, p, m) == Show(t, p, m) /\ Rotate(t)

(* handleObservedVaultBoundary: the metadata is read again, and shown.     *)
Boundary(t) ==
    /\ Clear(t, PhaseOf(meta), meta)
    /\ UNCHANGED <<database, fresh, channel>>

Others(t) == Tabs \ {t}

(* Messages "changed" and "lock" differ in the notice shown; both are lock. *)
(* A message on its way is lost when the next one is sent: one more way to *)
(* lose it, and the bound on messages.                                     *)
Tell(T, type, v) ==
    channel' = [u \in Tabs |-> IF u \in T /\ phase[u] # "closed"
                               THEN [type |-> type, vault |-> v] ELSE channel[u]]

Broadcast(t, type, v) == Tell(Others(t), type, v)

(* Transactions of one document take effect in the order it opened them.   *)
Quiet(t) == signal[t] = NoSignal

Free(t) == op[t] = NoOp /\ Quiet(t) /\ fresh < MaxFresh

-----------------------------------------------------------------------------
(* Transactions.                                                           *)

SameVersion(m) == meta.vault = m.vault /\ meta.rev = m.rev /\ meta.coord = m.coord

BugMatches(m) == meta # NoMeta /\ meta.vault = m.vault /\ ~meta.deleting

Matches(m) == meta # NoMeta /\ SameVersion(m) /\ ~meta.deleting

MayReplace(m) == IF m = NoMeta THEN meta = NoMeta ELSE Matches(m)

(* What the write of an operation makes of a set of records.               *)
Written(f, o) ==
    IF o.record = Nothing THEN f
    ELSE [f EXCEPT ![o.record] = IF o.kind = "remove" THEN 0 ELSE o.fresh]

NextMeta(o) == [o.base EXCEPT !.rev = o.fresh]

(* The changed records go over the stored ones; the sentinel lists those   *)
(* of the snapshot the operation read.                                     *)
Write(o) ==
    /\ meta'     = NextMeta(o)
    /\ rows'     = Written(rows, o)
    /\ manifest' = Written(o.seen, o)

ReplaceDatabase(m, f) == meta' = m /\ rows' = f /\ manifest' = f

(* The records of a backup, encrypted anew: all there can be.              *)
Backup(o) == [r \in Records |-> o.fresh]

-----------------------------------------------------------------------------
(* Creating a workspace, and importing one over another.                   *)

BeginCreate(t) ==
    /\ phase[t] = "empty" /\ Free(t)
    /\ \/ /\ meta = NoMeta
          /\ op' = [op EXCEPT ![t] =
                [NoOp EXCEPT !.kind = "create", !.fresh = fresh + 1]]
          /\ fresh' = fresh + 1
          /\ UNCHANGED <<database, phase, held, read, channel>>
       \/ meta # NoMeta /\ Boundary(t)
    /\ UNCHANGED <<hint, signal, egress>>

(* initializeVault, or replaceVault where it expects no workspace: the     *)
(* records are none or those of a backup.  The tab then holds it open.     *)
CommitCreate(t) ==
    /\ op[t].kind = "create"
    /\ \/ /\ meta = NoMeta
          /\ LET m == NewVault(op[t].fresh) IN
                /\ \E f \in {NoRows, Backup(op[t])} : ReplaceDatabase(m, f)
                /\ Clear(t, "unlocked", m)
                /\ Broadcast(t, "lock", m.vault)
          /\ UNCHANGED fresh
       \/ meta # NoMeta /\ Boundary(t)
    /\ UNCHANGED <<hint, signal, egress>>

(* An open workspace is imported over as the tab knows it, another as it   *)
(* is stored now.                                                          *)
BeginImport(t) ==
    /\ phase[t] \in {"locked", "unlocked"} /\ Free(t)
    /\ \/ /\ ~meta.deleting
          /\ op' = [op EXCEPT ![t] =
                [NoOp EXCEPT !.kind = "import", !.fresh = fresh + 1,
                    !.base = IF phase[t] = "unlocked" THEN held[t] ELSE meta]]
          /\ fresh' = fresh + 1
          /\ UNCHANGED <<database, phase, held, read, channel>>
       \/ meta.deleting /\ Boundary(t)
    /\ UNCHANGED <<hint, signal, egress>>

(* replaceVault where it expects the workspace that was there.             *)
CommitImport(t) ==
    /\ op[t].kind = "import"
    /\ \/ /\ MayReplace(op[t].base)
          /\ LET m == NewVault(op[t].fresh) IN
                /\ ReplaceDatabase(m, Backup(op[t]))
                /\ Clear(t, "unlocked", m)
                /\ Broadcast(t, "lock", m.vault)
          /\ UNCHANGED fresh
       \/ ~MayReplace(op[t].base) /\ Boundary(t)
    /\ UNCHANGED <<hint, signal, egress>>

-----------------------------------------------------------------------------
(* Unlocking: derive the key, decrypt, and read the metadata once more.    *)

BeginUnlock(t) ==
    /\ phase[t] = "locked" /\ op[t] = NoOp /\ Quiet(t)
    /\ \/ /\ PhaseOf(meta) = "locked"
          /\ Show(t, "unlocking", meta)
          /\ op' = [op EXCEPT ![t] =
                [NoOp EXCEPT !.kind = "unlock", !.step = "decrypt", !.base = meta]]
          /\ read' = [read EXCEPT ![t] = NoRead]
          /\ UNCHANGED <<database, fresh, channel>>
       \/ PhaseOf(meta) # "locked" /\ Boundary(t)
    /\ UNCHANGED <<hint, signal, egress>>

RecheckUnlock(t) ==
    /\ op[t].kind = "unlock" /\ op[t].step = "decrypt"
    /\ \/ /\ Matches(op[t].base)
          /\ op' = [op EXCEPT ![t].step = "accept"]
          /\ UNCHANGED <<database, fresh, phase, held, read, channel>>
       \/ ~Matches(op[t].base) /\ Boundary(t)
    /\ UNCHANGED <<hint, signal, egress>>

(* A wrong passphrase.                                                     *)
RejectUnlock(t) ==
    /\ op[t].kind = "unlock" /\ op[t].step = "decrypt"
    /\ Clear(t, "locked", op[t].base)
    /\ UNCHANGED <<database, fresh, hint, signal, channel, egress>>

AcceptUnlock(t) ==
    /\ op[t].kind = "unlock" /\ op[t].step = "accept"
    /\ Clear(t, "unlocked", op[t].base)
    /\ UNCHANGED <<database, fresh, hint, signal, channel, egress>>

-----------------------------------------------------------------------------
(* Writes of an open workspace: save or remove a record, or wrap the key   *)
(* anew under another passphrase.  Recovery wraps the key of a locked one. *)

SnapshotOp(t, kind, r, base) ==
    [kind |-> kind, step |-> "write", base |-> base, fresh |-> fresh + 1,
     record |-> r, seen |-> rows]

BeginWrite(t) ==
    /\ phase[t] \in {"unlocked", "locked"} /\ Free(t)
    /\ LET base == IF phase[t] = "unlocked" THEN held[t] ELSE meta IN
          \/ /\ Matches(base)
             /\ \E kind \in {"save", "remove", "rewrap"} :
                \E r \in Records \cup {Nothing} :
                   /\ (kind = "rewrap") <=> (r = Nothing)
                   /\ kind = "remove" => rows[r] # 0
                   /\ phase[t] = "locked" => kind = "rewrap"
                   /\ op' = [op EXCEPT ![t] = SnapshotOp(t, kind, r, base)]
             /\ fresh' = fresh + 1
             /\ UNCHANGED <<database, phase, held, read, channel>>
          \/ ~Matches(base) /\ Boundary(t)
    /\ UNCHANGED <<hint, signal, egress>>

(* The transaction, and what the tab makes of its outcome.                 *)
CommitWrite(t) ==
    /\ op[t].kind \in {"save", "remove", "rewrap"}
    /\ \/ /\ Matches(op[t].base)
          /\ Write(op[t])
          /\ Clear(t, "unlocked", NextMeta(op[t]))
          /\ Broadcast(t, "lock", meta.vault)
          /\ removed' = IF op[t].kind = "remove"
                        THEN removed \cup {op[t].record} ELSE removed
          /\ UNCHANGED fresh
       \/ ~Matches(op[t].base) /\ Boundary(t) /\ UNCHANGED removed
    /\ UNCHANGED <<hint, signal, sent>>

-----------------------------------------------------------------------------
(* A request that leaves the browser: save the approval, compare the       *)
(* stored revisions, send once, and save how it ended.                     *)

BugBeginEgress(t) ==
    /\ phase[t] = "unlocked" /\ Free(t)
    /\ \/ /\ Matches(held[t])
          /\ \E r \in Records :
                /\ rows[r] = 0 /\ r \notin removed
                /\ op' = [op EXCEPT ![t] = [SnapshotOp(t, "egress", r, held[t])
                              EXCEPT !.step = "check"]]
          /\ fresh' = fresh + 1
          /\ UNCHANGED <<database, phase, held, read, channel>>
       \/ ~Matches(held[t]) /\ Boundary(t)
    /\ UNCHANGED <<hint, signal, egress>>

BeginEgress(t) ==
    /\ phase[t] = "unlocked" /\ Free(t)
    /\ \/ /\ Matches(held[t])
          /\ \E r \in Records :
                /\ rows[r] = 0 /\ r \notin removed
                /\ op' = [op EXCEPT ![t] = SnapshotOp(t, "egress", r, held[t])]
          /\ fresh' = fresh + 1
          /\ UNCHANGED <<database, phase, held, read, channel>>
       \/ ~Matches(held[t]) /\ Boundary(t)
    /\ UNCHANGED <<hint, signal, egress>>

CommitApproval(t) ==
    /\ op[t].kind = "egress" /\ op[t].step = "write"
    /\ \/ /\ Matches(op[t].base)
          /\ Write(op[t])
          /\ Show(t, "unlocked", NextMeta(op[t]))
          /\ op' = [op EXCEPT ![t] = [@ EXCEPT !.step = "check",
                                !.base = NextMeta(op[t]), !.seen = NoRows]]
          /\ read' = [read EXCEPT ![t] = NoRead]
          /\ Broadcast(t, "lock", meta.vault)
          /\ UNCHANGED fresh
       \/ ~Matches(op[t].base) /\ Boundary(t)
    /\ UNCHANGED <<hint, signal, egress>>

(* assertStoredWorkspaceRevision.                                          *)
VerifyStored(t) ==
    /\ op[t].kind = "egress" /\ op[t].step = "check"
    /\ \/ /\ Matches(op[t].base)
          /\ op' = [op EXCEPT ![t].step = "send"]
          /\ UNCHANGED <<database, fresh, phase, held, read, channel>>
       \/ ~Matches(op[t].base) /\ Boundary(t)
    /\ UNCHANGED <<hint, signal, egress>>

Send(t) ==
    /\ op[t].kind = "egress" /\ op[t].step = "send"
    /\ op' = [op EXCEPT ![t].step = "answer"]
    /\ sent' = sent \cup {[record |-> op[t].record, vault |-> op[t].base.vault]}
    /\ UNCHANGED <<database, fresh, phase, held, read, hint, signal, channel, removed>>

(* The answer arrives or fails; saving the outcome reads a new snapshot.   *)
BeginOutcome(t) ==
    /\ op[t].kind = "egress" /\ op[t].step = "answer"
    /\ \/ /\ Matches(op[t].base) /\ fresh < MaxFresh
          /\ op' = [op EXCEPT ![t] = [@ EXCEPT !.step = "outcome",
                                !.seen = rows, !.fresh = fresh + 1]]
          /\ fresh' = fresh + 1
          /\ UNCHANGED <<database, phase, held, read, channel>>
       \/ ~Matches(op[t].base) /\ Boundary(t)
    /\ UNCHANGED <<hint, signal, egress>>

CommitOutcome(t) ==
    /\ op[t].kind = "egress" /\ op[t].step = "outcome"
    /\ \/ /\ Matches(op[t].base)
          /\ Write(op[t])
          /\ Clear(t, "unlocked", NextMeta(op[t]))
          /\ Broadcast(t, "lock", meta.vault)
          /\ UNCHANGED fresh
       \/ ~Matches(op[t].base) /\ Boundary(t)
    /\ UNCHANGED <<hint, signal, egress>>

-----------------------------------------------------------------------------
(* Locking.                                                                *)

(* lockImmediately: the tab hides its state first, and writes afterwards.  *)
Lock(t) ==
    /\ phase[t] = "unlocked" /\ Quiet(t) /\ fresh < MaxFresh
    /\ Show(t, "locking", held[t])
    /\ op'     = [op EXCEPT ![t] = NoOp]
    /\ read'   = [read EXCEPT ![t] = [of |-> "signal", meta |-> NoMeta]]
    /\ signal' = [signal EXCEPT ![t] =
            [kind |-> "lock", vault |-> held[t].vault, fresh |-> fresh + 1]]
    /\ fresh'  = fresh + 1
    /\ Broadcast(t, "lock", held[t].vault)
    /\ UNCHANGED <<database, hint, egress>>

(* The page is hidden while no workspace is open, and cancels what it did. *)
Hide(t) ==
    /\ phase[t] \in {"unlocking", "locked", "empty"} /\ op[t] # NoOp
    /\ Clear(t, IF phase[t] = "unlocking" THEN "locked" ELSE phase[t], held[t])
    /\ UNCHANGED <<database, fresh, hint, signal, channel, egress>>

(* The operation fails in itself, without a conflict: the store is full or *)
(* the records refused.  A purchase decision ends here too, as it keeps no *)
(* outcome of the request it sent.                                         *)
GiveUp(t) ==
    /\ op[t].kind \notin {"none", "unlock"}
    /\ op' = [op EXCEPT ![t] = NoOp]
    /\ UNCHANGED <<database, fresh, phase, held, read, hint, signal, channel, egress>>

BugSignalled(n) == [meta EXCEPT !.coord = n, !.deleting = FALSE]

(* signalVaultLock compares the identifier only.                           *)
Signalled(n) == [meta EXCEPT !.coord = n]

CommitLock(t) ==
    /\ signal[t].kind = "lock"
    /\ signal' = [signal EXCEPT ![t] = NoSignal]
    /\ meta' = IF meta # NoMeta /\ meta.vault = signal[t].vault
               THEN Signalled(signal[t].fresh) ELSE meta
    /\ IF read[t].of = "signal"
       THEN /\ Show(t, PhaseOf(meta'), meta')
            /\ read' = [read EXCEPT ![t] = NoRead]
       ELSE UNCHANGED <<phase, held, read>>
    /\ UNCHANGED <<rows, manifest, fresh, op, hint, channel, egress>>

(* lockFromOutside: the state is hidden, and the metadata read.            *)
LockFromOutside(t) ==
    /\ Show(t, "locking", held[t])
    /\ op'   = [op EXCEPT ![t] = NoOp]
    /\ read' = [read EXCEPT ![t] = [of |-> "lock", meta |-> NoMeta]]

(* The account session ends in this document.  It takes a login to end     *)
(* again, which outlasts the read the first end started.                   *)
SessionEnds(t) ==
    /\ phase[t] \in {"unlocked", "locked", "unlocking", "locking"}
    /\ read[t].of # "lock"
    /\ LockFromOutside(t)
    /\ UNCHANGED <<database, fresh, hint, signal, channel, egress>>

(* lockVaultForSessionEnd: the durable lock that follows, written by the   *)
(* document the session ended in, which need not show the workspace.       *)
SessionLock ==
    /\ meta # NoMeta /\ fresh < MaxFresh
    /\ meta' = Signalled(fresh + 1)
    /\ fresh' = fresh + 1
    /\ Tell(Tabs, "lock", meta.vault)
    /\ UNCHANGED <<rows, manifest, phase, held, op, read, hint, signal, egress>>

-----------------------------------------------------------------------------
(* Deleting.                                                               *)

BeginDestroy(t) ==
    /\ phase[t] \in {"unlocked", "locked"} /\ Quiet(t) /\ fresh < MaxFresh
    /\ LET m == IF phase[t] = "unlocked" THEN held[t] ELSE meta IN
          \/ /\ m # NoMeta
             /\ Clear(t, "deleting", m)
             /\ signal' = [signal EXCEPT ![t] =
                    [kind |-> "mark", vault |-> m.vault, fresh |-> fresh + 1]]
             /\ fresh' = fresh + 1
          \/ m = NoMeta /\ Clear(t, "empty", NoMeta) /\ UNCHANGED <<signal, fresh>>
    /\ UNCHANGED <<database, hint, channel, egress>>

(* markVaultDeleting; the screen is set whatever the tab shows by now.     *)
CommitMark(t) ==
    /\ signal[t].kind = "mark"
    /\ signal' = [signal EXCEPT ![t] = NoSignal]
    /\ \/ /\ meta # NoMeta /\ meta.vault = signal[t].vault
          /\ meta' = [meta EXCEPT !.coord = signal[t].fresh, !.deleting = TRUE]
          /\ Show(t, "deleting", meta')
          /\ read' = [read EXCEPT ![t] = NoRead]
          /\ Broadcast(t, "deleting", meta.vault)
          /\ UNCHANGED op
       \/ /\ meta = NoMeta \/ meta.vault # signal[t].vault
          /\ Clear(t, IF meta = NoMeta THEN "empty" ELSE "locked", meta)
          /\ UNCHANGED <<meta, channel>>
    /\ UNCHANGED <<rows, manifest, fresh, hint, egress>>

(* Every tab whose screen says deletion is pending asks for the deletion   *)
(* of the database.  Tabs that watch the database are told before it goes. *)
DeleteDatabase(t) ==
    /\ phase[t] = "deleting" /\ held[t].deleting /\ Quiet(t)
    /\ ReplaceDatabase(NoMeta, NoRows)
    /\ \E W \in SUBSET {u \in Others(t) : phase[u] \in {"unlocked", "locked"}} :
          /\ phase' = [u \in Tabs |-> IF u = t THEN "empty"
                                      ELSE IF u \in W THEN "deleting" ELSE phase[u]]
          /\ op'    = [u \in Tabs |-> IF u \in W \cup {t} THEN NoOp ELSE op[u]]
          /\ read'  = [u \in Tabs |-> IF u \in W \cup {t} THEN NoRead ELSE read[u]]
    /\ held' = [held EXCEPT ![t] = NoMeta]
    /\ UNCHANGED <<fresh, hint, signal, channel, egress>>

-----------------------------------------------------------------------------
(* Learning what other documents did.                                      *)

(* A read that shows nothing new has no effect.                            *)
Stale(t, m) ==
    CASE phase[t] = "empty"    -> m # NoMeta /\ op[t] = NoOp
      [] phase[t] = "deleting" -> m = NoMeta \/ (m.deleting /\ m # held[t])
      [] OTHER                 -> m # held[t] \/ m.deleting

(* The poll of a screen: every 2 seconds, or every 500 ms while deleting.  *)
Poll(t) ==
    /\ phase[t] \notin {"locking", "closed"} /\ read[t] = NoRead /\ Quiet(t)
    /\ Stale(t, meta)
    /\ read' = [read EXCEPT ![t] = [of |-> "poll", meta |-> meta]]
    /\ UNCHANGED <<database, fresh, phase, held, op, hint, signal, channel, egress>>

BugApplyPoll(t) ==
    /\ read[t].of = "poll"
    /\ read' = [read EXCEPT ![t] = NoRead]
    /\ IF Stale(t, read[t].meta) /\ op[t] = NoOp /\ phase[t] # "unlocked"
       THEN /\ Show(t, PhaseOf(read[t].meta), read[t].meta)
            /\ op' = [op EXCEPT ![t] = NoOp]
       ELSE UNCHANGED <<phase, held, op>>
    /\ UNCHANGED <<database, fresh, hint, signal, channel, egress>>

ApplyPoll(t) ==
    /\ read[t].of = "poll"
    /\ read' = [read EXCEPT ![t] = NoRead]
    /\ IF Stale(t, read[t].meta)
       THEN /\ Show(t, PhaseOf(read[t].meta), read[t].meta)
            /\ op' = [op EXCEPT ![t] = NoOp]
       ELSE UNCHANGED <<phase, held, op>>
    /\ UNCHANGED <<database, fresh, hint, signal, channel, egress>>

(* The read of lockFromOutside is shown at once: an older screen would be  *)
(* one a poll finds stale, like any other.                                 *)
ShowStored(t) ==
    /\ read[t].of = "lock" /\ Quiet(t)
    /\ read' = [read EXCEPT ![t] = NoRead]
    /\ Show(t, PhaseOf(meta), meta)
    /\ UNCHANGED <<database, fresh, op, hint, signal, channel, egress>>

(* handleCoordinationMessage.  A message about another workspace than the  *)
(* one of the screen is ignored.                                           *)
Receive(t) ==
    /\ channel[t] # NoMessage
    /\ channel' = [channel EXCEPT ![t] = NoMessage]
    /\ LET m     == channel[t]
           known == phase[t] # "empty" /\ held[t].vault = m.vault IN
          \/ /\ \/ phase[t] = "empty"
                \/ known /\ m.type = "deleting"
             /\ Quiet(t) /\ hint[t] = NoMeta
             /\ IF /\ meta.vault = m.vault
                   /\ phase[t] # "empty" => meta.deleting
                THEN hint' = [hint EXCEPT ![t] = meta]
                ELSE UNCHANGED hint
             /\ UNCHANGED <<phase, held, op, read>>
          \/ /\ known /\ m.type # "deleting"
             /\ LockFromOutside(t) /\ UNCHANGED hint
          \/ /\ phase[t] # "empty" /\ ~known
             /\ UNCHANGED <<phase, held, op, read, hint>>
    /\ UNCHANGED <<database, fresh, signal, egress>>

(* The read a message started is shown; no session boundary drops it.      *)
ApplyHint(t) ==
    /\ hint[t] # NoMeta
    /\ hint' = [hint EXCEPT ![t] = NoMeta]
    /\ Clear(t, PhaseOf(hint[t]), hint[t])
    /\ UNCHANGED <<database, fresh, signal, channel, egress>>

(* The tab crashes or is left: for good, or to start again from what is    *)
(* stored, bootstrapWorkspace.                                             *)
Restart(t, p, m) ==
    /\ phase[t] # "closed"
    /\ Clear(t, p, m)
    /\ hint'    = [hint EXCEPT ![t] = NoMeta]
    /\ signal'  = [signal EXCEPT ![t] = NoSignal]
    /\ channel' = [channel EXCEPT ![t] = NoMessage]
    /\ UNCHANGED <<database, fresh, egress>>

Close(t)  == Restart(t, "closed", NoMeta)
Reload(t) == Restart(t, PhaseOf(meta), meta)

-----------------------------------------------------------------------------
Work(t) ==
    \/ BeginCreate(t) \/ CommitCreate(t) \/ BeginImport(t) \/ CommitImport(t)
    \/ BeginUnlock(t) \/ RecheckUnlock(t) \/ RejectUnlock(t) \/ AcceptUnlock(t)
    \/ BeginWrite(t) \/ CommitWrite(t)
    \/ BeginEgress(t) \/ CommitApproval(t) \/ VerifyStored(t) \/ Send(t)
    \/ BeginOutcome(t) \/ CommitOutcome(t)

Leave(t) ==
    \/ Lock(t) \/ Hide(t) \/ GiveUp(t) \/ CommitLock(t) \/ SessionEnds(t)
    \/ BeginDestroy(t) \/ CommitMark(t) \/ DeleteDatabase(t) \/ Close(t) \/ Reload(t)

Learn(t) ==
    \/ Poll(t) \/ ApplyPoll(t) \/ ShowStored(t)
    \/ Receive(t) \/ ApplyHint(t)

Next ==
    \/ \E t \in Tabs : Work(t) \/ Leave(t) \/ Learn(t)
    \/ SessionLock

(* The browser runs the timers of an open tab and finishes transactions.   *)
Fairness ==
    \A t \in Tabs :
        /\ WF_vars(Poll(t)) /\ WF_vars(ApplyPoll(t))
        /\ WF_vars(ShowStored(t)) /\ WF_vars(CommitLock(t))
        /\ WF_vars(CommitMark(t)) /\ WF_vars(CommitCreate(t))
        /\ WF_vars(DeleteDatabase(t))

Safety == Init /\ [][Next]_vars
Spec   == Safety /\ Fairness

-----------------------------------------------------------------------------
(* Properties.                                                             *)

Version  == 0 .. MaxFresh
Metas    == [vault : Version, rev : Version, coord : Version, deleting : BOOLEAN]
Phases   == {"empty", "locked", "unlocking", "unlocked", "locking", "deleting",
             "closed"}
Types    == {"none", "lock", "deleting"}

(* Types, and that only a tab holding metadata shows a workspace.          *)
TypeOK ==
    /\ meta \in Metas
    /\ rows \in [Records -> Version] /\ manifest \in [Records -> Version]
    /\ fresh \in Version
    /\ phase \in [Tabs -> Phases] /\ held \in [Tabs -> Metas]
    /\ op \in [Tabs -> [kind : {"none", "create", "import", "unlock", "save",
                                "remove", "rewrap", "egress"},
                        step : {"none", "decrypt", "accept", "write", "check",
                                "send", "answer", "outcome"},
                        base : Metas, fresh : Version,
                        record : Records \cup {Nothing},
                        seen : [Records -> Version]]]
    /\ read \in [Tabs -> [of : {"none", "poll", "signal", "lock"},
                          meta : Metas]]
    /\ hint \in [Tabs -> Metas]
    /\ signal \in [Tabs -> [kind : {"none", "lock", "mark"},
                            vault : Version, fresh : Version]]
    /\ channel \in [Tabs -> [type : Types, vault : Version]]
    /\ sent \subseteq [record : Records, vault : Version]
    /\ removed \subseteq Records

(* The encrypted sentinel authenticates exactly the records that are       *)
(* stored, whichever tabs wrote them in whatever order: saveWorkspace-     *)
(* Records builds it from a snapshot read long before its transaction.     *)
(* Were they to differ, no passphrase would open the workspace again.      *)
ManifestMatches == manifest = rows

(* No request is sent without its approval in the stored workspace: as     *)
(* long as that workspace exists, whatever other tabs save in between, the *)
(* approval is there until the user removes it.                            *)
ApprovedBeforeSent ==
    \A s \in sent :
        meta.vault = s.vault => rows[s.record] # 0 \/ s.record \in removed

(* A write never moves the lock: every write stores the metadata its tab   *)
(* holds, coordination revision included, and still never puts back one    *)
(* that another document replaced to lock the workspace.                   *)
WriteKeepsLock ==
    [][meta'.vault = meta.vault /\ meta'.rev # meta.rev =>
            meta'.coord = meta.coord /\ meta'.deleting = meta.deleting]_vars

(* A deletion mark is final: until the database goes, no record, revision  *)
(* or identifier changes and the mark stays, whatever saves, imports and   *)
(* lock signals are under way in any tab.                                  *)
MarkIsFinal ==
    [][meta.deleting =>
        \/ meta' = NoMeta
        \/ /\ meta'.deleting /\ meta'.vault = meta.vault
           /\ meta'.rev = meta.rev /\ rows' = rows]_vars

(* A marked workspace is deleted in the end.  The tab that marked it may   *)
(* be gone and every message lost: any tab that is left finds the mark,    *)
(* closes its workspace and resumes the deletion.                          *)
MarkedGoes ==
    meta.deleting ~> (meta = NoMeta \/ \A t \in Tabs : phase[t] = "closed")

=============================================================================
