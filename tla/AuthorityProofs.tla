-------------------------- MODULE AuthorityProofs --------------------------
(***************************************************************************)
(* Proofs about Authority, for any number of requests, members, credentials*)
(* and sessions.                                                           *)
(*                                                                         *)
(* The invariant says of every transaction under way what its look-up left *)
(* it with (Bound), that it holds what comes before any row it holds       *)
(* (Closed), and that what was judged of a row when it was locked is still *)
(* so (Sound).  The last is kept since whoever changes a row's judgement   *)
(* holds that row, or one its holder must have locked before.              *)
(***************************************************************************)
EXTENDS Authority, WellFoundedInduction, TLAPS

ByMachine == {"exchange", "use"}
Backed    == ByMachine \cup {"open"}

Bound(q) ==
    /\ q.kind \in Kinds
    /\ q.kind = "none" => q = Idle
    /\ IF q.kind \in ByHuman \cup ByMachine THEN q.human \in Humans ELSE q.human = Nobody
    /\ q.kind # "none" => q.target \in Accounts
    /\ q.kind \in Backed \cup {"revokeCredential"} =>
          q.credential \in Credentials /\ credential[q.credential].status # "none"
    /\ q.kind \in Backed => credential[q.credential].issuer = q.target
    /\ q.kind \notin Backed \cup {"revokeCredential"} => q.credential = Nobody
    /\ IF q.kind \in ByMachine
       THEN /\ q.machine \in Machines /\ machine[q.machine].status # "none"
            /\ machine[q.machine].credential = q.credential
       ELSE q.machine = Nobody
    /\ q.kind \in ByMachine \cup {"revoke"} => q.commerce \in Commerce

Closed(q) ==
    /\ q.held \subseteq Rows(q)
    /\ \A row \in q.held, x \in Rows(q) : Before(q, x, row) => x \in q.held

Sound(q) ==
    /\ Bound(q) /\ Closed(q)
    /\ \A row \in q.held : Judged(q, row)

(* Rows that name others name rows that were made.                         *)
Known ==
    /\ \A c \in Credentials : credential[c].status # "none" => credential[c].issuer \in Accounts
    /\ \A m \in Machines :
          IF machine[m].status = "none" THEN machine[m].credential = Nobody
          ELSE machine[m].credential \in Credentials /\ credential[machine[m].credential].status # "none"
    /\ \A x \in Commerce : commerce[x].machine # Nobody => machine[commerce[x].machine].status # "none"

Apart == \A r, s \in Requests : r # s => req[r].held \cap req[s].held = {}

Counted == \A x \in Commerce : tokens[x] = IF commerce[x].machine = Nobody THEN 0 ELSE 1

Inv ==
    /\ TypeOK /\ Known /\ Apart /\ Counted /\ OwnersRemain
    /\ \A r \in Requests : Sound(req[r])

-----------------------------------------------------------------------------
(* Rows and their order.                                                   *)

LEMMA Names ==
    ASSUME NEW a, NEW h, NEW c, NEW m
    PROVE  /\ Account(a)[1] = "account" /\ Account(a)[2] = a
           /\ Session(h)[1] = "session" /\ Session(h)[2] = h
           /\ Organization[1] = "organization"
           /\ Credential(c)[1] = "credential" /\ Credential(c)[2] = c
           /\ Machine(m)[1] = "machine" /\ Machine(m)[2] = m
BY DEF Account, Session, Organization, Credential, Machine

LEMMA Levels ==
    ASSUME NEW q, NEW a, NEW h, NEW c, NEW m
    PROVE  /\ Level(q, Account(a)) = 0
           /\ Level(q, Session(h)) = IF q.kind = "exchange" THEN 3 ELSE 1
           /\ Level(q, Organization) = IF q.kind = "exchange" THEN 4 ELSE 2
           /\ Level(q, Credential(c)) = IF q.kind = "exchange" THEN 1 ELSE 3
           /\ Level(q, Machine(m)) = IF q.kind = "exchange" THEN 2 ELSE 4
BY Names DEF Level

LEMMA RowsAre ==
    ASSUME NEW q, NEW row \in Rows(q)
    PROVE  \/ row = Account(q.target)
           \/ q.human # Nobody /\ row = Account(AccountOf[q.human])
           \/ q.human # Nobody /\ row = Session(q.human)
           \/ row = Organization
           \/ q.credential # Nobody /\ row = Credential(q.credential)
           \/ q.machine # Nobody /\ row = Machine(q.machine)
BY DEF Rows

LEMMA RowsHave ==
    ASSUME NEW q
    PROVE  /\ Account(q.target) \in Rows(q) /\ Organization \in Rows(q)
           /\ q.human # Nobody => /\ Account(AccountOf[q.human]) \in Rows(q)
                                  /\ Session(q.human) \in Rows(q)
           /\ q.credential # Nobody => Credential(q.credential) \in Rows(q)
           /\ q.machine # Nobody => Machine(q.machine) \in Rows(q)
BY DEF Rows

(* What a transaction that holds a row holds as well.                      *)
LEMMA HeldWith ==
    ASSUME NEW q, Closed(q), Bound(q), NEW h, NEW c, NEW m
    PROVE  /\ Session(h) \in q.held =>
                 h = q.human /\ h \in Humans /\ Account(AccountOf[h]) \in q.held
           /\ Credential(c) \in q.held =>
                 /\ c = q.credential /\ q.kind \in Backed \cup {"revokeCredential"}
                 /\ q.kind \in Backed => Account(q.target) \in q.held
                 /\ q.kind # "exchange" => Organization \in q.held
           /\ Machine(m) \in q.held =>
                 /\ m = q.machine /\ q.kind \in ByMachine
                 /\ Credential(q.credential) \in q.held
                 /\ q.kind = "use" => Organization \in q.held
<1>0. /\ \A x : Nobody # x \/ x \notin Humans \cup Credentials \cup Machines
      /\ \A x \in q.held : x \in Rows(q)
      BY AuthorityAssumption DEF Closed
<1>1. \A row \in q.held, x \in Rows(q) : Level(q, x) < Level(q, row) => x \in q.held
      BY Levels, RowsAre DEF Closed, Before
<1>2. ASSUME Session(h) \in q.held
      PROVE  h = q.human /\ h \in Humans /\ Account(AccountOf[h]) \in q.held
  <2>1. q.human # Nobody /\ h = q.human
        BY <1>0, <1>2, RowsAre, Names
  <2>2. h \in Humans BY <2>1 DEF Bound
  <2>3. Account(AccountOf[h]) \in Rows(q) BY <2>1, RowsHave
  <2> QED BY <1>1, <1>2, <2>1, <2>2, <2>3, Levels
<1>3. ASSUME Credential(c) \in q.held
      PROVE  /\ c = q.credential /\ q.kind \in Backed \cup {"revokeCredential"}
             /\ q.kind \in Backed => Account(q.target) \in q.held
             /\ q.kind # "exchange" => Organization \in q.held
  <2>1. q.credential # Nobody /\ c = q.credential
        BY <1>0, <1>3, RowsAre, Names
  <2>2. q.kind \in Backed \cup {"revokeCredential"} BY <2>1 DEF Bound
  <2> QED BY <1>1, <1>3, <2>1, <2>2, RowsHave, Levels
<1>4. ASSUME Machine(m) \in q.held
      PROVE  /\ m = q.machine /\ q.kind \in ByMachine
             /\ Credential(q.credential) \in q.held
             /\ q.kind = "use" => Organization \in q.held
  <2>1. q.machine # Nobody /\ m = q.machine
        BY <1>0, <1>4, RowsAre, Names
  <2>2. q.kind \in ByMachine /\ q.credential \in Credentials BY <2>1 DEF Bound, Backed
  <2>3. q.credential # Nobody BY <2>2, AuthorityAssumption
  <2>4. Credential(q.credential) \in q.held
        BY <1>1, <1>4, <2>1, <2>2, <2>3, RowsHave, Levels DEF ByMachine
  <2>5. q.kind = "use" => Organization \in q.held
        BY <1>1, <1>4, <2>1, RowsHave, Levels
  <2> QED BY <2>1, <2>2, <2>4, <2>5
<1> QED BY <1>2, <1>3, <1>4

-----------------------------------------------------------------------------
(* What is judged of each row.                                             *)

LEMMA Judgements ==
    ASSUME NEW q, NEW a, NEW h, NEW c, NEW m
    PROVE  /\ Judged(q, Account(a))
           /\ Judged(q, Session(h)) <=> human[h] = "live"
           /\ Judged(q, Organization) <=> Admitted(q)
           /\ Judged(q, Credential(c)) <=>
                 (q.kind # "revokeCredential" => credential[c].status = "live")
           /\ Judged(q, Machine(m)) <=>
                 /\ machine[m].status = "live"
                 /\ q.kind = "use" => ~commerce[q.commerce].revoked /\ "policy" \in up
<1> DEFINE A == Account(a)  S == Session(h)  O == Organization  C == Credential(c)  M == Machine(m)
<1>1. A[1] = "account" /\ S[1] = "session" /\ O[1] = "organization" /\ C[1] = "credential"
      /\ M[1] = "machine" /\ S[2] = h /\ C[2] = c /\ M[2] = m
      BY Names
<1> HIDE DEF A, S, O, C, M
<1>2. Judged(q, A) BY <1>1 DEF Judged
<1>3. Judged(q, S) <=> human[h] = "live" BY <1>1 DEF Judged
<1>4. Judged(q, O) <=> Admitted(q) BY <1>1 DEF Judged
<1>5. Judged(q, C) <=> (q.kind # "revokeCredential" => credential[c].status = "live")
      BY <1>1 DEF Judged
<1>6. Judged(q, M) <=> /\ machine[m].status = "live"
                       /\ q.kind = "use" => ~commerce[q.commerce].revoked /\ "policy" \in up
      BY <1>1 DEF Judged
<1> QED BY <1>2, <1>3, <1>4, <1>5, <1>6 DEF A, S, O, C, M

LEMMA JudgementsNext ==
    ASSUME NEW q, NEW a, NEW h, NEW c, NEW m
    PROVE  /\ Judged(q, Account(a))'
           /\ Judged(q, Session(h))' <=> human'[h] = "live"
           /\ Judged(q, Organization)' <=> Admitted(q)'
           /\ Judged(q, Credential(c))' <=>
                 (q.kind # "revokeCredential" => credential'[c].status = "live")
           /\ Judged(q, Machine(m))' <=>
                 /\ machine'[m].status = "live"
                 /\ q.kind = "use" => ~commerce'[q.commerce].revoked /\ "policy" \in up'
<1> DEFINE A == Account(a)  S == Session(h)  O == Organization  C == Credential(c)  M == Machine(m)
<1>1. A[1] = "account" /\ S[1] = "session" /\ O[1] = "organization" /\ C[1] = "credential"
      /\ M[1] = "machine" /\ S[2] = h /\ C[2] = c /\ M[2] = m
      BY Names
<1> HIDE DEF A, S, O, C, M
<1>2. Judged(q, A)' BY <1>1 DEF Judged
<1>3. Judged(q, S)' <=> human'[h] = "live" BY <1>1 DEF Judged
<1>4. Judged(q, O)' <=> Admitted(q)' BY <1>1 DEF Judged
<1>5. Judged(q, C)' <=> (q.kind # "revokeCredential" => credential'[c].status = "live")
      BY <1>1 DEF Judged
<1>6. Judged(q, M)' <=> /\ machine'[m].status = "live"
                        /\ q.kind = "use" => ~commerce'[q.commerce].revoked /\ "policy" \in up'
      BY <1>1 DEF Judged
<1> QED BY <1>2, <1>3, <1>4, <1>5, <1>6 DEF A, S, O, C, M

-----------------------------------------------------------------------------
(* What a step has to show.                                                *)

RowTypes ==
    /\ human \in [Humans -> {"none", "live", "gone"}]
    /\ member \in [Accounts -> Standing]
    /\ up \subseteq {"agent", "policy"}
    /\ credential \in [Credentials -> [status : States, issuer : Accounts \cup {0}]]
    /\ machine \in [Machines -> [status : States, credential : Credentials \cup {Nobody}]]
    /\ commerce \in [Commerce -> [parent : Humans \cup {Nobody},
                                  machine : Machines \cup {Nobody}, revoked : BOOLEAN]]
    /\ tokens \in [Commerce -> Nat]

Request == [kind : Kinds, human : Humans \cup {Nobody}, target : Accounts \cup {0},
            standing : Standing, credential : Credentials \cup {Nobody},
            machine : Machines \cup {Nobody}, commerce : Commerce \cup {Nobody},
            held : SUBSET Row]

LEMMA Types ==
    TypeOK <=> /\ RowTypes /\ req \in [Requests -> Request]
               /\ \A r \in Requests : req[r].held \subseteq Rows(req[r])
BY DEF TypeOK, RowTypes, Request

(* What was made stays made.                                               *)
Grows ==
    /\ \A c \in Credentials : credential[c].status # "none" =>
          credential'[c].status # "none" /\ credential'[c].issuer = credential[c].issuer
    /\ \A m \in Machines : machine[m].status # "none" =>
          machine'[m].status # "none" /\ machine'[m].credential = machine[m].credential

Advances == RowTypes' /\ Known' /\ Counted' /\ OwnersRemain' /\ Grows

Released == req' = req \/ \E r \in Requests : req' = [req EXCEPT ![r] = Idle]

Keeps ==
    \A s \in Requests : req'[s] = req[s] => \A row \in req[s].held : Judged(req[s], row)'

LEMMA IdleTyped == Idle \in Request /\ Sound(Idle) /\ Idle.held = {}
<1>1. NoStanding \in Standing BY DEF NoStanding, Standing
<1>2. Idle \in Request BY <1>1 DEF Idle, Request, Kinds
<1>3. Bound(Idle) BY DEF Idle, Bound, Kinds, ByHuman, ByMachine, Backed
<1>4. Idle.held = {} BY DEF Idle
<1> QED BY <1>2, <1>3, <1>4 DEF Sound, Closed

LEMMA SoundIdle == Sound(Idle)'
<1>1. Bound(Idle)' BY DEF Idle, Bound, Kinds, ByHuman, ByMachine, Backed
<1>2. Idle.held = {} BY DEF Idle
<1> QED BY <1>1, <1>2 DEF Sound, Closed

LEMMA BoundStays == ASSUME NEW q, Bound(q), Grows PROVE Bound(q)'
BY DEF Bound, Grows, Backed, ByMachine

LEMMA Settle ==
    ASSUME Inv, Advances, Released, Keeps
    PROVE  Inv'
<1>0. /\ RowTypes /\ req \in [Requests -> Request]
      /\ \A r \in Requests : req[r].held \subseteq Rows(req[r])
      BY Types DEF Inv
<1>1. /\ req' \in [Requests -> Request]
      /\ \A s \in Requests : req'[s] = req[s] \/ req'[s] = Idle
      BY <1>0, IdleTyped DEF Released
<1>2. \A s \in Requests : req'[s].held \subseteq Rows(req'[s])
      BY <1>0, <1>1, IdleTyped
<1>3. TypeOK' BY <1>1, <1>2 DEF Advances, TypeOK, RowTypes, Request
<1>4. Apart' BY <1>1, IdleTyped DEF Inv, Apart
<1>5. ASSUME NEW s \in Requests PROVE Sound(req[s])'
  <2>1. CASE req'[s] = Idle BY <2>1, SoundIdle
  <2>2. CASE req'[s] = req[s]
    <3>1. PICK q : q = req[s] OBVIOUS
    <3>2. q = req'[s] /\ Sound(q) BY <2>2, <3>1 DEF Inv
    <3>3. \A row \in q.held : Judged(q, row)' BY <2>2, <3>1, <3>2 DEF Keeps
    <3>4. Bound(q)' BY <3>2, BoundStays DEF Sound, Advances
    <3>5. Sound(q)' BY <3>2, <3>3, <3>4 DEF Sound
    <3> QED BY <3>2, <3>5
  <2> QED BY <1>1, <2>1, <2>2
<1> QED BY <1>3, <1>4, <1>5 DEF Inv, Advances

LEMMA KeepsRows ==
    ASSUME NEW q, Sound(q),
           \A h : Session(h) \in q.held /\ human[h] = "live" => human'[h] = "live",
           Organization \in q.held /\ Admitted(q) => Admitted(q)',
           \A c \in Credentials : Credential(c) \in q.held /\ credential[c].status = "live"
              /\ q.kind # "revokeCredential" => credential'[c].status = "live",
           \A m \in Machines : Machine(m) \in q.held /\ machine[m].status = "live" =>
              machine'[m].status = "live",
           \A m : Machine(m) \in q.held /\ q.kind = "use" /\ ~commerce[q.commerce].revoked
              /\ "policy" \in up => ~commerce'[q.commerce].revoked /\ "policy" \in up'
    PROVE  \A row \in q.held : Judged(q, row)'
<1> SUFFICES ASSUME NEW row \in q.held PROVE Judged(q, row)' OBVIOUS
<1>1. row \in Rows(q) /\ Judged(q, row) /\ Bound(q) BY DEF Sound, Closed
<1>2. CASE row = Account(q.target) BY <1>2, JudgementsNext
<1>3. CASE row = Account(AccountOf[q.human]) BY <1>3, JudgementsNext
<1>4. CASE row = Session(q.human)
  <2>1. human[q.human] = "live" BY <1>1, <1>4, Judgements
  <2> QED BY <1>4, <2>1, JudgementsNext
<1>5. CASE row = Organization
  <2>1. Admitted(q) BY <1>1, <1>5, Judgements
  <2> QED BY <1>5, <2>1, JudgementsNext
<1>6. CASE q.credential # Nobody /\ row = Credential(q.credential)
  <2>1. q.credential \in Credentials BY <1>1, <1>6 DEF Bound
  <2>2. q.kind # "revokeCredential" => credential[q.credential].status = "live"
        BY <1>1, <1>6, Judgements
  <2> QED BY <1>6, <2>1, <2>2, JudgementsNext
<1>7. CASE q.machine # Nobody /\ row = Machine(q.machine)
  <2>1. q.machine \in Machines BY <1>1, <1>7 DEF Bound
  <2>2. /\ machine[q.machine].status = "live"
        /\ q.kind = "use" => ~commerce[q.commerce].revoked /\ "policy" \in up
        BY <1>1, <1>7, Judgements
  <2> QED BY <1>7, <2>1, <2>2, JudgementsNext
<1> QED BY <1>1, <1>2, <1>3, <1>4, <1>5, <1>6, <1>7, RowsAre

LEMMA Exclusive ==
    ASSUME Inv, NEW r \in Requests, Ready(r), NEW s \in Requests, s # r,
           NEW row \in Rows(req[r])
    PROVE  row \notin req[s].held
BY DEF Inv, Apart, Ready

(* A request that is ready was admitted.                                   *)
LEMMA ReadyIs ==
    ASSUME Inv, NEW r \in Requests, Ready(r), NEW q, q = req[r]
    PROVE  /\ Bound(q) /\ q \in Request /\ q.held = Rows(q) /\ q.kind # "none"
           /\ Admitted(q)
           /\ q.human # Nobody => human[q.human] = "live"
           /\ q.kind \in Backed => credential[q.credential].status = "live"
           /\ q.kind \in ByMachine => machine[q.machine].status = "live"
           /\ q.kind = "use" => ~commerce[q.commerce].revoked /\ "policy" \in up
<1>1. Sound(q) /\ q \in Request /\ q.held = Rows(q) /\ q.kind # "none"
      BY Types DEF Inv, Ready
<1>2. Bound(q) /\ \A row \in Rows(q) : Judged(q, row) BY <1>1 DEF Sound
<1>3. Admitted(q) BY <1>2, RowsHave, Judgements
<1>4. q.human # Nobody => human[q.human] = "live" BY <1>2, RowsHave, Judgements
<1>5. q.kind \in Backed => credential[q.credential].status = "live"
  <2> SUFFICES ASSUME q.kind \in Backed PROVE credential[q.credential].status = "live" OBVIOUS
  <2>1. q.credential # Nobody /\ q.kind # "revokeCredential"
        BY <1>2, AuthorityAssumption DEF Bound, Backed, ByMachine
  <2> QED BY <1>2, <2>1, RowsHave, Judgements
<1>6. q.kind \in ByMachine =>
         /\ machine[q.machine].status = "live"
         /\ q.kind = "use" => ~commerce[q.commerce].revoked /\ "policy" \in up
  <2> SUFFICES ASSUME q.kind \in ByMachine
               PROVE  /\ machine[q.machine].status = "live"
                      /\ q.kind = "use" => ~commerce[q.commerce].revoked /\ "policy" \in up
      OBVIOUS
  <2>1. q.machine # Nobody BY <1>2, AuthorityAssumption DEF Bound
  <2> QED BY <1>2, <2>1, RowsHave, Judgements
<1> QED BY <1>1, <1>2, <1>3, <1>4, <1>5, <1>6 DEF ByMachine

(* What is judged under the organization, as long as nobody changes it.    *)
LEMMA AdmittedStays ==
    ASSUME NEW q, Admitted(q), Sound(q), Organization \in q.held,
           member' = member, up' = up,
           q.kind = "exchange" => /\ commerce'[q.commerce].machine = commerce[q.commerce].machine
                                  /\ commerce'[q.commerce].revoked = commerce[q.commerce].revoked
    PROVE  Admitted(q)'
<1>1. \A a : InOffice(a)' <=> InOffice(a) BY DEF InOffice
<1>2. OwnerLeft(q)' <=> OwnerLeft(q) BY DEF OwnerLeft
<1>3. CASE q.kind = "exchange" BY <1>1, <1>3 DEF Admitted, Actor
<1>4. CASE q.kind = "member" BY <1>2, <1>4 DEF Admitted, Actor
<1>5. CASE q.kind \in Kinds \ {"none", "exchange", "member"}
      BY <1>1, <1>5 DEF Admitted, Actor, Kinds, ByHuman
<1>6. q.kind \in Kinds \ {"none"} BY IdleTyped DEF Sound, Bound
<1> QED BY <1>3, <1>4, <1>5, <1>6

LEMMA Leaves ==
    ASSUME Inv, NEW r \in Requests, NEW kind, Commit(r, kind)
    PROVE  /\ Ready(r) /\ req[r].kind = kind /\ Released
           /\ \A s \in Requests : req'[s] = req[s] => s # r
<1>1. req'[r] = Idle BY Types DEF Inv, Commit
<1>2. req[r].kind # "none" /\ Idle.kind = "none" BY DEF Commit, Ready, Idle
<1> QED BY <1>1, <1>2 DEF Commit, Released

-----------------------------------------------------------------------------
(* The commits, one by one.                                                *)

LEMMA MemberStep ==
    ASSUME Inv, NEW r \in Requests, CommitMember(r)
    PROVE  Advances /\ Released /\ Keeps
<1> PICK q : q = req[r] OBVIOUS
<1>0. /\ Commit(r, "member") /\ Ready(r) /\ q.kind = "member" /\ Released
      /\ \A s \in Requests : req'[s] = req[s] => s # r
      BY Leaves DEF CommitMember
<1>1. /\ q \in Request /\ q.target \in Accounts /\ Admitted(q)
      /\ member' = [member EXCEPT ![q.target] = q.standing]
      /\ human' = [h \in Humans |->
            IF /\ AccountOf[h] = q.target /\ human[h] = "live"
               /\ member[q.target] # q.standing
            THEN "gone" ELSE human[h]]
      /\ UNCHANGED <<up, credential, machine, commerce, tokens>>
      BY <1>0, ReadyIs DEF CommitMember, Bound
<1>2. RowTypes /\ Known /\ Counted BY Types DEF Inv
<1>3. RowTypes'
  <2>1. q.standing \in Standing BY <1>1 DEF Request
  <2> QED BY <1>1, <1>2, <2>1 DEF RowTypes
<1>4. Known' /\ Counted' /\ Grows BY <1>1, <1>2 DEF Known, Counted, Grows
<1>5. OwnersRemain'
  <2>1. OwnerLeft(q) BY <1>0, <1>1 DEF Admitted
  <2> QED BY <1>1, <1>2, <2>1 DEF OwnersRemain, OwnerLeft, RowTypes
<1>6. Keeps
  <2> SUFFICES ASSUME NEW s \in Requests, s # r, NEW p, p = req[s]
               PROVE  \A row \in p.held : Judged(p, row)'
      BY <1>0 DEF Keeps
  <2>1. Sound(p) BY DEF Inv
  <2>2. Organization \notin p.held /\ Account(q.target) \notin p.held
        BY <1>0, RowsHave, Exclusive
  <2>3. \A h : Session(h) \in p.held => h \in Humans /\ AccountOf[h] # q.target
        BY <2>1, <2>2, HeldWith DEF Sound
  <2> QED BY <1>1, <2>1, <2>2, <2>3, KeepsRows
<1> QED BY <1>0, <1>3, <1>4, <1>5, <1>6 DEF Advances

LEMMA IssueCredentialStep ==
    ASSUME Inv, NEW r \in Requests, NEW c \in Credentials, CommitIssueCredential(r, c)
    PROVE  Advances /\ Released /\ Keeps
<1> PICK q : q = req[r] OBVIOUS
<1>0. /\ Ready(r) /\ q.kind = "issueCredential" /\ Released
      /\ \A s \in Requests : req'[s] = req[s] => s # r
      BY Leaves DEF CommitIssueCredential
<1>1. /\ credential[c].status = "none"
      /\ credential' = [credential EXCEPT ![c] = [status |-> "live", issuer |-> Actor(q)]]
      /\ UNCHANGED <<human, member, up, machine, commerce, tokens>>
      BY DEF CommitIssueCredential
<1>2. RowTypes /\ Known /\ Counted /\ OwnersRemain BY Types DEF Inv
<1>3. Actor(q) \in Accounts
  <2>1. q.human \in Humans BY <1>0, ReadyIs DEF Bound, ByHuman
  <2> QED BY <2>1, AuthorityAssumption DEF Actor
<1>4. RowTypes' BY <1>1, <1>2, <1>3 DEF RowTypes, States
<1>5. Known' BY <1>1, <1>2, <1>3 DEF Known, RowTypes
<1>6. Counted' /\ OwnersRemain' /\ Grows
      BY <1>1, <1>2 DEF Counted, OwnersRemain, Grows, RowTypes
<1>7. Keeps
  <2> SUFFICES ASSUME NEW s \in Requests, s # r, NEW p, p = req[s]
               PROVE  \A row \in p.held : Judged(p, row)'
      BY <1>0 DEF Keeps
  <2>1. Sound(p) BY DEF Inv
  <2>2. \A d \in Credentials : credential[d].status = "live" => credential'[d].status = "live"
        BY <1>1, <1>2 DEF RowTypes
  <2> QED BY <1>1, <2>1, <2>2, AdmittedStays, KeepsRows
<1> QED BY <1>0, <1>4, <1>5, <1>6, <1>7 DEF Advances

LEMMA RevokeCredentialStep ==
    ASSUME Inv, NEW r \in Requests, CommitRevokeCredential(r)
    PROVE  Advances /\ Released /\ Keeps
<1> PICK q : q = req[r] OBVIOUS
<1> PICK c : c = q.credential OBVIOUS
<1>0. /\ Ready(r) /\ q.kind = "revokeCredential" /\ Released
      /\ \A s \in Requests : req'[s] = req[s] => s # r
      BY Leaves DEF CommitRevokeCredential
<1>1. /\ credential' = [credential EXCEPT ![c].status = "revoked"]
      /\ machine' = [m \in Machines |->
            IF credential[c].status = "live" /\ machine[m].credential = c
            THEN [machine[m] EXCEPT !.status = "revoked"] ELSE machine[m]]
      /\ UNCHANGED <<human, member, up, commerce, tokens>>
      BY DEF CommitRevokeCredential
<1>2. RowTypes /\ Known /\ Counted /\ OwnersRemain BY Types DEF Inv
<1>3. c \in Credentials /\ c # Nobody BY <1>0, ReadyIs, AuthorityAssumption DEF Bound
<1>4. RowTypes'
  <2>1. credential' \in [Credentials -> [status : States, issuer : Accounts \cup {0}]]
    <3>1. [credential[c] EXCEPT !.status = "revoked"] \in
             [status : States, issuer : Accounts \cup {0}]
          BY <1>2, <1>3 DEF RowTypes, States
    <3> QED BY <1>1, <1>2, <3>1 DEF RowTypes
  <2>2. machine' \in [Machines -> [status : States, credential : Credentials \cup {Nobody}]]
    <3>1. \A m \in Machines : [machine[m] EXCEPT !.status = "revoked"] \in
             [status : States, credential : Credentials \cup {Nobody}]
          BY <1>2 DEF RowTypes, States
    <3> QED BY <1>1, <1>2, <3>1 DEF RowTypes
  <2> QED BY <1>1, <1>2, <2>1, <2>2 DEF RowTypes
<1>5. /\ \A d \in Credentials : /\ credential'[d].issuer = credential[d].issuer
                                /\ credential[d].status # "none" => credential'[d].status # "none"
                                /\ d # c => credential'[d] = credential[d]
      /\ \A m \in Machines : /\ machine'[m].credential = machine[m].credential
                             /\ machine[m].status # "none" => machine'[m].status # "none"
                             /\ machine[m].credential # c => machine'[m] = machine[m]
      BY <1>1, <1>2, <1>3 DEF RowTypes
<1>6. c \in Credentials /\ credential[c].status # "none"
      BY <1>0, ReadyIs DEF Bound
<1>7. Known' /\ Grows
  <2>1. \A m \in Machines : machine[m].status = "none" => machine'[m] = machine[m]
        BY <1>2, <1>3, <1>5 DEF Known
  <2>2. Grows BY <1>5 DEF Grows
  <2>3. \A d \in Credentials : credential'[d].status # "none" => credential'[d].issuer \in Accounts
        BY <1>2, <1>5, <1>6 DEF Known
  <2>4. ASSUME NEW m \in Machines
        PROVE  IF machine'[m].status = "none" THEN machine'[m].credential = Nobody
               ELSE /\ machine'[m].credential \in Credentials
                    /\ credential'[machine'[m].credential].status # "none"
    <3>1. CASE machine[m].status = "none" BY <1>2, <2>1, <3>1 DEF Known
    <3>2. CASE machine[m].status # "none" BY <1>2, <1>5, <3>2 DEF Known
    <3> QED BY <3>1, <3>2
  <2>5. \A x \in Commerce : commerce'[x].machine # Nobody =>
            machine'[commerce'[x].machine].status # "none"
    <3> SUFFICES ASSUME NEW x \in Commerce, commerce[x].machine # Nobody
                 PROVE  machine'[commerce[x].machine].status # "none"
        BY <1>1
    <3>1. commerce[x].machine \in Machines BY <1>2 DEF RowTypes
    <3> QED BY <1>2, <1>5, <3>1 DEF Known
  <2> QED BY <2>2, <2>3, <2>4, <2>5 DEF Known
<1>8. Counted' /\ OwnersRemain' BY <1>1, <1>2 DEF Counted, OwnersRemain
<1>9. Keeps
  <2> SUFFICES ASSUME NEW s \in Requests, s # r, NEW p, p = req[s]
               PROVE  \A row \in p.held : Judged(p, row)'
      BY <1>0 DEF Keeps
  <2>1. Sound(p) BY DEF Inv
  <2>2. Credential(c) \notin p.held BY <1>0, <1>3, RowsHave, Exclusive
  <2>3. \A m \in Machines : Machine(m) \in p.held => machine[m].credential # c
    <3> SUFFICES ASSUME NEW m \in Machines, Machine(m) \in p.held PROVE machine[m].credential # c
        OBVIOUS
    <3>1. m = p.machine /\ p.kind \in ByMachine /\ Credential(p.credential) \in p.held
          BY <2>1, HeldWith DEF Sound
    <3> QED BY <2>1, <2>2, <3>1 DEF Sound, Bound
  <2>4. Organization \in p.held /\ Admitted(p) => Admitted(p)' BY <1>1, <2>1, AdmittedStays
  <2>5. \A d \in Credentials : Credential(d) \in p.held => credential'[d] = credential[d]
        BY <1>5, <2>2
  <2>6. \A m \in Machines : Machine(m) \in p.held => machine'[m] = machine[m]
        BY <1>5, <2>3
  <2> QED BY <1>1, <2>1, <2>4, <2>5, <2>6, KeepsRows
<1> QED BY <1>0, <1>4, <1>7, <1>8, <1>9 DEF Advances

LEMMA OpenStep ==
    ASSUME Inv, NEW r \in Requests, NEW m \in Machines, CommitOpen(r, m)
    PROVE  Advances /\ Released /\ Keeps
<1> PICK q : q = req[r] OBVIOUS
<1>0. /\ Ready(r) /\ q.kind = "open" /\ Released
      /\ \A s \in Requests : req'[s] = req[s] => s # r
      BY Leaves DEF CommitOpen
<1>1. /\ machine[m].status = "none"
      /\ machine' = [machine EXCEPT ![m] = [status |-> "live", credential |-> q.credential]]
      /\ UNCHANGED <<human, member, up, credential, commerce, tokens>>
      BY DEF CommitOpen
<1>2. RowTypes /\ Known /\ Counted /\ OwnersRemain BY Types DEF Inv
<1>3. q.credential \in Credentials /\ credential[q.credential].status # "none"
      BY <1>0, ReadyIs DEF Bound, Backed
<1>4. RowTypes' BY <1>1, <1>2, <1>3 DEF RowTypes, States
<1>5. \A n \in Machines : machine'[n] =
          IF n = m THEN [status |-> "live", credential |-> q.credential] ELSE machine[n]
      BY <1>1, <1>2 DEF RowTypes
<1>6. Known'
  <2>1. \A x \in Commerce : commerce[x].machine # Nobody =>
            commerce[x].machine \in Machines BY <1>2 DEF RowTypes
  <2> QED BY <1>1, <1>2, <1>3, <1>5, <2>1 DEF Known
<1>7. Counted' /\ OwnersRemain' BY <1>1, <1>2 DEF Counted, OwnersRemain
<1>8. Grows BY <1>1, <1>5 DEF Grows
<1>9. Keeps
  <2> SUFFICES ASSUME NEW s \in Requests, s # r, NEW p, p = req[s]
               PROVE  \A row \in p.held : Judged(p, row)'
      BY <1>0 DEF Keeps
  <2>1. Sound(p) BY DEF Inv
  <2>2. \A n \in Machines : machine[n].status = "live" => machine'[n].status = "live"
        BY <1>5
  <2> QED BY <1>1, <2>1, <2>2, AdmittedStays, KeepsRows
<1> QED BY <1>0, <1>4, <1>6, <1>7, <1>8, <1>9 DEF Advances

LEMMA IssueStep ==
    ASSUME Inv, NEW r \in Requests, NEW x \in Commerce, CommitIssue(r, x)
    PROVE  Advances /\ Released /\ Keeps
<1> PICK q : q = req[r] OBVIOUS
<1>0. /\ Ready(r) /\ q.kind = "issue" /\ Released
      /\ \A s \in Requests : req'[s] = req[s] => s # r
      BY Leaves DEF CommitIssue
<1>1. /\ commerce' = [commerce EXCEPT ![x].parent = q.human]
      /\ UNCHANGED <<human, member, up, credential, machine, tokens>>
      BY DEF CommitIssue
<1>2. RowTypes /\ Known /\ Counted /\ OwnersRemain BY Types DEF Inv
<1>3. q.human \in Humans BY <1>0, ReadyIs DEF Bound, ByHuman
<1>4. RowTypes'
  <2>1. [commerce[x] EXCEPT !.parent = q.human] \in
            [parent : Humans \cup {Nobody}, machine : Machines \cup {Nobody}, revoked : BOOLEAN]
        BY <1>2, <1>3 DEF RowTypes
  <2> QED BY <1>1, <1>2, <2>1 DEF RowTypes
<1>5. \A y \in Commerce : /\ commerce'[y].machine = commerce[y].machine
                          /\ commerce'[y].revoked = commerce[y].revoked
      BY <1>1, <1>2 DEF RowTypes
<1>6. Known' /\ Counted' /\ OwnersRemain' /\ Grows
      BY <1>1, <1>2, <1>5 DEF Known, Counted, OwnersRemain, Grows
<1>7. Keeps
  <2> SUFFICES ASSUME NEW s \in Requests, s # r, NEW p, p = req[s]
               PROVE  \A row \in p.held : Judged(p, row)'
      BY <1>0 DEF Keeps
  <2>1. Sound(p) BY DEF Inv
  <2>2. p.kind \in ByMachine => p.commerce \in Commerce BY <2>1 DEF Sound, Bound
  <2>3. Organization \in p.held /\ Admitted(p) => Admitted(p)'
        BY <1>1, <1>5, <2>1, <2>2, AdmittedStays DEF ByMachine
  <2> QED BY <1>1, <1>5, <2>1, <2>2, <2>3, KeepsRows DEF ByMachine
<1> QED BY <1>0, <1>4, <1>6, <1>7 DEF Advances

LEMMA ExchangeStep ==
    ASSUME Inv, NEW r \in Requests, CommitExchange(r)
    PROVE  Advances /\ Released /\ Keeps
<1> PICK q : q = req[r] OBVIOUS
<1>0. /\ Ready(r) /\ q.kind = "exchange" /\ Released
      /\ \A s \in Requests : req'[s] = req[s] => s # r
      BY Leaves DEF CommitExchange
<1>1. /\ commerce' = [commerce EXCEPT ![q.commerce].machine = q.machine]
      /\ tokens' = [tokens EXCEPT ![q.commerce] = @ + 1]
      /\ UNCHANGED <<human, member, up, credential, machine>>
      BY DEF CommitExchange
<1>2. RowTypes /\ Known /\ Counted /\ OwnersRemain BY Types DEF Inv
<1>3. /\ q.machine \in Machines /\ machine[q.machine].status # "none"
      /\ q.commerce \in Commerce /\ q.machine # Nobody
      BY <1>0, ReadyIs, AuthorityAssumption DEF Bound, ByMachine
<1>4. RowTypes'
  <2>1. [commerce[q.commerce] EXCEPT !.machine = q.machine] \in
            [parent : Humans \cup {Nobody}, machine : Machines \cup {Nobody}, revoked : BOOLEAN]
        BY <1>2, <1>3 DEF RowTypes
  <2>2. tokens' \in [Commerce -> Nat] BY <1>1, <1>2, <1>3 DEF RowTypes
  <2> QED BY <1>1, <1>2, <2>1, <2>2 DEF RowTypes
<1>5. \A y \in Commerce :
          /\ commerce'[y].machine = IF y = q.commerce THEN q.machine ELSE commerce[y].machine
          /\ commerce'[y].revoked = commerce[y].revoked
          /\ tokens'[y] = IF y = q.commerce THEN tokens[y] + 1 ELSE tokens[y]
      BY <1>1, <1>2 DEF RowTypes
<1>6. commerce[q.commerce].machine = Nobody BY <1>0, ReadyIs DEF Admitted
<1>7. Known' /\ OwnersRemain' /\ Grows
      BY <1>1, <1>2, <1>3, <1>5 DEF Known, OwnersRemain, Grows
<1>8. Counted'
  <2>1. tokens[q.commerce] = 0 BY <1>2, <1>3, <1>6 DEF Counted
  <2> QED BY <1>2, <1>3, <1>5, <2>1 DEF Counted
<1>9. Keeps
  <2> SUFFICES ASSUME NEW s \in Requests, s # r, NEW p, p = req[s]
               PROVE  \A row \in p.held : Judged(p, row)'
      BY <1>0 DEF Keeps
  <2>1. Sound(p) BY DEF Inv
  <2>2. p.kind \in ByMachine => p.commerce \in Commerce BY <2>1 DEF Sound, Bound
  <2>3. Organization \notin p.held BY <1>0, RowsHave, Exclusive
  <2> QED BY <1>1, <1>5, <2>1, <2>2, <2>3, KeepsRows DEF ByMachine
<1> QED BY <1>0, <1>4, <1>7, <1>8, <1>9 DEF Advances

LEMMA RevokeStep ==
    ASSUME Inv, NEW r \in Requests, CommitRevoke(r)
    PROVE  Advances /\ Released /\ Keeps
<1> PICK q : q = req[r] OBVIOUS
<1>0. /\ Ready(r) /\ q.kind = "revoke" /\ Released
      /\ \A s \in Requests : req'[s] = req[s] => s # r
      BY Leaves DEF CommitRevoke
<1>1. /\ commerce' = [commerce EXCEPT ![q.commerce].revoked = TRUE]
      /\ UNCHANGED <<human, member, up, credential, machine, tokens>>
      BY DEF CommitRevoke
<1>2. RowTypes /\ Known /\ Counted /\ OwnersRemain BY Types DEF Inv
<1>3. q.commerce \in Commerce BY <1>0, ReadyIs DEF Bound
<1>4. RowTypes'
  <2>1. [commerce[q.commerce] EXCEPT !.revoked = TRUE] \in
            [parent : Humans \cup {Nobody}, machine : Machines \cup {Nobody}, revoked : BOOLEAN]
        BY <1>2, <1>3 DEF RowTypes
  <2> QED BY <1>1, <1>2, <2>1 DEF RowTypes
<1>5. \A y \in Commerce : commerce'[y].machine = commerce[y].machine
      BY <1>1, <1>2 DEF RowTypes
<1>6. Known' /\ Counted' /\ OwnersRemain' /\ Grows
      BY <1>1, <1>2, <1>5 DEF Known, Counted, OwnersRemain, Grows
<1>7. Keeps
  <2> SUFFICES ASSUME NEW s \in Requests, s # r, NEW p, p = req[s]
               PROVE  \A row \in p.held : Judged(p, row)'
      BY <1>0 DEF Keeps
  <2>1. Sound(p) BY DEF Inv
  <2>2. Organization \notin p.held BY <1>0, RowsHave, Exclusive
  <2>3. \A m : Machine(m) \in p.held => p.kind # "use"
        BY <2>1, <2>2, HeldWith DEF Sound
  <2> QED BY <1>1, <2>1, <2>2, <2>3, KeepsRows
<1> QED BY <1>0, <1>4, <1>6, <1>7 DEF Advances

-----------------------------------------------------------------------------
(* Steps without a request, or that leave the rows alone.                  *)

LEMMA QuietStep ==
    ASSUME Inv, UNCHANGED rows, Released
    PROVE  Advances /\ Released /\ Keeps
<1>1. UNCHANGED <<human, member, up, credential, machine, commerce, tokens>> BY DEF rows
<1>2. RowTypes /\ Known /\ Counted /\ OwnersRemain BY Types DEF Inv
<1>3. RowTypes' BY <1>1, <1>2 DEF RowTypes
<1>4. Known' /\ Counted' /\ OwnersRemain' /\ Grows
      BY <1>1, <1>2 DEF Known, Counted, OwnersRemain, Grows
<1>5. Keeps
  <2> SUFFICES ASSUME NEW s \in Requests, req'[s] = req[s], NEW p, p = req[s]
               PROVE  \A row \in p.held : Judged(p, row)'
      BY DEF Keeps
  <2>1. Sound(p) BY DEF Inv
  <2> QED BY <1>1, <2>1, AdmittedStays, KeepsRows
<1> QED BY <1>3, <1>4, <1>5 DEF Advances

LEMMA HumanStep ==
    ASSUME Inv, NEW h \in Humans, Login(h) \/ Logout(h)
    PROVE  Advances /\ Released /\ Keeps
<1>1. UNCHANGED <<member, up, credential, machine, commerce, tokens, req>>
      BY DEF Login, Logout
<1>2. RowTypes /\ Known /\ Counted /\ OwnersRemain BY Types DEF Inv
<1>3. RowTypes' BY <1>1, <1>2 DEF RowTypes, Login, Logout
<1>4. Known' /\ Counted' /\ OwnersRemain' /\ Grows
      BY <1>1, <1>2 DEF Known, Counted, OwnersRemain, Grows
<1>5. Keeps
  <2> SUFFICES ASSUME NEW s \in Requests, NEW p, p = req[s]
               PROVE  \A row \in p.held : Judged(p, row)'
      BY DEF Keeps
  <2>1. Sound(p) BY DEF Inv
  <2>2. \A k : Session(k) \in p.held /\ human[k] = "live" => human'[k] = "live"
    <3> SUFFICES ASSUME NEW k, Session(k) \in p.held, human[k] = "live"
                 PROVE  human'[k] = "live"
        OBVIOUS
    <3>1. k \in Humans BY <2>1, HeldWith DEF Sound
    <3> QED BY <1>2, <3>1 DEF Login, Logout, Free, RowTypes
  <2> QED BY <1>1, <2>1, <2>2, AdmittedStays, KeepsRows
<1> QED BY <1>1, <1>3, <1>4, <1>5 DEF Advances, Released

LEMMA SwitchStep ==
    ASSUME Inv, NEW what \in Switched, Switch(what)
    PROVE  Advances /\ Released /\ Keeps
<1>1. UNCHANGED <<human, member, credential, machine, commerce, tokens, req>>
      BY DEF Switch
<1>2. RowTypes /\ Known /\ Counted /\ OwnersRemain BY Types DEF Inv
<1>3. RowTypes' BY <1>1, <1>2, AuthorityAssumption DEF RowTypes, Switch
<1>4. Known' /\ Counted' /\ OwnersRemain' /\ Grows
      BY <1>1, <1>2 DEF Known, Counted, OwnersRemain, Grows
<1>5. Keeps
  <2> SUFFICES ASSUME NEW s \in Requests, NEW p, p = req[s]
               PROVE  \A row \in p.held : Judged(p, row)'
      BY DEF Keeps
  <2>1. Sound(p) BY DEF Inv
  <2>2. Organization \notin p.held BY DEF Switch, Free
  <2>3. \A m : Machine(m) \in p.held => p.kind # "use"
        BY <2>1, <2>2, HeldWith DEF Sound
  <2> QED BY <1>1, <2>1, <2>2, <2>3, KeepsRows
<1> QED BY <1>1, <1>3, <1>4, <1>5 DEF Advances, Released

LEMMA CloseStep ==
    ASSUME Inv, NEW m \in Machines, CloseMachine(m)
    PROVE  Advances /\ Released /\ Keeps
<1>1. /\ machine[m].status = "live" /\ Free(Machine(m))
      /\ machine' = [machine EXCEPT ![m].status = "revoked"]
      /\ UNCHANGED <<human, member, up, credential, commerce, tokens, req>>
      BY DEF CloseMachine
<1>2. RowTypes /\ Known /\ Counted /\ OwnersRemain BY Types DEF Inv
<1>3. RowTypes'
  <2>1. [machine[m] EXCEPT !.status = "revoked"] \in
            [status : States, credential : Credentials \cup {Nobody}]
        BY <1>2 DEF RowTypes, States
  <2> QED BY <1>1, <1>2, <2>1 DEF RowTypes
<1>4. \A n \in Machines : /\ machine'[n].credential = machine[n].credential
                          /\ machine'[n].status = "none" <=> machine[n].status = "none"
                          /\ n # m => machine'[n] = machine[n]
      BY <1>1, <1>2 DEF RowTypes
<1>5. Known'
  <2>1. \A x \in Commerce : commerce[x].machine # Nobody =>
            commerce[x].machine \in Machines BY <1>2 DEF RowTypes
  <2> QED BY <1>1, <1>2, <1>4, <2>1 DEF Known
<1>6. Counted' /\ OwnersRemain' BY <1>1, <1>2 DEF Counted, OwnersRemain
<1>7. Grows BY <1>1, <1>4 DEF Grows
<1>8. Keeps
  <2> SUFFICES ASSUME NEW s \in Requests, NEW p, p = req[s]
               PROVE  \A row \in p.held : Judged(p, row)'
      BY DEF Keeps
  <2>1. Sound(p) BY DEF Inv
  <2>2. Machine(m) \notin p.held BY <1>1 DEF Free
  <2>3. \A n \in Machines : Machine(n) \in p.held => machine'[n] = machine[n]
        BY <1>4, <2>2
  <2> QED BY <1>1, <2>1, <2>3, AdmittedStays, KeepsRows
<1> QED BY <1>1, <1>3, <1>5, <1>6, <1>7, <1>8 DEF Advances, Released

-----------------------------------------------------------------------------
(* Steps of a request that leave the rows alone.                           *)

LEMMA SoundStays ==
    ASSUME NEW p, Sound(p), UNCHANGED rows
    PROVE  Sound(p)'
<1>1. UNCHANGED <<human, member, up, credential, machine, commerce, tokens>> BY DEF rows
<1>2. Bound(p)' BY <1>1, BoundStays DEF Sound, Grows
<1>3. \A row \in p.held : Judged(p, row)' BY <1>1, AdmittedStays, KeepsRows
<1> QED BY <1>2, <1>3 DEF Sound

LEMMA RowsStay ==
    ASSUME Inv, UNCHANGED rows
    PROVE  RowTypes' /\ Known' /\ Counted' /\ OwnersRemain'
<1>1. UNCHANGED <<human, member, up, credential, machine, commerce, tokens>> BY DEF rows
<1> QED BY <1>1, Types DEF Inv, RowTypes, Known, Counted, OwnersRemain

LEMMA StartStep ==
    ASSUME Inv, NEW r \in Requests, NEW q, Start(r, q), q \in Request, q.held = {}, Bound(q)
    PROVE  Inv'
<1>1. /\ RowTypes' /\ Known' /\ Counted' /\ OwnersRemain' /\ UNCHANGED rows
      /\ req' = [req EXCEPT ![r] = q]
      BY RowsStay DEF Start
<1>2. /\ req' \in [Requests -> Request]
      /\ \A s \in Requests : req'[s] = IF s = r THEN q ELSE req[s]
      BY <1>1, Types DEF Inv
<1>3. \A s \in Requests : req'[s].held \subseteq Rows(req'[s])
      BY <1>2, Types DEF Inv
<1>4. TypeOK' BY <1>1, <1>2, <1>3 DEF TypeOK, RowTypes, Request
<1>5. Apart' BY <1>2 DEF Inv, Apart
<1>6. ASSUME NEW s \in Requests PROVE Sound(req[s])'
  <2> PICK p : p = req'[s] OBVIOUS
  <2>1. Sound(p)
    <3>1. CASE s = r BY <1>2, <3>1 DEF Sound, Closed
    <3>2. CASE s # r BY <1>2, <3>2 DEF Inv
    <3> QED BY <3>1, <3>2
  <2> QED BY <1>1, <2>1, SoundStays
<1> QED BY <1>1, <1>4, <1>5, <1>6 DEF Inv

LEMMA AskStep ==
    ASSUME Inv, NEW r \in Requests, Ask(r)
    PROVE  Inv'
<1>0. RowTypes /\ Known BY Types DEF Inv
<1>1. /\ \A h \in Humans : AccountOf[h] \in Accounts
      /\ Nobody \notin Humans \cup Credentials \cup Machines \cup Commerce
      BY AuthorityAssumption
<1>2. Idle \in Request /\ Idle.held = {} BY IdleTyped
<1>3. ASSUME NEW h \in Humans, NEW a \in Accounts, NEW s \in Standings, AskMember(r, h, a, s)
      PROVE  Inv'
  <2> DEFINE q == [Idle EXCEPT !.kind = "member", !.human = h, !.target = a, !.standing = s]
  <2>1. s \in Standing BY AuthorityAssumption
  <2>2. q \in Request /\ q.held = {} BY <2>1 DEF Idle, Request, Kinds, ByHuman
  <2>3. Bound(q) BY DEF Idle, Bound, Kinds, ByHuman, ByMachine, Backed
  <2> QED BY <1>3, <2>2, <2>3, StartStep DEF AskMember
<1>4. ASSUME NEW h \in Humans, NEW kind \in {"issueCredential", "issue"}, AskIssue(r, h, kind)
      PROVE  Inv'
  <2> DEFINE q == [Idle EXCEPT !.kind = kind, !.human = h, !.target = AccountOf[h]]
  <2>1. q \in Request /\ q.held = {}
        BY <1>1, IdleTyped DEF Idle, Request, Kinds, ByHuman
  <2>2. Bound(q) BY <1>1 DEF Idle, Bound, Kinds, ByHuman, ByMachine, Backed
  <2> QED BY <1>4, <2>1, <2>2, StartStep DEF AskIssue
<1>5. ASSUME NEW h \in Humans, NEW c \in Credentials, AskRevokeCredential(r, h, c)
      PROVE  Inv'
  <2> DEFINE q == [Idle EXCEPT !.kind = "revokeCredential", !.human = h,
                               !.target = AccountOf[h], !.credential = c]
  <2>1. q \in Request /\ q.held = {}
        BY <1>1, IdleTyped DEF Idle, Request, Kinds, ByHuman
  <2>2. Bound(q) BY <1>1, <1>5
        DEF AskRevokeCredential, Idle, Bound, Kinds, ByHuman, ByMachine, Backed
  <2> QED BY <1>5, <2>1, <2>2, StartStep DEF AskRevokeCredential
<1>6. ASSUME NEW h \in Humans, NEW x \in Commerce, AskRevoke(r, h, x)
      PROVE  Inv'
  <2> DEFINE q == [Idle EXCEPT !.kind = "revoke", !.human = h,
                               !.target = AccountOf[h], !.commerce = x]
  <2>1. q \in Request /\ q.held = {}
        BY <1>1, IdleTyped DEF Idle, Request, Kinds, ByHuman
  <2>2. Bound(q) BY <1>1 DEF Idle, Bound, Kinds, ByHuman, ByMachine, Backed
  <2> QED BY <1>6, <2>1, <2>2, StartStep DEF AskRevoke
<1>7. ASSUME NEW c \in Credentials, AskOpen(r, c)
      PROVE  Inv'
  <2> DEFINE q == [Idle EXCEPT !.kind = "open", !.target = credential[c].issuer,
                               !.credential = c]
  <2>1. credential[c].status # "none" /\ credential[c].issuer \in Accounts
        BY <1>0, <1>7 DEF AskOpen, Known
  <2>2. q \in Request /\ q.held = {}
        BY <2>1, IdleTyped DEF Idle, Request, Kinds
  <2>3. Bound(q) BY <1>1, <2>1 DEF Idle, Bound, Kinds, ByHuman, ByMachine, Backed
  <2> HIDE DEF q
  <2>4. Start(r, q) BY <1>7 DEF AskOpen, q
  <2> QED BY <2>2, <2>3, <2>4, StartStep
<1>8. ASSUME NEW kind \in ByMachine, NEW m \in Machines, NEW x \in Commerce,
             AskCommerce(r, kind, m, x)
      PROVE  Inv'
  <2> DEFINE q == [Idle EXCEPT !.kind = kind, !.human = commerce[x].parent,
                    !.target = credential[machine[m].credential].issuer,
                    !.credential = machine[m].credential, !.machine = m,
                    !.commerce = x]
  <2>1. commerce[x].parent \in Humans BY <1>0, <1>8 DEF AskCommerce, RowTypes
  <2>2. machine[m].status # "none"
    <3>1. CASE kind = "use" BY <1>0, <1>1, <1>8, <3>1 DEF AskCommerce, Known
    <3>2. CASE kind = "exchange" BY <1>8, <3>2 DEF AskCommerce
    <3> QED BY <3>1, <3>2 DEF ByMachine
  <2>3. /\ machine[m].credential \in Credentials
        /\ credential[machine[m].credential].status # "none"
        /\ credential[machine[m].credential].issuer \in Accounts
        BY <1>0, <2>2 DEF Known
  <2>4. q \in Request /\ q.held = {}
        BY <2>1, <2>3, IdleTyped DEF Idle, Request, Kinds, ByMachine
  <2>5. Bound(q) BY <1>1, <2>1, <2>2, <2>3
        DEF Idle, Bound, Kinds, ByHuman, ByMachine, Backed
  <2> HIDE DEF q
  <2>6. Start(r, q) BY <1>8 DEF AskCommerce, q
  <2> QED BY <2>4, <2>5, <2>6, StartStep
<1> QED BY <1>3, <1>4, <1>5, <1>6, <1>7, <1>8 DEF Ask, ByMachine

(* Accounts are locked in the order of their identifiers.                  *)
LEMMA RanksAre ==
    ASSUME NEW q, Sound(q), q.kind # "none", NEW y \in Rows(q)
    PROVE  /\ Level(q, y) \in Nat
           /\ Level(q, y) = 0 => y[2] \in Accounts /\ y[2] \in Nat /\ y = Account(y[2])
<1>1. /\ q.target \in Accounts
      /\ q.human # Nobody => AccountOf[q.human] \in Accounts
      /\ \A a \in Accounts : a \in Nat
      BY AuthorityAssumption DEF Sound, Bound, Accounts
<1>2. CASE y = Account(q.target) BY <1>1, <1>2, Names, Levels
<1>3. CASE q.human # Nobody /\ y = Account(AccountOf[q.human]) BY <1>1, <1>3, Names, Levels
<1>4. CASE y = Session(q.human) BY <1>4, Levels
<1>5. CASE y = Organization BY <1>5, Levels
<1>6. CASE y = Credential(q.credential) BY <1>6, Levels
<1>7. CASE y = Machine(q.machine) BY <1>7, Levels
<1> QED BY <1>2, <1>3, <1>4, <1>5, <1>6, <1>7, RowsAre

LEMMA SameRequest ==
    ASSUME NEW p, NEW q, p.kind = q.kind, p.human = q.human, p.target = q.target,
           p.standing = q.standing, p.credential = q.credential,
           p.machine = q.machine, p.commerce = q.commerce
    PROVE  /\ Rows(p) = Rows(q)
           /\ \A x, y : Before(p, x, y) <=> Before(q, x, y)
           /\ \A x \in Rows(q) : Judged(q, x) => Judged(p, x)
<1>1. Rows(p) = Rows(q) BY DEF Rows
<1>2. \A x : Level(p, x) = Level(q, x) BY DEF Level
<1>3. \A x, y : Before(p, x, y) <=> Before(q, x, y) BY <1>2 DEF Before
<1>4. Admitted(p) <=> Admitted(q) BY DEF Admitted, Actor, OwnerLeft
<1>5. ASSUME NEW x \in Rows(q), Judged(q, x) PROVE Judged(p, x)
  <2>1. CASE x = Account(q.target) \/ x = Account(AccountOf[q.human])
        BY <2>1, Judgements
  <2>2. CASE x = Session(q.human) BY <1>5, <2>2, Judgements
  <2>3. CASE x = Organization BY <1>4, <1>5, <2>3, Judgements
  <2>4. CASE x = Credential(q.credential) BY <1>5, <2>4, Judgements
  <2>5. CASE x = Machine(q.machine) BY <1>5, <2>5, Judgements
  <2> QED BY <2>1, <2>2, <2>3, <2>4, <2>5, RowsAre
<1> QED BY <1>1, <1>3, <1>5

LEMMA LockStep ==
    ASSUME Inv, NEW r \in Requests, NEW row \in Rows(req[r]), Lock(r, row)
    PROVE  Inv'
<1> PICK q : q = req[r] OBVIOUS
<1> DEFINE p == [q EXCEPT !.held = @ \cup {row}]
<1>1. /\ RowTypes' /\ Known' /\ Counted' /\ OwnersRemain' /\ UNCHANGED rows
      /\ q.kind # "none" /\ NextRow(q, row) /\ Free(row) /\ Judged(q, row)
      /\ row \in Rows(q) /\ req' = [req EXCEPT ![r].held = @ \cup {row}]
      BY RowsStay DEF Lock
<1>2. /\ q \in Request /\ Sound(q) /\ q.held \subseteq Rows(q)
      BY Types DEF Inv
<1>3. row \in Row
  <2>1. /\ q.target \in Accounts
        /\ q.human # Nobody => q.human \in Humans /\ AccountOf[q.human] \in Accounts
        /\ q.credential # Nobody => q.credential \in Credentials
        /\ q.machine # Nobody => q.machine \in Machines
        BY <1>1, <1>2, AuthorityAssumption DEF Request, Sound, Bound
  <2>2. CASE row = Account(q.target) BY <2>1, <2>2 DEF Row
  <2>3. CASE q.human # Nobody /\ row = Account(AccountOf[q.human]) BY <2>1, <2>3 DEF Row
  <2>4. CASE q.human # Nobody /\ row = Session(q.human) BY <2>1, <2>4 DEF Row
  <2>5. CASE row = Organization BY <2>5 DEF Row
  <2>6. CASE q.credential # Nobody /\ row = Credential(q.credential) BY <2>1, <2>6 DEF Row
  <2>7. CASE q.machine # Nobody /\ row = Machine(q.machine) BY <2>1, <2>7 DEF Row
  <2> QED BY <1>1, <2>2, <2>3, <2>4, <2>5, <2>6, <2>7, RowsAre
<1>4. /\ p \in Request /\ p.held = q.held \cup {row}
      /\ p.kind = q.kind /\ p.human = q.human /\ p.target = q.target
      /\ p.standing = q.standing /\ p.credential = q.credential
      /\ p.machine = q.machine /\ p.commerce = q.commerce
      BY <1>2, <1>3 DEF Request
<1>5. \A s \in Requests : req'[s] = IF s = r THEN p ELSE req[s]
      BY <1>1, Types DEF Inv
<1> HIDE DEF p
<1>6. req' \in [Requests -> Request] BY <1>1, <1>4, <1>5, Types DEF Inv
<1>7. Sound(p)
  <2>1. Bound(p) BY <1>1, <1>2, <1>4 DEF Sound, Bound
  <2>2. /\ Rows(p) = Rows(q)
        /\ \A x, y : Before(p, x, y) <=> Before(q, x, y)
        /\ \A x \in Rows(q) : Judged(q, x) => Judged(p, x)
        BY <1>4, SameRequest
  <2>3. \A x \in p.held : Judged(p, x) BY <1>1, <1>2, <1>4, <2>2 DEF Sound
  <2>4. \A x \in Rows(q) \ q.held : x = row \/ Before(q, row, x)
        BY <1>1 DEF NextRow
  <2>5. ASSUME NEW x \in Rows(q), Before(q, x, row) PROVE x \in p.held
    <3>1. CASE x \in q.held BY <1>4, <3>1
    <3>2. CASE x = row BY <1>4, <3>2
    <3>3. CASE Before(q, row, x)
      <4>1. \A y \in Rows(q) : Level(q, y) \in Nat BY RowsAre, Levels
      <4>2. \A y \in Rows(q) : Level(q, y) = 0 => y[2] \in Nat BY <1>1, <1>2, RanksAre
      <4> QED BY <1>1, <2>5, <3>3, <4>1, <4>2 DEF Before
    <3> QED BY <2>4, <3>1, <3>2, <3>3
  <2>6. Closed(p)
    <3>1. \A y \in q.held, x \in Rows(q) : Before(q, x, y) => x \in q.held
          BY <1>2 DEF Sound, Closed
    <3>2. p.held \subseteq Rows(p) BY <1>1, <1>2, <1>4, <2>2
    <3> QED BY <1>4, <2>2, <2>5, <3>1, <3>2 DEF Closed
  <2> QED BY <2>1, <2>3, <2>6 DEF Sound
<1>8. TypeOK'
  <2>1. \A s \in Requests : req'[s].held \subseteq Rows(req'[s])
        BY <1>5, <1>7, Types DEF Inv, Sound, Closed
  <2> QED BY <1>1, <1>6, <2>1 DEF TypeOK, RowTypes, Request
<1>9. Apart' BY <1>1, <1>4, <1>5 DEF Inv, Apart, Free
<1>10. ASSUME NEW s \in Requests PROVE Sound(req[s])'
  <2> PICK t : t = req'[s] OBVIOUS
  <2>1. Sound(t)
    <3>1. CASE s = r BY <1>5, <1>7, <3>1
    <3>2. CASE s # r BY <1>5, <3>2 DEF Inv
    <3> QED BY <3>1, <3>2
  <2> QED BY <1>1, <2>1, SoundStays
<1> QED BY <1>1, <1>8, <1>9, <1>10 DEF Inv

-----------------------------------------------------------------------------
(* The invariant.                                                          *)

LEMMA InvInit == Init => Inv
<1> SUFFICES ASSUME Init PROVE Inv OBVIOUS
<1>1. Idle \in Request /\ Sound(Idle) /\ Idle.held = {} BY IdleTyped
<1>2. \A r \in Requests : req[r] = Idle BY DEF Init
<1>3. RowTypes BY AuthorityAssumption DEF Init, RowTypes, States
<1>4. TypeOK
  <2>1. req \in [Requests -> Request] BY <1>1 DEF Init
  <2> QED BY <1>1, <1>2, <1>3, <2>1, Types
<1>5. Known /\ Counted BY DEF Init, Known, Counted
<1>6. OwnersRemain BY AuthorityAssumption DEF Init, OwnersRemain
<1>7. Apart BY <1>1, <1>2 DEF Apart
<1> QED BY <1>1, <1>2, <1>4, <1>5, <1>6, <1>7 DEF Inv

LEMMA FinishStep ==
    ASSUME Inv, NEW r \in Requests, Finish(r)
    PROVE  Inv'
<1>1. CASE CommitMember(r) BY <1>1, MemberStep, Settle
<1>2. ASSUME NEW c \in Credentials, CommitIssueCredential(r, c) PROVE Inv'
      BY <1>2, IssueCredentialStep, Settle
<1>3. CASE CommitRevokeCredential(r) BY <1>3, RevokeCredentialStep, Settle
<1>4. ASSUME NEW m \in Machines, CommitOpen(r, m) PROVE Inv'
      BY <1>4, OpenStep, Settle
<1>5. ASSUME NEW x \in Commerce, CommitIssue(r, x) PROVE Inv'
      BY <1>5, IssueStep, Settle
<1>6. CASE CommitExchange(r) BY <1>6, ExchangeStep, Settle
<1>7. CASE CommitRevoke(r) BY <1>7, RevokeStep, Settle
<1>8. CASE CommitUse(r)
  <2>1. UNCHANGED rows /\ Released BY <1>8 DEF CommitUse, Commit, Released
  <2> QED BY <2>1, QuietStep, Settle
<1> QED BY <1>1, <1>2, <1>3, <1>4, <1>5, <1>6, <1>7, <1>8 DEF Finish

LEMMA InvStep == Inv /\ [Next]_vars => Inv'
<1> SUFFICES ASSUME Inv, [Next]_vars PROVE Inv' OBVIOUS
<1>1. ASSUME NEW r \in Requests, Ask(r) PROVE Inv' BY <1>1, AskStep
<1>2. ASSUME NEW r \in Requests, NEW row \in Rows(req[r]), Lock(r, row) PROVE Inv'
      BY <1>2, LockStep
<1>3. ASSUME NEW r \in Requests, Finish(r) PROVE Inv' BY <1>3, FinishStep
<1>4. ASSUME NEW r \in Requests, GiveUp(r) PROVE Inv'
  <2>1. UNCHANGED rows /\ Released BY <1>4 DEF GiveUp, Released
  <2> QED BY <2>1, QuietStep, Settle
<1>5. ASSUME NEW h \in Humans, Login(h) \/ Logout(h) PROVE Inv' BY <1>5, HumanStep, Settle
<1>6. ASSUME NEW what \in Switched, Switch(what) PROVE Inv' BY <1>6, SwitchStep, Settle
<1>7. ASSUME NEW m \in Machines, CloseMachine(m) PROVE Inv' BY <1>7, CloseStep, Settle
<1>8. CASE UNCHANGED vars
  <2>1. UNCHANGED rows /\ Released BY <1>8 DEF vars, Released
  <2> QED BY <2>1, QuietStep, Settle
<1> QED BY <1>1, <1>2, <1>3, <1>4, <1>5, <1>6, <1>7, <1>8 DEF Next

(* The types of all rows and of every transaction under way stay as stated. *)
THEOREM TypeCorrect == Spec => []TypeOK
<1>1. Inv => TypeOK BY DEF Inv
<1> QED BY <1>1, InvInit, InvStep, PTL DEF Spec

(* A transaction that commits is still entitled to all it was admitted by:  *)
(* what it judged of a row when it locked it has not changed since, though  *)
(* others committed in between (0004, 0005, 0009, 0010).                    *)
THEOREM AuthorityHolds == Spec => []AuthorityAtCommit
<1>1. ASSUME Inv, NEW r \in Requests, Ready(r), NEW q, q = req[r]
      PROVE  /\ q.kind \in ByHuman \cup {"exchange", "use"} => human[q.human] = "live"
             /\ q.kind \in ByHuman \ {"revokeCredential"} => InOffice(Actor(q))
             /\ q.kind = "member" => Owner(member[Actor(q)])
             /\ q.kind \in {"open", "exchange", "use"} =>
                   InOffice(q.target) /\ credential[q.credential].status = "live"
             /\ q.kind \in {"exchange", "use"} =>
                   /\ InOffice(Actor(q)) /\ up = {"agent", "policy"}
                   /\ machine[q.machine].status = "live" /\ ~commerce[q.commerce].revoked
  <2>1. /\ Bound(q) /\ Admitted(q) /\ q.kind # "none"
        /\ q.human # Nobody => human[q.human] = "live"
        /\ q.kind \in Backed => credential[q.credential].status = "live"
        /\ q.kind \in ByMachine => machine[q.machine].status = "live"
        /\ q.kind = "use" => ~commerce[q.commerce].revoked /\ "policy" \in up
        BY <1>1, ReadyIs
  <2>2. q.kind \in ByHuman \cup ByMachine => q.human # Nobody
        BY <2>1, AuthorityAssumption DEF Bound
  <2>3. up \subseteq {"agent", "policy"} BY <1>1, Types DEF Inv, RowTypes
  <2>4. q.kind \in ByHuman \ {"revokeCredential"} => InOffice(Actor(q))
        BY <2>1 DEF Admitted, ByHuman, InOffice, Owner, Trusted
  <2>5. q.kind = "member" => Owner(member[Actor(q)]) BY <2>1 DEF Admitted
  <2>6. q.kind \in Backed => InOffice(q.target)
        BY <2>1 DEF Admitted, Backed, ByMachine
  <2>7. q.kind \in ByMachine => /\ InOffice(Actor(q)) /\ up = {"agent", "policy"}
                                /\ ~commerce[q.commerce].revoked
        BY <2>1, <2>3 DEF Admitted, ByMachine
  <2> QED BY <2>1, <2>2, <2>4, <2>5, <2>6, <2>7 DEF ByMachine, Backed
<1>2. Inv => AuthorityAtCommit BY <1>1 DEF AuthorityAtCommit
<1> QED BY <1>2, InvInit, InvStep, PTL DEF Spec

(* The organization keeps an active owner (0002 set_membership).           *)
THEOREM OwnerStays == Spec => []OwnersRemain
<1>1. Inv => OwnersRemain BY DEF Inv
<1> QED BY <1>1, InvInit, InvStep, PTL DEF Spec

(* However many machines present a handoff, one token is given for it       *)
(* (0009 exchange_commerce_session).                                        *)
THEOREM HandoffsGiveOneToken == Spec => []OneTokenPerHandoff
<1>1. Inv => OneTokenPerHandoff BY DEF Inv, Counted, OneTokenPerHandoff
<1> QED BY <1>1, InvInit, InvStep, PTL DEF Spec

-----------------------------------------------------------------------------
(* Who waits for whom.                                                     *)

Waits(r, s, row) ==
    req[r].kind # "none" /\ row \in req[s].held /\ NextRow(req[r], row)

LEMMA WaitsAre ==
    ASSUME Inv, NEW r \in Requests, NEW s \in Requests, NEW row, Waits(r, s, row),
           NEW q, q = req[r], NEW p, p = req[s]
    PROVE  /\ Sound(q) /\ Sound(p) /\ q.kind # "none" /\ p.kind # "none"
           /\ row \in Rows(q) /\ row \notin q.held /\ row \in p.held
           /\ q.held \cap p.held = {}
           /\ \A x \in Rows(q) : Level(q, x) < Level(q, row) => x \in q.held
<1>1. /\ Sound(q) /\ Sound(p) /\ q.kind # "none"
      /\ row \in Rows(q) /\ row \notin q.held /\ row \in p.held
      /\ \A x \in Rows(q) \ q.held : x = row \/ Before(q, row, x)
      BY DEF Inv, Waits, NextRow
<1>2. p.kind # "none" BY <1>1, IdleTyped DEF Sound, Bound
<1>3. q.held \cap p.held = {} BY <1>1 DEF Inv, Apart
<1>4. ASSUME NEW x \in Rows(q), Level(q, x) < Level(q, row) PROVE x \in q.held
  <2>1. Level(q, x) \in Nat /\ Level(q, row) \in Nat BY <1>1, RanksAre
  <2>2. x # row /\ ~Before(q, row, x) BY <1>4, <2>1 DEF Before
  <2> QED BY <1>1, <2>2
<1> QED BY <1>1, <1>2, <1>3, <1>4

(* Nobody waits for a machine session or a browser session.                *)
LEMMA WaitsForNoSession ==
    ASSUME Inv, NEW r \in Requests, NEW s \in Requests, NEW row, Waits(r, s, row),
           NEW q, q = req[r]
    PROVE  \/ row = Account(q.target)
           \/ q.human # Nobody /\ row = Account(AccountOf[q.human])
           \/ row = Organization
           \/ q.credential # Nobody /\ row = Credential(q.credential)
<1> PICK p : p = req[s] OBVIOUS
<1>1. /\ Sound(q) /\ Sound(p) /\ row \in Rows(q) /\ row \notin q.held /\ row \in p.held
      /\ q.held \cap p.held = {}
      /\ \A x \in Rows(q) : Level(q, x) < Level(q, row) => x \in q.held
      BY WaitsAre
<1>2. ASSUME q.human # Nobody, row = Session(q.human) PROVE FALSE
  <2>1. Account(AccountOf[q.human]) \in q.held BY <1>1, <1>2, RowsHave, Levels
  <2>2. Account(AccountOf[q.human]) \in p.held BY <1>1, <1>2, HeldWith DEF Sound
  <2> QED BY <1>1, <2>1, <2>2
<1>3. ASSUME q.machine # Nobody, row = Machine(q.machine) PROVE FALSE
  <2>1. q.machine = p.machine /\ p.kind \in ByMachine /\ Credential(p.credential) \in p.held
        BY <1>1, <1>3, HeldWith DEF Sound
  <2>2. q.kind \in ByMachine BY <1>1, <1>3 DEF Sound, Bound
  <2>3. p.credential = q.credential /\ q.credential \in Credentials
        BY <1>1, <2>1, <2>2 DEF Sound, Bound, Backed
  <2>4. q.credential # Nobody BY <2>3, AuthorityAssumption
  <2>5. Credential(q.credential) \in q.held
        BY <1>1, <1>3, <2>2, <2>4, RowsHave, Levels DEF ByMachine
  <2> QED BY <1>1, <2>1, <2>3, <2>5
<1> QED BY <1>1, <1>2, <1>3, RowsAre

(* A transaction waits for a credential only to revoke it, while it is     *)
(* exchanged, or until a revocation that has all it needs is through.      *)
LEMMA WaitsForCredential ==
    ASSUME Inv, NEW r \in Requests, NEW s \in Requests, NEW q, q = req[r], NEW p, p = req[s],
           NEW row, Waits(r, s, row), q.credential # Nobody, row = Credential(q.credential)
    PROVE  /\ p.credential = q.credential
           /\ \/ q.kind = "revokeCredential" /\ p.kind = "exchange"
              \/ Rows(p) \subseteq p.held
<1>1. /\ Sound(q) /\ Sound(p) /\ row \in Rows(q) /\ row \notin q.held /\ row \in p.held
      /\ q.held \cap p.held = {}
      /\ \A x \in Rows(q) : Level(q, x) < Level(q, row) => x \in q.held
      BY WaitsAre
<1>2. q.kind \in Backed \cup {"revokeCredential"} BY <1>1 DEF Sound, Bound
<1>3. /\ q.credential = p.credential /\ p.kind \in Backed \cup {"revokeCredential"}
      /\ p.kind \in Backed => Account(p.target) \in p.held
      /\ p.kind # "exchange" => Organization \in p.held
      BY <1>1, HeldWith DEF Sound
<1>4. CASE p.kind = "revokeCredential"
  <2>1. p.machine = Nobody BY <1>1, <1>4 DEF Sound, Bound, ByMachine
  <2>2. \A x \in Rows(p) : x = row \/ Level(p, x) < Level(p, row)
        BY <1>3, <1>4, <2>1, RowsAre, Levels
  <2>3. \A x \in Rows(p) : Level(p, x) < Level(p, row) => x \in p.held
    <3>1. Level(p, row) = 3 BY <1>4, Levels
    <3> QED BY <1>1, <3>1 DEF Sound, Closed, Before
  <2> QED BY <1>1, <1>3, <2>2, <2>3
<1>5. CASE q.kind \in Backed /\ p.kind \in Backed
  <2>1. q.target = p.target BY <1>1, <1>3, <1>5 DEF Sound, Bound
  <2>2. Account(q.target) \in q.held
        BY <1>1, RowsHave, Levels
  <2> QED BY <1>1, <1>3, <1>5, <2>1, <2>2
<1>6. CASE q.kind = "revokeCredential" /\ p.kind \in Backed
  <2>1. Organization \in q.held BY <1>1, <1>6, RowsHave, Levels
  <2>2. p.kind = "exchange" BY <1>1, <1>3, <2>1
  <2> QED BY <1>3, <1>6, <2>2
<1> QED BY <1>2, <1>3, <1>4, <1>5, <1>6

(* A transaction that holds more than accounts waits for none.             *)
LEMMA AccountsFirst ==
    ASSUME Inv, NEW r \in Requests, NEW s \in Requests, NEW row, Waits(r, s, row),
           NEW q, q = req[r], NEW y \in q.held, Level(q, y) > 0
    PROVE  Level(q, row) > 0 /\ Level(q, row) >= Level(q, y)
<1>1. Sound(q) /\ q.kind # "none" /\ row \in Rows(q) /\ row \notin q.held BY WaitsAre
<1>2. y \in Rows(q) BY <1>1 DEF Sound, Closed
<1>3. Level(q, row) \in Nat /\ Level(q, y) \in Nat BY <1>1, <1>2, RanksAre
<1>4. ~Before(q, row, y) BY <1>1 DEF Sound, Closed
<1> QED BY <1>3, <1>4 DEF Before

LEMMA Greatest ==
    ASSUME NEW n \in Nat, NEW S, S \subseteq 1 .. n, S # {}
    PROVE  \E m \in S : \A a \in S : a <= m
<1> DEFINE T == {n - a : a \in S}
<1>1. T \subseteq Nat /\ T # {}
  <2>1. \A a \in S : n - a \in Nat OBVIOUS
  <2>2. PICK a \in S : TRUE OBVIOUS
  <2>3. n - a \in T BY <2>2
  <2>4. ASSUME NEW y \in T PROVE y \in Nat
    <3>1. PICK b \in S : y = n - b OBVIOUS
    <3> QED BY <2>1, <3>1
  <2> QED BY <2>3, <2>4
<1>2. PICK x \in T : \A y \in T : <<y, x>> \notin OpToRel(<, Nat)
  <2> HIDE DEF T
  <2> QED BY <1>1, NatLessThanWellFounded, WFMin
<1>3. \A y \in T : ~(y < x)
  <2> SUFFICES ASSUME NEW y \in T, y < x PROVE FALSE OBVIOUS
  <2>1. x \in Nat /\ y \in Nat BY <1>1
  <2>2. <<y, x>> \in OpToRel(<, Nat) BY <2>1 DEF OpToRel
  <2> QED BY <1>2, <2>2
<1>4. PICK m \in S : x = n - m BY <1>2
<1>5. \A a \in S : a <= m
  <2> TAKE a \in S
  <2>1. n - a \in T OBVIOUS
  <2>2. ~(n - a < n - m) BY <1>3, <1>4, <2>1
  <2>3. a \in Int /\ m \in Int OBVIOUS
  <2> QED BY <2>2, <2>3
<1> QED BY <1>4, <1>5

(* No circle of waiting transactions but the one named in OneKindOfCircle:  *)
(* all else locks accounts in ascending order and then by kind of row       *)
(* (0002:386, 0005:830, 0009:1055).                                         *)
THEOREM CirclesAreKnown == Spec => []OneKindOfCircle
<1>1. ASSUME Inv, NEW S \in SUBSET Requests, S # {}, \A r \in S : WaitsFor(r) \cap S # {}
      PROVE  \E r, s \in S :
                /\ req[r].kind = "exchange" /\ NextRow(req[r], Organization)
                /\ req[s].kind = "revokeCredential"
                /\ NextRow(req[s], Credential(req[r].credential))
  <2>0. \A r \in S : r \in Requests /\ \E s \in S : \E row : Waits(r, s, row)
        BY <1>1 DEF WaitsFor, Waits
  <2>1. ASSUME NEW r \in S, NEW q, q = req[r] PROVE ~(Rows(q) \subseteq q.held)
    <3> PICK s \in S : \E row : Waits(r, s, row) BY <2>0
    <3>1. PICK row : Waits(r, s, row) OBVIOUS
    <3>2. row \in Rows(q) /\ row \notin q.held BY <2>0, <2>1, <3>1 DEF Waits, NextRow
    <3> QED BY <3>2
  <2>2. ASSUME NEW r \in S, NEW s \in S, req[r].credential # Nobody,
               Waits(r, s, Credential(req[r].credential))
        PROVE  /\ req[s].kind = "exchange" /\ NextRow(req[s], Organization)
               /\ req[r].kind = "revokeCredential"
               /\ NextRow(req[r], Credential(req[s].credential))
    <3> PICK q, p : q = req[r] /\ p = req[s] OBVIOUS
    <3> DEFINE c == Credential(p.credential)
    <3>1. /\ p.credential = q.credential /\ q.kind = "revokeCredential" /\ p.kind = "exchange"
      <4>1. ~(Rows(p) \subseteq p.held) BY <2>1
      <4>2. PICK row : row = Credential(q.credential) OBVIOUS
      <4>3. Waits(r, s, row) /\ q.credential # Nobody BY <2>2, <4>2
      <4>4. r \in Requests /\ s \in Requests BY <2>0
      <4>5. q = req[r] /\ p = req[s] OBVIOUS
      <4>6. /\ p.credential = q.credential
            /\ \/ q.kind = "revokeCredential" /\ p.kind = "exchange"
               \/ Rows(p) \subseteq p.held
            BY <1>1, <4>2, <4>3, <4>4, <4>5, WaitsForCredential
      <4> QED BY <4>1, <4>6
    <3>2. c \in p.held /\ NextRow(q, c) BY <2>2, <3>1 DEF Waits
    <3> PICK t \in S : \E row : Waits(s, t, row) BY <2>0
    <3>3. PICK row : Waits(s, t, row) OBVIOUS
    <3>4. Level(p, c) = 1 BY <3>1, Levels
    <3> HIDE DEF c
    <3>5. Level(p, row) > 0
      <4>1. Level(p, c) > 0 BY <3>4
      <4>2. s \in Requests /\ t \in Requests BY <2>0
      <4> QED BY <1>1, <3>2, <3>3, <4>1, <4>2, AccountsFirst
    <3>6. row \notin p.held BY <3>3 DEF Waits, NextRow
    <3>7. row = Organization
      <4>1. s \in Requests /\ t \in Requests BY <2>0
      <4>2. \/ row = Account(p.target) \/ row = Account(AccountOf[p.human])
            \/ row = Organization \/ row = c
            BY <1>1, <3>3, <4>1, WaitsForNoSession DEF c
      <4>3. Level(p, Account(p.target)) = 0 /\ Level(p, Account(AccountOf[p.human])) = 0
            BY Levels
      <4> QED BY <3>2, <3>5, <3>6, <4>2, <4>3
    <3> QED BY <3>1, <3>2, <3>3, <3>7 DEF Waits, c
  <2>3. CASE \E r, s \in S : /\ req[r].credential # Nobody
                             /\ Waits(r, s, Credential(req[r].credential))
        BY <2>2, <2>3
  <2>4. ASSUME \A r, s \in S : req[r].credential = Nobody
                               \/ ~Waits(r, s, Credential(req[r].credential))
        PROVE  FALSE
    <3>1. ASSUME NEW r \in S, NEW s \in S, Waits(r, s, Organization) PROVE FALSE
      <4> PICK p : p = req[s] OBVIOUS
      <4> PICK t \in S : \E row : Waits(s, t, row) BY <2>0
      <4>1. PICK row : Waits(s, t, row) OBVIOUS
      <4>2. Sound(p) /\ Organization \in p.held BY <1>1, <3>1, WaitsAre
      <4>3. Level(p, Organization) > 0 BY Levels
      <4>4. Level(p, row) > 0 BY <1>1, <4>1, <4>2, <4>3, AccountsFirst
      <4>5. row # Organization BY <1>1, <4>1, <4>2, WaitsAre
      <4>6. p.credential # Nobody /\ row = Credential(p.credential)
        <5>1. s \in Requests /\ t \in Requests BY <2>0
        <5>2. \/ row = Account(p.target) \/ row = Account(AccountOf[p.human])
              \/ row = Organization
              \/ p.credential # Nobody /\ row = Credential(p.credential)
              BY <1>1, <4>1, <5>1, WaitsForNoSession
        <5>3. Level(p, Account(p.target)) = 0 /\ Level(p, Account(AccountOf[p.human])) = 0
              BY Levels
        <5> QED BY <4>4, <4>5, <5>2, <5>3
      <4> QED BY <2>4, <4>1, <4>6
    <3>2. ASSUME NEW r \in S, NEW s \in S, NEW row, Waits(r, s, row)
          PROVE  \E a \in Accounts : row = Account(a)
      <4> PICK q : q = req[r] OBVIOUS
      <4>1. row = Account(q.target) \/ (q.human # Nobody /\ row = Account(AccountOf[q.human]))
            BY <1>1, <2>4, <3>1, <3>2, WaitsForNoSession
      <4>2. Sound(q) /\ q.kind # "none" BY <1>1, <3>2, WaitsAre
      <4>3. q.target \in Accounts /\ (q.human # Nobody => AccountOf[q.human] \in Accounts)
            BY <4>2, AuthorityAssumption DEF Sound, Bound
      <4> QED BY <4>1, <4>3
    <3> DEFINE Wanted == {a \in Accounts : \E r, s \in S : Waits(r, s, Account(a))}
    <3>3. PICK m \in Wanted : \A a \in Wanted : a <= m
      <4>1. Wanted # {} BY <1>1, <2>0, <3>2
      <4>2. Wanted \subseteq 1 .. MaxAccounts BY DEF Accounts
      <4> HIDE DEF Wanted
      <4> QED BY <4>1, <4>2, AuthorityAssumption, Greatest
    <3>4. PICK r, s \in S : Waits(r, s, Account(m)) BY <3>3
    <3> PICK t \in S : \E row : Waits(s, t, row) BY <2>0
    <3>5. PICK row : Waits(s, t, row) OBVIOUS
    <3>6. PICK b \in Accounts : row = Account(b) BY <3>2, <3>5
    <3> PICK p : p = req[s] OBVIOUS
    <3>7. /\ Sound(p) /\ Account(m) \in p.held
          /\ Account(b) \in Rows(p) /\ Account(b) \notin p.held
          BY <1>1, <3>4, <3>5, <3>6, WaitsAre
    <3>8. b <= m /\ b # m /\ b \in Nat /\ m \in Nat
      <4>1. b \in Wanted BY <3>5, <3>6
      <4> QED BY <3>3, <3>7, <4>1, AuthorityAssumption DEF Accounts
    <3>9. Before(p, Account(b), Account(m))
      <4>1. Level(p, Account(b)) = 0 /\ Level(p, Account(m)) = 0 BY Levels
      <4> QED BY <3>8, <4>1, Names DEF Before
    <3> QED BY <3>7, <3>9 DEF Sound, Closed
  <2> QED BY <2>3, <2>4
<1>2. Inv => OneKindOfCircle BY <1>1 DEF OneKindOfCircle
<1> QED BY <1>2, InvInit, InvStep, PTL DEF Spec

-----------------------------------------------------------------------------
(* Revocation of a credential.                                             *)

LEMMA AskStarts == ASSUME NEW r, Ask(r) PROVE \E q : Start(r, q)
<1>1. ASSUME NEW h, NEW a, NEW s, AskMember(r, h, a, s) PROVE \E q : Start(r, q)
      BY <1>1, Zenon DEF AskMember
<1>2. ASSUME NEW h, NEW kind, AskIssue(r, h, kind) PROVE \E q : Start(r, q)
      BY <1>2, Zenon DEF AskIssue
<1>3. ASSUME NEW h, NEW c, AskRevokeCredential(r, h, c) PROVE \E q : Start(r, q)
      BY <1>3, Zenon DEF AskRevokeCredential
<1>4. ASSUME NEW h, NEW x, AskRevoke(r, h, x) PROVE \E q : Start(r, q)
      BY <1>4, Zenon DEF AskRevoke
<1>5. ASSUME NEW c, AskOpen(r, c) PROVE \E q : Start(r, q) BY <1>5, Zenon DEF AskOpen
<1>6. ASSUME NEW kind, NEW m, NEW x, AskCommerce(r, kind, m, x) PROVE \E q : Start(r, q)
      BY <1>6, Zenon DEF AskCommerce
<1> QED BY <1>1, <1>2, <1>3, <1>4, <1>5, <1>6 DEF Ask

LEMMA NoneOutlivesStep ==
    ASSUME Inv, NoneOutlivesItsCredential, [Next]_vars
    PROVE  NoneOutlivesItsCredential'
<1>0. RowTypes /\ Known BY Types DEF Inv
<1>1. CASE UNCHANGED <<machine, credential>> BY <1>1 DEF NoneOutlivesItsCredential
<1>2. ASSUME NEW r \in Requests, NEW c \in Credentials, CommitIssueCredential(r, c)
      PROVE  NoneOutlivesItsCredential'
  <2>1. /\ credential[c].status = "none" /\ machine' = machine
        /\ \A d \in Credentials : d # c => credential'[d] = credential[d]
        BY <1>0, <1>2 DEF CommitIssueCredential, RowTypes
  <2> SUFFICES ASSUME NEW m \in Machines, machine[m].status = "live"
               PROVE  credential'[machine[m].credential].status = "live"
      BY <2>1 DEF NoneOutlivesItsCredential
  <2>2. machine[m].credential \in Credentials BY <1>0 DEF Known
  <2> QED BY <2>1, <2>2 DEF NoneOutlivesItsCredential
<1>3. ASSUME NEW r \in Requests, CommitRevokeCredential(r)
      PROVE  NoneOutlivesItsCredential'
  <2> PICK c : c = req[r].credential OBVIOUS
  <2>1. /\ \A d \in Credentials : d # c => credential'[d] = credential[d]
        /\ \A m \in Machines : machine'[m] =
              IF credential[c].status = "live" /\ machine[m].credential = c
              THEN [machine[m] EXCEPT !.status = "revoked"] ELSE machine[m]
        BY <1>0, <1>3 DEF CommitRevokeCredential, RowTypes
  <2> SUFFICES ASSUME NEW m \in Machines, machine'[m].status = "live"
               PROVE  credential'[machine'[m].credential].status = "live"
      BY DEF NoneOutlivesItsCredential
  <2>2. machine[m] \in [status : States, credential : Credentials \cup {Nobody}]
        BY <1>0 DEF RowTypes
  <2>3. ~(credential[c].status = "live" /\ machine[m].credential = c) /\ machine'[m] = machine[m]
        BY <2>1, <2>2
  <2>4. machine[m].credential \in Credentials /\ credential[machine[m].credential].status = "live"
        BY <1>0, <2>3 DEF Known, NoneOutlivesItsCredential
  <2> QED BY <2>1, <2>3, <2>4
<1>4. ASSUME NEW r \in Requests, NEW m \in Machines, CommitOpen(r, m)
      PROVE  NoneOutlivesItsCredential'
  <2> PICK q : q = req[r] OBVIOUS
  <2>1. Ready(r) /\ q.kind = "open" BY <1>4 DEF CommitOpen, Commit
  <2>2. credential[q.credential].status = "live" BY <2>1, ReadyIs DEF Backed
  <2>3. /\ credential' = credential
        /\ \A n \in Machines : machine'[n] =
              IF n = m THEN [status |-> "live", credential |-> q.credential] ELSE machine[n]
        BY <1>0, <1>4 DEF CommitOpen, RowTypes
  <2> QED BY <2>2, <2>3 DEF NoneOutlivesItsCredential
<1>5. ASSUME NEW m \in Machines, CloseMachine(m) PROVE NoneOutlivesItsCredential'
  <2>1. /\ credential' = credential
        /\ \A n \in Machines : /\ machine'[n].credential = machine[n].credential
                               /\ machine'[n].status = "live" => machine[n].status = "live"
        BY <1>0, <1>5 DEF CloseMachine, RowTypes
  <2> QED BY <2>1 DEF NoneOutlivesItsCredential
<1>6. ASSUME NEW r \in Requests, Finish(r) PROVE NoneOutlivesItsCredential'
  <2>1. CASE CommitMember(r) BY <1>1, <2>1 DEF CommitMember
  <2>2. ASSUME NEW x \in Commerce, CommitIssue(r, x) PROVE NoneOutlivesItsCredential'
        BY <1>1, <2>2 DEF CommitIssue
  <2>3. CASE CommitExchange(r) BY <1>1, <2>3 DEF CommitExchange
  <2>4. CASE CommitRevoke(r) BY <1>1, <2>4 DEF CommitRevoke
  <2>5. CASE CommitUse(r) BY <1>1, <2>5 DEF CommitUse, rows
  <2> QED BY <1>2, <1>3, <1>4, <1>6, <2>1, <2>2, <2>3, <2>4, <2>5 DEF Finish
<1>7. ASSUME NEW r \in Requests, Ask(r) PROVE UNCHANGED rows
      BY <1>7, AskStarts DEF Start
<1>8. ASSUME NEW r \in Requests, NEW row, Lock(r, row) \/ GiveUp(r) PROVE UNCHANGED rows
      BY <1>8 DEF Lock, GiveUp
<1>9. UNCHANGED rows => UNCHANGED <<machine, credential>> BY DEF rows
<1>10. ASSUME NEW h \in Humans, Login(h) \/ Logout(h) PROVE NoneOutlivesItsCredential'
       BY <1>1, <1>10 DEF Login, Logout
<1>11. ASSUME NEW what \in Switched, Switch(what) PROVE NoneOutlivesItsCredential'
       BY <1>1, <1>11 DEF Switch
<1>12. CASE UNCHANGED vars BY <1>1, <1>9, <1>12 DEF vars
<1> QED BY <1>1, <1>5, <1>6, <1>7, <1>8, <1>9, <1>10, <1>11, <1>12 DEF Next

(* Revoking a credential ends every machine session opened with it, also    *)
(* one whose opening was under way, and none is left in force (0009:1055).  *)
THEOREM RevocationReachesAll == Spec => []NoneOutlivesItsCredential
<1>1. Init => NoneOutlivesItsCredential BY DEF Init, NoneOutlivesItsCredential
<1> QED BY <1>1, InvInit, InvStep, NoneOutlivesStep, PTL DEF Spec

-----------------------------------------------------------------------------
(* Every transaction takes effect at once.                                 *)

(* What a look-up found out of its own table stays true.                   *)
Named(q) ==
    /\ q.kind = "member" => q.standing \in Standings
    /\ q.kind \in ByMachine \cup {"revoke"} => commerce[q.commerce].parent # Nobody
    /\ q.kind \in ByMachine => commerce[q.commerce].parent = q.human

Linked == \A r \in Requests : Named(req[r])

LEMMA NamedStays ==
    ASSUME NEW q, Bound(q), Named(q),
           \A x \in Commerce : commerce[x].parent # Nobody =>
              commerce'[x].parent = commerce[x].parent
    PROVE  Named(q)'
<1>1. q.kind \in ByMachine \cup {"revoke"} => q.commerce \in Commerce BY DEF Bound
<1> QED BY <1>1 DEF Named, ByMachine

LEMMA FinishEnds ==
    ASSUME NEW r \in Requests, Finish(r)
    PROVE  req' = [req EXCEPT ![r] = Idle]
<1>1. \E kind : Commit(r, kind)
      BY DEF Finish, CommitMember, CommitIssueCredential, CommitRevokeCredential, CommitOpen,
             CommitIssue, CommitExchange, CommitRevoke, CommitUse
<1> QED BY <1>1 DEF Commit

LEMMA ParentsStay ==
    ASSUME Inv, [Next]_vars
    PROVE  \A x \in Commerce : commerce[x].parent # Nobody =>
              commerce'[x].parent = commerce[x].parent
<1> DEFINE Stay == \A x \in Commerce : commerce[x].parent # Nobody =>
                       commerce'[x].parent = commerce[x].parent
<1>0. RowTypes BY Types DEF Inv
<1>1. commerce' = commerce => Stay OBVIOUS
<1>2. UNCHANGED rows => Stay BY DEF rows
<1>3. ASSUME NEW r \in Requests, NEW x \in Commerce, CommitIssue(r, x) PROVE Stay
      BY <1>0, <1>3 DEF CommitIssue, RowTypes
<1>4. ASSUME NEW r \in Requests, CommitExchange(r) PROVE Stay
      BY <1>0, <1>4 DEF CommitExchange, RowTypes
<1>5. ASSUME NEW r \in Requests, CommitRevoke(r) PROVE Stay
      BY <1>0, <1>5 DEF CommitRevoke, RowTypes
<1> HIDE DEF Stay
<1>6. ASSUME NEW r \in Requests, Finish(r) PROVE Stay
  <2>1. CASE CommitMember(r) BY <1>1, <2>1 DEF CommitMember
  <2>2. ASSUME NEW c \in Credentials, CommitIssueCredential(r, c) PROVE Stay
        BY <1>1, <2>2 DEF CommitIssueCredential
  <2>3. CASE CommitRevokeCredential(r) BY <1>1, <2>3 DEF CommitRevokeCredential
  <2>4. ASSUME NEW m \in Machines, CommitOpen(r, m) PROVE Stay
        BY <1>1, <2>4 DEF CommitOpen
  <2>5. CASE CommitUse(r) BY <1>2, <2>5 DEF CommitUse
  <2> QED BY <1>3, <1>4, <1>5, <1>6, <2>1, <2>2, <2>3, <2>4, <2>5 DEF Finish
<1>7. ASSUME NEW r \in Requests, NEW row, Ask(r) \/ Lock(r, row) \/ GiveUp(r) PROVE Stay
      BY <1>2, <1>7, AskStarts DEF Start, Lock, GiveUp
<1>8. ASSUME NEW h \in Humans, Login(h) \/ Logout(h) PROVE Stay
      BY <1>1, <1>8 DEF Login, Logout
<1>9. ASSUME NEW what \in Switched, Switch(what) PROVE Stay BY <1>1, <1>9 DEF Switch
<1>10. ASSUME NEW m \in Machines, CloseMachine(m) PROVE Stay
       BY <1>1, <1>10 DEF CloseMachine
<1>11. ASSUME UNCHANGED vars PROVE Stay BY <1>2, <1>11 DEF vars
<1>12. Stay BY <1>6, <1>7, <1>8, <1>9, <1>10, <1>11 DEF Next
<1> QED BY <1>12 DEF Stay

LEMMA AskNames ==
    ASSUME NEW r, Ask(r) PROVE \E q : Start(r, q) /\ Named(q)
<1>1. ASSUME NEW h \in Humans, NEW a \in Accounts, NEW s \in Standings, AskMember(r, h, a, s)
      PROVE  \E q : Start(r, q) /\ Named(q)
  <2> DEFINE q == [Idle EXCEPT !.kind = "member", !.human = h, !.target = a, !.standing = s]
  <2>1. Named(q) BY DEF Idle, Named, ByMachine
  <2> QED BY <1>1, <2>1 DEF AskMember
<1>2. ASSUME NEW h \in Humans, NEW kind \in {"issueCredential", "issue"}, AskIssue(r, h, kind)
      PROVE  \E q : Start(r, q) /\ Named(q)
  <2> DEFINE q == [Idle EXCEPT !.kind = kind, !.human = h, !.target = AccountOf[h]]
  <2>1. Named(q) BY DEF Idle, Named, ByMachine
  <2> QED BY <1>2, <2>1 DEF AskIssue
<1>3. ASSUME NEW h \in Humans, NEW c \in Credentials, AskRevokeCredential(r, h, c)
      PROVE  \E q : Start(r, q) /\ Named(q)
  <2> DEFINE q == [Idle EXCEPT !.kind = "revokeCredential", !.human = h,
                               !.target = AccountOf[h], !.credential = c]
  <2>1. Named(q) BY DEF Idle, Named, ByMachine
  <2> QED BY <1>3, <2>1 DEF AskRevokeCredential
<1>4. ASSUME NEW h \in Humans, NEW x \in Commerce, AskRevoke(r, h, x)
      PROVE  \E q : Start(r, q) /\ Named(q)
  <2> DEFINE q == [Idle EXCEPT !.kind = "revoke", !.human = h,
                               !.target = AccountOf[h], !.commerce = x]
  <2>1. Named(q) BY <1>4 DEF AskRevoke, Idle, Named, ByMachine
  <2> QED BY <1>4, <2>1 DEF AskRevoke
<1>5. ASSUME NEW c \in Credentials, AskOpen(r, c) PROVE \E q : Start(r, q) /\ Named(q)
  <2> DEFINE q == [Idle EXCEPT !.kind = "open", !.target = credential[c].issuer,
                               !.credential = c]
  <2>1. Named(q) BY DEF Idle, Named, ByMachine
  <2> HIDE DEF q
  <2>2. Start(r, q) BY <1>5 DEF AskOpen, q
  <2> QED BY <2>1, <2>2
<1>6. ASSUME NEW kind \in ByMachine, NEW m \in Machines, NEW x \in Commerce,
             AskCommerce(r, kind, m, x)
      PROVE  \E q : Start(r, q) /\ Named(q)
  <2> DEFINE q == [Idle EXCEPT !.kind = kind, !.human = commerce[x].parent,
                    !.target = credential[machine[m].credential].issuer,
                    !.credential = machine[m].credential, !.machine = m,
                    !.commerce = x]
  <2>1. Named(q) BY <1>6 DEF AskCommerce, Idle, Named, ByMachine
  <2> HIDE DEF q
  <2>2. Start(r, q) BY <1>6 DEF AskCommerce, q
  <2> QED BY <2>1, <2>2
<1> QED BY <1>1, <1>2, <1>3, <1>4, <1>5, <1>6 DEF Ask, ByMachine

LEMMA LinkedStep ==
    ASSUME Inv, Linked, [Next]_vars
    PROVE  Linked'
<1>1. \A x \in Commerce : commerce[x].parent # Nobody =>
          commerce'[x].parent = commerce[x].parent
      BY ParentsStay
<1>2. ASSUME NEW q, Named(q), Bound(q) PROVE Named(q)' BY <1>1, <1>2, NamedStays
<1>3. Named(Idle)' BY DEF Named, Idle, ByMachine
<1>4. req \in [Requests -> Request] /\ \A s \in Requests : Bound(req[s])
      BY Types DEF Inv, Sound
<1>5. ASSUME \A s \in Requests : req'[s] = req[s] \/ req'[s] = Idle PROVE Linked'
  <2> SUFFICES ASSUME NEW s \in Requests, NEW q, q = req'[s] PROVE Named(q)'
      BY DEF Linked
  <2>1. CASE q = Idle BY <1>3, <2>1
  <2>2. CASE q = req[s] BY <1>2, <1>4, <2>2 DEF Linked
  <2> QED BY <1>5, <2>1, <2>2
<1>6. ASSUME NEW r \in Requests, Ask(r) PROVE Linked'
  <2>1. PICK q : Start(r, q) /\ Named(q) BY <1>6, AskNames
  <2>2. UNCHANGED rows /\ \A s \in Requests : req'[s] = IF s = r THEN q ELSE req[s]
        BY <1>4, <2>1 DEF Start
  <2>3. commerce' = commerce BY <2>2 DEF rows
  <2> SUFFICES ASSUME NEW s \in Requests, NEW p, p = req'[s] PROVE Named(p)'
      BY DEF Linked
  <2>4. Named(p) BY <2>1, <2>2 DEF Linked
  <2> QED BY <2>3, <2>4 DEF Named
<1>7. ASSUME NEW r \in Requests, NEW row \in Rows(req[r]), Lock(r, row) PROVE Linked'
  <2> SUFFICES ASSUME NEW s \in Requests, NEW q, q = req'[s] PROVE Named(q)'
      BY DEF Linked
  <2> PICK p : p = req[s] OBVIOUS
  <2>1. /\ q.kind = p.kind /\ q.commerce = p.commerce /\ q.human = p.human
        /\ q.standing = p.standing
        BY <1>4, <1>7 DEF Lock, Request
  <2>2. commerce' = commerce BY <1>7 DEF Lock, rows
  <2>3. Named(p) BY DEF Linked
  <2> QED BY <2>1, <2>2, <2>3 DEF Named
<1>8. ASSUME NEW r \in Requests, Finish(r) \/ GiveUp(r) PROVE Linked'
  <2>1. req' = [req EXCEPT ![r] = Idle] BY <1>8, FinishEnds DEF GiveUp
  <2> QED BY <1>4, <1>5, <2>1
<1>9. ASSUME NEW h \in Humans, Login(h) \/ Logout(h) PROVE Linked'
      BY <1>5, <1>9 DEF Login, Logout
<1>10. ASSUME NEW what \in Switched, Switch(what) PROVE Linked' BY <1>5, <1>10 DEF Switch
<1>11. ASSUME NEW m \in Machines, CloseMachine(m) PROVE Linked'
       BY <1>5, <1>11 DEF CloseMachine
<1>12. CASE UNCHANGED vars BY <1>5, <1>12 DEF vars
<1> QED BY <1>6, <1>7, <1>8, <1>9, <1>10, <1>11, <1>12 DEF Next

(* Each transaction is the step of Chain that judges it as it commits.     *)

LEMMA OfficeIsService ==
    ASSUME NEW a
    PROVE  InOffice(a) <=> Atomic!Serves(a)
BY DEF InOffice, Trusted, Atomic!Serves

LEMMA MemberAtOnce ==
    ASSUME Inv, Linked, Inv', NEW r \in Requests, CommitMember(r)
    PROVE  Atomic!Next
<1> PICK q : q = req[r] OBVIOUS
<1> PICK h, a, s : h = q.human /\ a = q.target /\ s = q.standing OBVIOUS
<1>1. /\ q.kind = "member" /\ Ready(r)
      /\ member' = [member EXCEPT ![a] = s]
      /\ human' = [i \in Humans |->
            IF AccountOf[i] = a /\ human[i] = "live" /\ member[a] # s
            THEN "gone" ELSE human[i]]
      /\ UNCHANGED <<up, credential, machine, commerce, tokens>>
      BY DEF CommitMember, Commit
<1>2. Bound(q) /\ Admitted(q) /\ (q.human # Nobody => human[q.human] = "live")
      BY <1>1, ReadyIs
<1>3. /\ h \in Humans /\ a \in Accounts /\ s \in Standings /\ h # Nobody
      BY <1>1, <1>2, AuthorityAssumption DEF Bound, ByHuman, Linked, Named
<1>4. /\ Owner(member[AccountOf[h]]) /\ (member[a].role = "none" => s.active)
      BY <1>1, <1>2 DEF Admitted, Actor
<1>5. \E b \in Accounts : Owner(member'[b]) BY DEF Inv, OwnersRemain
<1>6. Atomic!SetMember(h, a, s)
      BY <1>1, <1>2, <1>3, <1>4, <1>5 DEF Atomic!SetMember, Atomic!IsOwner, Owner
<1> QED BY <1>3, <1>6 DEF Atomic!Next

LEMMA IssueCredentialAtOnce ==
    ASSUME Inv, NEW r \in Requests, NEW c \in Credentials, CommitIssueCredential(r, c)
    PROVE  Atomic!Next
<1> PICK q : q = req[r] OBVIOUS
<1>1. q.kind = "issueCredential" /\ Ready(r) BY DEF CommitIssueCredential, Commit
<1>2. Bound(q) /\ Admitted(q) /\ (q.human # Nobody => human[q.human] = "live")
      BY <1>1, ReadyIs
<1>3. q.human \in Humans /\ q.human # Nobody
      BY <1>1, <1>2, AuthorityAssumption DEF Bound, ByHuman
<1>4. Atomic!Present(q.human) /\ "agent" \in up
      BY <1>1, <1>2, <1>3, OfficeIsService DEF Admitted, Actor, Atomic!Present
<1>5. Atomic!IssueCredential(q.human, c)
      BY <1>4 DEF CommitIssueCredential, Actor, Atomic!IssueCredential
<1> QED BY <1>3, <1>5 DEF Atomic!Next

LEMMA RevokeCredentialAtOnce ==
    ASSUME Inv, NoneOutlivesItsCredential, NEW r \in Requests, CommitRevokeCredential(r)
    PROVE  Atomic!Next
<1> PICK q : q = req[r] OBVIOUS
<1> PICK h, c : h = q.human /\ c = q.credential OBVIOUS
<1>1. /\ q.kind = "revokeCredential" /\ Ready(r)
      /\ credential' = [credential EXCEPT ![c].status = "revoked"]
      /\ machine' = [m \in Machines |->
            IF credential[c].status = "live" /\ machine[m].credential = c
            THEN [machine[m] EXCEPT !.status = "revoked"] ELSE machine[m]]
      /\ UNCHANGED <<human, member, up, commerce, tokens>>
      BY DEF CommitRevokeCredential, Commit
<1>2. Bound(q) /\ Admitted(q) /\ (q.human # Nobody => human[q.human] = "live")
      BY <1>1, ReadyIs
<1>3. /\ h \in Humans /\ h # Nobody /\ c \in Credentials /\ c # Nobody
      /\ credential[c].status # "none"
      BY <1>1, <1>2, AuthorityAssumption DEF Bound, ByHuman
<1>4. human[h] = "live" /\ member[AccountOf[h]].role \in {"owner", "operator"}
      BY <1>1, <1>2, <1>3 DEF Admitted, Actor, Trusted
<1>5. ASSUME NEW m \in Machines, machine[m].credential = c, credential[c].status # "live"
      PROVE  [machine[m] EXCEPT !.status = "revoked"] = machine[m]
  <2>1. RowTypes /\ Known BY Types DEF Inv
  <2>2. machine[m] \in [status : States, credential : Credentials \cup {Nobody}]
        BY <2>1 DEF RowTypes
  <2>3. machine[m].status # "none" /\ machine[m].status # "live"
        BY <1>3, <1>5, <2>1 DEF Known, NoneOutlivesItsCredential
  <2> QED BY <2>2, <2>3 DEF States
<1>6. machine' = [m \in Machines |->
            IF machine[m].credential = c THEN [machine[m] EXCEPT !.status = "revoked"]
                                         ELSE machine[m]]
      BY <1>1, <1>5
<1>7. Atomic!RevokeCredential(h, c) BY <1>1, <1>3, <1>4, <1>6 DEF Atomic!RevokeCredential
<1> QED BY <1>3, <1>7 DEF Atomic!Next

LEMMA OpenAtOnce ==
    ASSUME Inv, NEW r \in Requests, NEW m \in Machines, CommitOpen(r, m)
    PROVE  Atomic!Next
<1> PICK q : q = req[r] OBVIOUS
<1>1. q.kind = "open" /\ Ready(r) BY DEF CommitOpen, Commit
<1>2. /\ Bound(q) /\ Admitted(q) /\ credential[q.credential].status = "live"
      BY <1>1, ReadyIs DEF Backed
<1>3. q.credential \in Credentials /\ credential[q.credential].issuer = q.target
      BY <1>1, <1>2 DEF Bound, Backed
<1>4. Atomic!Backed(q.credential) /\ "agent" \in up
      BY <1>1, <1>2, <1>3, OfficeIsService DEF Admitted, Atomic!Backed
<1>5. Atomic!Open(q.credential, m) BY <1>4 DEF CommitOpen, Atomic!Open
<1> QED BY <1>3, <1>5 DEF Atomic!Next

LEMMA IssueAtOnce ==
    ASSUME Inv, NEW r \in Requests, NEW x \in Commerce, CommitIssue(r, x)
    PROVE  Atomic!Next
<1> PICK q : q = req[r] OBVIOUS
<1>1. q.kind = "issue" /\ Ready(r) BY DEF CommitIssue, Commit
<1>2. Bound(q) /\ Admitted(q) /\ (q.human # Nobody => human[q.human] = "live")
      BY <1>1, ReadyIs
<1>3. q.human \in Humans /\ q.human # Nobody
      BY <1>1, <1>2, AuthorityAssumption DEF Bound, ByHuman
<1>4. Atomic!Present(q.human) /\ up = {"agent", "policy"}
      BY <1>1, <1>2, <1>3, OfficeIsService DEF Admitted, Actor, Atomic!Present
<1>5. Atomic!Issue(q.human, x) BY <1>4 DEF CommitIssue, Atomic!Issue
<1> QED BY <1>3, <1>5 DEF Atomic!Next

LEMMA ExchangeAtOnce ==
    ASSUME Inv, Linked, NEW r \in Requests, CommitExchange(r)
    PROVE  Atomic!Next
<1> PICK q : q = req[r] OBVIOUS
<1> PICK m, x : m = q.machine /\ x = q.commerce OBVIOUS
<1>1. /\ q.kind = "exchange" /\ Ready(r)
      /\ commerce' = [commerce EXCEPT ![x].machine = m]
      /\ tokens' = [tokens EXCEPT ![x] = @ + 1]
      /\ UNCHANGED <<human, member, up, credential, machine>>
      BY DEF CommitExchange, Commit
<1>2. /\ Bound(q) /\ Admitted(q) /\ (q.human # Nobody => human[q.human] = "live")
      /\ credential[q.credential].status = "live" /\ machine[m].status = "live"
      BY <1>1, ReadyIs DEF Backed, ByMachine
<1>3. /\ q.human \in Humans /\ q.human # Nobody /\ m \in Machines /\ x \in Commerce
      /\ machine[m].credential = q.credential
      /\ credential[q.credential].issuer = q.target
      BY <1>1, <1>2, AuthorityAssumption DEF Bound, Backed, ByMachine
<1>4. commerce[x].parent = q.human BY <1>1 DEF Linked, Named, ByMachine
<1>5. /\ InOffice(AccountOf[q.human]) /\ InOffice(q.target) /\ up = {"agent", "policy"}
      /\ commerce[x].machine = Nobody /\ ~commerce[x].revoked
      BY <1>1, <1>2 DEF Admitted, Actor
<1>6. tokens[x] = 0 /\ tokens \in [Commerce -> Nat]
      BY <1>3, <1>5, Types DEF Inv, Counted, RowTypes
<1>7. tokens' = [tokens EXCEPT ![x] = 1] BY <1>1, <1>3, <1>6
<1>8. Atomic!Present(commerce[x].parent) /\ Atomic!Acts(m)
      BY <1>2, <1>3, <1>4, <1>5, OfficeIsService
      DEF Atomic!Present, Atomic!Acts, Atomic!Backed
<1>9. Atomic!Exchange(m, x)
      BY <1>1, <1>3, <1>4, <1>5, <1>6, <1>7, <1>8 DEF Atomic!Exchange
<1> QED BY <1>3, <1>9 DEF Atomic!Next

LEMMA RevokeAtOnce ==
    ASSUME Inv, Linked, NEW r \in Requests, CommitRevoke(r)
    PROVE  Atomic!Next
<1> PICK q : q = req[r] OBVIOUS
<1>1. q.kind = "revoke" /\ Ready(r) BY DEF CommitRevoke, Commit
<1>2. Bound(q) /\ Admitted(q) /\ (q.human # Nobody => human[q.human] = "live")
      BY <1>1, ReadyIs
<1>3. q.human \in Humans /\ q.human # Nobody /\ q.commerce \in Commerce
      BY <1>1, <1>2, AuthorityAssumption DEF Bound, ByHuman
<1>4. Atomic!Present(q.human) /\ commerce[q.commerce].parent # Nobody
      BY <1>1, <1>2, <1>3, OfficeIsService DEF Admitted, Actor, Atomic!Present, Linked, Named
<1>5. Atomic!Revoke(q.human, q.commerce) BY <1>4 DEF CommitRevoke, Atomic!Revoke
<1> QED BY <1>3, <1>5 DEF Atomic!Next

(* A run of Authority is one of Chain: though a transaction looks up, locks *)
(* and judges row by row while others commit, it does what it would if all  *)
(* of it happened in the instant it commits (0002, 0004, 0005, 0009, 0010). *)
THEOREM TransactionsAreAtomic == Spec => TakesEffectAtOnce
<1>1. Init => Atomic!Init BY DEF Init, Atomic!Init
<1>2. Init => Linked
  <2> SUFFICES ASSUME Init, NEW r \in Requests PROVE Named(req[r]) BY Zenon DEF Linked
  <2>1. req[r].kind = "none" BY DEF Init, Idle
  <2> QED BY <2>1 DEF Named, ByMachine
<1>3. Init => NoneOutlivesItsCredential BY DEF Init, NoneOutlivesItsCredential
<1>4. ASSUME Inv, Inv', Linked, NoneOutlivesItsCredential, [Next]_vars
      PROVE  [Atomic!Next]_(Atomic!chain)
  <2>1. UNCHANGED rows => UNCHANGED Atomic!chain BY DEF rows, Atomic!chain
  <2>2. ASSUME NEW r \in Requests, Finish(r) PROVE Atomic!Next \/ UNCHANGED rows
    <3>1. CASE CommitMember(r) BY <1>4, <3>1, MemberAtOnce
    <3>2. ASSUME NEW c \in Credentials, CommitIssueCredential(r, c) PROVE Atomic!Next
          BY <1>4, <3>2, IssueCredentialAtOnce
    <3>3. CASE CommitRevokeCredential(r) BY <1>4, <3>3, RevokeCredentialAtOnce
    <3>4. ASSUME NEW m \in Machines, CommitOpen(r, m) PROVE Atomic!Next
          BY <1>4, <3>4, OpenAtOnce
    <3>5. ASSUME NEW x \in Commerce, CommitIssue(r, x) PROVE Atomic!Next
          BY <1>4, <3>5, IssueAtOnce
    <3>6. CASE CommitExchange(r) BY <1>4, <3>6, ExchangeAtOnce
    <3>7. CASE CommitRevoke(r) BY <1>4, <3>7, RevokeAtOnce
    <3>8. CASE CommitUse(r) BY <3>8 DEF CommitUse
    <3> QED BY <2>2, <3>1, <3>2, <3>3, <3>4, <3>5, <3>6, <3>7, <3>8 DEF Finish
  <2>3. ASSUME NEW r \in Requests, NEW row, Ask(r) \/ Lock(r, row) \/ GiveUp(r)
        PROVE  UNCHANGED rows
        BY <2>3, AskStarts DEF Start, Lock, GiveUp
  <2>4. ASSUME NEW h \in Humans, Login(h) \/ Logout(h) PROVE Atomic!Next
        BY <2>4 DEF Login, Logout, Atomic!Login, Atomic!Logout, Atomic!Next
  <2>5. ASSUME NEW what \in Switched, Switch(what) PROVE Atomic!Next
        BY <2>5 DEF Switch, Atomic!Switch, Atomic!Next
  <2>6. ASSUME NEW m \in Machines, CloseMachine(m) PROVE Atomic!Next
        BY <2>6 DEF CloseMachine, Atomic!Close, Atomic!Next
  <2>7. ASSUME UNCHANGED vars PROVE UNCHANGED rows BY <2>7 DEF vars
  <2>8. Atomic!Next \/ UNCHANGED rows
        BY <1>4, <2>2, <2>3, <2>4, <2>5, <2>6, <2>7 DEF Next
  <2> QED BY <2>1, <2>8
<1> QED BY <1>1, <1>2, <1>3, <1>4, InvInit, InvStep, LinkedStep, NoneOutlivesStep, PTL
        DEF Spec, TakesEffectAtOnce, Atomic!Spec
=============================================================================
