-------------------------- MODULE MutationsProofs --------------------------
(***************************************************************************)
(* Proofs about Mutations, for any number of changes, sessions and         *)
(* accounts.                                                               *)
(*                                                                         *)
(* The inductive invariant follows a change along its way.  Bound: what    *)
(* left the browser left it for the account the user confirmed with, and   *)
(* what is recorded was recorded for the session of that account.          *)
(* Answered: an answer on its way is true of the record, and a request     *)
(* that was answered to a client that took it is not delivered again.      *)
(* Seen: the outcome on the screen belongs to the view it was asked from.  *)
(***************************************************************************)
EXTENDS Mutations, TLAPS

Bound(m) ==
    /\ submit[m].phase # "unused" => submit[m].op \in Operations
    /\ submit[m].phase \in {"unused", "asking", "asked", "changed"} =>
          net[m] = "none" /\ record[m] = Nobody
    /\ submit[m].phase = "sent" \/ net[m] # "none" \/ record[m] # Nobody =>
          submit[m].token # Nobody /\ AccountOf[submit[m].token] = submit[m].account
    /\ record[m] # Nobody =>
          record[m] = submit[m].cookie /\ submit[m].cookie = submit[m].token

Answered(m) ==
    /\ net[m] \in Answers => submit[m].phase = "sent"
    /\ net[m] = "committed" => record[m] # Nobody
    /\ net[m] \in {"policy", "conflict"} => record[m] = Nobody
    /\ submit[m].phase = "refused" => net[m] = "none" /\ record[m] = Nobody

Looked == look.answer = "committed" => look.mutation \in Mutations /\ record[look.mutation] # Nobody

Seen ==
    /\ shown # Nobody => last = shown
    /\ current # Nobody => last # Nobody /\ submit[current].view = last
    /\ console.kind \in Outcomes => console.mutation = current
    /\ console.kind = "committed" => record[current] # Nobody

Inv ==
    /\ TypeOK
    /\ \A m \in Mutations : Bound(m) /\ Answered(m)
    /\ AppliedOnce
    /\ Looked
    /\ Seen

LEMMA InvInit == Init => Inv
<1> USE MutationsAssumption
<1> SUFFICES ASSUME Init PROVE Inv OBVIOUS
<1>1. TypeOK BY DEF Init, TypeOK, Call, Console, Idle, Unused, NoLook, SessionOrNobody, AccountOrNobody, Phases
<1>2. \A m \in Mutations : Bound(m) /\ Answered(m)
      BY DEF Init, Bound, Answered, Answers, Unused
<1>3. AppliedOnce BY DEF Init, AppliedOnce
<1>4. Looked BY DEF Init, Looked, NoLook
<1>5. Seen BY DEF Init, Seen, Idle, Outcomes
<1> QED BY <1>1, <1>2, <1>3, <1>4, <1>5 DEF Inv

(* The end of a call keeps all that is said of the screen.                 *)
LEMMA Telling ==
  ASSUME Inv, NEW m \in Mutations, NEW phase \in Phases,
         Tells(m, phase), phase = "done" => record'[m] # Nobody,
         UNCHANGED <<last, shown, current>>,
         current # Nobody => submit'[current].view = submit[current].view,
         \A n \in Mutations : record[n] # Nobody => record'[n] # Nobody,
         submit[m].op \in Operations
  PROVE  /\ Seen'
         /\ screen' \in {"empty", "list", "organization"}
         /\ console' \in Console
<1>1. screen' \in {"empty", "list", "organization"}
      BY DEF Inv, TypeOK, Tells, ScreenAfter, Lists
<1>2. Kind(phase) \in Outcomes /\ (Kind(phase) = "committed" => phase = "done")
      BY DEF Kind, Outcomes
<1>3. CASE current = m
  <2>1. console' = [kind |-> Kind(phase), op |-> submit[m].op, mutation |-> m]
        BY <1>3 DEF Tells, Tell
  <2> QED BY <1>1, <1>2, <1>3, <2>1, MutationsAssumption DEF Console, Call, Seen, Inv
<1>4. CASE current # m
  <2>1. console' = console BY <1>4 DEF Tells
  <2>2. console.kind = "committed" => current \in Mutations
        BY DEF Console, Call, Inv, TypeOK, Seen, Idle, Outcomes
  <2> QED BY <1>1, <2>1, <2>2 DEF Seen, Inv, TypeOK
<1> QED BY <1>3, <1>4

(* A step that leaves the calls and the rows alone need only keep what is  *)
(* said of the screen.                                                     *)
LEMMA CallsKept ==
  ASSUME Inv, UNCHANGED <<submit, net, rows>>, TypeOK', Looked', Seen'
  PROVE  Inv'
BY DEF Inv, Bound, Answered, AppliedOnce, rows

(* A step of one call need only keep what is said of this call.            *)
LEMMA OneCall ==
  ASSUME Inv, NEW m \in Mutations, TypeOK', Bound(m)', Answered(m)', Seen',
         \A n \in Mutations \ {m} : /\ submit'[n] = submit[n] /\ net'[n] = net[n]
                                    /\ record'[n] = record[n] /\ effects'[n] = effects[n],
         effects'[m] = IF record'[m] = Nobody THEN 0 ELSE 1,
         record[m] # Nobody => record'[m] # Nobody,
         UNCHANGED look
  PROVE  Inv'
<1>1. \A n \in Mutations \ {m} : (Bound(n) /\ Answered(n))'
      BY DEF Inv, Bound, Answered
<1>2. AppliedOnce' BY DEF Inv, AppliedOnce
<1>3. Looked' BY DEF Inv, Looked
<1> QED BY <1>1, <1>2, <1>3 DEF Inv

(* What happens to the sessions and on the screen between the calls.       *)
LEMMA ScreenSteps ==
  ASSUME Inv,
         \/ \E s \in Sessions : Login(s) \/ End(s)
         \/ Refresh \/ LoseView \/ SelectOrganization \/ Leave \/ Cancel
         \/ \E op \in Operations : Begin(op)
  PROVE  Inv'
<1> USE MutationsAssumption DEF SessionOrNobody, AccountOrNobody
<1>1. ASSUME NEW s \in Sessions, Login(s) PROVE Inv'
  <2>1. TypeOK' BY <1>1 DEF Login, rows, Inv, TypeOK
  <2>2. Looked' /\ Seen' BY <1>1 DEF Login, rows, Inv, Looked, Seen
  <2> QED BY <1>1, <2>1, <2>2, CallsKept DEF Login
<1>2. ASSUME NEW s \in Sessions, End(s) PROVE Inv'
  <2>1. TypeOK' BY <1>2 DEF End, rows, browser, Inv, TypeOK
  <2>2. Looked' /\ Seen' BY <1>2 DEF End, rows, browser, Inv, Looked, Seen
  <2> QED BY <1>2, <2>1, <2>2, CallsKept DEF End
<1>3. ASSUME Refresh PROVE Inv'
  <2>1. Account(cookie) \in Accounts \cup {Nobody} BY DEF Account, Live, Inv, TypeOK
  <2>2. TypeOK' BY <1>3, <2>1 DEF Console, Refresh, Clear, Lists, rows, Inv, TypeOK
  <2>3. Looked' BY <1>3 DEF Refresh, rows, Inv, Looked
  <2>4. Seen'
    <3>1. CASE Changed(Account(cookie))
          BY <1>3, <3>1 DEF Refresh, Changed, Clear, Idle, Outcomes, Seen, Inv
    <3>2. CASE ~Changed(Account(cookie))
          BY <1>3, <3>2 DEF Refresh, Changed, rows, Seen, Inv
    <3> QED BY <3>1, <3>2
  <2> QED BY <1>3, <2>2, <2>3, <2>4, CallsKept DEF Refresh
<1>4. ASSUME LoseView PROVE Inv'
  <2>1. TypeOK' BY <1>4 DEF LoseView, rows, Inv, TypeOK
  <2>2. Looked' /\ Seen' BY <1>4 DEF LoseView, rows, Inv, Looked, Seen
  <2> QED BY <1>4, <2>1, <2>2, CallsKept DEF LoseView
<1>5. ASSUME SelectOrganization \/ Leave \/ Cancel PROVE Inv'
  <2> USE DEF SelectOrganization, Leave, Cancel, Clear, browser, rows
  <2>1. TypeOK' BY <1>5 DEF Console, Inv, TypeOK
  <2>2. Looked' BY <1>5 DEF Inv, Looked
  <2>3. Seen' BY <1>5 DEF Inv, Seen, Idle, Outcomes
  <2> QED BY <1>5, <2>1, <2>2, <2>3, CallsKept
<1>6. ASSUME NEW op \in Operations, Begin(op) PROVE Inv'
  <2> USE DEF Begin, browser, rows
  <2>1. TypeOK' BY <1>6 DEF Console, Inv, TypeOK
  <2>2. Looked' BY <1>6 DEF Inv, Looked
  <2>3. Seen' BY <1>6 DEF Inv, Seen, Outcomes
  <2> QED BY <1>6, <2>1, <2>2, <2>3, CallsKept
<1> QED BY <1>1, <1>2, <1>3, <1>4, <1>5, <1>6

Same(c, d) == /\ c.op = d.op /\ c.account = d.account /\ c.view = d.view
              /\ c.token = d.token /\ c.cookie = d.cookie

(* The end of a call in the phases of the model.                           *)
LEMMA Ending ==
  ASSUME Inv, NEW m \in Mutations, NEW phase \in Phases, Ends(m, phase),
         submit[m].phase # "unused",
         UNCHANGED <<last, shown, current, record>>,
         phase = "done" => record[m] # Nobody
  PROVE  /\ submit' \in [Mutations -> Call]
         /\ submit'[m].phase = IF current = m THEN phase ELSE "dropped"
         /\ Same(submit'[m], submit[m])
         /\ \A n \in Mutations \ {m} : submit'[n] = submit[n]
         /\ submit[m].op \in Operations
         /\ Seen'
         /\ screen' \in {"empty", "list", "organization"}
         /\ console' \in Console
<1>1. submit[m].op \in Operations BY DEF Inv, Bound
<1>2. /\ submit' \in [Mutations -> Call]
      /\ submit'[m].phase = IF current = m THEN phase ELSE "dropped"
      /\ Same(submit'[m], submit[m])
      /\ \A n \in Mutations \ {m} : submit'[n] = submit[n]
      BY DEF Ends, Inv, TypeOK, Call, Same, Phases
<1>3. current # Nobody => submit'[current].view = submit[current].view
  <2>1. current # Nobody => current \in Mutations BY DEF Inv, TypeOK
  <2> QED BY <1>2, <2>1 DEF Inv, TypeOK, Same
<1>4. Tells(m, phase) BY DEF Ends
<1> QED BY <1>1, <1>2, <1>3, <1>4, Telling

LEMMA ConfirmStep == ASSUME Inv, NEW m \in Mutations, Confirm(m) PROVE Inv'
<1> USE MutationsAssumption DEF SessionOrNobody, AccountOrNobody
<1>1. console.op \in Operations BY DEF Console, Confirm, Inv, TypeOK, Idle, Outcomes
<1>2. TypeOK'
  <2>1. submit' \in [Mutations -> Call]
        BY <1>1 DEF Call, Confirm, Inv, TypeOK, Unused, Phases
  <2>2. console' \in [kind : Outcomes, op : Operations, mutation : Mutations]
        BY <1>1 DEF Confirm, Tell, Outcomes
  <2> QED BY <2>1, <2>2 DEF Console, Confirm, browser, rows, Inv, TypeOK
<1>3. /\ submit'[m].phase \in {"asking", "unknown"} /\ submit'[m].op \in Operations
      /\ submit'[m].view = shown
      /\ \A n \in Mutations \ {m} : submit'[n] = submit[n]
      BY <1>1 DEF Confirm, Inv, TypeOK, Unused
<1>4. net[m] = "none" /\ record[m] = Nobody BY DEF Confirm, Unused, Inv, Bound
<1>5. Bound(m)' /\ Answered(m)'
      BY <1>3, <1>4 DEF Confirm, rows, Bound, Answered, Answers
<1>6. Seen'
      BY <1>3 DEF Confirm, Tell, FormShown, browser, Seen, Inv, TypeOK
<1> QED BY <1>2, <1>3, <1>5, <1>6, OneCall DEF Confirm, rows, Inv, AppliedOnce

LEMMA BootstrapStep == ASSUME Inv, NEW m \in Mutations, Bootstrap(m) PROVE Inv'
<1> USE MutationsAssumption DEF SessionOrNobody, AccountOrNobody
<1>1. TypeOK'
  <2> DEFINE token == IF Live(cookie) THEN cookie ELSE Nobody
             call == [submit[m] EXCEPT !.phase = "asked", !.cookie = cookie, !.token = token]
  <2>1. token \in SessionOrNobody /\ cookie \in SessionOrNobody /\ "asked" \in Phases
        BY DEF Inv, TypeOK, Phases
  <2>2. submit \in [Mutations -> Call] BY DEF Inv, TypeOK
  <2>3. submit' = [submit EXCEPT ![m] = call] BY <2>2 DEF Bootstrap, Call
  <2>4. call \in Call
    <3> HIDE DEF token
    <3> QED BY <2>1, <2>2 DEF Call
  <2> HIDE DEF call
  <2>5. submit' \in [Mutations -> Call] BY <2>2, <2>3, <2>4
  <2> QED BY <2>5 DEF Bootstrap, browser, rows, Inv, TypeOK
<1>2. /\ submit'[m].phase = "asked" /\ submit'[m].op = submit[m].op
      /\ submit'[m].view = submit[m].view
      /\ \A n \in Mutations \ {m} : submit'[n] = submit[n]
      BY DEF Bootstrap, Inv, TypeOK
<1>3. Bound(m)' /\ Answered(m)'
      BY <1>2 DEF Bootstrap, rows, Inv, Bound, Answered, Answers
<1>4. Seen' BY <1>2 DEF Bootstrap, browser, rows, Seen, Inv, TypeOK
<1> QED BY <1>1, <1>2, <1>3, <1>4, OneCall DEF Bootstrap, rows, Inv, AppliedOnce

LEMMA BootstrapLostStep == ASSUME Inv, NEW m \in Mutations, BootstrapLost(m) PROVE Inv'
<1> USE MutationsAssumption
<1>1. Ends(m, "unknown") /\ submit[m].phase \in {"asking", "asked"} BY DEF BootstrapLost
<1>2. "unknown" \in Phases BY DEF Phases
<1>3. TypeOK' BY <1>1, <1>2, Ending DEF BootstrapLost, rows, Inv, TypeOK
<1>4. Bound(m)' /\ Answered(m)'
  <2>1. net'[m] = "none" /\ record'[m] = Nobody
        BY <1>1 DEF BootstrapLost, rows, Inv, Bound
  <2>2. submit'[m].phase \in {"unknown", "dropped"} /\ submit'[m].op \in Operations
        BY <1>1, <1>2, Ending DEF BootstrapLost, rows, Same
  <2> QED BY <2>1, <2>2 DEF Bound, Answered, Answers
<1>5. Seen' /\ \A n \in Mutations \ {m} : submit'[n] = submit[n]
      BY <1>1, <1>2, Ending DEF BootstrapLost, rows
<1> QED BY <1>3, <1>4, <1>5, OneCall DEF BootstrapLost, rows, Inv, AppliedOnce

LEMMA BootstrapArrivesStep == ASSUME Inv, NEW m \in Mutations, BootstrapArrives(m) PROVE Inv'
<1> USE MutationsAssumption
<1> DEFINE token == submit[m].token
           a == IF token = Nobody THEN Nobody ELSE AccountOf[token]
<1>1. /\ submit \in [Mutations -> Call] /\ submit[m].phase = "asked"
      /\ token \in SessionOrNobody /\ a \in AccountOrNobody
      BY DEF BootstrapArrives, Inv, TypeOK, Call, SessionOrNobody, AccountOrNobody
<1>2. net[m] = "none" /\ record[m] = Nobody /\ submit[m].op \in Operations
      BY <1>1 DEF Inv, Bound
<1>3. held' \in AccountOrNobody /\ cookie' \in SessionOrNobody
      BY <1>1 DEF BootstrapArrives, Inv, TypeOK, SessionOrNobody
<1>4. CASE AccountMatches(m, a)
  <2> DEFINE call == [submit[m] EXCEPT !.phase = "sent", !.cookie = cookie]
  <2>1. submit' = [submit EXCEPT ![m] = call] BY <1>1, <1>4 DEF BootstrapArrives, Call
  <2>2. call \in Call /\ call.phase = "sent" /\ call.op = submit[m].op
        /\ call.view = submit[m].view /\ call.token = token /\ call.account = submit[m].account
    <3>1. "sent" \in Phases /\ cookie \in SessionOrNobody BY DEF Phases, Inv, TypeOK
    <3> QED BY <1>1, <3>1 DEF Call
  <2> HIDE DEF call
  <2>3. /\ submit' \in [Mutations -> Call] /\ submit'[m] = call
        /\ \A n \in Mutations \ {m} : submit'[n] = submit[n]
        BY <1>1, <2>1, <2>2
  <2>4. net' = [net EXCEPT ![m] = "request"] /\ UNCHANGED <<console, screen>>
        BY <1>4 DEF BootstrapArrives
  <2>5. TypeOK' BY <1>3, <2>3, <2>4 DEF BootstrapArrives, rows, Inv, TypeOK
  <2>6. token # Nobody /\ AccountOf[token] = submit[m].account
        BY <1>4 DEF AccountMatches
  <2>7. Bound(m)' /\ Answered(m)'
        BY <1>2, <2>2, <2>3, <2>4, <2>6 DEF BootstrapArrives, rows, Inv, TypeOK, Bound, Answered, Answers
  <2>8. Seen' BY <2>2, <2>3, <2>4 DEF BootstrapArrives, rows, Seen, Inv, TypeOK
  <2> QED BY <2>3, <2>4, <2>5, <2>7, <2>8, OneCall DEF BootstrapArrives, rows, Inv, AppliedOnce, TypeOK
<1>5. CASE ~AccountMatches(m, a)
  <2>1. Ends(m, "changed") /\ UNCHANGED net BY <1>5 DEF BootstrapArrives
  <2>2. "changed" \in Phases BY DEF Phases
  <2>3. UNCHANGED <<last, shown, current, record>> BY DEF BootstrapArrives, rows
  <2>4. /\ submit' \in [Mutations -> Call] /\ Seen' /\ console' \in Console
        /\ screen' \in {"empty", "list", "organization"}
        /\ submit'[m].phase \in {"changed", "dropped"} /\ submit'[m].op = submit[m].op
        /\ \A n \in Mutations \ {m} : submit'[n] = submit[n]
        BY <1>1, <2>1, <2>2, <2>3, Ending DEF Same
  <2>5. TypeOK' BY <1>3, <2>1, <2>4 DEF BootstrapArrives, rows, Inv, TypeOK
  <2>6. Bound(m)' /\ Answered(m)'
        BY <1>2, <2>1, <2>3, <2>4 DEF Bound, Answered, Answers
  <2> QED BY <2>1, <2>4, <2>5, <2>6, OneCall DEF BootstrapArrives, rows, Inv, AppliedOnce
<1> QED BY <1>4, <1>5

(* An answer, or its loss.                                                 *)
LEMMA Answering ==
  ASSUME Inv, NEW m \in Mutations, NEW answer \in Answers, net[m] = "request", Answer(m, answer)
  PROVE  /\ net' \in [Mutations -> Answers \cup {"none", "request"}]
         /\ net'[m] \in {"request", answer}
         /\ net'[m] = answer => submit[m].phase = "sent"
         /\ \A n \in Mutations \ {m} : net'[n] = net[n]
BY DEF Answer, Answers, Inv, TypeOK

LEMMA ServeStep == ASSUME Inv, NEW m \in Mutations, Serve(m) \/ Fail(m) PROVE Inv'
<1> USE MutationsAssumption
<1>1. /\ net[m] = "request" /\ submit[m].phase # "refused"
      /\ UNCHANGED <<session, browser, console, current, submit, look>>
      BY DEF Serve, Fail, Inv, Answered
<1>2. submit[m].phase \notin {"unused", "asking", "asked", "changed"}
      BY <1>1 DEF Inv, Bound
<1>3. ASSUME NEW answer \in Answers, Answer(m, answer), UNCHANGED rows,
             answer = "committed" => record[m] # Nobody,
             answer \in {"policy", "conflict"} => record[m] = Nobody
      PROVE  Inv'
  <2>1. TypeOK' BY <1>1, <1>3, Answering DEF browser, rows, Inv, TypeOK
  <2>2. Bound(m)' BY <1>1, <1>2, <1>3 DEF rows, Inv, Bound
  <2>3. Answered(m)' BY <1>1, <1>3, Answering DEF rows, Inv, Answered, Answers
  <2>4. Seen' BY <1>1, <1>3 DEF browser, rows, Seen, Inv
  <2> QED BY <1>1, <1>3, <2>1, <2>2, <2>3, <2>4, Answering, OneCall DEF rows, Inv, AppliedOnce
<1>4. ASSUME NEW answer \in {"committed", "failed"}, Answer(m, answer), Commit(m),
             Verified(m), Live(submit[m].cookie), ~Recorded(m)
      PROVE  Inv'
  <2>1. /\ submit[m].cookie \in Sessions /\ record[m] = Nobody /\ effects[m] = 0
        /\ submit[m].cookie = submit[m].token
        BY <1>4 DEF Live, Recorded, Verified, Inv, TypeOK, Call, SessionOrNobody, AppliedOnce
  <2>2. /\ record' \in [Mutations -> SessionOrNobody] /\ record'[m] = submit[m].cookie
        /\ \A n \in Mutations \ {m} : record'[n] = record[n]
        BY <1>4, <2>1 DEF Commit, Inv, TypeOK, SessionOrNobody
  <2>3. /\ effects' \in [Mutations -> Nat] /\ effects'[m] = 1
        /\ \A n \in Mutations \ {m} : effects'[n] = effects[n]
        BY <1>4, <2>1 DEF Commit, Inv, TypeOK
  <2>4. revoked' \in BOOLEAN BY <1>4 DEF Commit, Inv, TypeOK
  <2>5. answer \in Answers BY DEF Answers
  <2>6. TypeOK' BY <1>1, <1>4, <2>2, <2>3, <2>4, <2>5, Answering DEF browser, Inv, TypeOK
  <2>7. record'[m] # Nobody BY <2>1, <2>2
  <2>8. Bound(m)' BY <1>1, <1>2, <2>1, <2>2 DEF Inv, Bound
  <2>9. Answered(m)' BY <1>1, <1>4, <2>5, <2>7, Answering DEF Inv, Answered, Answers
  <2>10. Seen'
    <3>1. console.kind = "committed" => current \in Mutations
          BY DEF Inv, TypeOK, Seen, Console, Idle, Outcomes
    <3> QED BY <1>1, <2>2, <2>7, <3>1 DEF browser, Seen, Inv
  <2> QED BY <1>1, <1>4, <2>2, <2>3, <2>5, <2>6, <2>7, <2>8, <2>9, <2>10, Answering, OneCall
<1>5. CASE Fail(m) BY <1>3, <1>5 DEF Fail, Answers, rows
<1>6. CASE Serve(m)
  <2>1. record[m] # Nobody => record[m] = submit[m].cookie BY DEF Inv, Bound
  <2> QED BY <1>3, <1>4, <1>6, <2>1 DEF Serve, Recorded, Answers
<1> QED BY <1>5, <1>6

LEMMA BreaksStep == ASSUME Inv, NEW m \in Mutations, Breaks(m) PROVE Inv'
<1> USE MutationsAssumption
<1>1. /\ Ends(m, "unknown") /\ submit[m].phase = "sent" /\ "unknown" \in Phases
      /\ UNCHANGED <<session, cookie, held, shown, last, current, look, rows>>
      BY DEF Breaks, Phases
<1>2. net' \in [Mutations -> Answers \cup {"none", "request"}] /\ net'[m] = "request"
      /\ \A n \in Mutations \ {m} : net'[n] = net[n]
      BY DEF Breaks, Inv, TypeOK
<1>3. /\ submit' \in [Mutations -> Call] /\ Seen' /\ console' \in Console
      /\ screen' \in {"empty", "list", "organization"}
      /\ submit'[m].phase \in {"unknown", "dropped"} /\ submit'[m].op \in Operations
      /\ Same(submit'[m], submit[m])
      /\ \A n \in Mutations \ {m} : submit'[n] = submit[n]
      BY <1>1, Ending DEF rows, Same
<1>4. TypeOK' BY <1>1, <1>2, <1>3 DEF rows, Inv, TypeOK
<1>5. Bound(m)' BY <1>1, <1>3 DEF rows, Inv, Bound, Same
<1>6. Answered(m)' BY <1>2, <1>3 DEF Answered, Answers
<1> QED BY <1>1, <1>2, <1>3, <1>4, <1>5, <1>6, OneCall DEF rows, Inv, AppliedOnce

LEMMA ArriveStep == ASSUME Inv, NEW m \in Mutations, Arrive(m) PROVE Inv'
<1> USE MutationsAssumption
<1> DEFINE phase == PhaseAfter(net[m])
<1>1. /\ Ends(m, phase) /\ submit[m].phase = "sent" /\ net[m] \in Answers
      /\ UNCHANGED <<session, cookie, held, shown, last, current, look, rows>>
      BY DEF Arrive
<1>2. /\ phase \in {"done", "refused", "denied", "unknown"} /\ phase \in Phases
      /\ phase = "done" => net[m] = "committed"
      /\ phase = "refused" => net[m] \in {"policy", "conflict"}
      BY DEF PhaseAfter, Phases
<1> HIDE DEF phase
<1>3. net' \in [Mutations -> Answers \cup {"none", "request"}] /\ net'[m] = "none"
      /\ \A n \in Mutations \ {m} : net'[n] = net[n]
      BY DEF Arrive, Inv, TypeOK
<1>4. /\ phase = "done" => record[m] # Nobody
      /\ phase = "refused" => record[m] = Nobody
      BY <1>2 DEF Inv, Answered
<1>5. /\ submit' \in [Mutations -> Call] /\ Seen' /\ console' \in Console
      /\ screen' \in {"empty", "list", "organization"}
      /\ submit'[m].phase \in {phase, "dropped"} /\ submit'[m].op \in Operations
      /\ Same(submit'[m], submit[m])
      /\ \A n \in Mutations \ {m} : submit'[n] = submit[n]
      BY <1>1, <1>2, <1>4, Ending DEF rows, Same
<1>6. TypeOK' BY <1>1, <1>3, <1>5 DEF rows, Inv, TypeOK
<1>7. Bound(m)' BY <1>1, <1>2, <1>5 DEF rows, Inv, Bound, Same
<1>8. Answered(m)' BY <1>1, <1>2, <1>3, <1>4, <1>5 DEF rows, Answered, Answers
<1> QED BY <1>1, <1>3, <1>5, <1>6, <1>7, <1>8, OneCall DEF rows, Inv, AppliedOnce

LEMMA CheckStatusStep == ASSUME Inv, CheckStatus PROVE Inv'
<1> USE MutationsAssumption
<1>1. UNCHANGED <<session, browser, console, current, submit, net, rows>> BY DEF CheckStatus
<1>2. current \in Mutations BY DEF CheckStatus, Inv, TypeOK, Seen, Console, Idle, Outcomes
<1>3. TypeOK' BY <1>1, <1>2 DEF CheckStatus, browser, rows, Inv, TypeOK
<1>4. Looked' BY <1>1, <1>2 DEF CheckStatus, Visible, rows, Looked
<1>5. Seen' BY <1>1 DEF browser, rows, Seen, Inv
<1> QED BY <1>1, <1>3, <1>4, <1>5, CallsKept

LEMMA LookArrivesStep == ASSUME Inv, LookArrives PROVE Inv'
<1> USE MutationsAssumption
<1>1. UNCHANGED <<session, cookie, held, shown, last, current, submit, net, rows>> /\ look' = NoLook
      BY DEF LookArrives
<1>2. Seen' /\ screen' \in {"empty", "list", "organization"} /\ console' \in Console
  <2>1. CASE UNCHANGED <<console, screen>> BY <1>1, <2>1 DEF rows, Seen, Inv, TypeOK
  <2>2. CASE look.answer = "committed" /\ look.mutation = current /\ Tells(current, "done")
    <3>1. current \in Mutations /\ record[current] # Nobody BY <2>2 DEF Inv, Looked
    <3>2. submit[current].op \in Operations BY <3>1 DEF Inv, Bound
    <3> QED BY <1>1, <2>2, <3>1, <3>2, Telling DEF rows, Phases
  <2> QED BY <2>1, <2>2 DEF LookArrives
<1>3. TypeOK' BY <1>1, <1>2 DEF NoLook, rows, Inv, TypeOK
<1>4. Looked' BY <1>1 DEF Looked, NoLook
<1> QED BY <1>1, <1>2, <1>3, <1>4, CallsKept

LEMMA InvStep == Inv /\ [Next]_vars => Inv'
<1> SUFFICES ASSUME Inv, [Next]_vars PROVE Inv' OBVIOUS
<1>1. CASE UNCHANGED vars
      BY <1>1 DEF vars, browser, rows, Inv, TypeOK, Bound, Answered, AppliedOnce, Looked, Seen
<1>2. CASE \/ \E s \in Sessions : Login(s) \/ End(s)
           \/ Refresh \/ LoseView \/ SelectOrganization \/ Leave \/ Cancel
           \/ \E op \in Operations : Begin(op)
      BY <1>2, ScreenSteps
<1>3. ASSUME NEW m \in Mutations,
             \/ Confirm(m) \/ Bootstrap(m) \/ BootstrapLost(m) \/ BootstrapArrives(m)
             \/ Serve(m) \/ Fail(m) \/ Breaks(m) \/ Arrive(m)
      PROVE  Inv'
      BY <1>3, ConfirmStep, BootstrapStep, BootstrapLostStep, BootstrapArrivesStep, ServeStep,
         BreaksStep, ArriveStep
<1>4. CASE CheckStatus \/ LookArrives BY <1>4, CheckStatusStep, LookArrivesStep
<1> QED BY <1>1, <1>2, <1>3, <1>4 DEF Next

-----------------------------------------------------------------------------

(* Every variable has its type, and each outcome its id.                   *)
THEOREM TypeCorrect == Spec => []TypeOK
<1>1. Inv => TypeOK BY DEF Inv
<1> QED BY <1>1, InvInit, InvStep, PTL DEF Spec

(* However often the network delivers a request, its change is applied at  *)
(* most once, and exactly when the record exists the console asks for.     *)
THEOREM ChangesApplyOnce == Spec => []AppliedOnce
<1>1. Inv => AppliedOnce BY DEF Inv
<1> QED BY <1>1, InvInit, InvStep, PTL DEF Spec

(* What the user was told was not applied was not and will not be.         *)
THEOREM RefusalsAreTrue == Spec => []RefusedNeverApplied
<1>1. Inv => RefusedNeverApplied BY DEF Inv, Bound, Answered, RefusedNeverApplied
<1> QED BY <1>1, InvInit, InvStep, PTL DEF Spec

(* No change is made by another account than the one it was confirmed by,  *)
(* whenever and however often the browser's cookie changes.                *)
THEOREM ChangesAreTheAccounts == Spec => []ActsForItsAccount
<1>1. Inv => ActsForItsAccount BY DEF Inv, Bound, ActsForItsAccount
<1> QED BY <1>1, InvInit, InvStep, PTL DEF Spec

(* No outcome outlives the view it was asked from, and no receipt is shown *)
(* for what did not commit.                                                *)
THEOREM OutcomesStayWithTheView == Spec => []OutcomeIsOfTheView
<1>1. Inv => OutcomeIsOfTheView
      BY MutationsAssumption DEF Inv, TypeOK, Seen, OutcomeIsOfTheView, Console, Idle, Outcomes
<1> QED BY <1>1, InvInit, InvStep, PTL DEF Spec
=============================================================================
