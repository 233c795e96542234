----------------------------- MODULE Mutations -----------------------------
(***************************************************************************)
(* A change to a tenant, from the form in the web console to the row in    *)
(* the database and back: the write controller, the account controller it  *)
(* sends through, the API in front of the store, the idempotency record    *)
(* the store keeps of each change, and the reading of that record when     *)
(* the answer did not arrive.                                              *)
(*                                                                         *)
(* There is one console.  Other tabs of the browser share its cookie, so   *)
(* the session it sends with may become another account's at any moment.   *)
(* Requests and answers are late or lost, and the network may deliver a    *)
(* request again as long as nobody got an answer to it: a request is not   *)
(* removed by being served, and need not be served.                        *)
(*                                                                         *)
(* A mutation stands for its id and its idempotency key, which are drawn   *)
(* together and never again.  The controller's generation is modelled by   *)
(* current, the submission that belongs to it.  Operators whose name       *)
(* starts with Bug belong to no specification.                             *)
(***************************************************************************)
EXTENDS Naturals

CONSTANTS
    Mutations,      \* ids and keys that may be drawn
    Sessions,       \* sessions that may be opened in this browser
    Accounts,
    Nobody,         \* no mutation, no session, no account
    AccountOf,      \* the account of each session
    Operators,      \* members of the organization who may write its agents
    Operations      \* those the user may choose from

ASSUME MutationsAssumption ==
    /\ AccountOf \in [Sessions -> Accounts]
    /\ Operators \subseteq Accounts
    /\ Operations \subseteq {"create", "rename", "revoke"}  \* an organization; an agent
    /\ Nobody \notin Mutations \cup Sessions \cup Accounts

VARIABLES
    session,        \* sessions: "none", "live" or "ended"
    cookie,         \* the session cookie of the browser
    held,           \* the account in the account controller's state
    shown,          \* the principal on the screen
    last,           \* the principal shown last (lastAccountRef)
    screen,         \* "empty" (no organization), "list" or "organization"
    console,        \* the state of the write controller
    current,        \* the submission its generation belongs to
    submit,         \* the calls of confirm
    net,            \* the request or the answer of each call, on its way
    look,           \* the status read on its way
    record,         \* idempotency_records: the session that committed
    effects,        \* how often the change was applied
    revoked         \* the agent is revoked, which is final

browser == <<cookie, held, shown, last, screen>>
rows    == <<record, effects, revoked>>
vars == <<session, browser, console, current, submit, net, look, rows>>

Idle   == [kind |-> "idle", op |-> "none", mutation |-> Nobody]
Unused == [phase |-> "unused", op |-> "none", account |-> Nobody, view |-> Nobody,
           token |-> Nobody, cookie |-> Nobody]
NoLook == [mutation |-> Nobody, answer |-> "none"]

Init ==
    /\ session = [s \in Sessions |-> "none"]
    /\ cookie = Nobody /\ held = Nobody /\ shown = Nobody /\ last = Nobody
    /\ screen = "empty"
    /\ console = Idle /\ current = Nobody
    /\ submit = [m \in Mutations |-> Unused]
    /\ net = [m \in Mutations |-> "none"]
    /\ look = NoLook
    /\ record = [m \in Mutations |-> Nobody]
    /\ effects = [m \in Mutations |-> 0]
    /\ revoked = FALSE

-----------------------------------------------------------------------------
(* Sessions.  All this happens in other tabs, at the server, or by time.   *)

Live(s)    == s # Nobody /\ session[s] = "live"
Account(s) == IF Live(s) THEN AccountOf[s] ELSE Nobody

(* A login ends the session it replaces, see Accounts.                     *)
Login(s) ==
    /\ session[s] = "none"
    /\ session' = [t \in Sessions |-> IF t = s THEN "live"
                                      ELSE IF t = cookie THEN "ended" ELSE session[t]]
    /\ cookie' = s
    /\ UNCHANGED <<held, shown, last, screen, console, current, submit, net, look, rows>>

(* A session expires, is logged out or revoked.                            *)
End(s) ==
    /\ Live(s)
    /\ session' = [session EXCEPT ![s] = "ended"]
    /\ UNCHANGED <<browser, console, current, submit, net, look, rows>>

-----------------------------------------------------------------------------
(* The console.                                                            *)

(* clear(): whatever is on its way belongs to an older generation now.     *)
Clear == console' = Idle /\ current' = Nobody

BugChanged(a) == a # Nobody /\ shown \notin {Nobody, a}

(* Whether the principal is not the one shown before: the effect that      *)
(* clears the console skips screens nobody is signed in on.                *)
Changed(a) == a # Nobody /\ last \notin {Nobody, a}

(* What the list of organizations may show: operators and owners have one, *)
(* others may have none, and the reading may fail.                         *)
Lists(a) ==
    IF \/ a \in Operators
       \/ \E m \in Mutations : /\ submit[m].op = "create" /\ record[m] # Nobody
                               /\ AccountOf[record[m]] = a
    THEN {"list"} ELSE {"empty", "list"}

(* The workspace is refreshed: session, principal, then organizations.     *)
Refresh ==
    LET a == Account(cookie) IN
    /\ held' = a /\ shown' = a
    /\ last' = IF a = Nobody THEN last ELSE a
    /\ screen' \in Lists(a)
    /\ IF Changed(a) THEN Clear ELSE UNCHANGED <<console, current>>
    /\ UNCHANGED <<session, cookie, submit, net, look, rows>>

(* The session read fails, or a local timer says that it expired.          *)
LoseView ==
    /\ shown # Nobody
    /\ shown' = Nobody
    /\ screen' = "list"
    /\ UNCHANGED <<session, cookie, held, last, console, current, submit, net, look, rows>>

(* The user opens the organization.  The role is the one of the cookie's   *)
(* account.                                                                *)
SelectOrganization ==
    /\ shown # Nobody /\ screen = "list"
    /\ Account(cookie) \in Operators
    /\ screen' = "organization"
    /\ Clear
    /\ UNCHANGED <<session, cookie, held, shown, last, submit, net, look, rows>>

(* The user goes to another page, or hides this one, which also forgets    *)
(* what was read.                                                          *)
Leave ==
    /\ Clear
    /\ screen' \in {screen, "list"}
    /\ UNCHANGED <<session, cookie, held, shown, last, submit, net, look, rows>>

FormShown == shown # Nobody /\ screen # "list"

(* begin().  A first organization needs an account that is signed in, any  *)
(* other change an organization that is open.                              *)
Begin(op) ==
    /\ FormShown /\ console.kind \notin {"confirming", "pending", "unknown"}
    /\ IF op = "create" THEN held # Nobody ELSE screen = "organization"
    /\ console' = [kind |-> "confirming", op |-> op, mutation |-> Nobody]
    /\ current' = Nobody
    /\ UNCHANGED <<session, browser, submit, net, look, rows>>

Cancel ==
    /\ FormShown /\ console.kind = "confirming"
    /\ Clear
    /\ UNCHANGED <<session, browser, submit, net, look, rows>>

Tell(kind, op, m) == [kind |-> kind, op |-> op, mutation |-> m]

(* The account controller serves one mutation at a time, also when the     *)
(* console has long turned to something else.                              *)
Busy == \E m \in Mutations : submit[m].phase \in {"asking", "asked", "sent"}

(* confirm() draws an id and a key and asks for a CSRF token; if another   *)
(* mutation is under way, that ends in an unknown outcome at once.         *)
Confirm(m) ==
    /\ FormShown /\ console.kind = "confirming" /\ submit[m] = Unused
    /\ submit' = [submit EXCEPT ![m] =
          [Unused EXCEPT !.phase = IF Busy THEN "unknown" ELSE "asking",
                         !.op = console.op, !.account = held, !.view = shown]]
    /\ current' = m
    /\ console' = Tell(IF Busy THEN "unknown" ELSE "pending", console.op, m)
    /\ UNCHANGED <<session, browser, net, look, rows>>

Kind(phase) ==
    IF phase = "done" THEN "committed" ELSE IF phase = "unknown" THEN "unknown" ELSE "rejected"

(* What the screen shows next: a loss of the session empties every list,   *)
(* which leaves the form for a first organization; a new organization has  *)
(* the list read again.                                                    *)
ScreenAfter(phase, op) ==
    IF phase \in {"changed", "denied"} THEN {"empty"}
    ELSE IF phase = "done" /\ op = "create" /\ screen = "empty" THEN Lists(Account(cookie))
    ELSE {screen}

(* The call of confirm ends; the console tells, unless it belongs to       *)
(* another generation.                                                     *)
Tells(m, phase) ==
    IF current = m
    THEN /\ console' = Tell(Kind(phase), submit[m].op, m)
         /\ screen' \in ScreenAfter(phase, submit[m].op)
    ELSE UNCHANGED <<console, screen>>

Ends(m, phase) ==
    /\ submit' = [submit EXCEPT ![m].phase = IF current = m THEN phase ELSE "dropped"]
    /\ Tells(m, phase)

(* The API derives the token from the session of the cookie.               *)
Bootstrap(m) ==
    /\ submit[m].phase = "asking"
    /\ submit' = [submit EXCEPT ![m].phase = "asked", ![m].cookie = cookie,
                                ![m].token = IF Live(cookie) THEN cookie ELSE Nobody]
    /\ UNCHANGED <<session, browser, console, current, net, look, rows>>

BootstrapLost(m) ==
    /\ submit[m].phase \in {"asking", "asked"}
    /\ Ends(m, "unknown")
    /\ UNCHANGED <<session, cookie, held, shown, last, current, net, look, rows>>

BugAccountMatches(m, a) == a # Nobody

AccountMatches(m, a) == a # Nobody /\ a = submit[m].account

(* The answer says whose session it is, and a guest's removes the cookie   *)
(* it was asked with, whatever the cookie is by now.  The account must be  *)
(* the one the user confirmed with; then the request leaves, with the      *)
(* cookie of that moment.                                                  *)
BootstrapArrives(m) ==
    LET token == submit[m].token
        a == IF token = Nobody THEN Nobody ELSE AccountOf[token]
    IN
    /\ submit[m].phase = "asked"
    /\ held' = a
    /\ cookie' = IF token = Nobody /\ submit[m].cookie # Nobody THEN Nobody ELSE cookie
    /\ IF AccountMatches(m, a)
       THEN /\ submit' = [submit EXCEPT ![m].phase = "sent", ![m].cookie = cookie]
            /\ net' = [net EXCEPT ![m] = "request"]
            /\ UNCHANGED <<console, screen>>
       ELSE Ends(m, "changed") /\ UNCHANGED net
    /\ UNCHANGED <<session, shown, last, current, look, rows>>

-----------------------------------------------------------------------------
(* The API and the store.  The store does all it does for a request in one *)
(* transaction, which locks the session first.                             *)

Answers == {"committed", "policy", "conflict", "csrf", "unauthenticated", "failed"}

(* The answer is on its way to a client that waits, or it is lost, and the *)
(* request may be delivered again.                                         *)
Answer(m, answer) ==
    \E n \in {"request"} \cup IF submit[m].phase = "sent" THEN {answer} ELSE {} :
        net' = [net EXCEPT ![m] = n]

Verified(m) == submit[m].cookie = submit[m].token

Permitted(m) == submit[m].op = "create" \/ AccountOf[submit[m].cookie] \in Operators

Final(m) == submit[m].op # "create" /\ revoked

BugRecorded(m) == FALSE
BugRecordedLate(m) == record[m] # Nobody /\ ~Final(m)

(* The key is found: nothing is applied, whatever has become of the agent. *)
Recorded(m) == record[m] # Nobody

(* The change, its record, its audit entry and its notification.           *)
Commit(m) ==
    /\ record' = [record EXCEPT ![m] = submit[m].cookie]
    /\ effects' = [effects EXCEPT ![m] = @ + 1]
    /\ revoked' = (revoked \/ submit[m].op = "revoke")

(* A request is refused, answered from its record, or committed; the reply *)
(* of the commit may be lost on the way to the API.  A new organization    *)
(* needs a login of the last five minutes: which ones are is left open.    *)
Serve(m) ==
    /\ net[m] = "request"
    /\ \/ ~Verified(m) /\ Answer(m, "csrf") /\ UNCHANGED rows
       \/ /\ Verified(m) /\ (~Live(submit[m].cookie) \/ submit[m].op = "create")
          /\ Answer(m, "unauthenticated") /\ UNCHANGED rows
       \/ /\ Verified(m) /\ Live(submit[m].cookie) /\ Permitted(m)
          /\ \/ /\ Recorded(m)
                /\ Answer(m, IF record[m] = submit[m].cookie THEN "committed" ELSE "conflict")
                /\ UNCHANGED rows
             \/ ~Recorded(m) /\ Final(m) /\ Answer(m, "policy") /\ UNCHANGED rows
             \/ /\ ~Recorded(m) /\ ~Final(m)
                /\ Commit(m)
                /\ \E answer \in {"committed", "failed"} : Answer(m, answer)
    /\ UNCHANGED <<session, browser, console, current, submit, look>>

(* Too many requests, no database, or no right to write here: the answer   *)
(* does not tell these from an outcome nobody knows.                       *)
Fail(m) ==
    /\ net[m] = "request"
    /\ Answer(m, "failed")
    /\ UNCHANGED <<session, browser, console, current, submit, look, rows>>

-----------------------------------------------------------------------------
(* The console again.                                                      *)

(* The connection breaks: the client does not know what became of the      *)
(* request, which may still be on its way.                                 *)
Breaks(m) ==
    /\ submit[m].phase = "sent"
    /\ Ends(m, "unknown")
    /\ net' = [net EXCEPT ![m] = "request"]
    /\ UNCHANGED <<session, cookie, held, shown, last, current, look, rows>>

PhaseAfter(answer) ==
    IF answer = "committed" THEN "done"
    ELSE IF answer \in {"policy", "conflict"} THEN "refused"
    ELSE IF answer \in {"csrf", "unauthenticated"} THEN "denied"
    ELSE "unknown"

Arrive(m) ==
    /\ submit[m].phase = "sent" /\ net[m] \in Answers
    /\ Ends(m, PhaseAfter(net[m]))
    /\ net' = [net EXCEPT ![m] = "none"]
    /\ UNCHANGED <<session, cookie, held, shown, last, current, look, rows>>

(* The store shows a record to the account that committed it, as long as   *)
(* the account may make such changes.                                      *)
Visible(m, s) ==
    /\ Live(s)
    /\ record[m] # Nobody /\ AccountOf[record[m]] = AccountOf[s]
    /\ submit[m].op = "create" \/ AccountOf[s] \in Operators

(* checkStatus() asks for the record of the mutation, once at a time.  The *)
(* store is read in the same step: to ask earlier shows nothing else.  A   *)
(* reading that fails is like one that found nothing.                      *)
CheckStatus ==
    /\ shown # Nobody /\ console.kind = "unknown"
    /\ look.mutation # current
    /\ \/ look' = [mutation |-> current, answer |-> "nothing"]
       \/ Visible(current, cookie) /\ look' = [mutation |-> current, answer |-> "committed"]
    /\ UNCHANGED <<session, browser, console, current, submit, net, rows>>

LookArrives ==
    /\ look # NoLook
    /\ IF /\ look.answer = "committed" /\ look.mutation = current
          /\ console.kind = "unknown"
       THEN Tells(current, "done")
       ELSE UNCHANGED <<console, screen>>
    /\ look' = NoLook
    /\ UNCHANGED <<session, cookie, held, shown, last, current, submit, net, rows>>

-----------------------------------------------------------------------------
Next ==
    \/ \E s \in Sessions : Login(s) \/ End(s)
    \/ Refresh \/ LoseView \/ SelectOrganization \/ Leave \/ Cancel
    \/ \E op \in Operations : Begin(op)
    \/ \E m \in Mutations : \/ Confirm(m)
                            \/ Bootstrap(m) \/ BootstrapLost(m) \/ BootstrapArrives(m)
                            \/ Serve(m) \/ Fail(m) \/ Breaks(m) \/ Arrive(m)
    \/ CheckStatus \/ LookArrives

Spec == Init /\ [][Next]_vars

-----------------------------------------------------------------------------
(* Properties.                                                             *)

Phases == {"unused", "asking", "asked", "sent", "changed", "refused", "denied",
           "done", "unknown", "dropped"}
Outcomes == {"pending", "committed", "rejected", "unknown"}
SessionOrNobody == Sessions \cup {Nobody}
AccountOrNobody == Accounts \cup {Nobody}
Call == [phase : Phases, op : Operations \cup {"none"},
         account : AccountOrNobody, view : AccountOrNobody,
         token : SessionOrNobody, cookie : SessionOrNobody]
Console == {Idle} \cup [kind : {"confirming"}, op : Operations, mutation : {Nobody}]
                  \cup [kind : Outcomes, op : Operations, mutation : Mutations]

(* Every variable has its type; a change that is being confirmed has no id *)
(* yet, an outcome always has the id it can be asked about with.           *)
TypeOK ==
    /\ session \in [Sessions -> {"none", "live", "ended"}]
    /\ cookie \in SessionOrNobody
    /\ held \in AccountOrNobody /\ shown \in AccountOrNobody /\ last \in AccountOrNobody
    /\ screen \in {"empty", "list", "organization"}
    /\ console \in Console
    /\ current \in Mutations \cup {Nobody}
    /\ submit \in [Mutations -> Call]
    /\ net \in [Mutations -> Answers \cup {"none", "request"}]
    /\ look \in [mutation : Mutations \cup {Nobody},
                 answer : {"none", "nothing", "committed"}]
    /\ record \in [Mutations -> SessionOrNobody]
    /\ effects \in [Mutations -> Nat]
    /\ revoked \in BOOLEAN

(* A change is applied at most once, and exactly when its record exists,   *)
(* though its request may be delivered again after the answer was lost:    *)
(* the key is looked up in the transaction that applies the change.        *)
AppliedOnce ==
    \A m \in Mutations : effects[m] = IF record[m] = Nobody THEN 0 ELSE 1

(* What the console reports as not applied ("No write was applied",        *)
(* "nothing was sent") is not applied, and never will be.  The second      *)
(* delivery of a change that committed must not be judged by what the      *)
(* agent has become since, be it by that very change.                      *)
RefusedNeverApplied ==
    \A m \in Mutations : submit[m].phase \in {"refused", "changed"} => record[m] = Nobody

(* A change is only ever made by the account that was signed in when the   *)
(* user confirmed it, though the cookie may change at any step between:    *)
(* the account is compared with the answer to the bootstrap, and the token *)
(* of that answer with the cookie the change is sent with.                 *)
ActsForItsAccount ==
    \A m \in Mutations : record[m] # Nobody => AccountOf[record[m]] = submit[m].account

(* An outcome on the screen is the one of the change confirmed last, and   *)
(* shown to the one who confirmed it, or to nobody; what it says committed *)
(* has committed.                                                          *)
OutcomeIsOfTheView ==
    console.kind \in Outcomes =>
        /\ console.mutation = current
        /\ shown \in {Nobody, submit[current].view}
        /\ console.kind = "committed" => record[current] # Nobody

(* What flow-controller.ts says of the account that is captured: "a stale  *)
(* `A` view can never act on a session that has since become `B`".  The    *)
(* code compares with the account of the controller, which the check that  *)
(* finds a change sets to B; the principal on the screen stays A.          *)
StaleViewNeverActs ==
    \A m \in Mutations : record[m] # Nobody => AccountOf[record[m]] = submit[m].view
=============================================================================
