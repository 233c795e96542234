# OpenArc: a verification project

TLA+ modules, TLC configurations and TLAPS proofs for the parts of OpenArc where
order, concurrency and failure decide whether it is correct: the commerce core of
the control plane, the durable outbox with its workers, the observers that find out
what became of a payment, the accounts with their logins and recovery, who may act for an
organization and for how long, the console that changes a tenant over a network that loses answers, and the encrypted workspace
in the browser. Line numbers below are of the files under
`packages/db/migrations/`, unless another path is given. `PROJECT.json` maps every
definition to the code it stands for, and lists runs, mutants, findings, hazards and
theorems.

    tlc -workers 2 -config MCCommerceBudget.cfg MCCommerce     # one run
    tlapm CommerceProofs.tla                                   # one proof module

## 1. The system

OpenArc is a TypeScript monorepo over PostgreSQL. The rules live in the database:
each store of `packages/db/src` calls one plpgsql function, which is one transaction
that locks what it judges, reads the clock after it holds the locks, and either
writes everything or raises. The HTTP services of `apps/api` parse and call a store
once; `apps/worker` drains the outbox and observes settlements; `packages/x402`
builds and sends payments in the buyer's process; `apps/web` keeps an encrypted
vault in the browser.

| component | state | operations | what is hard | what makes it correct |
|---|---|---|---|---|
| accounts (0001, `auth-store.ts`, `account-service.ts`) | accounts, passkeys, wallets, recovery codes, challenges, sessions | register, log in, add, link, replace codes, redeem, log out | what was read before a lock is stale after it; two requests locking the same accounts | one session per proof, no change outlives its session, limits hold, no deadlock |
| organizations, members, agents (0002, 0004) | memberships with role and status, agents, providers | set a membership, create and change agents and providers | two owners demoting each other | an organization keeps an active owner, a change ends the sessions of its target |
| idempotent mutations (0003, 0004 and every later mutation) | key, request digest, receipt | commit or replay | reply lost after commit, key reused with another body | one effect per key, same receipt for the same body |
| tenant console (`tenant-write-controller.ts`, `tenant-controller.ts`, `flow-controller.ts`) | the pending change, the account held, the view | begin, confirm, check status, refresh, leave | the cookie changes in another tab; late answers of earlier submissions | a change is made by the account it was confirmed by, and told as it is |
| outbox (0003, `worker.ts`) | events with state, lease, generation, attempts | enqueue, claim, complete, fail | slow workers, crashes, late or lost acknowledgements, a row that fails every claim | tried a bounded number of times, settled once, by the lease in force, and in the end unless the queue is stalled |
| machine credentials (0005) | credentials, machine sessions | issue, open a session, close it, revoke | revocation racing whoever has read the credential | nothing commits on a credential revoked before |
| market (0006, 0007) | provider and listing versions, active pointer | draft, submit, publish, pause, supersede, suspend | two swaps of one pointer | one active version, only through review |
| budget policies (0008) | root status and revision, immutable revisions | create, revise, pause, resume, revoke | changes under actions that pinned a revision | one active policy per agent, revisions never change |
| commerce sessions (0009) | handoffs, sessions | issue handoff, exchange, use, revoke | a handoff exchanged twice; authority judged row by row while it changes | one token per handoff, all authority still standing at the commit |
| actions, budget, approvals (0010) | actions, approvals, reservations, events | authorize, approve, reject, cancel | assessments that are stale when reserved | no overspending, approval before reservation, always withdrawable |
| grants (0012) | grants, tokens by generation, claims | issue, replace, claim, revoke | old tokens, revocation against payment | one live token, a claim matches one payment |
| payment attempts (0015) | attempt state and id | persist, dispatch, observe | a signature that may have left before anything is known | dispatched once, exposure kept, never backwards |
| settlement observer (0017, `settlement-observation.ts`) | leases per attempt, the loop's batch and sweep | claim, ask, record, release | snapshots and row locks that disagree, lost replies, retries | no lease taken from a recorder, nothing invented, observed or exhausted |
| evidence (0016) | append-only facts | record | the same fact twice | idempotent by content |
| payment lane (`packages/x402/src/payment-state.ts`) | stage of a signed payment | persist, take for dispatch | sending twice | taken once, after it was recorded |
| supplier call budget (`apps/api/src/limits`) | hour and day counters in Redis | reserve | roll-over, counters before an await | never more calls than the window allows |
| vault (`apps/web/src/vault`) | encrypted workspace, revisions, lock signals, deletion mark | create, open, save, lock, import, delete, send | tabs acting on what another tab changed; lost messages | sentinel true to the records, no lock undone, nothing sent without its stored approval, a marked workspace goes |
| reads (0011, 0013, 0014, 0018), Arc and gateway clients, screens, tooling | none | read, show | - | - |

How they interact. A human's browser session manages policies, issues a commerce
handoff and approves actions. A machine with a credential exchanges the handoff for a
commerce session and authorizes actions under it; the action pins the policy revision
and the listing version. A reserved action gets a grant, whose token the buyer hands
to the provider with the payment. The buyer's process persists a payment attempt,
records its dispatch and only then sends. The provider claims the grant with the token
and the attempt id. The observer leases dispatched attempts, asks the gateway, and
records *pending* or *committed*. Mutations leave outbox events behind, which the
workers deliver.

## 2. The modules

| module | models | abstraction |
|---|---|---|
| `Ledger` | what the control plane promises of money | abstract specification: one entry per action with its stage and limit, and who has authority |
| `Commerce` | policies, authorization, approval, grants, payment attempts, the send gate | one action per handler; implements `Ledger` (`Book == INSTANCE Ledger WITH ...`) |
| `Delivery` | what the outbox promises | abstract specification: one fate and a number of tries per notification |
| `Outbox` | outbox functions of 0003 and the worker loop | implements `Delivery` (`Promise == INSTANCE Delivery WITH ...`) |
| `Observation` | claim, record and release of 0017 and the observation loop | several actions per statement, where it is not atomic |
| `Vault` | the IndexedDB workspace of a browser origin and the tabs that show it | an operation is a read and a commit, dropped when its tab is locked in between |
| `Accounts` | the requests of the account service and the transactions of its store | a request is its steps: challenge, look-up, locks, check, write |
| `Chain` | the chain of authority of one organization, each transaction in one instant | abstract specification: the rows of `Authority`, without look-ups and locks |
| `Authority` | memberships, agent credentials, machine sessions, commerce sessions and handoffs | a transaction is its look-up, its row locks one by one, and its commit; implements `Chain` (`Atomic == INSTANCE Chain`) |
| `Mutations` | a change to a tenant from the console to the row and back | one console, other tabs change its cookie; the store serves a request in one action |
| `ControlPlane` | the transactions of `Authority` and the handlers of `Commerce` over one database | composition; extends `Authority`, and implements `Commerce` (`Whole == INSTANCE Commerce WITH ...`) |
| `MCCommerce`, `MCOutbox`, `MCObservation`, `MCVault`, `MCAccounts`, `MCAuthority`, `MCMutations`, `MCControlPlane` | - | values of the constants for TLC |
| `CommerceProofs`, `OutboxProofs`, `ObservationProofs`, `VaultProofs`, `AccountsProofs`, `AuthorityProofs`, `MutationsProofs`, `ControlPlaneProofs` | - | theorems and their proofs |

Operators whose name starts with `Bug` belong to no specification. Each is the
definition after it with a plausible mistake, used to see that a property notices it.

### Commerce

One action is one transaction. That is justified by the organization row, which every
handler of 0008, 0010, 0012 and 0015 locks `FOR UPDATE` in its preamble and keeps to its
commit. A refused call is a stuttering step. The model has one subject agent and one
exposure line; other lines never mix, because the assessment filters by them
(0010:1603-1606).

| variable | table or fact |
|---|---|
| `policy` | `budget_policy_roots`: status and current revision; `Terms` is `budget_policy_versions` |
| `chainUp` | per session, all of: parent session, membership, organization, credential, machine session, agent and commerce session in force; one commit may end or restore several sessions (`ChainChanges`) |
| `listed` | provider, listing and version current |
| `action`, `approval`, `reservation` | `commerce_actions`, `commerce_approvals`, `budget_reservations` |
| `grant`, `tokens`, `claim` | `authorization_grants`, generations of `authorization_grant_tokens` that are not retired, `authorization_grant_claims` |
| `attempt`, `payment` | `payment_attempts`; the buyer's process |
| `now` | `clock_timestamp()` |

An action pins session, revision and expiry when it is authorized. `ChainCurrent` is the
chain the later handlers prove again. Cancelling and revoking do not consult it, as in
the code. Revocation is the version of 0015, which replaced the one of 0012. A dispatch
has two outcomes, its reply arrives or is lost; the process sends only with the reply.
The observation records what the gateway says; how it comes to that is `Observation`.

`Ledger` knows no sessions, grants, tokens, approvals or claims. It has a stage for
every action (asked, reserved, signed, sent, claimed, closed), the limit the action is
subject to, and the set of actions there is authority for. An entry is reserved if
all that is exposed, and it, fit its limit; advances only with authority; and closes only
before a payment was signed. `Stage(a)` reads the stage off the reservation, then
the attempt, then the action's status; `LimitOf(a)` is the rolling limit of the pinned terms;
`Authorized(a)` is the chain. Issuing and replacing grants, a lost reply, the send and its
observation, and a revocation that gives nothing back are stutters.

### Outbox and Delivery

`row` is `outbox_events`, with one counter for `lease_generation` and `attempt_count`,
which start at zero and are incremented together in the only place that does so
(0003:558-565). `timer` counts down to `lease_until` of a leased row and to
`available_at` of a pending one. A claim buries exhausted rows and leases others in one
transaction; which of the rows it may take depends on their order and on who else holds
them (`SKIP LOCKED`), and is any subset within the limit (`Batches`). The store reads the
rows inside that transaction: one row it cannot project, because the running workers do
not know its kind (`outbox-store.ts:308-462`), rolls the whole claim back, burials
included. `unreadable` are the rows of that sort, drawn when a row is written; `Mend` is the
deployment of workers that know it. All workers run one release. A claim may also fail
because the database is out of reach, and it may commit and its reply be lost
(`ClaimFails`); `errors` counts failures in a row, and at the limit the loop stops
(`worker.ts:211-225`). A worker holds a batch, each job with the generation it was leased
in; handlers of a batch run concurrently. An acknowledgement is a message: it may be judged
after its sender crashed and after its lease was taken over, or be lost, and the worker
never sends it again (`worker.ts:351-376`); `SendAck` is the end of the handler and the
call that follows from it, since nothing happens in between. A lease that has run out by the local clock
is abandoned without acknowledgement (`worker.ts:279-291`). A failed row may carry one of
three error classes; the model tells `invalid_event`, which is never tried again, from the
other two (`dependency_unavailable` and `handler_failed`), which the store treats alike.

### Observation

The claim is one SQL statement and three actions: it reads the clock and a snapshot of
attempts and leases (`ClaimBegin`), locks attempts with `SKIP LOCKED` (`ClaimLock`), and
writes leases and commits (`ClaimCommit`). The lock is on the attempt row, so only a
change of the *attempt* between snapshot and lock is noticed; the lease is another
table. `late` holds the attempts leased by a claim that read the clock later, on which
the trigger refuses an older `last_claimed_at` (0017:97). The record locks the lease,
judges generation and time (`RecordBegin`), then locks the attempt and commits
(`RecordCommit`), so a claim and a record can wait for each other, and
`DeadlockBroken` aborts either. `processed` is the loop's set of attempts of this
sweep, `asked` counts the questions put to the gateway and exists for the properties.

### Vault

`meta` is the one row of the store `vaultMeta`: identifier, content revision,
coordination revision and deletion mark. `rows` are the encrypted records,
each represented by the revision that wrote it, and `manifest` is what the encrypted
sentinel says they are. Per tab there are the phase of its screen, the metadata it
holds (`held`), the operation under way with the snapshot it will write from (`op`), and
reads and signals that have not come to their end yet.

An operation begins with a read of the database, works for a while, and commits in one
transaction that compares the stored revisions with those read
(`saveWorkspaceRecords`, `replaceVaultMetadata`, `importVault`); a lock of the tab in
between moves the session boundary, and the operation has no further effect.
Sending is: save the approval, check that the stored workspace is still the one it was
saved in (`revision-guard.ts`), send, and save the outcome. Tabs tell each other of locks and deletions on a channel
that loses messages, and poll the metadata; a deletion marks first, waits, and deletes the
database, and whoever finds the mark resumes it.

What is simplified, and why no property can tell:

* A commit and the adoption of its result by the tab are one action; IndexedDB delivers
  events in order, and nothing of the tab runs in between that reads the database.
* A conflict and the reading of the boundary that follows it are one action. A poll
  that finds nothing new has no effect and is not an action. What a tab reads because of
  a lock from outside is shown at once.
* Messages *changed* and *lock* have the same effect. A tab has at most one message on its
  way, and the next one overwrites it, which is one more way to lose a message.
* A revision is a number drawn when the operation begins, not when it encrypts. A tab's
  own transactions take effect in the order it opened them (`Quiet`).
* Change of passphrase and recovery are both `rewrap`: they replace the metadata and
  leave the records. Importing into an empty database is creating it with the backup's
  rows. The six requests that leave the browser go through the same guard in the same
  order and are one `egress`.
* `GiveUp` is any failure that is not a conflict.

### Accounts

Accounts, session tokens, challenges (`flow`) and recovery codes are numbers. A request
consumes its challenge, has its proof verified, looks up without a lock the accounts it
is about, locks them in ascending order, reads again what it relies on (`Check`), and
writes and commits (`WriteRegister` ... `WriteRedeem`). Between any two of these other
requests commit. `accountLock` are the row locks on accounts, `walletLock` is the
advisory lock on an address, `granted` remembers what each token was granted for and
exists for the properties. `RowLocked` stands for the `FOR UPDATE` on the session row.

What is left out: the binding cookie, CSRF tokens and rate limits, which only refuse more;
the verification of proofs (a proof is right, or the request gives up); the advisory
locks on hashes, which serialize what the rows decide anyway. A challenge that expires is
one that is never answered, a session that expires or is purged ends by `EndSession`,
`Ages` is the passing of five minutes. Nothing in the repository disables an account, yet
the schema allows the status and the stores heed it (0001:17): `Disable` is an operator
with access to the database, and marked external.

### Authority

| variable | table |
|---|---|
| `human` | `openarc_auth.sessions`; `AccountOf` is their account |
| `member` | `memberships`: role and status; provider roles and *viewer* are one |
| `up` | which of the subject agent and the policy are active |
| `credential`, `machine` | `agent_credentials` with their issuer, `agent_sessions` with their credential |
| `commerce` | `commerce_sessions` with their parent session, the machine session they are bound to, and their handoff, which is consumed by the same statement sequence that binds them |
| `tokens` | how many tokens were given for each handoff; exists for a property |
| `req` | the transactions under way: what each has looked up, and the rows it has locked |

A request is one transaction at READ COMMITTED. It looks up, without a lock, what it is about
(`Ask...`: the account of a session hash, the issuer of a credential, the parent of a
handoff); it locks accounts in ascending order and then the other rows in its order
(`Level`), and judges each row when it has it (`Lock`, `Judged`); with the last lock it is
`Ready`, writes and commits. Others commit between any two of these. What is only ever
changed under the organization's lock (memberships, agent, policy, commerce sessions, handoffs)
is judged with that lock, and its own row lock, which nobody can then be waiting for, is left
out. The exchange locks credential and machine session right after the accounts
(0009:1213-1226), everybody else locks session and organization first.

Left out: expiry by the clock, which each transaction reads again after its last lock; the
replays by idempotency key, which are the subject of `Mutations`; and scope, environment and
revision of what is bound, which are constants of a row. Setting a membership in schema 4 calls
the function of schema 2 under the locks it has taken, and is one request. Agent and
policy are switched by transactions that lock, among others, the organization; only the
instant of their commit matters here. A revocation of a credential also updates its machine sessions;
whoever holds one of these for longer than a statement has locked the credential before.

`Chain` is what a reader of the code would say these transactions do: whoever revokes a
credential holds a role that may, and the credential and all machine sessions opened with it are
revoked, at once; a handoff is exchanged by a machine whose session, credential, issuer and
agent stand, for a parent who is still there. It has the same variables but `req`,
so the mapping is the identity: a commit is a step of `Chain`, everything else of a transaction a stutter.

### ControlPlane

`Commerce` reads the chain of authority as one fact, `chainUp`, and each of its handlers
in one step; `Authority` has the rows behind that fact and the transactions that lock and judge them one
by one, but nothing that is spent. `ControlPlane` has both. Its variables are those of
`Authority` and those of `Commerce` but `chainUp`, which is here what the rows say
(`InForce`). A handler that proves the chain (`Spend`, `Decide`) commits as the transaction
of kind *use* does, when that holds its last lock, and *without any check of the chain of its own*:
`Plain` is `Commerce` with `chainUp` true throughout. A decision is made by a human besides,
whose session and account are then locked too (0010:2454-2608), and cancelling, revoking a
grant and changing a policy are done under such a session alone (`ByHand`). Sending, observing, the
listing and the clock ask for nothing (`Elsewhere`). `Offered` says which policy and which
human a handoff belongs to when it is issued or exchanged; both are constants of a session in
`Commerce`. The policy that `Authority` switches is one more fact beside the policies of `Commerce`;
with `Switched = {"agent"}` it is always active.

`ChainIsOneFact` says that this is a run of `Commerce`, `chainUp` being `InForce`: that is
what entitles `Commerce` to its one step and its one fact. `SpendsInForce` says it of the rows:
what is reserved, granted, claimed or dispatched is so at a moment when all of
them stand. `EndedForGood` says that a logout and the revocation of a
credential, a machine session or a commerce session are final, also for a transaction that had begun before.

### Mutations

| variable | code |
|---|---|
| `console` | the state of `TenantWriteController` (`#state`) |
| `current` | the submission its generation belongs to: `clear`, `begin` and `confirm` move on |
| `submit` | each call of `confirm` with its id and key, the account captured, the principal on the screen at the time, the token and the cookie it was sent with |
| `held` | the account in the state of `AccountFlowController` |
| `shown`, `last`, `screen` | principal, `lastAccountRef` and what of the workspace `TenantApp` shows |
| `cookie`, `session` | the session cookie of the browser; the sessions at the server |
| `net` | request or answer of each submission |
| `record`, `effects`, `revoked` | `idempotency_records`, the changes applied, the agent's status |
| `look` | a status read on its way |

A confirmed change draws an id and a key, asks for a CSRF token, compares the account of
that answer with the account captured (`withMutation`), and is sent with whatever cookie the browser then
has; the API compares token and cookie. The store finds the session, the right to write and
the key, in this order, and replays a receipt before it judges the change (0004). A
request is not removed by being served, so that it may be delivered again while nobody
got its answer; an answer only reaches a client that waits. When the outcome is unknown,
the console asks for the record by the id, and stays locked until it is found or the
user leaves.

What is left out, and why no property can tell: which login is fresh enough to create an
organization (either is possible at any time); when a status reading is answered (it is served
in the step that asks, and read later: asking earlier shows less); recovery sessions, which
only refuse more; other kinds of changes, which go through the same controller, and of
which *create* stands for those that need no organization, *rename* for those that a
final state refuses and *revoke* for those that bring it about. The properties do not
depend on a second console, which draws other keys and shares with this one only the
cookie, which changes at any time.

## 3. The runs

| run | what it asks | bounds | states |
|---|---|---|---|
| `commerce_budget` | can any order of requests, approvals, releases and policy changes overspend, exceed the readable rows or skip an approval? | 4 actions (debits 2, 2, 2, 3), 2 policies with 2 revisions each, 2 sessions, row limit 2, no clock | 1.45 million |
| `commerce_grants` | do the rows of an action agree, is exposure kept, is the token unique, does a claim match the payment, does revocation fail closed, does all this implement `Ledger`? | 2 actions sharing 1 attempt id, 1 policy with 2 revisions, 2 generations, clock 0..2 | 1.39 million |
| `outbox` | can a generation have two bearers, can anyone but the holder settle a row, does the outbox implement `Delivery`, does every notification settle unless the queue is stalled? | 2 jobs, either of which may be one that cannot be projected, 2 workers that stop at the second failed claim, 2 attempts, batches of 2 | 122 thousand |
| `observation` | can a lease be taken from a recorder, is anything recorded ahead of the gateway, is every dispatched attempt settled or leased to the limit? | 1 attempt, 2 workers, 3 claims | 145 thousand |
| `observation_exclusive`, `observation_burned` | what comments promise of leases and retries (violated) | 1 attempt, 2 or 1 workers, 3 claims | stop at the counterexample |
| `vault` | can a write undo a lock, a save falsify the sentinel, a request leave without approval; does a marked workspace go? | 2 tabs, 1 record, 3 revisions | 342 thousand |
| `accounts_login` | can requests of accounts that share a browser deadlock, does a login replace its session? | 2 requests, 2 accounts with a session each and a third to register, 3 passkeys, 1 wallet, 2 challenges, 4 tokens | 1.36 million |
| `accounts_recovery` | do limits hold, does a proof open one session, does a change need its session to the end, does a disabled account stay shut? | 2 requests, 1 account with a session and 2 codes, limit of 2 passkeys, 3 tokens | 1.81 million |
| `authority` | does a transaction do what one instant would (`Chain`), does what it was admitted by still stand at its commit, does no machine session outlive its credential, does an owner remain, does a handoff give one token, which circles of locks are there? | 2 requests, 2 owners with a browser session each, of which the second may log in later; 1 credential, 1 machine session, 1 handoff; the agent is switched, members become suspended operators | 822 thousand |
| `mutations` | is a change applied once, made by the account that confirmed it, and told as it is, whatever other tabs and the network do? | 2 submissions, 2 accounts of which one may write agents, 3 sessions, operations *create* and *revoke* | 2.91 million |
| `mutations_view` | is it also made by the account the *screen* shows? (no) | the same | stops at the counterexample |

Why the bounds are enough. *Budget*: an overspending needs an exposure, a debit assessed
against it and a change in between. Four actions of unequal debit exceed every limit in
use, one limit is met exactly, and two policies with two revisions give a tightened, a
loosened and an absent limit and a changed approval rule; the row limit of 2 is reached
with actions to spare. Time plays no part in the budget, since exposure counts at any age, so that
run has no clock. *Grants*: the properties relate the rows of one action, except that
attempt ids are unique; two actions and one id are what it takes. Three instants
give before, at and after the grant's expiry and an action that outlives its grant. Two generations give a
replaced token and the refusal at the limit. *Outbox* and *Observation*: a race is
between two workers over a row; two generations give a takeover and the last attempt,
three claims also a takeover of a takeover. Lease times of one give a live, an ending
and a past lease, which are what the comparisons tell apart (`<=` when judging,
`<` when claiming). *Vault*: the hazards are between two documents; three revisions allow a
workspace, a change under the feet of both tabs, and a workspace deleted and created
anew while a tab still holds the old one. With one record the run shows that a rewrap under
a save leaves the sentinel true; two saves that race rewrite the same record in it and could not
falsify the sentinel, and for them, as for any number of records, there is
the theorem `VaultManifest`. *Accounts*: two requests are what a race
takes, and two accounts in each other's browser what a circle of locks takes; for the
limits, one account that is one below its limit with two candidates to add. The runs
split the kinds of requests (`Asked`) by the state they compete for; `login` and
`link` are in both. *Authority*: a race is between one transaction and what commits under its
feet, a circle of locks takes two, and the properties speak of one credential, machine and handoff
at a time. A suspended operator loses what every judgement asks for, role and status; two members
are the last owner and the one before. *Mutations*: a late outcome needs two
submissions; a cookie that changes hands and comes back needs three sessions of two
accounts, and of these one who may write agents and one who may not, who has a first
organization to create. *revoke* is what makes a repeated delivery differ from the
first. Symmetry is used in `Commerce` for actions of equal debit, in `Accounts` for
requests and for passkeys that nobody owns, in `Authority` for requests, and in `Mutations` for submissions and for
the two sessions of one account.

`MCControlPlane.cfg` model-checks `ChainIsOneFact`, `SpendsInForce` and `EndedForGood` with one
action of one session between two transactions (1.01 million states, no error). It is kept for whoever
changes `ControlPlane` and is not one of the runs above: the three properties are theorems, and what
the configuration adds is that its steps happen at all, up to a payment that is sent and claimed, and that
the properties notice it if a lock on a session is not waited for, if a revoked commerce session is not judged, or if a
transaction commits before it has its last lock.

Deadlock is checked where the system may not stop (in `mutations` the workspace may always
be refreshed or left). In `vault` every tab may be closed,
and in the `accounts` runs tokens, challenges and codes run out, so there it is not
checked; that requests do not block each other is `NoWaitingCircle` instead. In `authority` rows
to be made run out, and who may wait for whom is `OneKindOfCircle`.

### What the properties say

* `ExposureCovered`: every part of the unresolved exposure fits the limit of one of its
  actions. That is the strongest claim that survives policies being tightened after
  reservations were made. `UnresolvedRowsBounded`, `ApprovedBeforeReserved`: see above.
* `AttemptKeepsExposure`: once an attempt exists, in any state, its debit stays counted.
* `RowsAgree`: five tables written by eight handlers tell one story.
* `OneLiveToken`, `ClaimMatchesPayment`, `NeverTakenBack`, `RevocationFailsClosed`: see
  their comments in `Commerce.tla`.
* `KeepsLedger`: the run of `Commerce` is one of `Ledger`. It is more than the invariants
  above together: it fixes the order of stages, ties each to authority and limit at its own
  step, and so refuses whatever gives money back after a signature.
* `CleanupAvailable`: a human can always take back what was not paid.
* `OneBearer`, `SettledByHolder`, `Delivers`: the outbox. `NothingWaitsForEver`: a notification
  settles, or a row is there that cannot be projected. Such a row stalls the queue for as long as
  it is there (that *every* notification settles is false, and TLC says so if the second case is dropped).
  As the property speaks of every moment, it also says that the stall leaves nothing behind:
  once the row is mended, all that waited settles, the row included, though claims failed on
  it any number of times and stopped every worker. That its tries are not used up by
  then is the theorem `FailedClaimsCostNothing`.
* `RecorderKeepsLease`, `NothingInvented`, `ObservedOrExhausted`: the observer.
* `ManifestMatches`: the sentinel lists exactly the stored records, though it is built from
  a snapshot read long before the transaction; if it did not, no passphrase would open
  the workspace again. `ApprovedBeforeSent`: what left has its approval stored in
  the workspace it left from, until the user removes it; it does not say that this workspace was not
  locked between the last check and the send, which nothing in a browser can exclude, though the
  comment at `revision-guard.ts:10` takes the check to close that window. `WriteKeepsLock`,
  `MarkIsFinal`: a write stores metadata the tab holds, and still never undoes a lock or
  a deletion mark. `MarkedGoes`: a marked workspace is deleted though messages are lost
  and the marking tab is gone.
* `OneSessionPerProof`: a challenge, a code or a counted assertion opens one session, though
  codes and counters are looked up without a lock. `ChangesNeedTheirSession`: a setting
  commits only while the session it was asked in exists. `WithinLimits`: counted before
  the insert, by requests in parallel. `DisabledStaysShut`, `LoginRotates`: see
  `Accounts.tla`. `NoWaitingCircle`: locks are taken in ascending order, also when the
  session to be replaced is of another account.
* `AuthorityAtCommit`: session, membership, credential, machine session and handoff are judged
  at different times, each when its lock is had, and all of them stand when the last lock is.
  `OwnersRemain`: two owners who demote each other read the other's row and count owners
  under one lock. `TakesEffectAtOnce`: the rows change as if every transaction had happened in the instant of
  its commit. `NoneOutlivesItsCredential`: a machine session opened while its credential was
  being revoked is revoked with it or not opened. `OneTokenPerHandoff`: two exchanges may both find a handoff unused
  before they lock it. `OneKindOfCircle`: the lock order is not one order, and within one organization this is all that
  comes of it.
* `AppliedOnce`: a request that is delivered again is found by its key before anything
  else is asked of it. `RefusedNeverApplied`: "No write was applied" is true and stays
  true, also of a request delivered again after a final state was reached, by this
  change or another. `ActsForItsAccount`: cookie, token and captured account are compared
  in pairs at different times, and that suffices. `OutcomeIsOfTheView`: late answers of
  earlier submissions, late status readings and a change of principal leave no foreign
  outcome on the screen.

### What was found

1. **Leases are not exclusive** (`observation_exclusive`). The comment at 0017:121
   credits `SKIP LOCKED`, but what is locked is not what is judged: a claim with an older
   snapshot leases an attempt again under a live lease. The generation fence keeps
   recording safe; the gateway is asked twice and a retry is spent.
2. **A hold costs two retries** (`observation_burned`), though
   `apps/worker/src/settlement-observation.ts:455-457` says it cannot: the claim that
   ends the sweep leases the attempt just released and drops it.
3. **A stale view can act** (`mutations_view`). The comment at
   `apps/web/src/account/flow-controller.ts:93-94` says that "a stale `A` view can never
   act on a session that has since become `B` or a guest". It is the account *controller*
   that is compared, and the check that finds the change has just set it to `B`; the
   principal on the screen stays `A`. The first confirmation is refused, as it should be;
   its notice asks to review the account shown and start again; the screen has lost its
   organizations (`clearForAccountChange`), shows the form for a first one under `A`, and
   what is confirmed there is created by `B`. `ActsForItsAccount` is what does hold.

More was noticed that no run shows. The architecture document lists "Release reservation on
explicit cancel, verified failure, or expiry"
(`docs/engineering/openarc-backend-architecture.md:542`), but an action whose attempt was
persisted and whose grant then expired can neither be dispatched nor give its exposure
back, since revocation keeps it by intent (0015:1478). Line 541 of the document (commit after
accepted settlement evidence) has no statement either: paid exposure is never resolved.
The order of locks is not the one order that 0005:828-830 and 0002:386 state: an exchange, "the full
canonical lock sequence" of 0009:1054, holds the credential while it waits for the organization, and a
revocation of that credential the organization while it waits for the credential.
When exchange and revocation are of accounts they do not share, PostgreSQL has to abort one of
them; `OneKindOfCircle` says that no other circle is possible among the transactions of one
organization. The locks that an action takes on the *seller's* organization (0010:1249-1257) are not in
the model, and nothing is claimed of circles across organizations. The architecture document lets "poison jobs
enter a visible dead-letter state" (`docs/engineering/openarc-backend-architecture.md:769`); a row of the
outbox that the store cannot project never does, since the claim that would count its attempt is rolled back:
what becomes visible is workers that stop (`worker.ts:102-108`), and all other jobs wait with it. Tests
(`packages/db/test/durability.postgres.test.ts`, `apps/worker/test/worker.postgres.test.ts`) see to it that the store of a
release knows every kind its schema permits, so this takes workers older than the schema. A revocation of a credential reads the role of
the member but not the status (0005:2331-2333), so a suspended operator may revoke, though
issuing one asks for both. The retries of an observation are explained as a bound
for attempts "the transport can never answer about" (0017:59), but an attempt that is
answered *pending* each time runs out of them as well, and its settlement days later is
never recorded. A submission that is never sent, because the bootstrap failed or the
account controller is busy with an abandoned one, is shown as "The request was sent but no
confirmed response arrived" (`tenant/TenantMutationPanel.tsx:546`) and stays locked until the
user leaves the page. The comment at
`packages/db/src/auth-store.ts:622` says that a login revokes the previous session only if
it is of the account logged in to; the code revokes it whichever account it is of, and
that is what `LoginRotates` states. The architecture document says "Session rotation
occurs after login, privilege change, and recovery"
(`docs/engineering/openarc-backend-architecture.md:271`); adding a passkey or linking a
wallet does not rotate. And `purgeExpired` deletes challenges, then sessions, without
locking the account, while a recovery locks the account, then sessions, then challenges:
PostgreSQL may have to break a deadlock of the two; the purge is outside the model but
for what it deletes.

### Fairness

* `Outbox!Spec`: the clock runs; as long as workers are stopped, one of them is restarted
  (its supervisor); as long as workers hold jobs, one job is acknowledged or abandoned (every handler
  and every batch has a deadline, and the loop then goes on); and that *some* worker
  claims *some* row is strongly fair *while every row can be projected*: the loop of a running
  worker repeats its claim after a failure, workers that stop are restarted, and what
  makes a claim fail then (a database out of reach, a time-out, a lost reply) is taken not
  to meet every claim for ever. While a row cannot be projected nothing is assumed of claims, although
  one that does not take that row may succeed, and nothing says that the row is ever
  mended: it fails each claim that takes it, permanently, as `worker.ts:102-108` and `219-222` say. No
  single worker is assumed to make progress. Nothing is assumed of acknowledgements: all of them may be
  lost, and workers may crash for ever. The last lease then runs out and a later claim buries the job.
* `Observation!Spec`: the same for clock and restart; the steps of a claim, the questions
  and the calls of a worker that is up are weakly fair (statement and lookup deadlines),
  deadlocks are broken (PostgreSQL), and outages end at last: a worker that crashes for
  ever between claim and question would use up nothing but its claims, which the
  property allows, yet one that crashes for ever before its claim commits does nothing. A row that
  cannot be projected does not exist here: the store also projects inside the claim
  (`settlement-observation-store.ts:284-296`), but by the grammar that the CHECK constraints of
  `payment_attempts` enforce (0015:1021-1083).
* `Vault!Spec`: an open tab polls, its transactions finish, and it shows what was read.
  Nothing is assumed of messages, of the user, or of other tabs: all but one may be
  closed at any moment.
* `Accounts!Spec`, `Authority!Spec` and `Mutations!Spec` have no fairness; their properties
  are safety.
* `SteadySpec` of `Observation` has no fairness: it restricts the loop to workers that
  never fail and are faster than their leases, so that the two invariants violated under
  it cannot be blamed on failures.

## 4. The proofs

All theorems hold for every value of the constants under these assumptions, each of
which TLC evaluates in the runs: `BindingAssumption` and `NumberAssumption` (types of the
bindings and numbers of `Commerce`, nulls distinct from values, finitely many actions),
`SumAssumption` (SQL's sum is additive over disjoint rows; stated, since a recursive sum
is beyond the prover), `OutboxAssumption` and `ObservationAssumption` (positive limits,
nulls distinct), `VaultAssumption` (finitely many tabs, null distinct),
`AccountsAssumption` (limits, finitely many passkeys and wallets, and initial rows
that respect the limits and name registered accounts) `AuthorityAssumption`
(every browser session has an account, identifiers differ from null, members may only be made what the
roles allow, and one owner is active at first) and `MutationsAssumption`
(every session has an account, operations are of the known kinds, null distinct).

* **Commerce.** `TypeOK` is inductive by itself (`TypeCorrect`). The others rest on
  `RowsInv == TypeOK /\ RowsAgree /\ SessionKnown` (`RowsCorrect`): that the rows agree is
  what lets a handler that looks at one table say something about another; for example
  `Cancel` looks at the action's status, and only agreement tells that no grant exists.
  `SessionKnown` makes the pinned terms well defined. `HandlersFrame` and
  `OtherSteps` reduce `Next` to the handlers of a single action and to steps that leave
  the rows alone.
  `BudgetHolds`: an admission is covered by the limit it was just assessed against, and a
  part that does not contain the new action was covered before (`AdmissionCovers`,
  `NextExposure`). `RowsBounded`, `PaymentsKeepExposure`, `TokensRotate`
  and `ApprovalsPrecede` are inductive relative to `RowsInv`.
  `ClaimsMatchPayments` needs `ClaimRow` (grant and attempt of a claimed action stay as
  they were claimed) and `IdsDiffer` (attempt ids are used once, so that claims cannot
  share one). `SpendingFailsClosed` and `NothingTakenBack` are action properties over
  `RowsInv`: the handlers that spend prove the chain and do not change it; the others do
  not spend. `CleanupPossible`: the guard of `Cancel` or of `RevokeGrant` holds
  (`Withdrawable`), because a grant revoked before any attempt has freed its reservation
  (`RevokedFreed`). `SpendingHasSession` adds to `SpendingFailsClosed` that what is
  spent is spent under a session.
  `LedgerIsKept` shows that `Commerce` implements `Ledger`, from `RowsInv`,
  `AttemptKeepsExposure` (only an action with exposure has an attempt)
  and `ClaimRows` (a claimed line was sent). A handler writes one line (`OtherLines`) and keeps
  its limit and authority (`OwnLine`); what remains is how its stage moves: `AuthorizeEnters`
  and `ApproveReserves`, whose assessment is the ledger's `Fits` (`AdmittedFits`), and
  `HandlersMove` for the other ten. Any other step changes at most who has authority.
* **Outbox.** `RowInv` is types and that an absent job was never tried. `OutboxDelivers`
  shows that `Safety` implements `Promise!Safety`: each step moves each job as `Delivery`
  allows or leaves it alone. `HolderSettles` is an action property from the same
  invariant. `OneBearerOnly` counts bearers by finite-set theorems: a claim makes
  exactly one for a generation nobody could have, and every other step makes none: what a claim
  that fails leaves behind, if it committed, is a lease without a bearer. `FailedClaimsCostNothing`
  adds to `RowInv` that a row that cannot be projected is pending and untried: a claim that commits
  took no such row, and one that fails on it changes nothing (`CommitLeavesUnreadable`).
* **Observation.** `ObservationInv` says of every worker that it owns the lease lock
  while it records, that its generation is then the current one, and that its answer is
  one the gateway has given. Each is needed: the lock excludes the claim, so the
  generation stays; the answer stays true because the gateway never goes back.
  `RecorderSafe` and `NeverAhead` follow.
* **Vault.** Two inductive invariants. `Typed` adds to the types that the operation under
  way fits the phase of the tab. `Data` holds what makes a write from an old snapshot
  safe: numbers drawn are below the counter (`Numbered`); a number not yet written is
  nobody else's, stored, read or drawn (`Apart`); hence a tab whose base still has the
  stored revision has a snapshot that is what is stored (`Snapshots`), and a save
  that passes the comparison keeps sentinel and records equal (`VaultManifest`); and
  approvals are kept while their workspace is (`Approved`, `VaultApproval`). The two
  action properties follow from `MetaSteps`, which lists the ways a step may change
  the metadata.
* **Accounts.** `Inv == TypeOK /\ Shaped /\ Locked /\ Ready`. `Shaped` says what a request
  carries at each step; `Locked`, that a request past its look-up holds locks on its own
  accounts only and in ascending order, and all of them when it writes; `Ready`, that what was
  read under the locks still holds at the write. `Ready` is kept because a write by another
  request touches only rows of accounts that request has locked (`WriteFrame`).
  `SettingsNeedTheirSession`, `DisabledGetsNothing` and `LoginsRotate` follow from it.
  `LimitsHold` adds `Unborn`, that an account that does not exist owns nothing;
  `ProofsOpenOneSession` adds `Spent`, that challenges, codes and counters that granted a
  token are used up. `RequestsWaitInOrder` argues that in a circle somebody holds
  the greatest account any of them waits for (`Greatest`: a finite set of numbers has
  one), and the holder waits only for greater ones.
* **Authority.** `Inv == TypeOK /\ Known /\ Apart /\ Counted /\ OwnersRemain` and, of each
  transaction, `Bound`, `Closed` and `Judged`. `Bound` says what its look-up left it with and that this is still
  so: who issued a credential and which credential a machine session was opened with never
  change. `Closed`: what it holds is its own rows, and with each all that come before. `Judged` of every row it holds:
  what was judged when the row was locked is still true. This last is the heart, and it is
  kept because whoever changes what a row was judged by holds that row, or a row that its holder
  has locked before: a membership changes under the organization, the sessions of its
  account end under the account, machine sessions are revoked under their credential
  (`KeepsRows`, one lemma per commit, `HeldWith` for the rows that come with others). `Apart`
  keeps two holders of one row away, `Known` says that rows that name others name rows that
  were made, `Counted` that a token was given for a handoff exactly if it is bound, which
  is what the exchange judges. For `CirclesAreKnown`: nobody waits for a browser or
  machine session (`WaitsForNoSession`: its holder holds the account or credential too, for which one would have
  waited first), and for a credential only its revocation waits, and only for an exchange
  (`WaitsForCredential`); without that pair a circle waits for accounts and the organization
  only, its greatest account (`Greatest`) has a holder that waits for the organization, and
  that one's holder for nothing but a credential.
  `RevocationReachesAll`: a machine session is only opened by a transaction that holds the
  credential and judged it in force, which `Judged` says it still is; the revocation
  that comes after finds the row, and revokes it in its own commit (`NoneOutlivesStep`). `TransactionsAreAtomic` shows that `Authority` implements `Chain`:
  each commit has one lemma (`MemberAtOnce` ... `RevokeAtOnce`) that finds the whole guard of
  the abstract step in what was `Judged`. Three facts come on top: `Linked`, that
  what was looked up without a lock and never judged (that the standing asked for is one, whose
  handoff it is) is still so; `NoneOutlivesItsCredential`, because revoking twice must change
  nothing; and `Counted`, by which an unconsumed handoff gave no token yet.
* **Mutations.** `Inv == TypeOK /\ Bound /\ Answered /\ AppliedOnce /\ Looked /\ Seen`, the second and
  third for each submission. `Bound` says that a submission that was sent has the
  token of a session of the captured account, and that a record is of the session it was sent
  with, which is the token's; `Answered`, what an answer on
  its way entails, above all that a request answered with a refusal is neither
  recorded nor on its way any more, so that no later delivery can make the refusal false;
  `Looked`, that a status reading found what it says; `Seen`, whose outcome the console shows and
  that its principal is nobody or the one it was confirmed under. `OneCall` reduces a step
  of one submission to what is said of that submission, `Telling` and `Ending` are the
  ways an outcome reaches the console. The five properties follow from `Inv`.

* **ControlPlane.** `ControlIsAuthority`: a step of the composition is one of `Authority` or leaves
  its rows and transactions alone, so `Authority`'s invariant holds and every step is one of `Chain`
  (`TransactionsAreAtomic`). On top comes `Owned`, that a transaction of kind *use* is the
  machine's to whom the session was given; it is kept because a session is never given to another
  machine (`NothingReopens`, over the steps of `Chain`). `UseInForce` is the heart: when such a transaction has its last lock,
  what `Judged` and `Bound` say of its rows is `InForce` of its session. From it `SpendIsCommerce`: the
  handler that commits then, though it checks no chain, is the handler of
  `Commerce` that does. Whatever commits in `Authority` changes the authority of some set
  of sessions and is a `ChainChanges` of that set (`AuthorityIsChain`), and with that `ChainActsAsOne` shows
  that the composition implements `Commerce`.
  The theorems of `CommerceProofs` are then instantiated (`Paid == INSTANCE CommerceProofs WITH ...`)
  under `Commerce`'s assumptions on the constants (`Bindings`, `Numbers`, `Sums`): `MoneyIsSafeBeside` for seven
  invariants, `LedgerIsKeptBeside` for the refinement of `Ledger`, `SpendingIsInForce` for the
  rows at the moment of spending, and, with `NothingReopens`, `EndsForGood`.

Type invariants are conjuncts of the inductive invariants and proved with them; a run checks
the one of `Observation`, where it bounds the leases.

Every property of the passing runs is proved for all constants, except the three
liveness properties (`NothingWaitsForEver`, `ObservedOrExhausted`, `MarkedGoes`), which
are only model-checked, since liveness under fairness is out of the prover's reach. Out of its reach too are recursive definitions over
data and `RECURSIVE` operators, so the modules have none.

## 5. What is not modelled

* Idempotency records other than those of tenant changes, providers and their credentials,
  the listing lifecycle, evidence, and the supplier budget. Where they matter to `Commerce`
  they are `listed`, which changes at any time there.
  The hazards of what is not modelled are listed in `PROJECT.json` without a property.
* Of the accounts: tenant operations, the purge as a transaction of its own, and what
  section 2 names. Of the vault: kinds of records and their relationships, cryptography,
  the backup file, storage quotas and the drafts of the panels.
* Formats: canonical JSON, digests, EIP-3009 payloads, amounts as decimal strings. A call
  is well formed or is refused.
* Several exposure lines and several agents in one organization; they share only the
  lock.
* Lock time-outs and statement time-outs in `Commerce`: a transaction that
  fails has no effect, and a reply that is lost matters where a caller acts on it
  (`RecordDispatch`). In `Outbox` a claim that fails is a step, and so is an acknowledgement that is
  lost; that one which failed without effect is not repeated is the same step.
* Workers of two releases at once, of which one can project a row and the other not, and a
  release that is rolled back under rows that were leased before.
* What the provider that was paid holds: a grant may be replaced after the payment was
  dispatched, and the provider then has a retired token. The model has the step, not the
  hand-over of tokens.
* Reads, HTTP, tooling, and the screens other than the console of `Mutations`: nothing that
  interleaves with state of its own.

## 6. The plan

Done: `Commerce` as an implementation of `Ledger`, `Outbox` of `Delivery`, `Authority` of `Chain`;
`Observation`, `Vault`, `Accounts`, `Mutations`; the proofs of all seven; and `ControlPlane`, their first
composition, of `Authority` and `Commerce`. Left, most important behaviour first:

1. The replay of a committed exchange, and expiry by the clock, in `Authority`.
2. `Listings`: versions, the active pointer and provider suspension, refining `listed`.
   Theorem: one active version, reached only through review.
3. `CallBudget`: the hour and day windows and the sub-call cap.
4. A composition of `Commerce` and `Observation` over the attempt's state.
5. The other forms of idempotent mutation (policies, sessions, machine credentials, listings)
   whose keys are looked up after other locks, as instances of one abstract effect.
