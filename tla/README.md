# PAM Gateway: a verification project

PAM Gateway grants just-in-time access: a person files an access request for a
target, someone (or Jira) approves it, the person opens a session under it, and
when its time is over a worker expires the request and revokes the session.
Around this the gateway keeps a vault of credentials, a registry of agents that
open tunnels to the targets, an audit log that is exported and rotated, and a
copy of the CMDB. Everything is ASP.NET controllers and background services
over stores; there are no transactions across statements, no concurrency tokens
and no locks in the handlers, so that what can go wrong is mostly what happens
*between* a read and the write that follows from it.

The modules here model that: one action per stretch of a handler that nothing
can interrupt, cut where another call, the worker, Jira or a crash can come in.

## The system

| Component | State | Operations | Interacts with |
|---|---|---|---|
| Access requests (`AccessRequestsController`, `JiraWebhooksController`) | request rows: status, ExpiresAt, ItsmKey; approval rows | Create (limit, await of Jira), Approve, Deny, webhook | worker (rows), sessions (read), Jira |
| Worker (`AccessRequestWorker`) | its snapshots of requests and sessions | expire, revoke, clean tickets, consistency check, escalate; once a minute | request, session and ticket rows, Jira |
| Sessions (`SessionsController`) | session rows | Create, Terminate, tickets | requests, vault, agents |
| Vault (`VaultController`) | credentials, checkouts (always in memory) | Create, Checkout, Checkin, Rotate | sessions |
| Agents (`AgentsController`, agent `Worker`, `AgentHealthMonitorService`) | agent rows, tickets; token and failure count in the agent | register, heartbeat, start and end a session, mark offline, stop | sessions, tickets |
| Tunnels (agent `Program`, WebSocket proxy of the API) | count of open tunnels | open, relay, idle timeout, close | tickets, sessions |
| Audit (`SiemExportService`, `AuditRotationService`) | event list, export cursor | append, export, delete old | everything appends |
| CMDB (`CmdbSyncService`) | targets, time of last synchronisation | full and delta cycles | Jira Insight |
| Web interface (`theme.js`, `jquery.validate.unobtrusive.js`) | `localStorage`, which tabs share; per form a validator, marks and a summary | set theme and language; parse, check, submit, reset | the browser, jquery.validate |
| Policies (`AccessPolicyEvaluator`, `LabelExpressionEvaluator`) | policy rows, a five minute cache | evaluate | requests, sessions |
| Recordings (`RecordingsController`, `RecordingStorage`) | recording rows, chunk files | chunks, finalise, verify | sessions |
| Dead letters (`DeadLetterQueue`, `DeadLetterProcessor`) | queue | retry, give up | Jira |

What is hard in it, and what each part owes:

- *Requests, worker and sessions.* Snapshots are taken before awaits of Jira and
  written back after them; webhooks come late and repeated; the worker may be
  restarted in the middle of a cycle. Still: no session without a grant that is
  on record, none admitted after the TTL, every due request expires, every dead
  request loses its sessions, within two cycles.
- *Vault.* Two lists are written one after the other by two controllers. A
  credential has one holder, is never lost and never rotated while out, and
  comes back when its session ends.
- *Agents and tunnels.* An agent that is let in and lives is Online, one that stopped ends
  Offline; a ticket opens one tunnel; the counter of tunnels leaks nothing.
- *Audit.* Every event is exported, once at least, whatever is appended or
  deleted during an export and in whatever order the store lists its rows; where
  the code loses one, it is known how and how many.
- *CMDB.* Targets converge to the CMDB's.
- *Policies.* Deny wins whatever the hierarchy looks like, and a decision follows
  policies that were in force a few minutes ago at most.
- *Web interface.* A page whose buttons work shows one theme and one language and
  what it saved; a form marks what is wrong and nothing else, and sends nothing
  wrong.

`PROJECT.json` lists every hazard at its line, with the property that watches it.

Assumed throughout is *one* process of the API and one of the worker. The vault,
the stores in memory, the policy cache and the cursor of the export live in a
process, and several replicas (`helm/pam-gateway/values-production.yaml` and
`infra/k8s/hpa.yaml` ask for two at least) would each have their own: two vaults
that know nothing of each other's checkouts, two exporters that send every event
twice, a policy cache per replica. The modules over the database alone
(requests, sessions and worker; agents; tickets) say of calls only that they
overlap, in one process or in several.

## The modules

| Module | What it is |
|---|---|
| `JitAccess` | abstract specification: grants, lapses, admissions, closings; no store, no handler, no worker |
| `AccessLifecycle` | requests, decisions, webhooks, sessions and the worker over rows of a database |
| `RevocationBound` | `AccessLifecycle` with an observer that counts the worker cycles a session outlives its request |
| `AccessLifecycleMC`, `RevocationBoundMC` | instances for TLC |
| `AccessLifecycleProofs` | theorems of `AccessLifecycle` and `RevocationBound` |
| `CredentialVault` | credentials, checkouts, and their use by people and sessions |
| `CredentialVaultMC`, `CredentialVaultProofs` | instances for TLC, theorems |
| `AgentPresence` | one agent's registrations, heartbeats and goodbye, the API's handlers and the health monitor |
| `AgentPresenceProofs` | theorems of `AgentPresence` |
| `AuditTrail` | the audit log, its export to a SIEM and its rotation |
| `AuditTrailProofs` | theorems of `AuditTrail` |
| `AgentTunnels`, `AgentTunnelsProofs` | tickets, their trade and cleanup, the proxy, the agent's tunnels and their counter |
| `PolicyDecisions`, `PolicyDecisionsMC`, `PolicyDecisionsProofs` | the policy evaluator, its shared cache, and an administrator who writes |
| `CmdbSync`, `CmdbSyncProofs` | the copy of the CMDB, by full and delta cycles |
| `UiPreferences` | theme and language of the pages over the storage that tabs share |
| `FormValidation` | a form under `jquery.validate.unobtrusive.js` |
| `WebInterfaceProofs` | theorems of `UiPreferences` and `FormValidation` |

### AccessLifecycle

State and code: `status`, `expiresAt`, `linked` (requests with an `ItsmKey`) are
the columns of `AccessRequest` that any decision depends on; `approvals` is the
approval store; `sess` and `sessReq` are the session rows; `call[c]` is one
request being served, with what it read; `worker`, `listed`, `todo` are the
worker's place in its cycle and its two snapshots.
Two extra states, `drafted` and `starting`, stand for a Create that has passed
its checks and has not added its row.

| Action | Code |
|---|---|
| `CreateRequest`, `AddRequest` | `Create` before and after its await of Jira |
| `Decide`, `WriteDecision`, `RecordDecision` | `Approve` and `Deny`: read, write of the row, approval row after the await |
| `Webhook` | `HandleWebhook`: any status for any linked request, then the same two writes |
| `FailCall` | a store that throws or an instance that dies in between |
| `AdmitSession`, `StartSession`, `TerminateSession` | `SessionsController.Create`, `Terminate`, the agent's terminate |
| `ScanRequests` .. `EndCycle` | the passes of the worker, a row at a time |
| `CrashWorker`, `RestartWorker` | an exception that stops the host, and its next start |

Data left out: reasons, names, tickets' texts, the audit log, `EndedAt`. Policy
checks only ever refuse a call, and a call that does not arrive is a behaviour
already. The worker runs only on a database, so that is what is modelled.

`cutOff` is a history variable: the requests whose approving call stopped between
its two writes, which is the one way `GrantAccounted` and the refinement grant for
an approval to have no row. `Buried` requests are dead, without an issue in Jira,
and in the hands of no call that read them Pending; `BuriedStaysBuried` says that
nothing brings those back.

`RevocationBound` adds two counters of the cycles' ends to it: `late`, of those a
session saw while it was active and its request Denied or Expired, and
`overtime`, of those it saw while it was active, the time of its request over and
no decision or webhook wrote that request. `RevokedByNextCycle` says that neither
passes one. Without the last clause of `overtime` a webhook
could reopen the request in each cycle, and TLC shows a session that goes on.

### CredentialVault

`credStatus` and `secret` are the credential records, `checkouts` the list of
checkouts (oldest first, which `FirstOrDefault` depends on), `session` and
`injected` the sessions as their store gives them back, `call[h]` a request
under way with the record it read. Each read and each write is an action
(`Checkout`, `AddCheckout`, `MarkCheckedOut`; `Checkin`, `FindCheckout`,
`CloseCheckout`, `FreeCredential`; `Terminate`, `LookUpCredential`, the same,
`EndSession`; `Rotate`, `WriteRotation`). `secret` numbers passwords by the
rotation that made them. `provider` says where sessions live, and is either from
the start: the vault itself is always in memory (`Program.cs:194-196`), and the
database's session row has no column for the injected credential.

Nothing keeps two calls from having one credential's record in hand at once, and
then each writes back the whole record it read: a checkout twice, a rotation
undone. `contended` is a history variable that remembers the credentials this
happened to. All calls overlap as they like; the invariants are about the
credentials outside `contended`, and so say that nothing else does harm: not the
overlap of calls for different credentials or for one session, nor several
terminates of it, agents that end it, sessions half written. What happens inside
`contended` is the run `vault_overlap`.

### AgentPresence

`row` is the agent's row in the registry, `agent` its process (`at` is the place
in `ExecuteAsync`, `waits` the call its loop awaits, `goodbye` the one `StopAsync`
awaits), `call[c]` an HTTP call with the stage its handler has reached, `monitor`
the health monitor between its scan and its save. A handler that loads a row and
saves it is two actions, because Entity Framework writes only the columns that
differ from what was loaded (`Merge`): two saves can leave a row that neither of
them meant. Times are kept as ages, which stop growing where the monitor stops
telling them apart, so that time has no bound. Tokens are new with each
registration; what a handler asks of one is only whether it is the row's.

| Action | Code |
|---|---|
| `SendRegister`, `SendHeartbeat`, `Proceed`, `Refused`, `GiveUp` | the loop of the agent's `Worker`: a call is sent, succeeds, is refused, or times out and goes on without it |
| `SendOffline`, `Stop`, `Kill`, `Start` | `StopAsync`, whose goodbye runs beside the loop; the end of the process; a new one |
| `LoadForRegister`, `SaveRegister`, `InsertFails` | `AgentsController.Register` and `EfAgentStore.Register` |
| `CheckHeartbeat`, `LoadForHeartbeat`, `SaveHeartbeat` | `AgentsController.Heartbeat` and `EfAgentStore.UpdateHeartbeat` |
| `ScanAgents`, `LoadForOffline`, `SaveOffline`, `AbandonCycle` | `CheckAgentHealth`, and a cycle that ends in an exception |
| `LoseCall` | a call that is lost, or cut off by a failure of the API |
| `Settle` | no code: from here on nothing of the above goes wrong any more, which is what the liveness properties presuppose |

Time and the agent are not tied together: the monitor may call a live agent
Offline at any time, as it does when heartbeats are late.

The whole controller is behind `[Authorize]`. With `AuthEnabled` no call of the
agent gets to a handler (`Authorized`), as it registers without an Authorization
header and then sends the GUID it was given, which is no JWT; and a join token that
is wrong is refused by `Register`. `RegainsToken` and `ComesBackOnline` are stated
for authentication off and the right join token, and `agent_auth` shows what
happens otherwise, which is the default. Left out is
the registry in memory, where a restart of the API forgets its agents; the
heartbeats are then refused with 404 and lead to the same registration.

### AuditTrail

`place[e]` is where event `e` is stored, events numbered as they were added (0: it
is not), so that `log` is the store and `First(n)` what `GetAll` lists before
position `n`. In memory an event's place is its number. The query of the database
has no `ORDER BY`: a new row goes to any free place, before older ones too. That
rows once listed keep their order among themselves is assumed; they are never
updated. `cursor` is `_lastExportedIndex`; `exporter` holds the batch and the
count between the read of the log and the end of the send; `expired` says which
events the rotation may delete.

| Action | Code |
|---|---|
| `Add` | `IAuditStore.Add`; `Overtaken` says whether the row pushes one that was not sent behind the cursor |
| `BeginExport` | `ExportNewEventsAsync` up to its await |
| `FinishExport`, `RejectExport`, `LoseDatagrams` | its end: all has arrived; the webhook answered with an error, or there is no receiver; datagrams of a syslog export were lost. The cursor moves on in each |
| `FailExport` | an exception, with any part of the batch arrived |
| `RotateBatch` | one turn of the loop of `RotateAsync`, on a database |
| `Restart` | a new process: the cursor begins at 0, a log in memory is empty |

`forgone` is a history variable: how many events the code gave up since the
exporter was started, rotated away, refused, lost as datagrams, overlooked (added
during a send to the list in memory, whose length the cursor is then set to) or
overtaken. Which
ones those are it does not say, and it need not: what is skipped later is often
another event than the one rotated away.

### AgentTunnels

`ticket` are the rows of the ticket store, `start[c]` a `StartSession` call with
the place it has reached, `cleaner` the worker inside `CleanupExpiredTickets`,
`tracker` the agent's `SessionTracker`, `tunnel[t]` a WebSocket request at the
agent: where its handler is, whether its peer is there (`peer`), whether nothing
has been sent for longer than the idle timeout (`quiet`), and whether a receive
is pending (`reading`). `urls` is a history variable.

| Action | Code |
|---|---|
| `CheckForIssue`, `Issue` | `SessionsController.IssueTicket` |
| `ReadTicket`, `CheckSession`, `LoadToRevoke`, `RemoveRow`, `AnswerStart` | `AgentsController.StartSession` and `EfAgentTicketStore.Revoke`, a statement each |
| `ListExpired`, `LoadExpired`, `RemoveExpired` | `CleanupExpiredTickets` over the same `Revoke` |
| `DialThroughProxy`, `Arrive`, `ConnectDirectly` | the proxy in the API's `Program.cs`; somebody who has the URL |
| `CheckCount`, `Verify`, `BeginTunnel`, `Establish`, `FailToEstablish` | the agent's handler up to its relays; the ticket check lets everybody in when the API does not answer |
| `Transfer` .. `CancelIdle`, `EndTunnel` | the two relays, the watcher, the close and the `finally` |

A call that is refused and changes nothing is a call that does not come. The two
readings of the counter, before and after the await of the ticket check, are two
actions, and the maximum is exceeded in between.

### PolicyDecisions

`policies` is the store, `cache` the entry with the time it has yet to live and
the age of what it says, `call[c]` an evaluation, `recent` a history of what the
store held in the last units of time. `Lookup`, `GetAll` and `Fill` are
`GetOrCreate`, which runs its factory outside of any lock, so that two calls can
fill the entry one over the other; `Evaluate` with its helpers is the evaluator
itself, a function of the roles, target, protocol and policies. Who asks for what
is left open until the decision: `DenyOverrides` is about every question that a
call could put to the policies it has in hand. Label expressions, the listing filter of
`TargetsController` and the early way out for callers without authentication or
for an empty configuration are not modelled.

### CmdbSync

`cmdb` and `modified` are the systems in Jira and those a delta query would
return, `targets` the store, `sync` the cycle under way. A cycle is `Start`,
`List`, `FetchAttributes` for each system, `ReadExisting`, `AddOrUpdate` for each
target that differs, `Finish`; `Fail` can end it after each. A value stands for
the attributes that the copy has. `Finish` sets the time of the last
synchronisation, which the next query truncates to the minute: what it returns of
the old changes is any subset. Targets that the CMDB no longer has are only
logged, as in the code. `touched` (edited since the cycle
listed or fetched them) and `overtaken` (edited by hand, or in a cycle that
succeeded and had fetched them before) are history variables.

### UiPreferences

`stored` is `localStorage`, `access` what the browser lets a page do with it,
`page[t]` what tab `t` shows and where its script is. A read of the storage is a
step, a write with the changes to the page that follow it another; both throw as
`access` says, and `AfterThrow` is where the script is then: the head goes on, the
handler of `DOMContentLoaded` ends without its listeners. All keys are in both
dictionaries, and groups of keys stand for them.

### FormValidation

`parseElement` turns the attributes of a field into rules, as the adapters do;
`options` are those of the form, `rules` those of its validator, which keeps what
it was made with. `Type`, `Blur`, `Submit` and `onReset` are the events, with
what `jquery.validate.js` underneath does on each, as far as the unobtrusive
functions are called; `onError`, `onSuccess` and `onErrors` change the container
of a message (its class, its label, whether the label knows its container) and
the summary. The attributes modelled are required, length with one bound or two,
and email; remote rules, checkboxes and groups of fields are not. No page of the
interface includes the script yet: it is shipped and its partial view is there.

## What the runs show

| Run | Instance | Shows |
|---|---|---|
| `access_lifecycle` | 1 request, 1 session, 2 calls that may fail anywhere, Jira, restarts | types, accounted grants, revocation within two ends of a cycle, the buried stay buried, the whole implements `JitAccess`; due requests expire, dead requests lose their sessions, lapsed access closes |
| `vault` | 2 credentials (1 break-glass), 2 sessions in memory or in a database, 2 calls that overlap | one holder, lists agree, passwords in hand work, of every credential no two calls had in hand; Terminate gives back when sessions are in memory |
| `vault_overlap` | 1 credential, 2 calls | **violated**: a credential is handed out once |
| `vault_database_release` | sessions in memory or a database, 1 call | **violated**: Terminate gives the credential back |
| `agent_presence` | 1 agent that is let in, 2 calls in flight, threshold of 2 failures, any number of faults before things settle | types, who can take an agent's token, and after settling: the token is regained, a running agent comes back Online, one that is gone ends Offline |
| `agent_auth` | the same agent, authentication on | **violated**: the right join token lets the agent in |
| `agent_tunnels` | 1 ticket, 2 calls that trade it, the worker that deletes it, 2 tunnels where 1 is allowed, restarts | a ticket in the store has opened nothing, the counter is right, silent and abandoned tunnels end, expired tickets go |
| `audit_export` | 4 events in either store, batches of 2, rotation, refusals, lost datagrams, failures and restarts | no more events are skipped than were given up in a way that is counted; if none was, every event arrives |
| `policy_decisions` | 5 roles, 2 of them in a circle, 4 policies, 2 calls, an entry that lives 2 units and a query that takes 1 | deny overrides in whatever policies a call decides by, decisions follow recent policies, what is written takes effect |
| `cmdb_sync` | 2 systems of 2 values, a full cycle every third time, edits, failures and restarts | no edit is lost but by what overtakes a cycle; when things calm down the copy converges |
| `ui_preferences` | 2 tabs, a storage that is cleared, filled and forbidden | live pages are of one piece, show what they saved, and clicks change them |
| `form_validation` | 3 fields, 5 kinds of values, in any order of typing, leaving, submitting, resetting | marks are right, what is sent is right, the summary is that of the last refusal |

Each violated one is a finding in `PROJECT.json`, with the line that says
otherwise:

- `vault_overlap`: the release notes promise that a credential is checked out by
  one at a time; two calls that both read it as Available each get its password.
- `vault_database_release`: a test says that Terminate checks the credential in.
  It runs on the stores in memory; the database has no column for it.
- `agent_auth`: the agent protocol says that an agent authenticates by its join
  token. With authentication on, which is the default, its registration is
  answered 401 before the token is looked at.

Some things the models allow and no property forbids, because nothing keeps the
code from them: Approve and Deny that overlap leave a row of each kind; requests
filed together pass the limit of active requests together; two calls that overlap
trade one ticket for two URLs; two tunnels get past a maximum of one; rotation
and new rows move events under the cursor of the export; the tunnel of a revoked
session goes on while it carries anything. `SkippedAtMostForgone`,
`StoredTicketsUnused`, `CountIsTunnels` and `SilentTunnelsEnd` say how far the last
ones go.

### Bounds and why they are enough

- Two calls: every race in these handlers is between one read-write pair and
  one other writer. Webhooks, the worker and the session calls come on top.
- One request with one session: the statements are about one request and one
  session under it, and other rows are read and written by
  statements of their own. The one place where requests meet is the limit of a
  user, which an instance with one request never reaches; the theorems, which are
  all the safety properties and the refinement, hold for any number of requests
  and sessions and any limit.
- `MaxTime` is 2 with a duration of 1: a request is not due, due, or was due when
  another time came; nothing else about time is ever compared.
- Two calls in flight let an agent register or beat, or say goodbye, while a
  call it gave up on is still being handled; faults and time are not bounded.
  `OfflineThreshold` is 0: an age is either over it or not.
- Failing calls and restarts of the worker are not bounded.
- `MaxEvents` is 4 with batches of 2: a batch can be deleted before, during and
  after an export, with as many events again added behind it.
- `MaxCheckouts` is 2 and `MaxRotations` 1: a credential can be taken, given
  back and taken again, or two be out at once, and be rotated before or between.
  The guards stop new checkouts only, so that calls under way always finish. The
  constraint `SomethingToCheck` of the run leaves a behaviour when the ordinary
  credential is contended, and follows it on when the break-glass one is, to see
  the other unharmed; the theorems need neither bound nor constraint.
- Two tunnels where one is allowed, so that one can be refused and one can pass
  the maximum; two calls for one ticket, which is what they can disagree about.
- `MaxVersions` is 2: two versions of the policies in one unit of time, of which a
  query may have seen the older. An entry that lives 2 units can be filled again
  by a slower call while it lives.
- Two systems, so that a cycle can be cut off between two rows; two values, an
  edit and an edit back. Every third cycle is full, so that there are deltas
  between.
- Two tabs, since a tab is disturbed by one other; three fields, of which one is
  required and bounded, one has a format, one comes late with a lower bound only.
- Symmetry is used in `vault`, which has invariants only, over sessions and calls,
  that no definition tells apart.

### Fairness

`AccessLifecycle!Spec` assumes weak fairness of `WorkerStep` alone, and that the
worker's host is not restarted for ever: the loop goes on as long as its process
runs, and every await in it ends (its Jira calls are in try blocks and the HTTP
client has a timeout). People,
Jira and the calls they make owe nothing, so that no liveness property leans on
a decision or a webhook ever being finished. `DueRequestsExpire` therefore says
that a due request is Expired at some later time, not that it stays so: a
webhook can reopen it, and the next cycle expires it again.
`DeadRequestsLoseSessions` and `DueSessionsClose` carry that in their premises.

`AgentPresence` assumes that time passes and that the agent's loop, its stop,
each handler and the monitor's loop go on: they are loops and requests of
running processes, and every await in them ends, by a timeout at the latest.
Faults owe nothing and need not stop: the liveness properties speak of
behaviours in which they do (`settled`).

`AuditTrail` assumes that the export is tried again and again and that a send does
not fail or get lost for ever (strong fairness of `FinishExport`): the service
catches every exception and waits for its next interval. Where that does not hold,
events that were refused or lost are `forgone`, which the property excepts.

`AgentTunnels` assumes that the worker and the handlers at the agent go on, that a
tunnel over which nothing is sent becomes quiet, and that its watcher wakes up.
The peers owe nothing: they need not answer a close, send, or go away, and
`SilentTunnelsEnd` says what that costs: a tunnel can then be in `CloseAsync` for ever.

`PolicyDecisions` assumes that time passes, which expires the entry, and that a
query that was answered is used. `Tick` cannot pass while a query is older than
`FillTime`: that a query of the database takes a bounded time is an assumption
about it, and the age of decisions depends on it. `CmdbSync` assumes that the
service starts its cycles and goes on with them; failures stop in the premise of
`CopyConverges`. `UiPreferences` and `FormValidation` state safety only.

Deadlock is checked in all runs but the vault's: their loops, and their users,
never end. The
vault has no loop of its own: when the bounds are used up it may stop, and its
configurations say `CHECK_DEADLOCK FALSE`.

## What is proved

All proofs are checked by TLAPS for every value of the constants.

- `TypeCorrect`, `VaultTypeCorrect`: the types, by induction over the actions.
  The part with content is that only decisions get into `approvals` and that
  only calls for a session come to start or end one.
- `GrantsAreAccounted`: an approved request has its
  approval on record or in a call's hands, or its call was cut off. Inductive
  together with the types and with every snapshot having rows: `RecordDecision`
  moves the approval from the call to the store, `FailCall` to `cutOff`, and
  no other action lets go of it.
- `Implements`: each step of the handlers and the worker
  is a step of `JitAccess` or a stutter. Approvals map to `Grant` when the row is
  *written*, and keep it when their call is cut off after that, the clock to `Lapse`; `GrantAccounted` is what lets
  `AdmitSession` map to `Admit`.
- `DeadRequestsStayDead` (`BuriedStaysBuried`): from the types alone, an action at a
  time. What it takes is that the worker only ever writes Expired, and that every
  other write comes from a call that read the request Pending or from Jira.
- `RevocationIsBounded` (`RevokedByNextCycle`): no session is active through two ends of a cycle under a
  dead request, or under one whose time is over and that nobody writes. This is
  the part of the liveness properties of the worker that a proof can reach: how
  many cycles it takes, though not that there are cycles. The inductive invariant
  (`LateInv`) says which lists of the cycle a session with one such end behind it
  is still on: its request is `listed` from the scan until it is Expired, Expired
  from then on, and the session is in `todo` from the moment the check lists the
  active ones (`ChaseGoesOn`, `DeadStaysListed`). A crash empties the lists, but a
  new cycle begins with them.
- `UncontendedVault`, and by name `ListsAgree` and `PasswordsWork`: `OneHolder`,
  `StatusMatchesCheckouts` and `PasswordInHandWorks` with either session store, for
  any number of calls that overlap. The inductive invariant (`VaultInv`) says for
  each place a call can be in what the lists
  look like around its credential if that is not contended: that a call at
  `marking` has added the only open checkout and the record is still as it was
  read. That two calls do not disturb each other is then that they have different
  credentials in hand.
- `TerminateReturnsCredential` (`TerminateReleasesInMemory`): with sessions in
  memory nothing is out for a session that Terminate is about to end, however many
  Terminates of it overlap. Its invariant (`HoldInv`) ties every open checkout of a
  session to the `injected` column of that session and to the calls at work for it.

- `PresenceTypeCorrect`: the types, and with them that the counter of failed
  heartbeats stays below its threshold.
- `OnlyLateRegistrationsTakeTokens`: an agent that holds its row's token loses it
  only to a registration it had given up. The inductive invariant (`Matched`) says
  that the calls the agent waits for are under way and of the kind its place in
  the loop tells, so that an agent that beats waits for no registration.

- `ListsAgree` and `PasswordsWork` are the two other parts of `SerialVault`, by
  name.

- `AuditTypeCorrect`: types, and that the cursor is never past the number of
  events added and no two events share a place.
- `ExportSkipsAtMostForgone`: `SkippedAtMostForgone`, with either store and any
  order of the rows. `Skipped` alone is not inductive: after a rotation
  the cursor may lie behind the end of the log, and the next events fall on
  positions it has passed. The inductive invariant (`GapInv`) therefore counts
  what is missing among the first `n` positions, empty ones too
  (`Gap`: `n` less the events listed there that have arrived), for the cursor and
  for the count of the export under way. Each step then has a lemma that says by
  how much it can widen a gap: a deletion by what it deletes (`WithoutKeeps`), a
  new row by one, and only if it overtakes (`PutPushesOne`), the end of a send by
  what did not arrive and what was overlooked (`GapOfCount`). That the first `n`
  of a list are no more than `n` is a lemma too (`ListedAtMost`): events have
  different places, so no two have as many ahead of them.

- `TunnelTypeCorrect`, `CountIsRight`: the counter is the number of handlers
  between `Increment` and `Decrement`, for any number of tunnels and any maximum.
  One lemma (`MovesKeepCount`) says what becomes of the number when one handler
  moves; each action is then a move of one of four kinds.
- `StoredAreUnused`: a ticket that was traded for a URL is not in the store, for
  any number of calls. Inductive with: a call past its delete has a ticket that is
  gone.

- `PolicyTypeCorrect`, `DecisionsFollowRecentPolicies`: for any number of calls
  that fill the entry at once. The inductive invariant ties the age of what an
  entry says to its remaining life (`age + ttl` is bounded) and says the store it
  holds was in force that long ago.
- `DenialOverrides`: `DenyOverrides` for any finite set of roles, any hierarchy,
  with circles or without, and any policies; and `EffectiveRolesAreInherited`,
  that the evaluator finds the roles a user has and those above them, no others.
  Both are about recursive functions (`AddInheritedRoles` walks up from a role,
  `FoldSet` goes through the roles of a user), and need an induction the library's
  theorem on finite sets cannot give, since it takes an operator. It is done with
  a smallest counterexample instead: the strict subsets of a finite set are well
  founded (`FS_StrictSubsetOrderingWellFounded`, `WFMin`), so that among the sets
  of roles yet to be met, or yet to be folded, for which a claim fails there would
  be a smallest one (`SmallestSetOfRoles`, used by `WalkIsClosure`,
  `FoldIsClosure`). That the recursion has a solution at all, in a hierarchy that
  goes in circles, is a lemma too (`WalkExists`).

- `SyncTypeCorrect`, `NoEditIsForgotten`: `NothingForgotten`, for any systems,
  with deltas or without and with a full cycle as often as one likes. It is not
  inductive: what a cycle wrote must be what it fetched, and what it fetched what
  the CMDB says unless the system was edited since. The inductive invariant
  (`SyncInv`) says so for each place of the cycle, and that the list of a cycle
  misses only systems edited behind it.
- `FullCyclesCopyAll`: from the same invariant, a full cycle that succeeds leaves
  no target that differs from the CMDB but those edited since it fetched them.

- `PagesTypeCorrect`, `LivePagesAreWhole`, `PagesShowWhatTheySave`, `ClicksWork`:
  for any number of tabs and groups of texts. The invariant says for each place
  of a script what its page shows already.
- `FormTypeCorrect`, `MarksAreRight`, `SentFormsAreRight`, `SummaryIsCurrent`: for
  any set of fields. They rest on the lemma that the rules of a field fail just
  when its attributes say it is wrong, and that `__dummy__` makes every check a
  failure or a success.

No theorem assumes that calls are served one at a time, or anything of the order
of rows, or a store, but `TerminateReturnsCredential`, where
`vault_database_release` shows what a database does. `RegainsToken` and
`ComesBackOnline`, which have a premise the default configuration does not meet,
are not theorems.

What the proofs assume of the constants is stated in each module, by name, and is
no more than the code grants. The least obvious is `PolicyAssumption`: effects are
allow or deny because `Dtos.cs:26` refuses a policy with another; there are
finitely many roles; and the hierarchy and the policies of roles, which are two
sections of the configuration, speak of roles and ids of the sets so named. Roles
and ids that exist nowhere are in them like any other, as the evaluator never asks
for more than the name.

Model-checked only: liveness, which is out of the prover's reach, as ENABLED is.
These are `DueRequestsExpire`, `DeadRequestsLoseSessions`, `DueSessionsClose`,
`RegainsToken`, `ComesBackOnline`, `GoneEndsOffline`, `SilentTunnelsEnd`,
`AbandonedTunnelsEnd`, `ExpiredTicketsGo`, `ExportedUnlessForgone`,
`CopyConverges` and `PoliciesTakeEffect`. Every invariant and every action
property that a passing run checks is also a theorem; no module declares a RECURSIVE
operator, which the prover could not use.

## Not modelled, and why

Recordings: the handlers save chunks and put them together, but nothing in the
repository except a test uploads any, and the protocol document describes another
call. One upload at a time keeps file and row together by construction; of two
that overlap no code or document says what should become. The dead letter queue:
no code adds an item, so that its processor never changes anything. Label
expressions: a parser over text, which would be a transliteration. SLA
escalation: it changes only the audit log.

The Jira client (an outside service's), Razor pages and the API client (no state
of their own), metrics and notifications (nothing reads them back), seeders,
migrations and deployment files, single-record CRUD of targets and roles, and
approval rows added by hand, which no code ties to a request. A restart of the
API loses the vault, which lives in its memory; after it the lists are empty and
the properties say nothing, so it is listed as a hazard and not modelled. Data
races inside the in-memory `List` and `Dictionary` are below the grain of these
models: a statement on a store is one step.

## Running

    tlc -workers 2 -config access_lifecycle.cfg RevocationBoundMC
    tlc -workers 2 -config vault.cfg CredentialVaultMC
    tlc -workers 2 -config vault_overlap.cfg CredentialVaultMC
    tlc -workers 2 -config vault_database_release.cfg CredentialVaultMC
    tlc -workers 2 -config agent_auth.cfg AgentPresence
    tlc -workers 2 -config agent_presence.cfg AgentPresence
    tlc -workers 2 -config agent_tunnels.cfg AgentTunnels
    tlc -workers 2 -config audit_export.cfg AuditTrail
    tlc -workers 2 -config policy_decisions.cfg PolicyDecisionsMC
    tlc -workers 2 -config cmdb_sync.cfg CmdbSync
    tlc -workers 2 -config ui_preferences.cfg UiPreferences
    tlc -workers 2 -config form_validation.cfg FormValidation
    for m in *Proofs.tla; do tlapm $m; done
