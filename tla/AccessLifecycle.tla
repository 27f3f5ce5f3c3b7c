--------------------------- MODULE AccessLifecycle ---------------------------
(***************************************************************************)
(* The life of access requests and of the sessions started under them, as  *)
(* AccessRequestsController, JiraWebhooksController, SessionsController,   *)
(* the agent's terminate call and AccessRequestWorker drive it together.   *)
(*                                                                         *)
(* The stores are rows of a database.  Each row is read and written by a   *)
(* statement of its own and there is no transaction around a handler and   *)
(* no concurrency token, so a handler is split where another process can   *)
(* come in between: at its read of a row, at its write, and at each await  *)
(* of Jira.  An update writes the whole row back, but the only column that *)
(* ever differs from the stored one is the status.  Left out are the rows  *)
(* that ApprovalsController adds as they come: nothing ties them to a      *)
(* request.                                                                *)
(***************************************************************************)
EXTENDS Naturals, FiniteSets

CONSTANTS
    Requests,                   \* ids of access requests (GUIDs: never reused)
    Users,
    Owner,                      \* Owner[r] is the user who files request r
    Sessions,                   \* ids of sessions
    Calls,                      \* approve, deny and webhook calls in flight at once
    NoRequest,
    MaxActiveRequestsPerUser,   \* JitOptions
    Durations,                  \* durations a request may ask for
    JiraEnabled,                \* whether Jira answers, so that webhooks can arrive
    MaxTime                     \* bound: the clock stops here

ASSUME OwnerAssumption == Owner \in [Requests -> Users]
ASSUME NoRequestAssumption == NoRequest \notin Requests
ASSUME LimitAssumption == MaxActiveRequestsPerUser \in Nat
ASSUME DurationsAssumption == Durations \subseteq Nat \ {0}
ASSUME ClockAssumption == MaxTime \in Nat
ASSUME SwitchAssumption == JiraEnabled \in BOOLEAN

VARIABLES
    now,            \* the wall clock
    status,         \* status of each request
    expiresAt,      \* its ExpiresAt
    linked,         \* requests with an ItsmKey
    approvals,      \* decisions recorded for each request in IApprovalStore
    call,           \* what each approve, deny or webhook call is about to do
    cutOff,         \* history: requests an approving call wrote and then failed to record
    sess,           \* status of each session
    sessReq,        \* its RequestId
    worker,         \* where AccessRequestWorker is in its cycle
    listed,         \* requests it has read and is working through
    todo            \* sessions it has read and is working through

requestVars == <<status, expiresAt, linked>>
decisionVars == <<approvals, call, cutOff>>
sessionVars == <<sess, sessReq>>
workerVars == <<worker, listed, todo>>
vars == <<now, requestVars, decisionVars, sessionVars, workerVars>>

-----------------------------------------------------------------------------
(* Rows *)

\* AccessRequestStatus.
AccessRequestStatus == {"Pending", "Approved", "Denied", "Expired"}
Decision == {"Approved", "Denied"}

\* A request has no row before Create adds it: "drafted" is a Create that has
\* passed its checks and is waiting for Jira.
RequestState == {"none", "drafted"} \cup AccessRequestStatus

\* Likewise "starting" is a session Create that has passed its checks.
SessionState == {"none", "starting", "Active", "Terminated"}

Idle == [pc |-> "idle", req |-> NoRequest, to |-> "Pending"]
CallState ==
    {Idle}
    \cup [pc : {"deciding"}, req : Requests, to : AccessRequestStatus]
    \cup [pc : {"recording"}, req : Requests, to : Decision]

WorkerState == {"asleep", "expiring", "listing", "revoking", "checking", "down"}

Stored(r) == status[r] \in AccessRequestStatus
Due(r) == Stored(r) /\ expiresAt[r] <= now

\* A session under such a request is what the consistency check looks for.
Dead(r) == status[r] \in {"Denied", "Expired"}

ActiveRequests(u) == {r \in Requests : Owner[r] = u /\ status[r] \in {"Pending", "Approved"}}

Init ==
    /\ now = 0
    /\ status = [r \in Requests |-> "none"]
    /\ expiresAt = [r \in Requests |-> 0]
    /\ linked = {}
    /\ approvals = [r \in Requests |-> {}]
    /\ call = [c \in Calls |-> Idle]
    /\ cutOff = {}
    /\ sess = [s \in Sessions |-> "none"]
    /\ sessReq = [s \in Sessions |-> NoRequest]
    /\ worker = "asleep" /\ listed = {} /\ todo = {}

Tick ==
    /\ now < MaxTime
    /\ now' = now + 1
    /\ UNCHANGED <<requestVars, decisionVars, sessionVars, workerVars>>

-----------------------------------------------------------------------------
(* AccessRequestsController.Create *)

\* Up to the await of Jira: the user's active requests are counted and
\* ExpiresAt is fixed.
CreateRequest(r, d) ==
    /\ status[r] = "none"
    /\ Cardinality(ActiveRequests(Owner[r])) < MaxActiveRequestsPerUser
    /\ status' = [status EXCEPT ![r] = "drafted"]
    /\ expiresAt' = [expiresAt EXCEPT ![r] = now + d]
    /\ UNCHANGED <<now, linked, decisionVars, sessionVars, workerVars>>

\* After it: the row is added, with the ticket's key if Jira gave one.
AddRequest(r) ==
    /\ status[r] = "drafted"
    /\ status' = [status EXCEPT ![r] = "Pending"]
    /\ \/ UNCHANGED linked
       \/ JiraEnabled /\ linked' = linked \cup {r}
    /\ UNCHANGED <<now, expiresAt, decisionVars, sessionVars, workerVars>>

-----------------------------------------------------------------------------
(* Decisions: Approve and Deny of the API, and status webhooks of Jira *)

Begin(c, r, to) ==
    /\ call[c] = Idle
    /\ call' = [call EXCEPT ![c] = [pc |-> "deciding", req |-> r, to |-> to]]
    /\ UNCHANGED <<now, requestVars, approvals, cutOff, sessionVars, workerVars>>

\* Mutant: the decision is taken on a row in any state.
DecideAnyState(c, r, to) ==
    /\ Stored(r)
    /\ to \in Decision
    /\ Begin(c, r, to)

\* Approve and Deny go on only from a row read as Pending.  Neither looks at
\* ExpiresAt.
Decide(c, r, to) ==
    /\ status[r] = "Pending"
    /\ to \in Decision
    /\ Begin(c, r, to)

\* A webhook goes on from any row with the issue's key whose status differs.
\* People move issues freely, and deliveries are late, repeated and reordered,
\* so any status may arrive at any time.
Webhook(c, r, to) ==
    /\ r \in linked
    /\ status[r] # to
    /\ Begin(c, r, to)

\* Mutant: every webhook leaves an approval row.
WriteAndRecordAll(c) ==
    /\ call[c].pc = "deciding"
    /\ status' = [status EXCEPT ![call[c].req] = call[c].to]
    /\ call' = [call EXCEPT ![c].pc = "recording"]
    /\ UNCHANGED <<now, expiresAt, linked, approvals, cutOff, sessionVars, workerVars>>

\* The row is written back with the new status, whatever it is by now.
WriteDecision(c) ==
    /\ call[c].pc = "deciding"
    /\ status' = [status EXCEPT ![call[c].req] = call[c].to]
    /\ call' = [call EXCEPT ![c] =
                    IF call[c].to \in Decision THEN [@ EXCEPT !.pc = "recording"] ELSE Idle]
    /\ UNCHANGED <<now, expiresAt, linked, approvals, cutOff, sessionVars, workerVars>>

\* The approval row, which Approve and Deny add only once Jira has answered.
RecordDecision(c) ==
    /\ call[c].pc = "recording"
    /\ approvals' = [approvals EXCEPT ![call[c].req] = @ \cup {call[c].to}]
    /\ call' = [call EXCEPT ![c] = Idle]
    /\ UNCHANGED <<now, requestVars, cutOff, sessionVars, workerVars>>

AboutToApprove(c) == call[c].pc = "recording" /\ call[c].to = "Approved"

\* A store that throws, or an API instance that dies, ends the call where it
\* stands: what was written stays written.
FailCall(c) ==
    /\ call[c] # Idle
    /\ call' = [call EXCEPT ![c] = Idle]
    /\ cutOff' = cutOff \cup {r \in Requests : AboutToApprove(c) /\ r = call[c].req}
    /\ UNCHANGED <<now, requestVars, approvals, sessionVars, workerVars>>

-----------------------------------------------------------------------------
(* SessionsController.Create and the two ways to end a session by hand *)

\* Mutant: only a denied request is refused.
AdmitUnlessDenied(s, r) ==
    /\ sess[s] = "none"
    /\ Stored(r)
    /\ status[r] # "Denied"
    /\ expiresAt[r] > now
    /\ sess' = [sess EXCEPT ![s] = "starting"]
    /\ sessReq' = [sessReq EXCEPT ![s] = r]
    /\ UNCHANGED <<now, requestVars, decisionVars, workerVars>>

\* Mutant: ExpiresAt is left to the worker.
AdmitWithoutTtl(s, r) ==
    /\ sess[s] = "none"
    /\ status[r] = "Approved"
    /\ sess' = [sess EXCEPT ![s] = "starting"]
    /\ sessReq' = [sessReq EXCEPT ![s] = r]
    /\ UNCHANGED <<now, requestVars, decisionVars, workerVars>>

AdmitSession(s, r) ==
    /\ sess[s] = "none"
    /\ status[r] = "Approved"
    /\ expiresAt[r] > now
    /\ sess' = [sess EXCEPT ![s] = "starting"]
    /\ sessReq' = [sessReq EXCEPT ![s] = r]
    /\ UNCHANGED <<now, requestVars, decisionVars, workerVars>>

StartSession(s) ==
    /\ sess[s] = "starting"
    /\ sess' = [sess EXCEPT ![s] = "Active"]
    /\ UNCHANGED <<now, requestVars, decisionVars, sessReq, workerVars>>

\* SessionsController.Terminate and AgentsController.TerminateSession.  Every
\* writer of a stored session writes Terminated, so that nothing between the
\* read and the write can change the outcome: one step.
TerminateSession(s) ==
    /\ sess[s] = "Active"
    /\ sess' = [sess EXCEPT ![s] = "Terminated"]
    /\ UNCHANGED <<now, requestVars, decisionVars, sessReq, workerVars>>

-----------------------------------------------------------------------------
(* AccessRequestWorker: one cycle after the other, a minute apart *)

workerOnly == <<now, expiresAt, linked, decisionVars, sessReq>>

\* Mutant: only requests nobody decided expire.
ScanPendingRequests ==
    /\ worker = "asleep"
    /\ worker' = "expiring"
    /\ listed' = {r \in Requests : Due(r) /\ status[r] = "Pending"}
    /\ UNCHANGED <<workerOnly, status, sess, todo>>

\* ProcessExpiredRequests takes its list and its clock once.
ScanRequests ==
    /\ worker = "asleep"
    /\ worker' = "expiring"
    /\ listed' = {r \in Requests : Due(r) /\ status[r] # "Expired"}
    /\ UNCHANGED <<workerOnly, status, sess, todo>>

\* Each row of the list is written back as Expired, with an await of Jira
\* between one row and the next.
ExpireRequest(r) ==
    /\ worker = "expiring"
    /\ r \in listed
    /\ status' = [status EXCEPT ![r] = "Expired"]
    /\ listed' = listed \ {r}
    /\ UNCHANGED <<workerOnly, sess, worker, todo>>

\* RevokeSessionsForExpiredRequests reads the requests, then the sessions.
ListExpired ==
    /\ worker = "expiring"
    /\ listed = {}
    /\ worker' = "listing"
    /\ listed' = {r \in Requests : status[r] = "Expired"}
    /\ UNCHANGED <<workerOnly, status, sess, todo>>

\* Mutant: sessions that are being created are revoked too.
ListAnySessions ==
    /\ worker = "listing"
    /\ worker' = "revoking"
    /\ todo' = {s \in Sessions : sess[s] # "Terminated" /\ sessReq[s] \in listed}
    /\ listed' = {}
    /\ UNCHANGED <<workerOnly, status, sess>>

ListSessions ==
    /\ worker = "listing"
    /\ worker' = "revoking"
    /\ todo' = {s \in Sessions : sess[s] = "Active" /\ sessReq[s] \in listed}
    /\ listed' = {}
    /\ UNCHANGED <<workerOnly, status, sess>>

RevokeSession(s) ==
    /\ worker = "revoking"
    /\ s \in todo
    /\ sess' = [sess EXCEPT ![s] = "Terminated"]
    /\ todo' = todo \ {s}
    /\ UNCHANGED <<workerOnly, status, worker, listed>>

\* RunConsistencyCheck lists the sessions again and reads the request of each.
ScanSessions ==
    /\ worker = "revoking"
    /\ todo = {}
    /\ worker' = "checking"
    /\ todo' = {s \in Sessions : sess[s] = "Active"}
    /\ UNCHANGED <<workerOnly, status, sess, listed>>

\* Mutant: the check leaves denied requests to someone else.
CheckSessionExpiredOnly(s) ==
    /\ worker = "checking"
    /\ s \in todo
    /\ sess' = [sess EXCEPT ![s] = IF status[sessReq[s]] = "Expired" THEN "Terminated" ELSE @]
    /\ todo' = todo \ {s}
    /\ UNCHANGED <<workerOnly, status, worker, listed>>

CheckSession(s) ==
    /\ worker = "checking"
    /\ s \in todo
    /\ sess' = [sess EXCEPT ![s] = IF Dead(sessReq[s]) THEN "Terminated" ELSE @]
    /\ todo' = todo \ {s}
    /\ UNCHANGED <<workerOnly, status, worker, listed>>

EndCycle ==
    /\ worker = "checking"
    /\ todo = {}
    /\ worker' = "asleep"
    /\ UNCHANGED <<workerOnly, status, sess, listed, todo>>

\* An exception that leaves ExecuteAsync stops the host, and the snapshots of
\* the cycle are gone; when the host is started again a cycle begins.
CrashWorker ==
    /\ worker # "down"
    /\ worker' = "down" /\ listed' = {} /\ todo' = {}
    /\ UNCHANGED <<workerOnly, status, sess>>

RestartWorker ==
    /\ worker = "down"
    /\ worker' = "asleep"
    /\ UNCHANGED <<workerOnly, status, sess, listed, todo>>

-----------------------------------------------------------------------------

RequestStep == \E r \in Requests : AddRequest(r) \/ \E d \in Durations : CreateRequest(r, d)

DecisionStep ==
    \E c \in Calls :
        \/ \E r \in Requests, to \in AccessRequestStatus : Decide(c, r, to) \/ Webhook(c, r, to)
        \/ WriteDecision(c)
        \/ RecordDecision(c)
        \/ FailCall(c)

SessionStep ==
    \E s \in Sessions :
        \/ \E r \in Requests : AdmitSession(s, r)
        \/ StartSession(s)
        \/ TerminateSession(s)

WorkerStep ==
    \/ ScanRequests
    \/ \E r \in Requests : ExpireRequest(r)
    \/ ListExpired
    \/ ListSessions
    \/ \E s \in Sessions : RevokeSession(s)
    \/ ScanSessions
    \/ \E s \in Sessions : CheckSession(s)
    \/ EndCycle
    \/ RestartWorker

Next == Tick \/ RequestStep \/ DecisionStep \/ SessionStep \/ WorkerStep \/ CrashWorker

\* Only the worker's loop is sure to go on, and its host does not crash for
\* ever: people and Jira owe nothing.
Fairness == WF_vars(WorkerStep) /\ <>[](worker # "down")

Spec == Init /\ [][Next]_vars /\ Fairness

-----------------------------------------------------------------------------
(* Invariants *)

\* Every variable keeps its type; approvals hold decisions only, although a
\* webhook may carry any status.
TypeOK ==
    /\ now \in 0..MaxTime
    /\ status \in [Requests -> RequestState]
    /\ expiresAt \in [Requests -> Nat]
    /\ linked \subseteq Requests
    /\ approvals \in [Requests -> SUBSET Decision]
    /\ call \in [Calls -> CallState]
    /\ cutOff \subseteq Requests
    /\ sess \in [Sessions -> SessionState]
    /\ sessReq \in [Sessions -> Requests \cup {NoRequest}]
    /\ worker \in WorkerState
    /\ listed \subseteq Requests
    /\ todo \subseteq Sessions

Accounted(r) ==
    \/ "Approved" \in approvals[r]
    \/ \E c \in Calls : call[c] = [pc |-> "recording", req |-> r, to |-> "Approved"]
    \/ r \in cutOff

\* Every request that is Approved, and every request some session was let in
\* under, has an approval on record or one a call is about to record: the
\* status and the approval are written on two sides of an await of Jira, and
\* a session may start, run and end in between.  The one way to lose the row is
\* a call that ends between its two writes.
GrantAccounted ==
    /\ \A r \in Requests : status[r] = "Approved" => Accounted(r)
    /\ \A s \in Sessions : sess[s] # "none" => Accounted(sessReq[s])

\* A request that is Denied or Expired, that no issue of Jira stands for, and
\* that no call holds in its hands from before.
Buried(r) ==
    /\ Dead(r)
    /\ r \notin linked
    /\ \A c \in Calls : call[c].pc = "deciding" => call[c].req # r

\* A dead request comes back only through its issue in Jira or through a call
\* that read it while it was Pending: once those are out of the way, no approval
\* that comes later, no stale list of the worker and no restart brings it to
\* life again.
BuriedStaysBuried == [][\A r \in Requests : Buried(r) => Buried(r)']_vars

-----------------------------------------------------------------------------
(* Refinement *)

\* What each session status is to JitAccess.
Phase == [none |-> "none", starting |-> "admitted", Active |-> "open", Terminated |-> "closed"]

Abs == INSTANCE JitAccess WITH
    granted <- {r \in Requests : Accounted(r)},
    lapsed <- {r \in Requests : Due(r)},
    access <- [s \in Sessions |-> Phase[sess[s]]],
    holder <- sessReq

\* The handlers and the worker, in any interleaving, keep the promise of
\* JitAccess: no admission without a grant or after the TTL, no session that
\* comes back, no grant that disappears.
ImplementsJitAccess == Abs!Spec

-----------------------------------------------------------------------------
(* Liveness *)

\* The worker marks every request whose time is over, whatever decisions and
\* webhooks overwrite in the meantime and wherever the worker was restarted.
DueRequestsExpire == \A r \in Requests : Due(r) ~> (status[r] = "Expired")

\* A session does not stay active under a request that is Denied or Expired, not
\* even one whose Create was under way when the request died: unless something
\* reopens the request, the session is closed.
DeadRequestsLoseSessions ==
    \A r \in Requests, s \in Sessions :
        (sess[s] = "Active" /\ sessReq[s] = r /\ Dead(r)) ~> (sess[s] # "Active" \/ ~ Dead(r))

\* Unless decisions and webhooks are written for ever, which can reopen a
\* request again and again, the time of a request alone ends its sessions.
DueSessionsClose ==
    <>[](\A c \in Calls : call[c].pc # "deciding") => Abs!LapsedAccessCloses
=============================================================================
