------------------------ MODULE AccessLifecycleProofs ------------------------
(***************************************************************************)
(* Theorems about AccessLifecycle and its observer RevocationBound, for    *)
(* every set of requests, users, sessions and calls, every limit and every *)
(* bound.                                                                  *)
(***************************************************************************)
EXTENDS RevocationBound, TLAPS

USE OwnerAssumption, NoRequestAssumption, DurationsAssumption, ClockAssumption

-----------------------------------------------------------------------------
(* Type correctness *)

LEMMA InitTypeOK == Init => TypeOK
BY DEF Init, TypeOK, RequestState, SessionState, CallState, WorkerState

LEMMA NextTypeOK == TypeOK /\ [Next]_vars => TypeOK'
<1> USE DEF requestVars, decisionVars, sessionVars, workerVars
<1> SUFFICES ASSUME TypeOK, [Next]_vars PROVE TypeOK'
  OBVIOUS
<1>1. CASE Tick
  BY <1>1 DEF TypeOK, Tick
<1>2. CASE RequestStep
  <2> PICK r \in Requests : AddRequest(r) \/ \E d \in Durations : CreateRequest(r, d)
    BY <1>2 DEF RequestStep
  <2>1. CASE AddRequest(r)
    BY <2>1 DEF TypeOK, AddRequest, RequestState, AccessRequestStatus
  <2>2. ASSUME NEW d \in Durations, CreateRequest(r, d) PROVE TypeOK'
    BY <2>2 DEF TypeOK, CreateRequest, RequestState
  <2> QED BY <2>1, <2>2
<1>3. CASE DecisionStep
  <2> PICK c \in Calls :
        \/ \E r \in Requests, to \in AccessRequestStatus : Decide(c, r, to) \/ Webhook(c, r, to)
        \/ WriteDecision(c) \/ RecordDecision(c) \/ FailCall(c)
    BY <1>3 DEF DecisionStep
  <2>1. ASSUME NEW r \in Requests, NEW to \in AccessRequestStatus, Begin(c, r, to)
        PROVE  TypeOK'
    BY <2>1 DEF TypeOK, Begin, CallState
  <2>2. CASE WriteDecision(c)
    <3>1. call[c] \in [pc : {"deciding"}, req : Requests, to : AccessRequestStatus]
      BY <2>2 DEF TypeOK, WriteDecision, CallState, Idle
    <3>2. call[c].to \in Decision =>
            [call[c] EXCEPT !.pc = "recording"] \in [pc : {"recording"}, req : Requests, to : Decision]
      BY <3>1
    <3> QED BY <2>2, <3>1, <3>2 DEF TypeOK, WriteDecision, RequestState, CallState
  <2>3. CASE RecordDecision(c)
    <3>1. call[c] \in [pc : {"recording"}, req : Requests, to : Decision]
      BY <2>3 DEF TypeOK, RecordDecision, CallState, Idle
    <3> QED BY <2>3, <3>1 DEF TypeOK, RecordDecision, CallState
  <2>4. CASE FailCall(c)
    BY <2>4 DEF TypeOK, FailCall, CallState
  <2> QED BY <2>1, <2>2, <2>3, <2>4 DEF Decide, Webhook
<1>4. CASE SessionStep
  <2> PICK s \in Sessions :
        \/ \E r \in Requests : AdmitSession(s, r)
        \/ StartSession(s) \/ TerminateSession(s)
    BY <1>4 DEF SessionStep
  <2>1. ASSUME NEW r \in Requests, AdmitSession(s, r) PROVE TypeOK'
    BY <2>1 DEF TypeOK, AdmitSession, SessionState
  <2>2. CASE StartSession(s) \/ TerminateSession(s)
    BY <2>2 DEF TypeOK, StartSession, TerminateSession, SessionState
  <2> QED BY <2>1, <2>2
<1>5. CASE WorkerStep
  <2> USE DEF workerOnly, TypeOK, WorkerState
  <2>1. CASE ScanRequests
    BY <1>5, <2>1 DEF ScanRequests
  <2>2. ASSUME NEW r \in Requests, ExpireRequest(r) PROVE TypeOK'
    BY <2>2 DEF ExpireRequest, RequestState, AccessRequestStatus
  <2>3. CASE ListExpired
    BY <2>3 DEF ListExpired
  <2>4. CASE ListSessions
    BY <2>4 DEF ListSessions
  <2>5. ASSUME NEW s \in Sessions, RevokeSession(s) PROVE TypeOK'
    BY <2>5 DEF RevokeSession, SessionState
  <2>6. CASE ScanSessions
    BY <2>6 DEF ScanSessions
  <2>7. ASSUME NEW s \in Sessions, CheckSession(s) PROVE TypeOK'
    BY <2>7 DEF CheckSession, SessionState
  <2>8. CASE EndCycle
    BY <2>8 DEF EndCycle
  <2>9. CASE RestartWorker
    BY <2>9 DEF RestartWorker
  <2> QED BY <1>5, <2>1, <2>2, <2>3, <2>4, <2>5, <2>6, <2>7, <2>8, <2>9 DEF WorkerStep
<1>6. CASE CrashWorker
  BY <1>6 DEF TypeOK, CrashWorker, workerOnly, decisionVars, WorkerState
<1>7. CASE UNCHANGED vars
  BY <1>7 DEF TypeOK, vars
<1> QED BY <1>1, <1>2, <1>3, <1>4, <1>5, <1>6, <1>7 DEF Next

\* Every reachable state has the types of TypeOK: no webhook status and no
\* stale snapshot ever puts a value into a row that the column does not allow.
THEOREM TypeCorrect == Spec => []TypeOK
BY InitTypeOK, NextTypeOK, PTL DEF Spec

-----------------------------------------------------------------------------
(* Every grant is accounted for *)

\* What every step but those of the calls leaves alone.
LEMMA OnlyCallsDecide ==
  Next => DecisionStep \/ UNCHANGED decisionVars
BY DEF Next, Tick, RequestStep, AddRequest, CreateRequest, SessionStep, AdmitSession,
       StartSession, TerminateSession, WorkerStep, ScanRequests, ExpireRequest, ListExpired,
       ListSessions, RevokeSession, ScanSessions, CheckSession, EndCycle, RestartWorker, CrashWorker,
       workerOnly, decisionVars

\* An approval on record stays there, and one about to be recorded stays in
\* its call until the step that records it or the failure that is remembered.
LEMMA AccountedStable ==
  ASSUME TypeOK, [Next]_vars, NEW r \in Requests, Accounted(r)
  PROVE  Accounted(r)'
<1>1. CASE UNCHANGED decisionVars
  BY <1>1 DEF Accounted, decisionVars
<1>2. CASE DecisionStep
  <2> PICK c \in Calls :
        \/ \E q \in Requests, to \in AccessRequestStatus : Decide(c, q, to) \/ Webhook(c, q, to)
        \/ WriteDecision(c) \/ RecordDecision(c) \/ FailCall(c)
    BY <1>2 DEF DecisionStep
  <2>1. ASSUME NEW q \in Requests, NEW to \in AccessRequestStatus, Begin(c, q, to)
        PROVE  Accounted(r)'
    BY <2>1 DEF Accounted, Begin, TypeOK, Idle
  <2>2. CASE WriteDecision(c)
    BY <2>2 DEF Accounted, WriteDecision, TypeOK
  <2>3. CASE RecordDecision(c)
    <3>1. CASE "Approved" \in approvals[r]
      BY <2>3, <3>1 DEF Accounted, RecordDecision, TypeOK
    <3>2. CASE call[c] = [pc |-> "recording", req |-> r, to |-> "Approved"]
      BY <2>3, <3>2 DEF Accounted, RecordDecision, TypeOK
    <3>3. CASE \E d \in Calls \ {c} : call[d] = [pc |-> "recording", req |-> r, to |-> "Approved"]
      BY <2>3, <3>3 DEF Accounted, RecordDecision, TypeOK
    <3>4. CASE r \in cutOff
      BY <2>3, <3>4 DEF RecordDecision, Accounted
    <3> QED BY <3>1, <3>2, <3>3, <3>4 DEF Accounted
  <2>4. CASE FailCall(c)
    <3>1. CASE call[c] = [pc |-> "recording", req |-> r, to |-> "Approved"]
      BY <2>4, <3>1 DEF FailCall, AboutToApprove, Accounted
    <3>2. CASE call[c] # [pc |-> "recording", req |-> r, to |-> "Approved"]
      BY <2>4, <3>2 DEF FailCall, Accounted, TypeOK
    <3> QED BY <3>1, <3>2
  <2> QED BY <2>1, <2>2, <2>3, <2>4 DEF Decide, Webhook
<1> QED BY <1>1, <1>2, OnlyCallsDecide DEF vars, decisionVars

\* The only step that makes a request Approved is a call that is from then on
\* about to record the approval.
LEMMA ApprovedAccounted ==
  ASSUME TypeOK, [Next]_vars, NEW r \in Requests, status[r] # "Approved", status'[r] = "Approved"
  PROVE  Accounted(r)'
<1>1. PICK c \in Calls : WriteDecision(c)
  BY DEF TypeOK, Next, Tick, RequestStep, AddRequest, CreateRequest, DecisionStep, Decide, Webhook,
         Begin, RecordDecision, FailCall, SessionStep, AdmitSession, StartSession,
         TerminateSession, WorkerStep, ScanRequests, ExpireRequest, ListExpired, ListSessions,
         RevokeSession, ScanSessions, CheckSession, EndCycle, RestartWorker, CrashWorker, workerOnly,
         requestVars, vars
<1>2. call[c].req = r /\ call[c].to = "Approved"
  BY <1>1 DEF WriteDecision, TypeOK
<1>3. call[c] \in [pc : {"deciding"}, req : Requests, to : AccessRequestStatus]
  BY <1>1 DEF WriteDecision, TypeOK, CallState, Idle
<1>4. call'[c] = [call[c] EXCEPT !.pc = "recording"]
  BY <1>1, <1>2 DEF WriteDecision, TypeOK, Decision
<1>5. [call[c] EXCEPT !.pc = "recording"] = [pc |-> "recording", req |-> r, to |-> "Approved"]
  BY <1>2, <1>3
<1> QED BY <1>4, <1>5 DEF Accounted

\* A request that is in its store stays there.
LEMMA StoredStable ==
  ASSUME TypeOK, [Next]_vars, NEW r \in Requests, Stored(r)
  PROVE  Stored(r)'
<1>1. CASE UNCHANGED status
  BY <1>1 DEF Stored
<1>2. ASSUME NEW q \in Requests, NEW new \in AccessRequestStatus,
             status' = [status EXCEPT ![q] = new]
      PROVE  Stored(r)'
  BY <1>2 DEF Stored, TypeOK
<1>3. CASE RequestStep
  BY <1>3 DEF RequestStep, AddRequest, CreateRequest, Stored, TypeOK, AccessRequestStatus
<1>4. CASE DecisionStep
  <2> PICK c \in Calls : WriteDecision(c) \/ UNCHANGED status
    BY <1>4 DEF DecisionStep, Decide, Webhook, Begin, RecordDecision, FailCall, requestVars
  <2>1. CASE WriteDecision(c)
    <3>1. call[c] \in [pc : {"deciding"}, req : Requests, to : AccessRequestStatus]
      BY <2>1 DEF WriteDecision, TypeOK, CallState, Idle
    <3> QED BY <2>1, <3>1, <1>2 DEF WriteDecision
  <2> QED BY <2>1, <1>1
<1>5. CASE \E q \in Requests : ExpireRequest(q)
  BY <1>5, <1>2 DEF ExpireRequest, AccessRequestStatus
<1>6. [Next]_vars => \/ RequestStep \/ DecisionStep \/ \E q \in Requests : ExpireRequest(q)
                    \/ UNCHANGED status
  BY DEF Next, Tick, SessionStep, AdmitSession, StartSession, TerminateSession, WorkerStep,
         ScanRequests, ListExpired, ListSessions, RevokeSession, ScanSessions, CheckSession,
         EndCycle, RestartWorker, CrashWorker, requestVars, vars
<1> QED BY <1>1, <1>3, <1>4, <1>5, <1>6

\* Part of the inductive invariants, and no more than that since nothing deletes
\* rows: what a call or the worker took from a
\* store has a row, and a session has a request.
SnapshotsHaveRows ==
    /\ \A c \in Calls : call[c] # Idle => Stored(call[c].req)
    /\ \A r \in linked \cup listed : Stored(r)
    /\ \A s \in todo : sess[s] \in {"Active", "Terminated"}
    /\ \A s \in Sessions : sess[s] # "none" => sessReq[s] \in Requests

\* A session step creates a session under an Approved request, or moves one on.
LEMMA SessionRequestStable ==
  ASSUME TypeOK, SnapshotsHaveRows, [Next]_vars, NEW s \in Sessions, sess'[s] # "none"
  PROVE  \/ sess[s] # "none" /\ sessReq'[s] = sessReq[s]
         \/ sessReq'[s] \in Requests /\ status[sessReq'[s]] = "Approved"
<1>1. CASE UNCHANGED sessionVars
  BY <1>1 DEF sessionVars
<1>2. CASE SessionStep
  <2> PICK t \in Sessions :
        \/ \E r \in Requests : AdmitSession(t, r)
        \/ StartSession(t) \/ TerminateSession(t)
    BY <1>2 DEF SessionStep
  <2>1. ASSUME NEW r \in Requests, AdmitSession(t, r)
        PROVE  \/ sess[s] # "none" /\ sessReq'[s] = sessReq[s]
               \/ sessReq'[s] \in Requests /\ status[sessReq'[s]] = "Approved"
    BY <2>1 DEF TypeOK, AdmitSession
  <2>2. CASE StartSession(t) \/ TerminateSession(t)
    BY <2>2 DEF TypeOK, StartSession, TerminateSession
  <2> QED BY <2>1, <2>2
<1>3. CASE WorkerStep
  BY <1>3 DEF TypeOK, SnapshotsHaveRows, WorkerStep, ScanRequests, ExpireRequest, ListExpired,
              ListSessions, RevokeSession, ScanSessions, CheckSession, EndCycle,
              RestartWorker, workerOnly, sessionVars
<1>4. Next => SessionStep \/ WorkerStep \/ UNCHANGED sessionVars
  BY DEF Next, Tick, RequestStep, AddRequest, CreateRequest, DecisionStep, Decide, Webhook, Begin,
         WriteDecision, RecordDecision, FailCall, CrashWorker, workerOnly,
         sessionVars
<1> QED BY <1>1, <1>2, <1>3, <1>4 DEF vars, sessionVars

-----------------------------------------------------------------------------
(* Snapshots *)

LEMMA InitSnapshots == Init => SnapshotsHaveRows
BY DEF Init, SnapshotsHaveRows

LEMMA NextSnapshots ==
  ASSUME TypeOK, SnapshotsHaveRows, [Next]_vars
  PROVE  SnapshotsHaveRows'
<1>1. ASSUME NEW c \in Calls, call'[c] # Idle PROVE Stored(call[c].req)'
  <2>1. CASE call'[c].req = call[c].req /\ call[c] # Idle
    <3>1. call[c].req \in Requests /\ Stored(call[c].req)
      BY <2>1 DEF TypeOK, CallState, SnapshotsHaveRows
    <3>2. ASSUME NEW r \in Requests, r = call[c].req PROVE Stored(r)'
      BY <3>1, <3>2, StoredStable
    <3> QED BY <2>1, <3>1, <3>2 DEF Stored
  <2>2. CASE UNCHANGED decisionVars
    BY <1>1, <2>1, <2>2 DEF decisionVars
  <2>3. CASE DecisionStep
    <3> PICK d \in Calls :
          \/ \E r \in Requests, to \in AccessRequestStatus : Decide(d, r, to) \/ Webhook(d, r, to)
          \/ WriteDecision(d) \/ RecordDecision(d) \/ FailCall(d)
      BY <2>3 DEF DecisionStep
    <3>1. ASSUME NEW r \in Requests, NEW to \in AccessRequestStatus,
                 Decide(d, r, to) \/ Webhook(d, r, to)
          PROVE  Stored(call[c].req)'
      <4>1. Stored(r)'
        BY <3>1 DEF Decide, Webhook, Begin, SnapshotsHaveRows, Stored, AccessRequestStatus, requestVars
      <4> QED BY <1>1, <2>1, <3>1, <4>1 DEF Decide, Webhook, Begin, Stored, TypeOK
    <3>2. CASE WriteDecision(d)
      <4>1. call[d] \in [pc : {"deciding"}, req : Requests, to : AccessRequestStatus]
        BY <3>2 DEF WriteDecision, TypeOK, CallState, Idle
      <4> QED BY <1>1, <2>1, <3>2, <4>1 DEF WriteDecision, TypeOK, Idle
    <3>3. CASE RecordDecision(d) \/ FailCall(d)
      BY <1>1, <2>1, <3>3 DEF RecordDecision, FailCall, TypeOK
    <3> QED BY <3>1, <3>2, <3>3
  <2> QED BY <2>2, <2>3, OnlyCallsDecide DEF vars, decisionVars
<1>2. ASSUME NEW r \in linked' \cup listed' PROVE Stored(r)'
  <2>0. r \in Requests
    BY NextTypeOK DEF TypeOK, WorkerState
  <2> DEFINE Known == r \in linked \cup listed \/ Stored(r) \/ Stored(r)'
  <2>1. ASSUME NEW q \in Requests, AddRequest(q) PROVE Known
    BY <1>2, <2>1 DEF TypeOK, AddRequest, Stored, AccessRequestStatus, workerVars
  <2>2. ASSUME ScanRequests \/ ListExpired PROVE Known
    BY <1>2, <2>2 DEF ScanRequests, ListExpired, TypeOK, WorkerState, Stored, Due, AccessRequestStatus, workerOnly
  <2>3. ASSUME ListSessions \/ ScanSessions \/ EndCycle \/ RestartWorker \/ CrashWorker PROVE Known
    BY <1>2, <2>3 DEF ListSessions, ScanSessions, EndCycle, RestartWorker, CrashWorker, TypeOK, WorkerState,
                workerOnly, requestVars
  <2>4. ASSUME NEW q \in Requests, ExpireRequest(q) PROVE Known
    BY <1>2, <2>4 DEF ExpireRequest, TypeOK, WorkerState, workerOnly
  <2>5. ASSUME NEW s \in Sessions, RevokeSession(s) \/ CheckSession(s) PROVE Known
    BY <1>2, <2>5 DEF RevokeSession, CheckSession, TypeOK, WorkerState, workerOnly
  <2>6. ASSUME UNCHANGED <<linked, listed>> PROVE Known
    BY <1>2, <2>6
  <2>7. [Next]_vars => \/ (\E q \in Requests : AddRequest(q)) \/ WorkerStep \/ CrashWorker
                      \/ UNCHANGED <<linked, listed>>
    BY DEF Next, Tick, RequestStep, CreateRequest, DecisionStep, Decide, Webhook, Begin,
           WriteDecision, RecordDecision, FailCall, SessionStep, AdmitSession, StartSession,
           TerminateSession, requestVars, workerVars, vars
  <2>8. Known
    BY <1>2, <2>1, <2>2, <2>3, <2>4, <2>5, <2>6, <2>7 DEF WorkerStep
  <2> QED BY <2>0, <2>8, StoredStable DEF SnapshotsHaveRows
<1>3. ASSUME NEW s \in todo' PROVE sess'[s] \in {"Active", "Terminated"}
  <2>1. CASE WorkerStep \/ CrashWorker
    <3>1. CASE ScanRequests \/ ListExpired \/ EndCycle \/ RestartWorker \/ CrashWorker
      BY <1>3, <3>1 DEF ScanRequests, ListExpired, EndCycle, RestartWorker, CrashWorker, TypeOK,
                        WorkerState, SnapshotsHaveRows, sessionVars, workerOnly
    <3>2. ASSUME NEW q \in Requests, ExpireRequest(q) PROVE sess'[s] \in {"Active", "Terminated"}
      BY <1>3, <3>2 DEF ExpireRequest, TypeOK, WorkerState, SnapshotsHaveRows
    <3>3. CASE ListSessions \/ ScanSessions
      BY <1>3, <3>3 DEF ListSessions, ScanSessions, TypeOK, WorkerState
    <3>4. ASSUME NEW t \in Sessions, RevokeSession(t) \/ CheckSession(t)
          PROVE  sess'[s] \in {"Active", "Terminated"}
      <4>1. s \in todo /\ s \in Sessions
        BY <1>3, <3>4 DEF RevokeSession, CheckSession, TypeOK, WorkerState
      <4> QED BY <3>4, <4>1 DEF RevokeSession, CheckSession, TypeOK, SnapshotsHaveRows
    <3> QED BY <2>1, <3>1, <3>2, <3>3, <3>4 DEF WorkerStep
  <2>2. CASE SessionStep
    BY <1>3, <2>2 DEF TypeOK, SnapshotsHaveRows, WorkerState, SessionStep, AdmitSession,
           StartSession, TerminateSession, workerVars
  <2>3. CASE UNCHANGED <<sessionVars, workerVars>>
    BY <1>3, <2>3 DEF SnapshotsHaveRows, sessionVars, workerVars
  <2>4. [Next]_vars => SessionStep \/ WorkerStep \/ CrashWorker \/ UNCHANGED <<sessionVars, workerVars>>
    BY DEF Next, Tick, RequestStep, AddRequest, CreateRequest, DecisionStep, Decide, Webhook, Begin,
           WriteDecision, RecordDecision, FailCall, vars
  <2> QED BY <2>1, <2>2, <2>3, <2>4
<1>4. ASSUME NEW s \in Sessions, sess'[s] # "none" PROVE sessReq'[s] \in Requests
  BY <1>4, SessionRequestStable DEF SnapshotsHaveRows
<1> QED BY <1>1, <1>2, <1>3, <1>4 DEF SnapshotsHaveRows

-----------------------------------------------------------------------------
(* Grants *)

AccountedInv == TypeOK /\ SnapshotsHaveRows /\ GrantAccounted

LEMMA InitAccounted == Init => AccountedInv
BY InitTypeOK, InitSnapshots DEF Init, AccountedInv, GrantAccounted

LEMMA NextAccounted ==
  ASSUME AccountedInv, [Next]_vars
  PROVE  AccountedInv'
<1> USE DEF AccountedInv
<1>1. TypeOK'
  BY NextTypeOK
<1>2. SnapshotsHaveRows'
  BY NextSnapshots
<1>3. ASSUME NEW r \in Requests, status'[r] = "Approved" PROVE Accounted(r)'
  <2>1. CASE status[r] = "Approved"
    BY <2>1, AccountedStable DEF GrantAccounted
  <2>2. CASE status[r] # "Approved"
    BY <1>3, <2>2, ApprovedAccounted
  <2> QED BY <2>1, <2>2
<1>4. ASSUME NEW s \in Sessions, sess'[s] # "none" PROVE Accounted(sessReq[s])'
  <2>1. CASE sess[s] # "none" /\ sessReq'[s] = sessReq[s]
    <3>1. sessReq[s] \in Requests /\ Accounted(sessReq[s])
      BY <2>1 DEF SnapshotsHaveRows, GrantAccounted
    <3> DEFINE q == sessReq[s]
    <3>2. ASSUME NEW r \in Requests, r = q PROVE Accounted(r)'
      BY <3>1, <3>2, AccountedStable
    <3> QED BY <2>1, <3>1, <3>2 DEF Accounted
  <2>2. CASE sessReq'[s] \in Requests /\ status[sessReq'[s]] = "Approved"
    <3>1. ASSUME NEW r \in Requests, r = sessReq'[s] PROVE Accounted(r)'
      BY <2>2, <3>1, AccountedStable DEF GrantAccounted
    <3> QED BY <2>2, <3>1 DEF Accounted
  <2> QED BY <1>4, <2>1, <2>2, SessionRequestStable
<1> QED BY <1>1, <1>2, <1>3, <1>4 DEF GrantAccounted

\* Every Approved request and every session, past or present, has its approval
\* on record or on its way there, unless the call that approved it stopped
\* between its two writes.
THEOREM GrantsAreAccounted == Spec => []GrantAccounted
<1>1. AccountedInv /\ [Next]_vars => AccountedInv'
  BY NextAccounted
<1>2. AccountedInv => GrantAccounted
  BY DEF AccountedInv
<1> QED BY InitAccounted, <1>1, <1>2, PTL DEF Spec

-----------------------------------------------------------------------------
(* AccessLifecycle implements JitAccess *)

Granted == {r \in Requests : Accounted(r)}
Lapsed == {r \in Requests : Due(r)}
Access == [s \in Sessions |-> Phase[sess[s]]]

LEMMA PhaseValues ==
  /\ Phase["none"] = "none" /\ Phase["starting"] = "admitted"
  /\ Phase["Active"] = "open" /\ Phase["Terminated"] = "closed"
BY DEF Phase

\* A request that is due stays due: its ExpiresAt is never written again.
LEMMA LapsedGrows ==
  ASSUME TypeOK, [Next]_vars
  PROVE  Lapsed \subseteq Lapsed'
<1> SUFFICES ASSUME NEW r \in Requests, Due(r) PROVE Due(r)'
  BY DEF Lapsed
<1>1. Stored(r) /\ Stored(r)'
  BY StoredStable DEF Due
<1>2. expiresAt'[r] = expiresAt[r]
  BY <1>1 DEF Stored, AccessRequestStatus, TypeOK, Next, Tick, RequestStep, AddRequest, CreateRequest,
        DecisionStep, Decide, Webhook, Begin, WriteDecision, RecordDecision, FailCall, SessionStep,
        AdmitSession, StartSession, TerminateSession, WorkerStep, ScanRequests, ExpireRequest,
        ListExpired, ListSessions, RevokeSession, ScanSessions, CheckSession, EndCycle,
        RestartWorker, CrashWorker, workerOnly, requestVars, vars
<1>3. now \in Nat /\ now' \in Nat /\ now <= now'
  BY NextTypeOK DEF TypeOK, Next, Tick, RequestStep, AddRequest, CreateRequest,
        DecisionStep, Decide, Webhook, Begin, WriteDecision, RecordDecision, FailCall, SessionStep,
        AdmitSession, StartSession, TerminateSession, WorkerStep, ScanRequests, ExpireRequest,
        ListExpired, ListSessions, RevokeSession, ScanSessions, CheckSession, EndCycle,
        RestartWorker, CrashWorker, workerOnly, vars
<1>4. expiresAt[r] \in Nat
  BY DEF TypeOK
<1> QED BY <1>1, <1>2, <1>3, <1>4 DEF Due

LEMMA GrantedGrows ==
  ASSUME TypeOK, [Next]_vars
  PROVE  Granted \subseteq Granted'
BY AccountedStable DEF Granted

LEMMA InitRefines == Init => Abs!Init
<1> SUFFICES ASSUME Init PROVE Abs!Init
  OBVIOUS
<1>1. Granted = {} /\ Lapsed = {}
  BY DEF Init, Granted, Accounted, Lapsed, Due, Stored, AccessRequestStatus, Idle
<1>2. Access = [s \in Sessions |-> "none"]
  BY PhaseValues DEF Init, Access
<1> QED BY <1>1, <1>2 DEF Abs!Init, Init, Granted, Lapsed, Access

LEMMA NextRefines ==
  ASSUME AccountedInv, [Next]_vars
  PROVE  [Abs!Next]_(Abs!vars)
<1> USE DEF AccountedInv
<1>1. Granted \subseteq Granted' /\ Lapsed \subseteq Lapsed'
  BY GrantedGrows, LapsedGrows
\* A step that grants nothing and moves no session can only let time pass.
<1>2. ASSUME Granted' = Granted, UNCHANGED sessionVars PROVE Abs!Next
  <2>1. Lapsed' \in SUBSET Requests
    BY DEF Lapsed
  <2>2. Access' = Access /\ sessReq' = sessReq
    BY <1>2 DEF Access, sessionVars
  <2>3. Abs!Lapse
    BY <1>1, <1>2, <2>1, <2>2 DEF Abs!Lapse, Granted, Lapsed, Access
  <2> QED BY <2>3 DEF Abs!Next
<1>3. ASSUME UNCHANGED decisionVars PROVE Granted' = Granted
  BY <1>3 DEF Granted, Accounted, decisionVars
<1>4. ASSUME UNCHANGED <<now, status, expiresAt>> PROVE Lapsed' = Lapsed
  BY <1>4 DEF Lapsed, Due, Stored
<1>5. CASE DecisionStep
  <2>1. UNCHANGED sessionVars
    BY <1>5 DEF DecisionStep, Decide, Webhook, Begin, WriteDecision, RecordDecision, FailCall
  <2> PICK c \in Calls :
        \/ \E r \in Requests, to \in AccessRequestStatus : Decide(c, r, to) \/ Webhook(c, r, to)
        \/ WriteDecision(c) \/ RecordDecision(c) \/ FailCall(c)
    BY <1>5 DEF DecisionStep
  <2>2. ASSUME NEW r \in Requests, NEW to \in AccessRequestStatus, Begin(c, r, to)
        PROVE  Granted' = Granted
    BY <1>1, <2>2 DEF Granted, Accounted, Begin, TypeOK, Idle
  <2>3. CASE WriteDecision(c)
    <3> DEFINE q == call[c].req
    <3>1. call[c] \in [pc : {"deciding"}, req : Requests, to : AccessRequestStatus]
      BY <2>3 DEF WriteDecision, TypeOK, CallState, Idle
    <3>2. Stored(q) /\ q \in Requests
      BY <3>1 DEF SnapshotsHaveRows, Idle
    <3>3. Lapsed' = Lapsed
      BY <2>3, <3>1, <3>2 DEF WriteDecision, Lapsed, Due, Stored, TypeOK
    <3>4. Granted' \subseteq Granted \cup {q}
      <4>1. ASSUME NEW r \in Requests, Accounted(r)', ~ Accounted(r) PROVE r = q
        BY <2>3, <3>1, <4>1 DEF WriteDecision, Accounted, TypeOK, Idle
      <4> QED BY <4>1 DEF Granted
    <3>5. Granted' = Granted \/ Granted' = Granted \cup {q}
      BY <1>1, <3>4
    <3>6. Access' = Access /\ sessReq' = sessReq
      BY <2>1 DEF Access, sessionVars
    <3>7. ASSUME Granted' = Granted \cup {q} PROVE Abs!Next
      <4>1. Abs!Grant(q)
        BY <3>3, <3>6, <3>7 DEF Abs!Grant, Granted, Lapsed, Access
      <4> QED BY <3>2, <4>1 DEF Abs!Next
    <3> QED BY <1>2, <2>1, <3>5, <3>7
  <2>4. CASE RecordDecision(c)
    <3>1. call[c] \in [pc : {"recording"}, req : Requests, to : Decision]
      BY <2>4 DEF TypeOK, RecordDecision, CallState, Idle
    <3>2. call[c] = [pc |-> "recording", req |-> call[c].req, to |-> call[c].to]
      BY <3>1
    <3>3. ASSUME NEW r \in Requests, Accounted(r)' PROVE Accounted(r)
      BY <2>4, <3>1, <3>2, <3>3 DEF RecordDecision, Accounted, TypeOK, Idle
    <3> QED BY <1>1, <1>2, <2>1, <3>3 DEF Granted
  <2>5. CASE FailCall(c)
    <3>1. ASSUME NEW r \in Requests, Accounted(r)' PROVE Accounted(r)
      <4>1. ASSUME AboutToApprove(c), r = call[c].req
            PROVE  call[c] = [pc |-> "recording", req |-> r, to |-> "Approved"]
        BY <4>1 DEF AboutToApprove, TypeOK, CallState, Idle
      <4> QED BY <2>5, <3>1, <4>1 DEF FailCall, Accounted, TypeOK, Idle
    <3> QED BY <1>1, <1>2, <2>1, <2>5, <3>1 DEF Granted
  <2> QED BY <1>2, <2>1, <2>2, <2>3, <2>4, <2>5 DEF Decide, Webhook
<1>6. CASE SessionStep
  <2> PICK s \in Sessions :
        \/ \E r \in Requests : AdmitSession(s, r)
        \/ StartSession(s) \/ TerminateSession(s)
    BY <1>6 DEF SessionStep
  <2>1. Granted' = Granted /\ Lapsed' = Lapsed
    BY <1>3, <1>4, <1>6 DEF SessionStep, AdmitSession, StartSession, TerminateSession, requestVars
  <2>2. ASSUME NEW r \in Requests, AdmitSession(s, r) PROVE Abs!Admit(s, r)
    <3>1. r \in Granted \ Lapsed
      BY <2>2 DEF AdmitSession, Granted, Lapsed, Due, GrantAccounted, TypeOK
    <3>2. Access[s] = "none" /\ Access' = [Access EXCEPT ![s] = "admitted"]
      BY <2>2, PhaseValues DEF AdmitSession, Access, TypeOK
    <3> QED BY <2>1, <2>2, <3>1, <3>2 DEF Abs!Admit, AdmitSession, Granted, Lapsed, Access
  <2>3. CASE StartSession(s)
    <3>1. Access[s] = "admitted" /\ Access' = [Access EXCEPT ![s] = "open"]
      BY <2>3, PhaseValues DEF StartSession, Access, TypeOK
    <3> QED BY <2>1, <2>3, <3>1 DEF Abs!Next, Abs!Open, StartSession, Granted, Lapsed, Access
  <2>4. CASE TerminateSession(s)
    <3>1. Access[s] = "open" /\ Access' = [Access EXCEPT ![s] = "closed"]
      BY <2>4, PhaseValues DEF TerminateSession, Access, TypeOK
    <3> QED BY <2>1, <2>4, <3>1 DEF Abs!Next, Abs!Close, TerminateSession, Granted, Lapsed, Access
  <2> QED BY <2>2, <2>3, <2>4 DEF Abs!Next
<1>7. ASSUME NEW s \in Sessions, RevokeSession(s) \/ CheckSession(s) PROVE [Abs!Next]_(Abs!vars)
  <2>1. Granted' = Granted /\ Lapsed' = Lapsed /\ sessReq' = sessReq
    BY <1>3, <1>4, <1>7 DEF RevokeSession, CheckSession, workerOnly
  <2>2. sess[s] \in {"Active", "Terminated"}
    BY <1>7 DEF RevokeSession, CheckSession, SnapshotsHaveRows
  <2>3. CASE sess'[s] = sess[s]
    <3>1. UNCHANGED sessionVars
      BY <1>7, <2>1, <2>3 DEF RevokeSession, CheckSession, sessionVars, TypeOK
    <3> QED BY <1>2, <2>1, <3>1
  <2>4. CASE sess'[s] # sess[s]
    <3>1. sess[s] = "Active" /\ sess' = [sess EXCEPT ![s] = "Terminated"]
      BY <1>7, <2>2, <2>4 DEF RevokeSession, CheckSession, TypeOK
    <3>2. Access[s] = "open" /\ Access' = [Access EXCEPT ![s] = "closed"]
      BY <3>1, PhaseValues DEF Access, TypeOK
    <3> QED BY <2>1, <3>2 DEF Abs!Next, Abs!Close, Granted, Lapsed, Access
  <2> QED BY <2>3, <2>4
<1>8. CASE UNCHANGED <<decisionVars, sessionVars>>
  BY <1>2, <1>3, <1>8
<1>9. ASSUME Tick \/ RequestStep \/ CrashWorker \/ UNCHANGED vars
      PROVE  UNCHANGED <<decisionVars, sessionVars>>
  BY <1>9 DEF Tick, RequestStep, AddRequest, CreateRequest, CrashWorker, workerOnly, vars,
        decisionVars, sessionVars
<1>10. ASSUME WorkerStep, \A s \in Sessions : ~ RevokeSession(s) /\ ~ CheckSession(s)
       PROVE  UNCHANGED <<decisionVars, sessionVars>>
  BY <1>10 DEF WorkerStep, ScanRequests, ExpireRequest, ListExpired, ListSessions, ScanSessions,
        EndCycle, RestartWorker, workerOnly, decisionVars, sessionVars
<1> QED BY <1>5, <1>6, <1>7, <1>8, <1>9, <1>10 DEF Next

\* The handlers and the worker implement JitAccess whatever their interleaving
\* and wherever a call stops: sessions are admitted only under requests that
\* are granted and have not lapsed, and never come back once closed.
THEOREM Implements == Spec => ImplementsJitAccess
<1>1. AccountedInv /\ [Next]_vars => AccountedInv'
  BY NextAccounted
<1>2. AccountedInv /\ [Next]_vars => [Abs!Next]_(Abs!vars)
  BY NextRefines
<1> QED BY InitAccounted, InitRefines, <1>1, <1>2, PTL DEF Spec, ImplementsJitAccess, Abs!Spec
-----------------------------------------------------------------------------
(* What is dead stays dead *)

LEMMA NextBuried ==
  ASSUME TypeOK, [Next]_vars, NEW r \in Requests, Buried(r)
  PROVE  Buried(r)'
<1> DEFINE Undecided == \A c \in Calls : call[c].pc = "deciding" => call[c].req # r
<1>d. status[r] \in {"Denied", "Expired"} /\ r \notin linked /\ Undecided
  BY DEF Buried, Dead
<1> HIDE DEF Undecided
<1>u. Undecided' /\ Dead(r)' /\ r \notin linked' => Buried(r)'
  BY DEF Buried, Undecided
<1>1. ASSUME NEW q \in Requests, AddRequest(q) \/ \E d \in Durations : CreateRequest(q, d)
      PROVE  Buried(r)'
  <2>1. q # r
    BY <1>1, <1>d DEF AddRequest, CreateRequest
  <2> QED BY <1>1, <1>d, <1>u, <2>1 DEF AddRequest, CreateRequest, TypeOK, Undecided, decisionVars, Dead
<1>2. ASSUME NEW c \in Calls, NEW q \in Requests, NEW to \in AccessRequestStatus,
             Decide(c, q, to) \/ Webhook(c, q, to)
      PROVE  Buried(r)'
  <2>1. q # r
    BY <1>2, <1>d DEF Decide, Webhook
  <2> QED BY <1>2, <1>d, <1>u, <2>1 DEF Decide, Webhook, Begin, TypeOK, Undecided, requestVars, Dead
<1>3. ASSUME NEW c \in Calls, WriteDecision(c) PROVE Buried(r)'
  <2>1. call[c].req # r
    BY <1>3, <1>d DEF WriteDecision, Undecided
  <2>2. status'[r] = status[r]
    BY <1>3, <2>1 DEF WriteDecision, TypeOK
  <2>3. Undecided'
    BY <1>3, <1>d DEF WriteDecision, TypeOK, Undecided, Idle
  <2> QED BY <1>3, <1>d, <1>u, <2>2, <2>3 DEF WriteDecision, Dead
<1>4. ASSUME NEW c \in Calls, RecordDecision(c) \/ FailCall(c) PROVE Buried(r)'
  BY <1>4, <1>d, <1>u DEF RecordDecision, FailCall, TypeOK, Undecided, Idle, requestVars, Dead
<1>5. ASSUME NEW q \in Requests, ExpireRequest(q) PROVE Buried(r)'
  BY <1>5, <1>d, <1>u DEF ExpireRequest, TypeOK, Undecided, workerOnly, decisionVars, Dead
<1>6. CASE UNCHANGED <<requestVars, decisionVars>>
  BY <1>6 DEF requestVars, decisionVars, Buried, Dead
<1> QED BY <1>1, <1>2, <1>3, <1>4, <1>5, <1>6 DEF Next, Tick, RequestStep, DecisionStep, SessionStep,
      AdmitSession, StartSession, TerminateSession, WorkerStep, ScanRequests, ListExpired, ListSessions,
      RevokeSession, ScanSessions, CheckSession, EndCycle, RestartWorker, CrashWorker, workerOnly,
      requestVars, vars

\* A request that is Denied or Expired, that has no issue in Jira and that no call
\* read before, never comes back to life, whatever is decided later and however
\* stale the worker's lists are.
THEOREM DeadRequestsStayDead == Spec => BuriedStaysBuried
<1>1. TypeOK /\ [Next]_vars => [\A r \in Requests : Buried(r) => Buried(r)']_vars
  BY NextBuried
<1> QED BY <1>1, TypeCorrect, PTL DEF Spec, BuriedStaysBuried

-----------------------------------------------------------------------------
(* How late a revocation can be *)

\* A session that is overdue after the end of a cycle is on the list of the next
\* consistency check from the moment that list is made.
OnCheckList(s) == worker = "checking" => s \in todo

\* The request of a session that was not closed in time is on the list of the next
\* cycle until it is Expired, and the session on the list of its check.
Chased(s) ==
    /\ worker = "expiring" => sessReq[s] \in listed \/ status[sessReq[s]] = "Expired"
    /\ worker \in {"listing", "revoking", "checking"} => status[sessReq[s]] = "Expired"
    /\ OnCheckList(s)

LateInv ==
    /\ TypeOK /\ SnapshotsHaveRows
    /\ late \in [Sessions -> 0..1] /\ overtime \in [Sessions -> 0..1]
    /\ \A s \in Sessions : late[s] = 1 => Overdue(s) /\ OnCheckList(s)
    /\ \A s \in Sessions : overtime[s] = 1 => Outlived(s) /\ Chased(s)

\* Only the worker writes what it knows.
LEMMA OthersLeaveWorker ==
  ASSUME [Next]_vars, ~ WorkerStep, ~ CrashWorker
  PROVE  UNCHANGED workerVars
BY DEF Next, Tick, RequestStep, AddRequest, CreateRequest, DecisionStep, Decide, Webhook, Begin,
      WriteDecision, RecordDecision, FailCall, SessionStep, AdmitSession, StartSession, TerminateSession,
      vars, workerVars

\* A session that is active before and after a step, and that the check would
\* close, never leaves the list of the check.
LEMMA DeadStaysListed ==
  ASSUME TypeOK, [Next]_vars, NEW s \in Sessions, sess[s] = "Active", sess'[s] = "Active",
         worker = "checking" => Dead(sessReq[s]), OnCheckList(s)
  PROVE  OnCheckList(s)'
<1> SUFFICES ASSUME worker' = "checking" PROVE s \in todo'
  BY DEF OnCheckList
<1>1. CASE ScanSessions
  BY <1>1 DEF ScanSessions
<1>2. ASSUME NEW t \in Sessions, CheckSession(t) PROVE s \in todo'
  <2>1. s # t
    BY <1>2 DEF CheckSession, TypeOK
  <2> QED BY <1>2, <2>1 DEF CheckSession, OnCheckList
<1>3. ASSUME NEW t \in Sessions, RevokeSession(t) PROVE FALSE
  BY <1>3 DEF RevokeSession
<1>4. ASSUME NEW r \in Requests, ExpireRequest(r) PROVE FALSE
  BY <1>4 DEF ExpireRequest
<1>5. CASE ScanRequests \/ ListExpired \/ ListSessions \/ EndCycle \/ RestartWorker \/ CrashWorker
  BY <1>5 DEF ScanRequests, ListExpired, ListSessions, EndCycle, RestartWorker, CrashWorker
<1>6. CASE UNCHANGED workerVars
  BY <1>6 DEF workerVars, OnCheckList
<1> QED BY <1>1, <1>2, <1>3, <1>4, <1>5, <1>6, OthersLeaveWorker DEF WorkerStep

\* An Expired request stays Expired until a decision or a webhook writes it, and a
\* session that is there keeps its request.
LEMMA ExpiredStays ==
  ASSUME TypeOK, [Next]_vars, NEW r \in Requests, status[r] = "Expired", ~ Rewritten(r)
  PROVE  status'[r] = "Expired"
<1>1. ASSUME NEW q \in Requests, AddRequest(q) \/ \E d \in Durations : CreateRequest(q, d)
      PROVE  status'[r] = "Expired"
  BY <1>1 DEF AddRequest, CreateRequest, TypeOK
<1>2. ASSUME NEW c \in Calls, WriteDecision(c) PROVE status'[r] = "Expired"
  BY <1>2 DEF WriteDecision, Rewritten, TypeOK
<1>3. ASSUME NEW q \in Requests, ExpireRequest(q) PROVE status'[r] = "Expired"
  BY <1>3 DEF ExpireRequest, TypeOK
<1>4. CASE UNCHANGED status
  BY <1>4
<1> QED BY <1>1, <1>2, <1>3, <1>4 DEF Next, Tick, RequestStep, DecisionStep, Decide, Webhook, Begin,
      RecordDecision, FailCall, SessionStep, AdmitSession, StartSession, TerminateSession, WorkerStep, ScanRequests,
      ListExpired, ListSessions, RevokeSession, ScanSessions, CheckSession, EndCycle, RestartWorker, CrashWorker,
      workerOnly, requestVars, vars

LEMMA SessionKeepsRequest ==
  ASSUME TypeOK, [Next]_vars, NEW s \in Sessions, sess[s] # "none"
  PROVE  sessReq'[s] = sessReq[s]
<1>1. ASSUME NEW t \in Sessions, NEW r \in Requests, AdmitSession(t, r) PROVE sessReq'[s] = sessReq[s]
  BY <1>1 DEF AdmitSession, TypeOK
<1>2. CASE UNCHANGED sessReq
  BY <1>2
<1> QED BY <1>1, <1>2 DEF Next, Tick, RequestStep, AddRequest, CreateRequest, DecisionStep, Decide, Webhook, Begin,
      WriteDecision, RecordDecision, FailCall, SessionStep, StartSession, TerminateSession, WorkerStep, ScanRequests,
      ExpireRequest, ListExpired, ListSessions, RevokeSession, ScanSessions, CheckSession, EndCycle, RestartWorker,
      CrashWorker, workerOnly, sessionVars, vars

\* What the worker holds against a session whose time is over it loses only by
\* closing the session or when the request is written.
LEMMA ChaseGoesOn ==
  ASSUME TypeOK, SnapshotsHaveRows, [Next]_vars, NEW s \in Sessions, Outlived(s), Outlived(s)',
         ~ Rewritten(sessReq[s]), Chased(s)
  PROVE  Chased(s)'
<1> DEFINE r == sessReq[s]
<1>r. r \in Requests /\ sessReq'[s] = r /\ sess[s] = "Active" /\ sess'[s] = "Active"
  BY SessionKeepsRequest DEF Outlived, SnapshotsHaveRows
<1>d. Due(r)
  BY DEF Outlived
<1> HIDE DEF r
<1>e. status[r] = "Expired" => status'[r] = "Expired"
  BY <1>r, ExpiredStays DEF r
<1>c. OnCheckList(s)'
  <2>1. worker = "checking" => Dead(sessReq[s])
    BY DEF Chased, Dead
  <2> QED BY <1>r, <2>1, DeadStaysListed DEF Chased
<1>p. /\ worker = "expiring" => r \in listed \/ status[r] = "Expired"
      /\ worker \in {"listing", "revoking", "checking"} => status[r] = "Expired"
  BY DEF Chased, r
<1> SUFFICES
      /\ worker' = "expiring" => r \in listed' \/ status'[r] = "Expired"
      /\ worker' \in {"listing", "revoking", "checking"} => status'[r] = "Expired"
  BY <1>r, <1>c DEF Chased
<1>1. CASE ScanRequests
  BY <1>1, <1>r, <1>d DEF ScanRequests
<1>2. ASSUME NEW q \in Requests, ExpireRequest(q)
      PROVE  worker' = "expiring" /\ (r \in listed' \/ status'[r] = "Expired")
  BY <1>2, <1>r, <1>e, <1>p DEF ExpireRequest, TypeOK, workerOnly
<1>3. CASE ListExpired
  BY <1>3, <1>e, <1>p DEF ListExpired
<1>4. CASE ListSessions \/ ScanSessions \/ \E t \in Sessions : RevokeSession(t) \/ CheckSession(t)
  BY <1>4, <1>e, <1>p DEF ListSessions, ScanSessions, RevokeSession, CheckSession
<1>5. CASE EndCycle \/ RestartWorker \/ CrashWorker
  BY <1>5 DEF EndCycle, RestartWorker, CrashWorker
<1>6. CASE UNCHANGED workerVars
  BY <1>6, <1>e, <1>p DEF workerVars
<1> QED BY <1>1, <1>2, <1>3, <1>4, <1>5, <1>6, OthersLeaveWorker DEF WorkerStep

LEMMA InitLate == ObservedInit => LateInv
BY InitTypeOK, InitSnapshots DEF LateInv, ObservedInit

LEMMA NextLate == LateInv /\ [Next /\ Observe]_observedVars => LateInv'
<1> SUFFICES ASSUME LateInv, [Next /\ Observe]_observedVars PROVE LateInv'
  OBVIOUS
<1>1. [Next]_vars
  BY DEF observedVars
<1>2. TypeOK' /\ SnapshotsHaveRows'
  BY <1>1, NextTypeOK, NextSnapshots DEF LateInv
<1>3. CASE UNCHANGED observedVars
  BY <1>2, <1>3 DEF LateInv, Overdue, Outlived, Chased, OnCheckList, Due, Stored, Dead, observedVars, vars,
                    requestVars, sessionVars, workerVars
<1>4. CASE Observe
  <2>1. ASSUME NEW s \in Sessions
        PROVE  late'[s] \in 0..1 /\ (late'[s] = 1 => Overdue(s)' /\ OnCheckList(s)')
    <3>1. late[s] \in 0..1 /\ (late[s] = 1 => Overdue(s) /\ OnCheckList(s))
      BY DEF LateInv
    <3>2. late'[s] = IF Overdue(s) /\ Overdue(s)' THEN Another(late[s]) ELSE 0
      BY <1>4 DEF Observe
    <3>3. CASE ~ (Overdue(s) /\ Overdue(s)')
      BY <3>2, <3>3
    <3>4. CASE Overdue(s) /\ Overdue(s)' /\ EndCycle
      <4>1. late[s] = 0
        BY <3>1, <3>4 DEF EndCycle, OnCheckList
      <4>2. OnCheckList(s)'
        BY <3>4 DEF EndCycle, OnCheckList
      <4> QED BY <3>2, <3>4, <4>1, <4>2 DEF Another
    <3>5. CASE Overdue(s) /\ Overdue(s)' /\ ~ EndCycle
      <4>1. late'[s] = late[s]
        BY <3>2, <3>5 DEF Another
      <4>2. OnCheckList(s) => OnCheckList(s)'
        BY <1>1, <3>5, DeadStaysListed DEF LateInv, Overdue
      <4> QED BY <3>1, <3>5, <4>1, <4>2
    <3> QED BY <3>3, <3>4, <3>5
  <2>2. ASSUME NEW s \in Sessions
        PROVE  overtime'[s] \in 0..1 /\ (overtime'[s] = 1 => Outlived(s)' /\ Chased(s)')
    <3>1. overtime[s] \in 0..1 /\ (overtime[s] = 1 => Outlived(s) /\ Chased(s))
      BY DEF LateInv
    <3>2. overtime'[s] =
            IF Outlived(s) /\ Outlived(s)' /\ ~ Rewritten(sessReq[s]) THEN Another(overtime[s]) ELSE 0
      BY <1>4 DEF Observe
    <3>3. CASE ~ (Outlived(s) /\ Outlived(s)' /\ ~ Rewritten(sessReq[s]))
      BY <3>2, <3>3
    <3>4. CASE Outlived(s) /\ Outlived(s)' /\ ~ Rewritten(sessReq[s]) /\ EndCycle
      <4>1. overtime[s] = 0
        BY <3>1, <3>4 DEF EndCycle, Chased, OnCheckList
      <4>2. Chased(s)'
        BY <3>4 DEF EndCycle, Chased, OnCheckList
      <4> QED BY <3>2, <3>4, <4>1, <4>2 DEF Another
    <3>5. CASE Outlived(s) /\ Outlived(s)' /\ ~ Rewritten(sessReq[s]) /\ ~ EndCycle
      <4>1. overtime'[s] = overtime[s]
        BY <3>2, <3>5 DEF Another
      <4>2. Chased(s) => Chased(s)'
        BY <1>1, <3>5, ChaseGoesOn DEF LateInv
      <4> QED BY <3>1, <3>5, <4>1, <4>2
    <3> QED BY <3>3, <3>4, <3>5
  <2>3. late' \in [Sessions -> 0..1] /\ overtime' \in [Sessions -> 0..1]
    BY <1>4, <2>1, <2>2 DEF Observe
  <2> QED BY <1>2, <2>1, <2>2, <2>3 DEF LateInv
<1> QED BY <1>3, <1>4

\* Access ends within two cycles of AccessRequestWorker: no session stays active
\* through the ends of two of them under a request that is Denied or Expired, or
\* whose time is over and that nobody writes, although decisions and webhooks
\* write behind the worker's snapshots, sessions start behind them, and the
\* worker may stop anywhere.
THEOREM RevocationIsBounded == ObservedSpec => []RevokedByNextCycle
<1>1. LateInv => RevokedByNextCycle
  BY DEF LateInv, RevokedByNextCycle
<1> QED BY <1>1, InitLate, NextLate, PTL DEF ObservedSpec
=============================================================================
