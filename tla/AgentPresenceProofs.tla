------------------------- MODULE AgentPresenceProofs -------------------------
(***************************************************************************)
(* Theorems of AgentPresence, for every number of calls in flight and      *)
(* every threshold.                                                        *)
(***************************************************************************)
EXTENDS AgentPresence, TLAPS

AgentType ==
    [at : {"registering", "beating", "dead"}, token : Token,
     failures : 0..(ReconnectThreshold - 1),
     waits : Calls \cup {NoCall}, goodbye : Calls \cup {NoCall}]
CallType == [stage : Stages, kind : Kinds, token : Token, stamp : Age, old : RowStatus]
MonitorType == [at : {"asleep", "marking", "loaded"}, overtaken : BOOLEAN, old : RowStatus]

\* The calls the agent waits for are under way, and of the kind its place in
\* the loop says.
Matched ==
    /\ agent.waits # NoCall =>
        /\ call[agent.waits].stage # "idle"
        /\ call[agent.waits].kind = IF agent.at = "registering" THEN "register" ELSE "online"
    /\ agent.goodbye # NoCall =>
        /\ call[agent.goodbye].stage # "idle"
        /\ call[agent.goodbye].kind = "offline"

-----------------------------------------------------------------------------
(* Ages, results and free calls *)

\* Time keeps ages in their range: AgentHealthMonitorService tells them apart
\* up to its threshold only.
LEMMA AgesStay ==
    /\ 0 \in Age
    /\ OfflineThreshold + 1 \in Age
    /\ \A a \in Age : Older(a) \in Age
  BY ThresholdAssumption DEF Age, Older

\* The counter of failures starts in its range, as ReconnectThreshold is not 0.
LEMMA NoFailures == 0 \in 0..(ReconnectThreshold - 1)
  BY ThresholdAssumption

\* What a call of AgentsController comes to is a call record again.
LEMMA ResultType ==
    ASSUME TypeOK, NEW c \in Calls, NEW stage \in {"ok", "refused"}, NEW token \in Token
    PROVE  Result(c, stage, token) \in CallType
  <1>1. call[c].kind \in Kinds
    BY DEF TypeOK
  <1>2. Idle \in CallType
    BY AgesStay DEF Idle, CallType, Stages, Kinds, Token, RowStatus
  <1>3. [Idle EXCEPT !.stage = stage, !.kind = call[c].kind, !.token = token] \in CallType
    BY <1>1, <1>2 DEF CallType, Stages
  <1> QED
    BY <1>2, <1>3 DEF Result

\* What Worker.ExecuteAsync makes of a failure is a state of the agent.
LEMMA AfterFailureType ==
    ASSUME TypeOK
    PROVE  AfterFailure \in AgentType
  <1>1. agent \in AgentType
    BY DEF TypeOK, AgentType
  <1>2. [agent EXCEPT !.waits = NoCall] \in AgentType
    BY <1>1 DEF AgentType
  <1>3. [agent EXCEPT !.waits = NoCall, !.at = "registering", !.token = "none", !.failures = 0]
            \in AgentType
    BY <1>1, NoFailures DEF AgentType, Token
  <1>4. ASSUME ~ (agent.failures + 1 >= ReconnectThreshold)
        PROVE  [agent EXCEPT !.waits = NoCall, !.failures = @ + 1] \in AgentType
    <2>1. agent.failures + 1 \in 0..(ReconnectThreshold - 1)
      BY <1>1, <1>4, ThresholdAssumption DEF AgentType
    <2> QED
      BY <1>1, <2>1 DEF AgentType
  <1> QED
    BY <1>2, <1>3, <1>4 DEF AfterFailure

\* A stale token is a token.
LEMMA OutdatedType == \A t \in Token : Outdated(t) \in Token
  BY DEF Outdated, Token

-----------------------------------------------------------------------------
(* Types *)

\* AgentPresence keeps its types.
LEMMA TypeStep == TypeOK /\ [Next]_vars => TypeOK'
  <1> SUFFICES ASSUME TypeOK, [Next]_vars
               PROVE  TypeOK'
    OBVIOUS
  <1>r. row \in [status : RowStatus, age : Age]
    BY DEF TypeOK
  <1>a. agent \in AgentType
    BY DEF TypeOK, AgentType
  <1>c. call \in [Calls -> CallType]
    BY DEF TypeOK, CallType
  <1>m. monitor \in MonitorType /\ settled \in BOOLEAN
    BY DEF TypeOK, MonitorType
  <1>i. Idle \in CallType
    BY AgesStay DEF Idle, CallType, Stages, Kinds, Token, RowStatus
  <1>s. Started \in AgentType /\ [Started EXCEPT !.at = "dead"] \in AgentType
    BY NoFailures DEF Started, AgentType, Token
  <1>z. Asleep \in MonitorType
    BY DEF Asleep, MonitorType, RowStatus
  <1>g. ASSUME row' \in [status : RowStatus, age : Age], agent' \in AgentType,
               call' \in [Calls -> CallType], monitor' \in MonitorType, settled' \in BOOLEAN
        PROVE  TypeOK'
    BY <1>g DEF TypeOK, AgentType, CallType, MonitorType
  <1>o. [monitor EXCEPT !.overtaken = @ \/ monitor.at = "marking"] \in MonitorType
    BY <1>m DEF MonitorType
  <1>1. CASE Tick
    <2>1. row' \in [status : RowStatus, age : Age]
      BY <1>r, <1>1, AgesStay DEF Tick
    <2>2. ASSUME NEW c \in Calls
          PROVE  [call[c] EXCEPT !.stamp = Older(@)] \in CallType
      <3>1. call[c] \in CallType
        BY <1>c
      <3>2. Older(call[c].stamp) \in Age
        BY <3>1, AgesStay DEF CallType
      <3> QED
        BY <3>1, <3>2 DEF CallType
    <2>3. call' \in [Calls -> CallType]
      BY <1>c, <1>1, <2>2 DEF Tick
    <2> QED
      BY <1>1, <1>a, <1>m, <1>g, <2>1, <2>3 DEF Tick
  <1>2. CASE Settle
    BY <1>2, <1>r, <1>a, <1>c, <1>m, <1>g DEF Settle
  <1>n. ASSUME NEW c \in Calls, NEW kind \in Kinds, Send(c, kind)
        PROVE  call' \in [Calls -> CallType]
    <2>1. [Idle EXCEPT !.stage = "arrived", !.kind = kind, !.token = agent.token] \in CallType
      BY <1>a, <1>i DEF AgentType, CallType, Stages
    <2> QED
      BY <1>c, <1>n, <2>1 DEF Send
  <1>w. ASSUME NEW c \in Calls
        PROVE  [agent EXCEPT !.waits = c] \in AgentType /\ [agent EXCEPT !.goodbye = c] \in AgentType
    BY <1>a DEF AgentType
  <1>3. ASSUME NEW c \in Calls, SendRegister(c) PROVE TypeOK'
    BY <1>3, <1>n, <1>w, <1>r, <1>m, <1>g DEF SendRegister, Kinds
  <1>4. ASSUME NEW c \in Calls, SendHeartbeat(c) PROVE TypeOK'
    BY <1>4, <1>n, <1>w, <1>r, <1>m, <1>g DEF SendHeartbeat, Kinds
  <1>5. ASSUME NEW c \in Calls, SendOffline(c) PROVE TypeOK'
    BY <1>5, <1>n, <1>w, <1>r, <1>m, <1>g DEF SendOffline, Kinds
  <1>6. ASSUME NEW c \in Calls, Proceed(c) PROVE TypeOK'
    <2>1. call[c].token \in Token /\ agent.token \in Token
      BY <1>c, <1>a DEF CallType, AgentType
    <2>2. PICK t \in Token : agent' = [agent EXCEPT !.waits = NoCall, !.at = "beating",
                                                    !.token = t, !.failures = 0]
      BY <1>6, <2>1 DEF Proceed
    <2>3. agent' \in AgentType
      BY <1>a, <2>2, NoFailures DEF AgentType
    <2> QED
      BY <1>6, <2>3, <1>i, <1>c, <1>r, <1>m, <1>g DEF Proceed
  <1>7. ASSUME NEW c \in Calls, Refused(c) PROVE TypeOK'
    BY <1>7, AfterFailureType, <1>i, <1>c, <1>r, <1>m, <1>g DEF Refused
  <1>8. ASSUME NEW c \in Calls, GiveUp(c) PROVE TypeOK'
    BY <1>8, AfterFailureType, <1>c, <1>r, <1>m, <1>g DEF GiveUp
  <1>9. CASE Stop
    BY <1>9, <1>i, <1>s, <1>c, <1>r, <1>m, <1>g DEF Stop
  <1>10. CASE Kill
    BY <1>10, <1>i, <1>s, <1>c, <1>r, <1>m, <1>g DEF Kill
  <1>11. CASE Start
    BY <1>11, <1>s, <1>c, <1>r, <1>m, <1>g DEF Start
  <1>v. ASSUME NEW c \in Calls, NEW stage \in {"ok", "refused"}, Answer(c, stage)
        PROVE  call' \in [Calls -> CallType]
    <2>1. Result(c, stage, "none") \in CallType
      BY ResultType DEF Token
    <2> QED
      BY <1>c, <1>v, <2>1 DEF Answer
  <1>12. ASSUME NEW c \in Calls, LoadForRegister(c) PROVE TypeOK'
    <2>1. [call[c] EXCEPT !.stage = "loaded", !.stamp = 0, !.old = row.status] \in CallType
      BY <1>c, <1>r, AgesStay DEF CallType, Stages
    <2>2. call' \in [Calls -> CallType]
      BY <1>12, <2>1, <1>c, <1>v DEF LoadForRegister
    <2> QED
      BY <1>12, <2>2, <1>a, <1>r, <1>m, <1>g DEF LoadForRegister
  <1>13. ASSUME NEW c \in Calls, CheckHeartbeat(c) PROVE TypeOK'
    <2>1. [call[c] EXCEPT !.stage = "checked", !.token = "none"] \in CallType
      BY <1>c DEF CallType, Stages, Token
    <2>2. call' \in [Calls -> CallType]
      BY <1>13, <2>1, <1>c, <1>v DEF CheckHeartbeat
    <2> QED
      BY <1>13, <2>2, <1>a, <1>r, <1>m, <1>g DEF CheckHeartbeat
  <1>14. ASSUME NEW c \in Calls, LoadForHeartbeat(c) PROVE TypeOK'
    <2>1. [call[c] EXCEPT !.stage = "loaded", !.stamp = 0, !.old = row.status] \in CallType
      BY <1>c, <1>r, AgesStay DEF CallType, Stages
    <2> QED
      BY <1>14, <2>1, <1>a, <1>c, <1>r, <1>m, <1>g DEF LoadForHeartbeat
  <1>e. ASSUME NEW old, NEW new \in RowStatus
        PROVE  Merge(old, new) \in RowStatus
    BY <1>r DEF Merge
  <1>15. ASSUME NEW c \in Calls, SaveHeartbeat(c) PROVE TypeOK'
    <2>1. SetBy(c) \in RowStatus
      BY DEF SetBy, RowStatus
    <2>2. Merge(call[c].old, SetBy(c)) \in RowStatus /\ call[c].stamp \in Age
      BY <2>1, <1>e, <1>c DEF CallType
    <2>3. row' \in [status : RowStatus, age : Age]
      BY <1>15, <2>2, <1>r DEF SaveHeartbeat
    <2>4. call' \in [Calls -> CallType]
      BY <1>15, <1>v DEF SaveHeartbeat
    <2> QED
      BY <1>15, <2>3, <2>4, <1>a, <1>o, <1>m, <1>g DEF SaveHeartbeat
  <1>16. ASSUME NEW c \in Calls, SaveRegister(c) PROVE TypeOK'
    <2>1. Merge(call[c].old, "Online") \in RowStatus /\ call[c].stamp \in Age
      BY <1>e, <1>c DEF CallType, RowStatus
    <2>2. row' \in [status : RowStatus, age : Age]
      BY <1>16, <2>1 DEF SaveRegister
    <2>3. ASSUME NEW d \in Calls
          PROVE  [call[d] EXCEPT !.token = Outdated(@)] \in CallType
      <3>1. call[d] \in CallType
        BY <1>c
      <3>2. Outdated(call[d].token) \in Token
        BY <3>1, OutdatedType DEF CallType
      <3> QED
        BY <3>1, <3>2 DEF CallType
    <2>4. Result(c, "ok", "current") \in CallType
      BY ResultType DEF Token
    <2>5. call' \in [Calls -> CallType]
      BY <1>16, <2>3, <2>4 DEF SaveRegister
    <2>6. agent' \in AgentType
      <3>1. Outdated(agent.token) \in Token
        BY <1>a, OutdatedType DEF AgentType
      <3> QED
        BY <1>16, <1>a, <3>1 DEF SaveRegister, AgentType
    <2> QED
      BY <1>16, <2>2, <2>5, <2>6, <1>o, <1>m, <1>g DEF SaveRegister
  <1>17. ASSUME NEW c \in Calls, InsertFails(c) PROVE TypeOK'
    BY <1>17, <1>v, <1>a, <1>r, <1>m, <1>g DEF InsertFails
  <1>18. ASSUME NEW c \in Calls, LoseCall(c) PROVE TypeOK'
    BY <1>18, <1>i, <1>c, <1>a, <1>r, <1>m, <1>g DEF LoseCall
  <1>19. CASE ScanAgents
    <2>1. [Asleep EXCEPT !.at = "marking"] \in MonitorType
      BY <1>z DEF MonitorType
    <2> QED
      BY <1>19, <2>1, <1>a, <1>c, <1>r, <1>m, <1>g DEF ScanAgents
  <1>20. CASE LoadForOffline
    <2>1. [monitor EXCEPT !.at = "loaded", !.old = row.status] \in MonitorType
      BY <1>m, <1>r DEF MonitorType
    <2> QED
      BY <1>20, <2>1, <1>a, <1>c, <1>r, <1>m, <1>g DEF LoadForOffline
  <1>21. CASE SaveOffline
    <2>1. Merge(monitor.old, "Offline") \in RowStatus
      BY <1>e DEF RowStatus
    <2>2. row' \in [status : RowStatus, age : Age]
      BY <1>21, <2>1, <1>r, AgesStay DEF SaveOffline
    <2> QED
      BY <1>21, <2>2, <1>z, <1>a, <1>c, <1>m, <1>g DEF SaveOffline
  <1>22. CASE AbandonCycle
    BY <1>22, <1>z, <1>a, <1>c, <1>r, <1>m, <1>g DEF AbandonCycle
  <1>23. CASE UNCHANGED vars
    BY <1>23, <1>a, <1>c, <1>r, <1>m, <1>g DEF vars
  <1> QED
    BY <1>1, <1>2, <1>3, <1>4, <1>5, <1>6, <1>7, <1>8, <1>9, <1>10, <1>11, <1>12, <1>13, <1>14,
       <1>15, <1>16, <1>17, <1>18, <1>19, <1>20, <1>21, <1>22, <1>23
       DEF Next, AgentStep, Handle, MonitorStep, Trouble

\* It starts with them.
LEMMA InitTypeOK == Init => TypeOK
  <1> SUFFICES ASSUME Init PROVE TypeOK
    OBVIOUS
  <1>1. Idle \in CallType /\ Started \in AgentType /\ Asleep \in MonitorType
    BY AgesStay, NoFailures
       DEF Idle, Started, Asleep, CallType, AgentType, MonitorType, Stages, Kinds, Token, RowStatus
  <1>2. row \in [status : RowStatus, age : Age]
    BY AgesStay DEF Init, RowStatus
  <1>3. agent \in AgentType /\ call \in [Calls -> CallType] /\ monitor \in MonitorType /\ settled \in BOOLEAN
    BY <1>1 DEF Init
  <1> QED
    BY <1>2, <1>3 DEF TypeOK, AgentType, CallType, MonitorType

\* The agent, its row and its calls keep their types whatever is lost, late
\* or given up; in particular the agent never lets more heartbeats fail than
\* ReconnectThreshold (Worker.ExecuteAsync).
THEOREM PresenceTypeCorrect == Spec => []TypeOK
  BY InitTypeOK, TypeStep, PTL DEF Spec

-----------------------------------------------------------------------------
(* Tokens *)

\* A call that is answered or in the store keeps its kind as long as the agent
\* waits for it.
LEMMA ResultMatches ==
    ASSUME NEW c \in Calls, NEW stage \in {"ok", "refused"}, NEW token, Awaited(c)
    PROVE  /\ Result(c, stage, token).stage # "idle"
           /\ Result(c, stage, token).kind = call[c].kind
  BY DEF Result, Idle

\* Nothing that happens to the calls of the API comes between the agent and
\* the calls it waits for.
LEMMA MatchedByCalls ==
    ASSUME TypeOK, Matched, NEW c \in Calls,
           agent'.waits = agent.waits, agent'.goodbye = agent.goodbye, agent'.at = agent.at,
           \A d \in Calls : Awaited(d) /\ call[d].stage # "idle" =>
               call'[d].stage # "idle" /\ call'[d].kind = call[d].kind
    PROVE  Matched'
  <1>1. agent.waits \in Calls \cup {NoCall} /\ agent.goodbye \in Calls \cup {NoCall}
    BY DEF TypeOK
  <1> QED
    BY <1>1 DEF Matched, Awaited

\* The places of the agent and of its calls agree.
LEMMA MatchedStep == TypeOK /\ Matched /\ [Next]_vars => Matched'
  <1> SUFFICES ASSUME TypeOK, Matched, [Next]_vars
               PROVE  Matched'
    OBVIOUS
  <1>t. /\ agent \in AgentType
        /\ call \in [Calls -> CallType]
    BY DEF TypeOK, AgentType, CallType
  <1>w. agent.waits \in Calls \cup {NoCall} /\ agent.goodbye \in Calls \cup {NoCall}
    BY <1>t DEF AgentType
  <1>k. ASSUME NEW c \in Calls,
               agent'.waits = agent.waits, agent'.goodbye = agent.goodbye, agent'.at = agent.at,
               \A d \in Calls : Awaited(d) /\ call[d].stage # "idle" =>
                   call'[d].stage # "idle" /\ call'[d].kind = call[d].kind
        PROVE  Matched'
    BY <1>k, MatchedByCalls
  <1>1. CASE Tick
    BY <1>1, <1>t, <1>w DEF Tick, Matched, CallType
  <1>2. CASE Settle
    BY <1>2 DEF Settle, Matched
  <1>n. ASSUME NEW c \in Calls, NEW kind \in Kinds, Send(c, kind)
        PROVE  /\ call[c].stage = "idle"
               /\ call'[c].stage = "arrived" /\ call'[c].kind = kind
               /\ \A d \in Calls : d # c => call'[d] = call[d]
    BY <1>n, <1>t DEF Send, Idle
  <1>3. ASSUME NEW c \in Calls, SendRegister(c) PROVE Matched'
    BY <1>3, <1>n, <1>t, <1>w, NoCallAssumption DEF SendRegister, Matched, Kinds, AgentType
  <1>4. ASSUME NEW c \in Calls, SendHeartbeat(c) PROVE Matched'
    BY <1>4, <1>n, <1>t, <1>w, NoCallAssumption DEF SendHeartbeat, Matched, Kinds, AgentType
  <1>5. ASSUME NEW c \in Calls, SendOffline(c) PROVE Matched'
    BY <1>5, <1>n, <1>t, <1>w, NoCallAssumption DEF SendOffline, Matched, Kinds, AgentType, Stopping
  <1>f. AfterFailure.waits = NoCall /\ AfterFailure.goodbye = agent.goodbye
    BY <1>t DEF AfterFailure, AgentType
  <1>d. ASSUME NEW c \in Calls, agent.waits = c, agent.goodbye # NoCall
        PROVE  agent.goodbye # c
    BY <1>d, NoCallAssumption DEF Matched
  <1>6. ASSUME NEW c \in Calls, Proceed(c) PROVE Matched'
    <2>1. agent'.waits = NoCall /\ agent'.goodbye = agent.goodbye
      BY <1>6, <1>t DEF Proceed, AgentType
    <2>2. agent.goodbye # NoCall => call'[agent.goodbye] = call[agent.goodbye]
      BY <1>6, <1>d, <1>t, <1>w DEF Proceed
    <2> QED
      BY <2>1, <2>2 DEF Matched
  <1>7. ASSUME NEW c \in Calls, Refused(c) PROVE Matched'
    <2>1. agent.goodbye # NoCall => call'[agent.goodbye] = call[agent.goodbye]
      BY <1>7, <1>d, <1>t, <1>w DEF Refused
    <2> QED
      BY <1>7, <1>f, <2>1 DEF Refused, Matched
  <1>8. ASSUME NEW c \in Calls, GiveUp(c) PROVE Matched'
    BY <1>8, <1>f DEF GiveUp, Matched
  <1>9. CASE Stop \/ Kill \/ Start
    BY <1>9 DEF Stop, Kill, Start, Started, Matched
  <1>v. ASSUME NEW c \in Calls, NEW stage \in {"ok", "refused"}, Answer(c, stage), UNCHANGED agent
        PROVE  Matched'
    BY <1>v, <1>k, <1>t, ResultMatches DEF Answer
  <1>10. ASSUME NEW c \in Calls, LoadForRegister(c) PROVE Matched'
    <2>1. CASE Answer(c, "refused")
      BY <1>10, <2>1, <1>v DEF LoadForRegister
    <2>2. CASE call' = [call EXCEPT ![c] = [@ EXCEPT !.stage = "loaded", !.stamp = 0, !.old = row.status]]
      BY <1>10, <2>2, <1>k, <1>t DEF LoadForRegister, CallType
    <2> QED
      BY <1>10, <2>1, <2>2 DEF LoadForRegister
  <1>11. ASSUME NEW c \in Calls, CheckHeartbeat(c) PROVE Matched'
    <2>1. CASE Answer(c, "refused")
      BY <1>11, <2>1, <1>v DEF CheckHeartbeat
    <2>2. CASE call' = [call EXCEPT ![c] = [@ EXCEPT !.stage = "checked", !.token = "none"]]
      BY <1>11, <2>2, <1>k, <1>t DEF CheckHeartbeat, CallType
    <2> QED
      BY <1>11, <2>1, <2>2 DEF CheckHeartbeat
  <1>12. ASSUME NEW c \in Calls, LoadForHeartbeat(c) PROVE Matched'
    BY <1>12, <1>k, <1>t DEF LoadForHeartbeat, CallType
  <1>13. ASSUME NEW c \in Calls, SaveHeartbeat(c) PROVE Matched'
    BY <1>13, <1>v DEF SaveHeartbeat
  <1>14. ASSUME NEW c \in Calls, SaveRegister(c) PROVE Matched'
    <2>1. agent'.waits = agent.waits /\ agent'.goodbye = agent.goodbye /\ agent'.at = agent.at
      BY <1>14, <1>t DEF SaveRegister, AgentType
    <2>2. ASSUME NEW d \in Calls, Awaited(d), call[d].stage # "idle"
          PROVE  call'[d].stage # "idle" /\ call'[d].kind = call[d].kind
      <3>1. CASE d = c
        BY <1>14, <2>2, <3>1, ResultMatches DEF SaveRegister
      <3>2. CASE d # c
        BY <1>14, <2>2, <3>2, <1>t DEF SaveRegister, CallType
      <3> QED
        BY <3>1, <3>2
    <2> QED
      BY <2>1, <2>2, <1>k
  <1>15. ASSUME NEW c \in Calls, InsertFails(c) PROVE Matched'
    BY <1>15, <1>v DEF InsertFails
  <1>16. ASSUME NEW c \in Calls, LoseCall(c) PROVE Matched'
    BY <1>16, <1>k, <1>t DEF LoseCall
  <1>17. CASE MonitorStep \/ AbandonCycle
    BY <1>17 DEF MonitorStep, ScanAgents, LoadForOffline, SaveOffline, AbandonCycle, Matched
  <1>18. CASE UNCHANGED vars
    BY <1>18 DEF vars, Matched
  <1> QED
    BY <1>1, <1>2, <1>3, <1>4, <1>5, <1>6, <1>7, <1>8, <1>9, <1>10, <1>11, <1>12, <1>13, <1>14,
       <1>15, <1>16, <1>17, <1>18
       DEF Next, AgentStep, Handle, Trouble

\* An agent that holds the token of its row loses it only to a registration
\* it no longer waits for: in AgentsController.Register the last save wins.
THEOREM OnlyLateRegistrationsTakeTokens == Spec => LosesTokenToLateRegistration
  <1>1. Init => TypeOK /\ Matched
    <2>1. Init => Matched
      BY DEF Init, Started, Matched
    <2>2. Init => TypeOK
      BY InitTypeOK
    <2> QED
      BY <2>1, <2>2
  <1>2. ASSUME TypeOK, Matched, [Next]_vars, Registered, agent'.token = "stale"
        PROVE  \E c \in Calls : ~Awaited(c) /\ call[c].kind = "register" /\ call[c].stage = "loaded"
    <2>t. agent \in AgentType
      BY <1>2 DEF TypeOK, AgentType
    <2>r. agent.at = "beating" /\ agent.token = "current"
      BY <1>2 DEF Registered
    <2>1. ASSUME NEW c \in Calls, SaveRegister(c)
          PROVE  ~Awaited(c) /\ call[c].kind = "register" /\ call[c].stage = "loaded"
      BY <1>2, <2>1, <2>r, NoCallAssumption DEF SaveRegister, Awaited, Matched
    <2>2. ASSUME NEW c \in Calls, Proceed(c) PROVE FALSE
      <3>1. call[c].kind # "register"
        BY <1>2, <2>2, <2>r, NoCallAssumption DEF Proceed, Matched
      <3> QED
        BY <1>2, <2>2, <2>t, <2>r, <3>1 DEF Proceed, AgentType
    <2>3. AfterFailure.token # "stale"
      BY <2>t, <2>r DEF AfterFailure, AgentType
    <2>4. ASSUME NEW c \in Calls, Refused(c) \/ GiveUp(c) PROVE FALSE
      BY <1>2, <2>3, <2>4 DEF Refused, GiveUp
    <2>5. ASSUME NEW c \in Calls, SendRegister(c) \/ SendHeartbeat(c) \/ SendOffline(c) PROVE FALSE
      BY <1>2, <2>5, <2>t, <2>r DEF SendRegister, SendHeartbeat, SendOffline, AgentType
    <2>6. ~ (Stop \/ Kill \/ Start)
      BY <1>2 DEF Stop, Kill, Start, Started
    <2>7. ASSUME NEW c \in Calls,
                 LoadForRegister(c) \/ CheckHeartbeat(c) \/ LoadForHeartbeat(c)
                    \/ SaveHeartbeat(c) \/ InsertFails(c) \/ LoseCall(c)
          PROVE  FALSE
      BY <1>2, <2>7, <2>r
         DEF LoadForRegister, CheckHeartbeat, LoadForHeartbeat, SaveHeartbeat, InsertFails, LoseCall
    <2>8. ~ (Tick \/ Settle \/ MonitorStep \/ AbandonCycle \/ UNCHANGED vars)
      BY <1>2, <2>r
         DEF Tick, Settle, MonitorStep, ScanAgents, LoadForOffline, SaveOffline, AbandonCycle, vars
    <2> QED
      BY <1>2, <2>1, <2>2, <2>4, <2>5, <2>6, <2>7, <2>8 DEF Next, AgentStep, Handle, Trouble
  <1>3. TypeOK /\ Matched /\ [Next]_vars => TypeOK' /\ Matched'
    BY TypeStep, MatchedStep
  <1>4. TypeOK /\ Matched /\ [Next]_vars =>
            [Registered /\ agent'.token = "stale" =>
                \E c \in Calls : ~Awaited(c) /\ call[c].kind = "register" /\ call[c].stage = "loaded"]_vars
    BY <1>2
  <1> QED
    BY <1>1, <1>3, <1>4, PTL DEF Spec, LosesTokenToLateRegistration
=============================================================================
