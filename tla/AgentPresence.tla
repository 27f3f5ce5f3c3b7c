---------------------------- MODULE AgentPresence ----------------------------
(***************************************************************************)
(* How the API knows which agents are there: an agent registers, sends     *)
(* heartbeats, registers again when three of them fail in a row, and says  *)
(* goodbye when it stops; AgentHealthMonitorService marks agents that are  *)
(* silent as Offline.                                                      *)
(*                                                                         *)
(* One agent is modelled: its row is its own, and neither the handlers nor *)
(* the monitor relate one row to another.  The row is in a database.  A    *)
(* handler loads it and saves it in two statements, and the save writes    *)
(* the columns that differ from what was loaded, not from what is there.   *)
(***************************************************************************)
EXTENDS Naturals

CONSTANTS
    Calls,              \* calls of the API that can be in flight at once
    NoCall,
    OfflineThreshold,   \* AgentHealthMonitorOptions, in ticks of the clock
    ReconnectThreshold, \* failed heartbeats before the agent registers again
    RequireAgentToken,  \* AgentApiOptions
    JoinTokenAccepted,  \* whether the agent is configured with the join token of the API
    AuthEnabled         \* Auth:Enabled: the API asks every caller for a JWT

ASSUME NoCallAssumption == NoCall \notin Calls
ASSUME ThresholdAssumption ==
    OfflineThreshold \in Nat /\ ReconnectThreshold \in Nat \ {0}
ASSUME SwitchAssumption ==
    RequireAgentToken \in BOOLEAN /\ JoinTokenAccepted \in BOOLEAN /\ AuthEnabled \in BOOLEAN

VARIABLES
    row,        \* the agent's row: Status, LastSeenAt (as an age)
    agent,      \* the agent's process: its place in the loop and its fields
    call,       \* what has become of each call of the API
    monitor,    \* AgentHealthMonitorService: its place and its snapshot
    settled     \* from now on nothing is lost, cut off, stopped or restarted

vars == <<row, agent, call, monitor, settled>>

-----------------------------------------------------------------------------

\* A time is kept as its distance from now, up to where the monitor stops
\* telling ages apart.
Age == 0..(OfflineThreshold + 1)
Older(a) == IF a > OfflineThreshold THEN a ELSE a + 1
Silent(a) == a > OfflineThreshold

RowStatus == {"none", "Online", "Offline"}
Kinds == {"register", "online", "offline"}
Stages == {"idle", "arrived", "checked", "loaded", "ok", "refused"}

Idle == [stage |-> "idle", kind |-> "online", token |-> "none", stamp |-> 0, old |-> "none"]
Asleep == [at |-> "asleep", overtaken |-> FALSE, old |-> "none"]
Started == [at |-> "registering", token |-> "none", failures |-> 0,
            waits |-> NoCall, goodbye |-> NoCall]

\* Tokens are GUIDs, new with each registration: all that can be asked of one
\* is whether it is the one in the row.
Token == {"none", "current", "stale"}
Outdated(t) == IF t = "current" THEN "stale" ELSE t

\* Calls are alike: the next one takes some free place.
FreeCall == CHOOSE c \in Calls : call[c] = Idle \/ \A d \in Calls : call[d] # Idle

\* StopAsync has begun, and the agent has not gone yet.
Stopping == agent.goodbye # NoCall
Awaited(c) == c \in {agent.waits, agent.goodbye}

Init ==
    /\ row = [status |-> "none", age |-> 0]
    /\ agent = Started
    /\ call = [c \in Calls |-> Idle]
    /\ monitor = Asleep
    /\ settled = FALSE

Tick ==
    /\ row' = IF row.status = "none" THEN row ELSE [row EXCEPT !.age = Older(@)]
    /\ call' = [c \in Calls |->
                    IF call[c].stage = "loaded" THEN [call[c] EXCEPT !.stamp = Older(@)] ELSE call[c]]
    /\ UNCHANGED <<agent, monitor, settled>>

Settle ==
    /\ settled' = TRUE
    /\ UNCHANGED <<row, agent, call, monitor>>

-----------------------------------------------------------------------------
(* The agent: Worker.ExecuteAsync and StopAsync *)

Send(c, kind) ==
    /\ c = FreeCall
    /\ call[c] = Idle
    /\ call' = [call EXCEPT ![c] = [Idle EXCEPT !.stage = "arrived", !.kind = kind, !.token = agent.token]]

SendRegister(c) ==
    /\ agent.at = "registering"
    /\ agent.waits = NoCall
    /\ Send(c, "register")
    /\ agent' = [agent EXCEPT !.waits = c]
    /\ UNCHANGED <<row, monitor, settled>>

SendHeartbeat(c) ==
    /\ agent.at = "beating"
    /\ agent.waits = NoCall
    /\ Send(c, "online")
    /\ agent' = [agent EXCEPT !.waits = c]
    /\ UNCHANGED <<row, monitor, settled>>

\* StopAsync says goodbye first and stops the loop only afterwards, so that
\* the loop goes on in between.
SendOffline(c) ==
    /\ ~settled
    /\ agent.at # "dead"
    /\ ~Stopping
    /\ Send(c, "offline")
    /\ agent' = [agent EXCEPT !.goodbye = c]
    /\ UNCHANGED <<row, monitor, settled>>

\* The call the loop waits for has succeeded.
Proceed(c) ==
    /\ agent.waits = c
    /\ call[c].stage = "ok"
    /\ agent' = [agent EXCEPT
                    !.waits = NoCall,
                    !.at = "beating",
                    !.token = IF call[c].kind = "register" THEN call[c].token ELSE @,
                    !.failures = 0]
    /\ call' = [call EXCEPT ![c] = Idle]
    /\ UNCHANGED <<row, monitor, settled>>

\* Mutant: one failure more than the threshold is let pass.
AfterFailureTooLate ==
    IF agent.at = "registering" THEN [agent EXCEPT !.waits = NoCall]
    ELSE IF agent.failures + 1 > ReconnectThreshold
    THEN [agent EXCEPT !.waits = NoCall, !.at = "registering", !.token = "none", !.failures = 0]
    ELSE [agent EXCEPT !.waits = NoCall, !.failures = @ + 1]

\* What the loop does when a call fails: a failed registration is repeated,
\* and too many failed heartbeats lead back to it.
AfterFailure ==
    IF agent.at = "registering" THEN [agent EXCEPT !.waits = NoCall]
    ELSE IF agent.failures + 1 >= ReconnectThreshold
    THEN [agent EXCEPT !.waits = NoCall, !.at = "registering", !.token = "none", !.failures = 0]
    ELSE [agent EXCEPT !.waits = NoCall, !.failures = @ + 1]

Refused(c) ==
    /\ agent.waits = c
    /\ call[c].stage = "refused"
    /\ agent' = AfterFailure
    /\ call' = [call EXCEPT ![c] = Idle]
    /\ UNCHANGED <<row, monitor, settled>>

\* A timeout: the agent goes on, and so does the call it no longer waits for.
GiveUp(c) ==
    /\ ~settled
    /\ agent.waits = c
    /\ call[c].stage \notin {"ok", "refused"}
    /\ agent' = AfterFailure
    /\ UNCHANGED <<row, call, monitor, settled>>

\* base.StopAsync cancels the loop, whatever the goodbye came to.  A call
\* that is under way goes on at the API.
Stop ==
    /\ Stopping
    /\ settled => call[agent.goodbye].stage \in {"ok", "refused"}
    /\ agent' = [Started EXCEPT !.at = "dead"]
    /\ call' = [c \in Calls |-> IF Awaited(c) /\ call[c].stage \in {"ok", "refused"} THEN Idle ELSE call[c]]
    /\ UNCHANGED <<row, monitor, settled>>

Kill ==
    /\ ~settled
    /\ agent.at # "dead"
    /\ agent' = [Started EXCEPT !.at = "dead"]
    /\ call' = [c \in Calls |-> IF Awaited(c) /\ call[c].stage \in {"ok", "refused"} THEN Idle ELSE call[c]]
    /\ UNCHANGED <<row, monitor, settled>>

Start ==
    /\ ~settled
    /\ agent.at = "dead"
    /\ agent' = Started
    /\ UNCHANGED <<row, call, monitor, settled>>

-----------------------------------------------------------------------------
(* The API: AgentsController.Register and Heartbeat *)

\* A call that is over: its caller sees the result if it still waits for it.
Result(c, stage, token) ==
    IF Awaited(c) THEN [Idle EXCEPT !.stage = stage, !.kind = call[c].kind, !.token = token]
    ELSE Idle
Answer(c, stage) == call' = [call EXCEPT ![c] = Result(c, stage, "none")]

\* The controller is behind [Authorize].  The agent registers without a token,
\* and what it sends as Bearer from then on is the GUID it was given, no JWT:
\* with authentication on, no call of it gets as far as the handler.
Authorized == ~AuthEnabled

\* The time is taken first, then the store loads the row.
LoadForRegister(c) ==
    /\ call[c].stage = "arrived"
    /\ call[c].kind = "register"
    /\ IF Authorized /\ JoinTokenAccepted
       THEN call' = [call EXCEPT ![c] = [@ EXCEPT !.stage = "loaded", !.stamp = 0, !.old = row.status]]
       ELSE Answer(c, "refused")
    /\ UNCHANGED <<row, agent, monitor, settled>>

\* Mutant: any token will do.
CheckHeartbeatOnly(c) ==
    /\ call[c].stage = "arrived"
    /\ call[c].kind # "register"
    /\ IF Authorized /\ row.status # "none"
       THEN call' = [call EXCEPT ![c] = [@ EXCEPT !.stage = "checked", !.token = "none"]]
       ELSE Answer(c, "refused")
    /\ UNCHANGED <<row, agent, monitor, settled>>

\* A heartbeat that is not authorized, of an agent without a row, or with another
\* token, is refused.
CheckHeartbeat(c) ==
    /\ call[c].stage = "arrived"
    /\ call[c].kind # "register"
    /\ IF Authorized /\ row.status # "none" /\ (RequireAgentToken => call[c].token = "current")
       THEN call' = [call EXCEPT ![c] = [@ EXCEPT !.stage = "checked", !.token = "none"]]
       ELSE Answer(c, "refused")
    /\ UNCHANGED <<row, agent, monitor, settled>>

LoadForHeartbeat(c) ==
    /\ call[c].stage = "checked"
    /\ call' = [call EXCEPT ![c] = [@ EXCEPT !.stage = "loaded", !.stamp = 0, !.old = row.status]]
    /\ UNCHANGED <<row, agent, monitor, settled>>

\* The status column is written when it differs from the one loaded.
Merge(old, new) == IF new = old THEN row.status ELSE new

SetBy(c) == IF call[c].kind = "offline" THEN "Offline" ELSE "Online"

\* Mutant: a heartbeat renews LastSeenAt and leaves the status alone.
SaveSeen(c) ==
    /\ call[c].stage = "loaded"
    /\ call[c].kind # "register"
    /\ row' = [row EXCEPT !.age = call[c].stamp]
    /\ monitor' = [monitor EXCEPT !.overtaken = @ \/ monitor.at = "marking"]
    /\ Answer(c, "ok")
    /\ UNCHANGED <<agent, settled>>

\* Mutant: the row is replaced, as it is added when there is none, with a new
\* token.
SaveAnew(c) ==
    /\ call[c].stage = "loaded"
    /\ call[c].kind # "register"
    /\ row' = [status |-> SetBy(c), age |-> call[c].stamp]
    /\ agent' = [agent EXCEPT !.token = Outdated(@)]
    /\ monitor' = [monitor EXCEPT !.overtaken = @ \/ monitor.at = "marking"]
    /\ Answer(c, "ok")
    /\ UNCHANGED settled

SaveHeartbeat(c) ==
    /\ call[c].stage = "loaded"
    /\ call[c].kind # "register"
    /\ row' = [row EXCEPT !.status = Merge(call[c].old, SetBy(c)), !.age = call[c].stamp]
    /\ monitor' = [monitor EXCEPT !.overtaken = @ \/ monitor.at = "marking"]
    /\ Answer(c, "ok")
    /\ UNCHANGED <<agent, settled>>

\* The new token replaces the one in the row, whoever holds that.
SaveRegister(c) ==
    /\ call[c].stage = "loaded"
    /\ call[c].kind = "register"
    /\ call[c].old = "none" => row.status = "none"
    /\ row' = [status |-> Merge(call[c].old, "Online"), age |-> call[c].stamp]
    /\ agent' = [agent EXCEPT !.token = Outdated(@)]
    /\ call' = [d \in Calls |->
                    IF d # c THEN [call[d] EXCEPT !.token = Outdated(@)]
                    ELSE Result(c, "ok", "current")]
    /\ monitor' = [monitor EXCEPT !.overtaken = @ \/ monitor.at = "marking"]
    /\ UNCHANGED settled

\* A row that another registration has added meanwhile is a duplicate key.
InsertFails(c) ==
    /\ call[c].stage = "loaded"
    /\ call[c].kind = "register"
    /\ call[c].old = "none" /\ row.status # "none"
    /\ Answer(c, "refused")
    /\ UNCHANGED <<row, agent, monitor, settled>>

\* A call that is lost on its way, or cut off by a failure of the API.  If its
\* caller waits for it, that is GiveUp first; and an answer that is lost is a
\* caller who gave up before it.
LoseCall(c) ==
    /\ ~settled
    /\ call[c] # Idle
    /\ ~Awaited(c)
    /\ call' = [call EXCEPT ![c] = Idle]
    /\ UNCHANGED <<row, agent, monitor, settled>>

-----------------------------------------------------------------------------
(* AgentHealthMonitorService.CheckAgentHealth *)

\* Mutant: the comparison of LastSeenAt with the cutoff is turned round.
ScanFresh ==
    /\ monitor.at = "asleep"
    /\ row.status = "Online" /\ row.age < OfflineThreshold
    /\ monitor' = [Asleep EXCEPT !.at = "marking"]
    /\ UNCHANGED <<row, agent, call, settled>>

\* GetAll; a scan that finds nothing has no effect.
ScanAgents ==
    /\ monitor.at = "asleep"
    /\ row.status = "Online" /\ Silent(row.age)
    /\ monitor' = [Asleep EXCEPT !.at = "marking"]
    /\ UNCHANGED <<row, agent, call, settled>>

\* UpdateHeartbeat loads the row once more ...
LoadForOffline ==
    /\ monitor.at = "marking"
    /\ monitor' = [monitor EXCEPT !.at = "loaded", !.old = row.status]
    /\ UNCHANGED <<row, agent, call, settled>>

\* ... and saves Offline and the LastSeenAt of the scan over it.
SaveOffline ==
    /\ monitor.at = "loaded"
    /\ row' = [row EXCEPT !.status = Merge(monitor.old, "Offline"),
                          !.age = IF monitor.overtaken THEN OfflineThreshold + 1 ELSE @]
    /\ monitor' = Asleep
    /\ UNCHANGED <<agent, call, settled>>

\* Exceptions end the cycle, and so does a restart of the API.
AbandonCycle ==
    /\ ~settled
    /\ monitor.at # "asleep"
    /\ monitor' = Asleep
    /\ UNCHANGED <<row, agent, call, settled>>

-----------------------------------------------------------------------------

AgentStep == \E c \in Calls : SendRegister(c) \/ SendHeartbeat(c) \/ Proceed(c) \/ Refused(c)

Handle(c) ==
    \/ LoadForRegister(c)
    \/ CheckHeartbeat(c)
    \/ LoadForHeartbeat(c)
    \/ SaveHeartbeat(c)
    \/ SaveRegister(c)
    \/ InsertFails(c)

MonitorStep == ScanAgents \/ LoadForOffline \/ SaveOffline

Trouble ==
    \/ \E c \in Calls : SendOffline(c) \/ GiveUp(c) \/ LoseCall(c)
    \/ Kill
    \/ Start
    \/ AbandonCycle

Next ==
    \/ Tick
    \/ Settle
    \/ AgentStep
    \/ Stop
    \/ \E c \in Calls : Handle(c)
    \/ MonitorStep
    \/ Trouble

\* Time passes, and the loops of the agent, the API and the monitor go on.
Fairness ==
    /\ WF_vars(Tick)
    /\ WF_vars(AgentStep)
    /\ WF_vars(Stop)
    /\ \A c \in Calls : WF_vars(Handle(c))
    /\ WF_vars(MonitorStep)

Spec == Init /\ [][Next]_vars /\ Fairness

-----------------------------------------------------------------------------

\* Every variable keeps its type.
TypeOK ==
    /\ row \in [status : RowStatus, age : Age]
    /\ agent \in [at : {"registering", "beating", "dead"}, token : Token,
                  failures : 0..(ReconnectThreshold - 1),
                  waits : Calls \cup {NoCall}, goodbye : Calls \cup {NoCall}]
    /\ call \in [Calls -> [stage : Stages, kind : Kinds, token : Token,
                           stamp : Age, old : RowStatus]]
    /\ monitor \in [at : {"asleep", "marking", "loaded"},
                    overtaken : BOOLEAN, old : RowStatus]
    /\ settled \in BOOLEAN

Registered == agent.at = "beating" /\ agent.token = "current"

\* An agent that holds the token of its row loses it only to a registration
\* it had given up waiting for, or by registering again itself.
LosesTokenToLateRegistration ==
    [][Registered /\ agent'.token = "stale"
        => \E c \in Calls : ~Awaited(c) /\ call[c].kind = "register" /\ call[c].stage = "loaded"]_vars

LeftInPeace == settled /\ agent.at # "dead" /\ ~Stopping

\* With authentication off and the right join token: whatever was lost or came
\* late, an agent left in peace ends up with the token the API knows, and keeps
\* it.  A heartbeat refused often enough leads it back to registration, and late
\* registrations run out.
RegainsToken ==
    Authorized /\ JoinTokenAccepted => [](LeftInPeace => <>[]Registered)

\* Such an agent is Online again and again: what the monitor or a stale save
\* did to its status, a heartbeat mends.
ComesBackOnline ==
    Authorized /\ JoinTokenAccepted => [](LeftInPeace => []<>(row.status = "Online"))

\* What docs/agent_protocol.md says of agents: the join token is what an agent
\* authenticates with, and the token it is given signs its calls from then on.
\* Then an agent left in peace holds that token in the end, whatever the API asks
\* of other callers.
JoinTokenLetsIn ==
    JoinTokenAccepted => [](LeftInPeace => <>Registered)

\* An agent that is gone ends Offline for good, whether it said goodbye or
\* not and whatever calls of it are still under way.
GoneEndsOffline ==
    [](settled /\ (agent.at = "dead" \/ Stopping) => <>[](row.status # "Online"))
=============================================================================
