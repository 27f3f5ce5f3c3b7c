---------------------------- MODULE AgentTunnels ----------------------------
(***************************************************************************)
(* Tickets for one session on one agent, and the tunnels the agent opens.  *)
(*                                                                         *)
(* A ticket is issued for a session; StartSession trades it for the URL of *)
(* a tunnel.  A WebSocket reaches the agent through the proxy of the API,  *)
(* which looks at the session and sends no ticket, or directly from        *)
(* somebody who was given the URL, with a ticket or without.  The agent    *)
(* counts the tunnels it has open and refuses more than a maximum.         *)
(*                                                                         *)
(* A refusal that changes nothing (agent not online, unknown target) is a  *)
(* call that does not come.                                                *)
(***************************************************************************)
EXTENDS Naturals, FiniteSets

CONSTANTS
    Tickets,
    Starts,                 \* StartSession calls that can be under way at once
    Tunnels,                \* WebSocket requests that can be under way at once
    NoTicket,
    MaxParallelSessions,    \* AgentOptions
    VerifyTicket            \* AgentOptions

ASSUME TicketAssumption == NoTicket \notin Tickets
ASSUME TunnelAssumption == IsFiniteSet(Tunnels)
ASSUME OptionAssumption == MaxParallelSessions \in Nat /\ VerifyTicket \in BOOLEAN

VARIABLES
    session,    \* status of the session
    ticket,     \* the rows of IAgentTicketStore
    urls,       \* history: the tickets for which StartSession answered with a URL
    start,      \* StartSession calls under way
    cleaner,    \* the worker in CleanupExpiredTickets: what it listed, what it loaded
    tracker,    \* SessionTracker._activeCount
    tunnel      \* WebSocket requests at the agent

ticketVars == <<ticket, urls, start, cleaner>>
vars == <<session, ticket, urls, start, cleaner, tracker, tunnel>>

-----------------------------------------------------------------------------

\* A row is there from its issue until it is revoked; a call that has looked at
\* the session is about to issue one.
InStore == {k \in Tickets : ticket[k] \in {"valid", "expired"}}

NoStart == [at |-> "idle", ticket |-> NoTicket]
NoTunnel == [at |-> "none", ticket |-> NoTicket, peer |-> FALSE, quiet |-> FALSE, reading |-> FALSE]

Finished == [NoTunnel EXCEPT !.at = "ending"]

\* The places of a handler in its try block.
Counted == {"opening", "relaying", "closing", "ending"}

Init ==
    /\ session = "active"
    /\ ticket = [k \in Tickets |-> "none"]
    /\ urls = {}
    /\ start = [c \in Starts |-> NoStart]
    /\ cleaner = [listed |-> {}, loaded |-> NoTicket]
    /\ tracker = 0
    /\ tunnel = [t \in Tunnels |-> NoTunnel]

\* A user, the agent or the worker ends the session.  Nobody tells its tunnels.
TerminateSession ==
    /\ session = "active"
    /\ session' = "terminated"
    /\ UNCHANGED <<ticket, urls, start, cleaner, tracker, tunnel>>

-----------------------------------------------------------------------------
(* SessionsController.IssueTicket *)

CheckForIssue(k) ==
    /\ ticket[k] = "none"
    /\ session = "active"
    /\ ticket' = [ticket EXCEPT ![k] = "checked"]
    /\ UNCHANGED <<session, urls, start, cleaner, tracker, tunnel>>

Issue(k) ==
    /\ ticket[k] = "checked"
    /\ ticket' = [ticket EXCEPT ![k] = "valid"]
    /\ UNCHANGED <<session, urls, start, cleaner, tracker, tunnel>>

Expire(k) ==
    /\ ticket[k] = "valid"
    /\ ticket' = [ticket EXCEPT ![k] = "expired"]
    /\ UNCHANGED <<session, urls, start, cleaner, tracker, tunnel>>

-----------------------------------------------------------------------------
(* AgentsController.StartSession *)

ReadTicket(c, k) ==
    /\ start[c].at = "idle"
    /\ ticket[k] = "valid"
    /\ start' = [start EXCEPT ![c] = [at |-> "ticketRead", ticket |-> k]]
    /\ UNCHANGED <<session, ticket, urls, cleaner, tracker, tunnel>>

CheckSession(c) ==
    /\ start[c].at = "ticketRead"
    /\ start' = [start EXCEPT ![c] = IF session = "active" THEN [@ EXCEPT !.at = "checked"] ELSE NoStart]
    /\ UNCHANGED <<session, ticket, urls, cleaner, tracker, tunnel>>

\* Revoke, its first statement: a row that is gone already is nothing to it.
LoadToRevoke(c) ==
    /\ start[c].at = "checked"
    /\ start' = [start EXCEPT ![c].at = IF start[c].ticket \in InStore THEN "loaded" ELSE "revoked"]
    /\ UNCHANGED <<session, ticket, urls, cleaner, tracker, tunnel>>

\* Mutant: the ticket stays in the store.
KeepTicket(c) ==
    /\ start[c].at = "loaded"
    /\ start' = [start EXCEPT ![c].at = "revoked"]
    /\ UNCHANGED <<session, ticket, urls, cleaner, tracker, tunnel>>

\* Its second: to delete a row somebody else has deleted is an exception.
RemoveRow(c) ==
    LET k == start[c].ticket IN
    /\ start[c].at = "loaded"
    /\ IF k \in InStore
       THEN /\ ticket' = [ticket EXCEPT ![k] = "gone"]
            /\ start' = [start EXCEPT ![c].at = "revoked"]
       ELSE /\ start' = [start EXCEPT ![c] = NoStart]
            /\ UNCHANGED ticket
    /\ UNCHANGED <<session, urls, cleaner, tracker, tunnel>>

\* A URL, or a conflict because the agent or the target has no address: the
\* ticket is gone either way.
AnswerStart(c) ==
    /\ start[c].at = "revoked"
    /\ \/ urls' = urls \cup {start[c].ticket}
       \/ UNCHANGED urls
    /\ start' = [start EXCEPT ![c] = NoStart]
    /\ UNCHANGED <<session, ticket, cleaner, tracker, tunnel>>

-----------------------------------------------------------------------------
(* AccessRequestWorker.CleanupExpiredTickets *)

\* Mutant: the comparison with the clock is turned round.
ListValid ==
    /\ cleaner = [listed |-> {}, loaded |-> NoTicket]
    /\ \E k \in Tickets : ticket[k] = "valid"
    /\ cleaner' = [cleaner EXCEPT !.listed = {k \in Tickets : ticket[k] = "valid"}]
    /\ UNCHANGED <<session, ticket, urls, start, tracker, tunnel>>

ListExpired ==
    /\ cleaner = [listed |-> {}, loaded |-> NoTicket]
    /\ \E k \in Tickets : ticket[k] = "expired"
    /\ cleaner' = [cleaner EXCEPT !.listed = {k \in Tickets : ticket[k] = "expired"}]
    /\ UNCHANGED <<session, ticket, urls, start, tracker, tunnel>>

LoadExpired(k) ==
    /\ k \in cleaner.listed
    /\ cleaner.loaded = NoTicket
    /\ cleaner' = [listed |-> cleaner.listed \ {k},
                   loaded |-> IF k \in InStore THEN k ELSE NoTicket]
    /\ UNCHANGED <<session, ticket, urls, start, tracker, tunnel>>

\* When StartSession was faster the exception ends the worker's cycle, and what
\* it had listed is forgotten.
RemoveExpired ==
    LET k == cleaner.loaded IN
    /\ k # NoTicket
    /\ IF k \in InStore
       THEN /\ ticket' = [ticket EXCEPT ![k] = "gone"]
            /\ cleaner' = [cleaner EXCEPT !.loaded = NoTicket]
       ELSE /\ cleaner' = [listed |-> {}, loaded |-> NoTicket]
            /\ UNCHANGED ticket
    /\ UNCHANGED <<session, urls, start, tracker, tunnel>>

CleanTickets ==
    \/ ListExpired
    \/ \E k \in Tickets : LoadExpired(k)
    \/ RemoveExpired

-----------------------------------------------------------------------------
(* A WebSocket request, up to the agent *)

\* /ws/sessions of the API: the session is looked at, and then the agent dialled.
DialThroughProxy(t) ==
    /\ tunnel[t].at = "none"
    /\ session = "active"
    /\ tunnel' = [tunnel EXCEPT ![t] = [NoTunnel EXCEPT !.at = "dialling"]]
    /\ UNCHANGED <<session, ticketVars, tracker>>

Arrive(t) ==
    /\ tunnel[t].at = "dialling"
    /\ tunnel' = [tunnel EXCEPT ![t].at = "arrived"]
    /\ UNCHANGED <<session, ticketVars, tracker>>

\* Somebody with a URL of StartSession.
ConnectDirectly(t, k) ==
    /\ tunnel[t].at = "none"
    /\ urls # {}
    /\ tunnel' = [tunnel EXCEPT ![t] = [NoTunnel EXCEPT !.at = "arrived", !.ticket = k]]
    /\ UNCHANGED <<session, ticketVars, tracker>>

-----------------------------------------------------------------------------
(* /ws/agent/sessions of the agent *)

CheckCount(t) ==
    /\ tunnel[t].at = "arrived"
    /\ tunnel' = [tunnel EXCEPT ![t] =
           IF tracker >= MaxParallelSessions THEN NoTunnel
           ELSE [@ EXCEPT !.at = IF VerifyTicket /\ tunnel[t].ticket # NoTicket THEN "verifying" ELSE "admitted"]]
    /\ UNCHANGED <<session, ticketVars, tracker>>

\* AgentsController.VerifyTicket, which does not look at the session.  When the
\* API cannot be reached the tunnel is let through.
Verify(t) ==
    /\ tunnel[t].at = "verifying"
    /\ \E reached \in BOOLEAN :
           tunnel' = [tunnel EXCEPT ![t] =
               IF reached /\ ticket[@.ticket] # "valid" THEN NoTunnel
               ELSE [NoTunnel EXCEPT !.at = "admitted"]]
    /\ UNCHANGED <<session, ticketVars, tracker>>

\* Increment, then the try block.
BeginTunnel(t) ==
    /\ tunnel[t].at = "admitted"
    /\ tracker' = tracker + 1
    /\ tunnel' = [tunnel EXCEPT ![t].at = "opening"]
    /\ UNCHANGED <<session, ticketVars>>

\* The socket is accepted and the target connected, or one of them throws.
Establish(t) ==
    /\ tunnel[t].at = "opening"
    /\ tunnel' = [tunnel EXCEPT ![t] = [NoTunnel EXCEPT !.at = "relaying", !.peer = TRUE, !.reading = TRUE]]
    /\ UNCHANGED <<session, ticketVars, tracker>>

\* Mutant: the exception leaves the handler past its finally.
LeaveWithoutFinally(t) ==
    /\ tunnel[t].at = "opening"
    /\ tunnel' = [tunnel EXCEPT ![t] = NoTunnel]
    /\ UNCHANGED <<session, ticketVars, tracker>>

\* Mutant: the exception decrements the counter before the finally does.
FailAndDecrement(t) ==
    /\ tunnel[t].at = "opening"
    /\ tracker' = tracker - 1
    /\ tunnel' = [tunnel EXCEPT ![t] = Finished]
    /\ UNCHANGED <<session, ticketVars>>

FailToEstablish(t) ==
    /\ tunnel[t].at = "opening"
    /\ tunnel' = [tunnel EXCEPT ![t] = Finished]
    /\ UNCHANGED <<session, ticketVars, tracker>>

\* lastActivityTicks becomes older than the idle timeout, or new.
FallSilent(t) ==
    /\ tunnel[t].at \in {"relaying", "closing"}
    /\ ~tunnel[t].quiet
    /\ tunnel' = [tunnel EXCEPT ![t].quiet = TRUE]
    /\ UNCHANGED <<session, ticketVars, tracker>>

Transfer(t) ==
    /\ tunnel[t].at = "relaying"
    /\ tunnel[t].quiet /\ tunnel[t].peer
    /\ tunnel' = [tunnel EXCEPT ![t].quiet = FALSE]
    /\ UNCHANGED <<session, ticketVars, tracker>>

\* The loop wsToTcp leaves ReceiveAsync with data, and is in WriteAsync for as
\* long as the target does not take them.
WriteToTarget(t) ==
    /\ tunnel[t].at \in {"relaying", "closing"}
    /\ tunnel[t].reading /\ tunnel[t].peer
    /\ tunnel' = [tunnel EXCEPT ![t].reading = FALSE]
    /\ UNCHANGED <<session, ticketVars, tracker>>

\* It receives again; not when the socket is closing, where the loop ends.
ReceiveAgain(t) ==
    /\ tunnel[t].at = "relaying"
    /\ ~tunnel[t].reading
    /\ tunnel' = [tunnel EXCEPT ![t].reading = TRUE, ![t].quiet = FALSE]
    /\ UNCHANGED <<session, ticketVars, tracker>>

\* The client, or the proxy between it and the agent, goes away.
LosePeer(t) ==
    /\ tunnel[t].peer
    /\ tunnel' = [tunnel EXCEPT ![t].peer = FALSE]
    /\ UNCHANGED <<session, ticketVars, tracker>>

\* The target ends its side or a write to it fails: Task.WhenAny returns and
\* CloseAsync waits, with a token nobody cancels, for the peer to answer.
TargetEnds(t) ==
    /\ tunnel[t].at = "relaying"
    /\ tunnel' = [tunnel EXCEPT ![t].at = "closing"]
    /\ UNCHANGED <<session, ticketVars, tracker>>

\* The peer says Close, or answers one.
PeerCloses(t) ==
    /\ tunnel[t].peer
    /\ \/ tunnel[t].at = "relaying" /\ tunnel[t].reading
       \/ tunnel[t].at = "closing"
    /\ tunnel' = [tunnel EXCEPT ![t] = Finished]
    /\ UNCHANGED <<session, ticketVars, tracker>>

\* Whoever receives from a peer that is gone gets an exception.
NoticeLoss(t) ==
    /\ ~tunnel[t].peer
    /\ \/ tunnel[t].at = "relaying" /\ tunnel[t].reading
       \/ tunnel[t].at = "closing"
    /\ tunnel' = [tunnel EXCEPT ![t] = Finished]
    /\ UNCHANGED <<session, ticketVars, tracker>>

\* Mutant: the watcher is not there while the socket closes.
CancelRelayOnly(t) ==
    /\ tunnel[t].at = "relaying"
    /\ tunnel[t].quiet
    /\ \/ tunnel' = [tunnel EXCEPT ![t] = Finished]
       \/ /\ ~tunnel[t].reading
          /\ tunnel' = [tunnel EXCEPT ![t].at = "closing"]
    /\ UNCHANGED <<session, ticketVars, tracker>>

\* Mutant: WriteAsync does not get the token.
CancelReceivers(t) ==
    /\ tunnel[t].quiet /\ tunnel[t].reading
    /\ tunnel[t].at \in {"relaying", "closing"}
    /\ tunnel' = [tunnel EXCEPT ![t] = Finished]
    /\ UNCHANGED <<session, ticketVars, tracker>>

\* idleWatcher cancels, which aborts a socket that somebody receives from or
\* sends to under the token.  When the loop is in WriteAsync the socket may stay
\* open, and CloseAsync starts; while that waits there is nothing to cancel.
CancelIdle(t) ==
    /\ tunnel[t].quiet
    /\ \/ tunnel[t].at = "relaying"
       \/ tunnel[t].at = "closing" /\ tunnel[t].reading
    /\ \/ tunnel' = [tunnel EXCEPT ![t] = Finished]
       \/ /\ ~tunnel[t].reading
          /\ tunnel' = [tunnel EXCEPT ![t].at = "closing"]
    /\ UNCHANGED <<session, ticketVars, tracker>>

\* Decrement, in the finally block.
EndTunnel(t) ==
    /\ tunnel[t].at = "ending"
    /\ tracker' = tracker - 1
    /\ tunnel' = [tunnel EXCEPT ![t] = NoTunnel]
    /\ UNCHANGED <<session, ticketVars>>

\* The agent's process ends and is started again; a proxy goes on dialling.
RestartAgent ==
    /\ tracker' = 0
    /\ tunnel' = [t \in Tunnels |-> IF tunnel[t].at = "dialling" THEN tunnel[t] ELSE NoTunnel]
    /\ UNCHANGED <<session, ticketVars>>

-----------------------------------------------------------------------------

Handle(t) ==
    \/ Arrive(t) \/ CheckCount(t) \/ Verify(t) \/ BeginTunnel(t)
    \/ Establish(t) \/ FailToEstablish(t) \/ NoticeLoss(t) \/ EndTunnel(t)

Next ==
    \/ TerminateSession
    \/ \E k \in Tickets : CheckForIssue(k) \/ Issue(k) \/ Expire(k)
    \/ \E c \in Starts : \E k \in Tickets : ReadTicket(c, k)
    \/ \E c \in Starts : CheckSession(c) \/ LoadToRevoke(c) \/ RemoveRow(c) \/ AnswerStart(c)
    \/ CleanTickets
    \/ \E t \in Tunnels : \E k \in Tickets \cup {NoTicket} : ConnectDirectly(t, k)
    \/ \E t \in Tunnels :
           \/ DialThroughProxy(t) \/ Handle(t) \/ FallSilent(t) \/ Transfer(t)
           \/ WriteToTarget(t) \/ ReceiveAgain(t) \/ LosePeer(t) \/ TargetEnds(t)
           \/ PeerCloses(t) \/ CancelIdle(t)
    \/ RestartAgent

\* Handlers and the worker go on, time passes, and the watcher of a tunnel wakes
\* up.  Nobody has to answer a Close, to send anything or to go away.
Fairness ==
    /\ WF_vars(CleanTickets)
    /\ \A t \in Tunnels :
           /\ WF_vars(Handle(t))
           /\ WF_vars(FallSilent(t))
           /\ WF_vars(CancelIdle(t))

Spec == Init /\ [][Next]_vars /\ Fairness

-----------------------------------------------------------------------------

\* Every variable keeps its type.
TypeOK ==
    /\ session \in {"active", "terminated"}
    /\ ticket \in [Tickets -> {"none", "checked", "valid", "expired", "gone"}]
    /\ urls \subseteq Tickets
    /\ start \in [Starts -> [at : {"idle", "ticketRead", "checked", "loaded", "revoked"},
                             ticket : Tickets \cup {NoTicket}]]
    /\ \A c \in Starts : start[c].at # "idle" => start[c].ticket \in Tickets
    /\ cleaner \in [listed : SUBSET Tickets, loaded : Tickets \cup {NoTicket}]
    /\ tracker \in Nat
    /\ tunnel \in [Tunnels -> [at : {"none", "dialling", "arrived", "verifying", "admitted"} \cup Counted,
                               ticket : Tickets \cup {NoTicket},
                               peer : BOOLEAN, quiet : BOOLEAN, reading : BOOLEAN]]

\* The counter of the agent is the number of handlers between Increment and
\* Decrement, whatever throws and whenever the agent is started again: no tunnel
\* leaves it too high, which would end in an agent that refuses everybody.
CountIsTunnels == tracker = Cardinality({t \in Tunnels : tunnel[t].at \in Counted})

\* A ticket that is still in the store has opened nothing: of calls that read it
\* together several may get a URL, but none that comes after them.
StoredTicketsUnused == urls \cap InStore = {}

Traffic(t) == Transfer(t) \/ WriteToTarget(t) \/ ReceiveAgain(t)

\* CloseAsync with nobody receiving: there is nothing to cancel, and the peer may
\* take as long as it likes.
AtThePeersMercy(t) == tunnel[t].at = "closing" /\ ~tunnel[t].reading /\ tunnel[t].peer

\* A request whose socket carries nothing any more comes to its end, wherever it
\* was, connected peer or not, session revoked or not: the idle timeout finds a
\* receive or a write to cancel everywhere but in CloseAsync when the loop had
\* left ReceiveAsync before.  Nothing else ends the tunnel of a revoked session.
SilentTunnelsEnd ==
    \A t \in Tunnels :
        <>[][~Traffic(t)]_vars => []<>(tunnel[t].at = "none") \/ <>[]AtThePeersMercy(t)

\* A tunnel whose peer is gone ends and is no longer counted, also when its loop
\* was writing to a target that takes nothing.
AbandonedTunnelsEnd ==
    \A t \in Tunnels : tunnel[t].at \in {"relaying", "closing"} /\ ~tunnel[t].peer ~> tunnel[t].at = "none"

\* An expired ticket leaves the store, although StartSession may revoke it under
\* the worker's hands and so stop the worker.
ExpiredTicketsGo == \A k \in Tickets : ticket[k] = "expired" ~> ticket[k] = "gone"
=============================================================================
