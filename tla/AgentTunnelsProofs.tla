------------------------- MODULE AgentTunnelsProofs -------------------------
(***************************************************************************)
(* Theorems of AgentTunnels, for any number of tickets, of calls and of    *)
(* tunnels, and for any options of the agent.                              *)
(***************************************************************************)
EXTENDS AgentTunnels, FiniteSetTheorems, TLAPS

Places == {"none", "dialling", "arrived", "verifying", "admitted"} \cup Counted
TunnelType == [at : Places, ticket : Tickets \cup {NoTicket},
               peer : BOOLEAN, quiet : BOOLEAN, reading : BOOLEAN]
StartType == [at : {"idle", "ticketRead", "checked", "loaded", "revoked"}, ticket : Tickets \cup {NoTicket}]

\* The handlers between Increment and Decrement.
Live == {t \in Tunnels : tunnel[t].at \in Counted}

\* A ticket a call has read was issued, and is no longer stored once the call is
\* past Revoke; no more is one that was traded for a URL.
TradedAreGone ==
    /\ \A c \in Starts : start[c].at # "idle" => ticket[start[c].ticket] \in {"valid", "expired", "gone"}
    /\ \A c \in Starts : start[c].at = "revoked" => ticket[start[c].ticket] = "gone"
    /\ \A k \in urls : ticket[k] = "gone"

TunnelInv == TypeOK /\ CountIsTunnels

-----------------------------------------------------------------------------
(* Tunnels and their count *)

\* One tunnel moves, and the counter of SessionTracker moves with it.
TunnelMoves(t) ==
    /\ UNCHANGED <<session, ticketVars>>
    /\ \E r \in TunnelType :
        /\ tunnel' = [tunnel EXCEPT ![t] = r]
        /\ \/ (r.at \in Counted <=> tunnel[t].at \in Counted) /\ tracker' = tracker
           \/ r.at \in Counted /\ tunnel[t].at \notin Counted /\ tracker' = tracker + 1
           \/ r.at \notin Counted /\ tunnel[t].at \in Counted /\ tracker' = tracker - 1

LEMMA LiveIsFinite == IsFiniteSet(Live) /\ Cardinality(Live) \in Nat
  <1>1. Live \subseteq Tunnels
    BY DEF Live
  <1>2. IsFiniteSet(Live)
    BY <1>1, TunnelAssumption, FS_Subset
  <1> QED
    BY <1>2, FS_CardinalityType

\* The counter follows the number of handlers.
LEMMA MovesKeepCount ==
    ASSUME TunnelInv, NEW t \in Tunnels, TunnelMoves(t)
    PROVE  /\ tunnel' \in [Tunnels -> TunnelType]
           /\ tracker' \in Nat
           /\ CountIsTunnels'
  <1>1. PICK r \in TunnelType :
            /\ tunnel' = [tunnel EXCEPT ![t] = r]
            /\ \/ (r.at \in Counted <=> tunnel[t].at \in Counted) /\ tracker' = tracker
               \/ r.at \in Counted /\ tunnel[t].at \notin Counted /\ tracker' = tracker + 1
               \/ r.at \notin Counted /\ tunnel[t].at \in Counted /\ tracker' = tracker - 1
    BY DEF TunnelMoves
  <1>2. tunnel \in [Tunnels -> TunnelType] /\ tracker \in Nat /\ tracker = Cardinality(Live)
    BY DEF TunnelInv, TypeOK, CountIsTunnels, TunnelType, Places, Live
  <1>3. tunnel' \in [Tunnels -> TunnelType]
    BY <1>1, <1>2
  <1>4. CountIsTunnels' <=> tracker' = Cardinality(Live')
    BY DEF CountIsTunnels, Live
  <1>5. \A s \in Tunnels : tunnel'[s] = IF s = t THEN r ELSE tunnel[s]
    BY <1>1, <1>2
  <1>6. CASE (r.at \in Counted <=> tunnel[t].at \in Counted) /\ tracker' = tracker
    <2>1. Live' = Live
      BY <1>5, <1>6 DEF Live
    <2> QED
      BY <1>2, <1>3, <1>4, <1>6, <2>1
  <1>7. CASE r.at \in Counted /\ tunnel[t].at \notin Counted /\ tracker' = tracker + 1
    <2>1. Live' = Live \cup {t} /\ t \notin Live
      BY <1>5, <1>7 DEF Live
    <2>2. Cardinality(Live \cup {t}) = Cardinality(Live) + 1
      BY <2>1, LiveIsFinite, FS_AddElement
    <2> QED
      BY <1>2, <1>3, <1>4, <1>7, <2>1, <2>2
  <1>8. CASE r.at \notin Counted /\ tunnel[t].at \in Counted /\ tracker' = tracker - 1
    <2>1. Live' = Live \ {t} /\ t \in Live
      BY <1>5, <1>8 DEF Live
    <2>2. Cardinality(Live \ {t}) = Cardinality(Live) - 1
      BY <2>1, LiveIsFinite, FS_RemoveElement
    <2>3. Cardinality(Live) # 0
      BY <2>1, LiveIsFinite, FS_EmptySet
    <2>4. tracker - 1 \in Nat
      BY <1>2, <2>3
    <2> QED
      BY <1>2, <1>3, <1>4, <1>8, <2>1, <2>2, <2>4
  <1> QED
    BY <1>1, <1>6, <1>7, <1>8

\* Every step of a handler moves its tunnel in that way.
LEMMA HandlersMove ==
    ASSUME TunnelInv, NEW t \in Tunnels,
           \/ DialThroughProxy(t) \/ Handle(t) \/ FallSilent(t) \/ Transfer(t)
           \/ WriteToTarget(t) \/ ReceiveAgain(t) \/ LosePeer(t) \/ TargetEnds(t)
           \/ PeerCloses(t) \/ CancelIdle(t)
           \/ \E k \in Tickets \cup {NoTicket} : ConnectDirectly(t, k)
    PROVE  TunnelMoves(t)
  <1>0. tunnel[t] \in TunnelType /\ tunnel \in [Tunnels -> TunnelType]
    BY DEF TunnelInv, TypeOK, TunnelType, Places
  <1>1. \A p \in Places : [NoTunnel EXCEPT !.at = p] \in TunnelType /\ [NoTunnel EXCEPT !.at = p].at = p
    BY DEF NoTunnel, TunnelType, Places
  <1>2. \A p \in Places : [tunnel[t] EXCEPT !.at = p] \in TunnelType /\ [tunnel[t] EXCEPT !.at = p].at = p
    BY <1>0 DEF TunnelType
  <1>3. NoTunnel \in TunnelType /\ NoTunnel.at = "none"
    BY DEF NoTunnel, TunnelType, Places
  <1>4. Finished \in TunnelType /\ Finished.at = "ending"
    BY <1>1 DEF Finished, Places, Counted
  <1>5. CASE DialThroughProxy(t)
    BY <1>1, <1>5 DEF DialThroughProxy, TunnelMoves, Places, Counted
  <1>6. CASE \E k \in Tickets \cup {NoTicket} : ConnectDirectly(t, k)
    <2>1. PICK k \in Tickets \cup {NoTicket} : ConnectDirectly(t, k)
      BY <1>6
    <2>2. /\ [NoTunnel EXCEPT !.at = "arrived", !.ticket = k] \in TunnelType
          /\ [NoTunnel EXCEPT !.at = "arrived", !.ticket = k].at = "arrived"
      BY DEF NoTunnel, TunnelType, Places
    <2> QED
      BY <2>1, <2>2 DEF ConnectDirectly, TunnelMoves, Counted
  <1>7. CASE FallSilent(t) \/ Transfer(t) \/ WriteToTarget(t) \/ ReceiveAgain(t) \/ LosePeer(t)
    <2>1. \A b \in BOOLEAN :
              /\ [tunnel[t] EXCEPT !.quiet = b] \in TunnelType
              /\ [tunnel[t] EXCEPT !.peer = b] \in TunnelType
              /\ [tunnel[t] EXCEPT !.reading = b] \in TunnelType
              /\ [tunnel[t] EXCEPT !.reading = b, !.quiet = FALSE] \in TunnelType
              /\ [tunnel[t] EXCEPT !.quiet = b].at = tunnel[t].at
              /\ [tunnel[t] EXCEPT !.peer = b].at = tunnel[t].at
              /\ [tunnel[t] EXCEPT !.reading = b].at = tunnel[t].at
              /\ [tunnel[t] EXCEPT !.reading = b, !.quiet = FALSE].at = tunnel[t].at
      BY <1>0 DEF TunnelType
    <2>2. CASE FallSilent(t)
      BY <2>1, <2>2 DEF FallSilent, TunnelMoves
    <2>3. CASE Transfer(t)
      BY <2>1, <2>3 DEF Transfer, TunnelMoves
    <2>4. CASE WriteToTarget(t)
      BY <2>1, <2>4 DEF WriteToTarget, TunnelMoves
    <2>5. CASE ReceiveAgain(t)
      BY <2>1, <2>5 DEF ReceiveAgain, TunnelMoves
    <2>6. CASE LosePeer(t)
      BY <2>1, <2>6 DEF LosePeer, TunnelMoves
    <2> QED
      BY <1>7, <2>2, <2>3, <2>4, <2>5, <2>6
  <1>8. CASE TargetEnds(t)
    BY <1>2, <1>8 DEF TargetEnds, TunnelMoves, Places, Counted
  <1>9. CASE PeerCloses(t)
    BY <1>4, <1>9 DEF PeerCloses, TunnelMoves, Counted
  <1>10. CASE CancelIdle(t)
    BY <1>2, <1>4, <1>10 DEF CancelIdle, TunnelMoves, Places, Counted
  <1>11. CASE Handle(t)
    <2>1. CASE Arrive(t)
      BY <1>2, <2>1 DEF Arrive, TunnelMoves, Places, Counted
    <2>2. CASE CheckCount(t)
      <3>1. CASE tracker >= MaxParallelSessions
        BY <1>3, <2>2, <3>1 DEF CheckCount, TunnelMoves, Counted
      <3>2. CASE ~ (tracker >= MaxParallelSessions)
        BY <1>2, <2>2, <3>2 DEF CheckCount, TunnelMoves, Places, Counted
      <3> QED
        BY <3>1, <3>2
    <2>3. CASE Verify(t)
      <3>1. /\ tunnel[t].at = "verifying"
            /\ UNCHANGED <<session, ticketVars, tracker>>
            /\ \/ tunnel' = [tunnel EXCEPT ![t] = NoTunnel]
               \/ tunnel' = [tunnel EXCEPT ![t] = [NoTunnel EXCEPT !.at = "admitted"]]
        BY <2>3 DEF Verify
      <3>2. /\ [NoTunnel EXCEPT !.at = "admitted"] \in TunnelType
            /\ [NoTunnel EXCEPT !.at = "admitted"].at \notin Counted
            /\ NoTunnel.at \notin Counted
            /\ tunnel[t].at \notin Counted
        BY <1>1, <1>3, <3>1 DEF Places, Counted
      <3>3. \E r \in {NoTunnel, [NoTunnel EXCEPT !.at = "admitted"]} : tunnel' = [tunnel EXCEPT ![t] = r]
        BY <3>1
      <3> QED
        BY <1>3, <3>1, <3>2, <3>3 DEF TunnelMoves
    <2>4. CASE BeginTunnel(t)
      BY <1>2, <2>4 DEF BeginTunnel, TunnelMoves, Places, Counted
    <2>5. CASE Establish(t)
      <3>1. /\ [NoTunnel EXCEPT !.at = "relaying", !.peer = TRUE, !.reading = TRUE] \in TunnelType
            /\ [NoTunnel EXCEPT !.at = "relaying", !.peer = TRUE, !.reading = TRUE].at = "relaying"
        BY DEF NoTunnel, TunnelType, Places, Counted
      <3> QED
        BY <2>5, <3>1 DEF Establish, TunnelMoves, Counted
    <2>6. CASE FailToEstablish(t)
      BY <1>4, <2>6 DEF FailToEstablish, TunnelMoves, Counted
    <2>7. CASE NoticeLoss(t)
      BY <1>4, <2>7 DEF NoticeLoss, TunnelMoves, Counted
    <2>8. CASE EndTunnel(t)
      BY <1>3, <2>8 DEF EndTunnel, TunnelMoves, Counted
    <2> QED
      BY <1>11, <2>1, <2>2, <2>3, <2>4, <2>5, <2>6, <2>7, <2>8 DEF Handle
  <1> QED
    BY <1>5, <1>6, <1>7, <1>8, <1>9, <1>10, <1>11
-----------------------------------------------------------------------------
(* Types and the count *)

\* The steps that leave the tunnels and the counter of the agent alone.
TicketStep ==
    \/ TerminateSession
    \/ \E k \in Tickets : CheckForIssue(k) \/ Issue(k) \/ Expire(k)
    \/ \E c \in Starts : \E k \in Tickets : ReadTicket(c, k)
    \/ \E c \in Starts : CheckSession(c) \/ LoadToRevoke(c) \/ RemoveRow(c) \/ AnswerStart(c)
    \/ CleanTickets

TunnelStep(t) ==
    \/ DialThroughProxy(t) \/ Handle(t) \/ FallSilent(t) \/ Transfer(t)
    \/ WriteToTarget(t) \/ ReceiveAgain(t) \/ LosePeer(t) \/ TargetEnds(t)
    \/ PeerCloses(t) \/ CancelIdle(t)
    \/ \E k \in Tickets \cup {NoTicket} : ConnectDirectly(t, k)

LEMMA StepsAre ==
    ASSUME Next
    PROVE  TicketStep \/ (\E t \in Tunnels : TunnelStep(t)) \/ RestartAgent
  BY DEF Next, TicketStep, TunnelStep

\* What TypeOK says of tickets.
TicketTypes ==
    /\ session \in {"active", "terminated"}
    /\ ticket \in [Tickets -> {"none", "checked", "valid", "expired", "gone"}]
    /\ urls \subseteq Tickets
    /\ start \in [Starts -> StartType]
    /\ \A c \in Starts : start[c].at # "idle" => start[c].ticket \in Tickets
    /\ cleaner \in [listed : SUBSET Tickets, loaded : Tickets \cup {NoTicket}]

TunnelTypes == tunnel \in [Tunnels -> TunnelType] /\ tracker \in Nat

LEMMA TypesAre == TypeOK <=> TicketTypes /\ TunnelTypes
  BY DEF TypeOK, TicketTypes, TunnelTypes, StartType, TunnelType, Places

LEMMA InitTunnels == Init => TunnelInv
  <1> SUFFICES ASSUME Init PROVE TunnelInv
    OBVIOUS
  <1>1. TicketTypes
    BY DEF Init, TicketTypes, StartType, NoStart
  <1>2. NoTunnel \in TunnelType
    BY DEF NoTunnel, TunnelType, Places
  <1>3. TunnelTypes
    BY <1>2 DEF Init, TunnelTypes
  <1>4. {t \in Tunnels : tunnel[t].at \in Counted} = {}
    BY DEF Init, NoTunnel, Counted
  <1> QED
    BY <1>1, <1>3, <1>4, TypesAre, FS_EmptySet DEF TunnelInv, CountIsTunnels, Init

\* The handlers of tickets and the worker keep their types.
LEMMA TicketStepTypes ==
    ASSUME TypeOK, TicketStep
    PROVE  TicketTypes'
  <1>0. TicketTypes
    BY TypesAre
  <1>1. NoStart \in StartType /\ NoStart.at = "idle"
    BY DEF NoStart, StartType
  <1>2. CASE TerminateSession
    BY <1>0, <1>2 DEF TerminateSession, TicketTypes
  <1>3. CASE \E k \in Tickets : CheckForIssue(k) \/ Issue(k) \/ Expire(k)
    BY <1>0, <1>3 DEF CheckForIssue, Issue, Expire, TicketTypes
  <1>4. CASE \E c \in Starts : \E k \in Tickets : ReadTicket(c, k)
    <2>1. PICK c \in Starts, k \in Tickets : ReadTicket(c, k)
      BY <1>4
    <2>2. [at |-> "ticketRead", ticket |-> k] \in StartType
      BY DEF StartType
    <2> QED
      BY <1>0, <2>1, <2>2 DEF ReadTicket, TicketTypes
  <1>5. CASE \E c \in Starts : CheckSession(c) \/ LoadToRevoke(c) \/ RemoveRow(c) \/ AnswerStart(c)
    <2>1. PICK c \in Starts : CheckSession(c) \/ LoadToRevoke(c) \/ RemoveRow(c) \/ AnswerStart(c)
      BY <1>5
    <2>2. start[c] \in StartType /\ start[c].at # "idle" /\ start[c].ticket \in Tickets
      BY <1>0, <2>1 DEF TicketTypes, CheckSession, LoadToRevoke, RemoveRow, AnswerStart
    <2>3. \A p \in {"checked", "loaded", "revoked"} :
              /\ [start[c] EXCEPT !.at = p] \in StartType
              /\ [start[c] EXCEPT !.at = p].ticket \in Tickets
      BY <2>2 DEF StartType
    <2>4. CASE CheckSession(c)
      BY <1>0, <1>1, <2>3, <2>4 DEF CheckSession, TicketTypes
    <2>5. CASE LoadToRevoke(c)
      BY <1>0, <2>3, <2>5 DEF LoadToRevoke, TicketTypes
    <2>6. CASE RemoveRow(c)
      <3>1. CASE start[c].ticket \in InStore
        <4>1. /\ ticket' = [ticket EXCEPT ![start[c].ticket] = "gone"]
              /\ start' = [start EXCEPT ![c].at = "revoked"]
              /\ UNCHANGED <<session, urls, cleaner>>
          BY <2>6, <3>1 DEF RemoveRow
        <4> QED
          BY <1>0, <2>3, <4>1 DEF TicketTypes
      <3>2. CASE start[c].ticket \notin InStore
        <4>1. start' = [start EXCEPT ![c] = NoStart] /\ UNCHANGED <<ticket, session, urls, cleaner>>
          BY <2>6, <3>2 DEF RemoveRow
        <4> QED
          BY <1>0, <1>1, <4>1 DEF TicketTypes
      <3> QED
        BY <3>1, <3>2
    <2>7. CASE AnswerStart(c)
      BY <1>0, <1>1, <2>2, <2>7 DEF AnswerStart, TicketTypes
    <2> QED
      BY <2>1, <2>4, <2>5, <2>6, <2>7
  <1>6. CASE CleanTickets
    <2>1. CASE ListExpired
      BY <1>0, <2>1 DEF ListExpired, TicketTypes
    <2>2. CASE \E k \in Tickets : LoadExpired(k)
      BY <1>0, <2>2 DEF LoadExpired, TicketTypes
    <2>3. CASE RemoveExpired
      BY <1>0, <2>3 DEF RemoveExpired, TicketTypes
    <2> QED
      BY <1>6, <2>1, <2>2, <2>3 DEF CleanTickets
  <1> QED
    BY <1>2, <1>3, <1>4, <1>5, <1>6 DEF TicketStep

LEMMA TicketStepLeavesTunnels == TicketStep => UNCHANGED <<tracker, tunnel>>
  BY DEF TicketStep, TerminateSession, CheckForIssue, Issue, Expire, ReadTicket, CheckSession,
         LoadToRevoke, RemoveRow, AnswerStart, CleanTickets, ListExpired, LoadExpired, RemoveExpired

\* A restart leaves no handler of the agent, and a counter of 0.
LEMMA RestartKeepsCount ==
    ASSUME TypeOK, RestartAgent
    PROVE  TunnelTypes' /\ CountIsTunnels'
  <1>1. NoTunnel \in TunnelType /\ NoTunnel.at \notin Counted
    BY DEF NoTunnel, TunnelType, Places, Counted
  <1>2. TunnelTypes'
    BY <1>1, TypesAre DEF RestartAgent, TunnelTypes
  <1>3. \A t \in Tunnels : tunnel'[t].at \notin Counted
    BY <1>1 DEF RestartAgent, Counted
  <1>4. {t \in Tunnels : tunnel'[t].at \in Counted} = {}
    BY <1>3
  <1> QED
    BY <1>2, <1>4, FS_EmptySet DEF RestartAgent, CountIsTunnels

LEMMA NextKeepsTunnelInv == TunnelInv /\ [Next]_vars => TunnelInv'
  <1> SUFFICES ASSUME TunnelInv, [Next]_vars PROVE TunnelInv'
    OBVIOUS
  <1>0. TypeOK /\ TicketTypes /\ TunnelTypes /\ CountIsTunnels
    BY TypesAre DEF TunnelInv
  <1>1. TypeOK' <=> TicketTypes' /\ TunnelTypes'
    BY DEF TypeOK, TicketTypes, TunnelTypes, StartType, TunnelType, Places
  <1>2. CASE TicketStep
    <2>1. TunnelTypes' /\ CountIsTunnels'
      BY <1>0, <1>2, TicketStepLeavesTunnels DEF TunnelTypes, CountIsTunnels
    <2> QED
      BY <1>0, <1>1, <1>2, <2>1, TicketStepTypes DEF TunnelInv
  <1>3. CASE \E t \in Tunnels : TunnelStep(t)
    <2>1. PICK t \in Tunnels : TunnelStep(t)
      BY <1>3
    <2>2. TunnelMoves(t)
      BY <2>1, HandlersMove DEF TunnelStep
    <2>3. TicketTypes'
      BY <1>0, <2>2 DEF TunnelMoves, TicketTypes, ticketVars
    <2> QED
      BY <1>1, <2>2, <2>3, MovesKeepCount DEF TunnelInv, TunnelTypes
  <1>4. CASE RestartAgent
    <2>1. TicketTypes'
      BY <1>0, <1>4 DEF RestartAgent, TicketTypes, ticketVars
    <2> QED
      BY <1>0, <1>1, <1>4, <2>1, RestartKeepsCount DEF TunnelInv
  <1>5. CASE UNCHANGED vars
    BY <1>0, <1>1, <1>5 DEF TunnelInv, TicketTypes, TunnelTypes, CountIsTunnels, vars
  <1> QED
    BY <1>2, <1>3, <1>4, <1>5, StepsAre

LEMMA TunnelInvHolds == Spec => []TunnelInv
  BY InitTunnels, NextKeepsTunnelInv, PTL DEF Spec

\* AgentTunnels keeps its types: in particular the counter of SessionTracker
\* never goes below 0.
THEOREM TunnelTypeCorrect == Spec => []TypeOK
  <1>1. TunnelInv => TypeOK
    BY DEF TunnelInv
  <1> QED
    BY <1>1, TunnelInvHolds, PTL

\* The counter of the agent is the number of its open tunnels, through every
\* exception and restart.
THEOREM CountIsRight == Spec => []CountIsTunnels
  <1>1. TunnelInv => CountIsTunnels
    BY DEF TunnelInv
  <1> QED
    BY <1>1, TunnelInvHolds, PTL

-----------------------------------------------------------------------------
(* Tickets *)

LEMMA InitTraded == Init => TradedAreGone
  BY DEF Init, TradedAreGone, NoStart

\* No step brings a ticket back that has gone, and none takes one away that a
\* call has read but by Revoke.
LEMMA NextKeepsTraded == TypeOK /\ TradedAreGone /\ [Next]_vars => TradedAreGone'
  <1> SUFFICES ASSUME TypeOK, TradedAreGone, [Next]_vars PROVE TradedAreGone'
    OBVIOUS
  <1>0. TicketTypes
    BY TypesAre
  <1>1. CASE UNCHANGED ticketVars
    BY <1>1 DEF TradedAreGone, ticketVars
  <1>2. CASE \E k \in Tickets : CheckForIssue(k) \/ Issue(k) \/ Expire(k)
    BY <1>0, <1>2 DEF CheckForIssue, Issue, Expire, TradedAreGone, TicketTypes
  <1>3. CASE \E c \in Starts : \E k \in Tickets : ReadTicket(c, k)
    BY <1>0, <1>3 DEF ReadTicket, TradedAreGone, TicketTypes
  <1>4. CASE \E c \in Starts : CheckSession(c) \/ LoadToRevoke(c) \/ RemoveRow(c) \/ AnswerStart(c)
    <2>1. PICK c \in Starts : CheckSession(c) \/ LoadToRevoke(c) \/ RemoveRow(c) \/ AnswerStart(c)
      BY <1>4
    <2>2. /\ start[c].ticket \in Tickets
          /\ ticket[start[c].ticket] \in {"valid", "expired", "gone"}
          /\ \A p \in {"checked", "loaded", "revoked"} :
                 [start[c] EXCEPT !.at = p].ticket = start[c].ticket /\ [start[c] EXCEPT !.at = p].at = p
      BY <1>0, <2>1 DEF TicketTypes, StartType, TradedAreGone, CheckSession, LoadToRevoke, RemoveRow, AnswerStart
    <2>3. NoStart.at = "idle"
      BY DEF NoStart
    <2>4. CASE CheckSession(c)
      BY <1>0, <2>2, <2>3, <2>4 DEF CheckSession, TradedAreGone, TicketTypes
    <2>5. CASE LoadToRevoke(c)
      BY <1>0, <2>2, <2>5 DEF LoadToRevoke, TradedAreGone, TicketTypes, InStore
    <2>6. CASE RemoveRow(c)
      <3>1. CASE start[c].ticket \in InStore
        <4>1. /\ ticket' = [ticket EXCEPT ![start[c].ticket] = "gone"]
              /\ start' = [start EXCEPT ![c].at = "revoked"]
              /\ UNCHANGED <<session, urls, cleaner>>
          BY <2>6, <3>1 DEF RemoveRow
        <4> QED
          BY <1>0, <2>2, <4>1 DEF TradedAreGone, TicketTypes
      <3>2. CASE start[c].ticket \notin InStore
        <4>1. start' = [start EXCEPT ![c] = NoStart] /\ UNCHANGED <<ticket, session, urls, cleaner>>
          BY <2>6, <3>2 DEF RemoveRow
        <4> QED
          BY <1>0, <2>3, <4>1 DEF TradedAreGone, TicketTypes
      <3> QED
        BY <3>1, <3>2
    <2>7. CASE AnswerStart(c)
      BY <1>0, <2>2, <2>3, <2>7 DEF AnswerStart, TradedAreGone, TicketTypes
    <2> QED
      BY <2>1, <2>4, <2>5, <2>6, <2>7
  <1>5. CASE CleanTickets
    <2>1. CASE ListExpired \/ \E k \in Tickets : LoadExpired(k)
      BY <2>1 DEF ListExpired, LoadExpired, TradedAreGone
    <2>2. CASE RemoveExpired
      BY <1>0, <2>2 DEF RemoveExpired, TradedAreGone, TicketTypes, InStore
    <2> QED
      BY <1>5, <2>1, <2>2 DEF CleanTickets
  <1>6. TerminateSession => UNCHANGED ticketVars
    BY DEF TerminateSession, ticketVars
  <1>7. RestartAgent => UNCHANGED ticketVars
    BY DEF RestartAgent
  <1>8. ASSUME NEW t \in Tunnels, TunnelStep(t) PROVE UNCHANGED ticketVars
    BY <1>8 DEF TunnelStep, Handle, DialThroughProxy, FallSilent, Transfer, WriteToTarget, ReceiveAgain,
                LosePeer, TargetEnds, PeerCloses, CancelIdle, ConnectDirectly, Arrive, CheckCount, Verify,
                BeginTunnel, Establish, FailToEstablish, NoticeLoss, EndTunnel
  <1>9. UNCHANGED vars => UNCHANGED ticketVars
    BY DEF vars, ticketVars
  <1> QED
    BY <1>1, <1>2, <1>3, <1>4, <1>5, <1>6, <1>7, <1>8, <1>9, StepsAre DEF TicketStep

\* A ticket that is still in the store has opened nothing.
THEOREM StoredAreUnused == Spec => []StoredTicketsUnused
  <1>1. TradedAreGone => StoredTicketsUnused
    BY DEF TradedAreGone, StoredTicketsUnused, InStore
  <1>2. Spec => []TradedAreGone
    BY InitTraded, NextKeepsTraded, TunnelTypeCorrect, PTL DEF Spec
  <1> QED
    BY <1>1, <1>2, PTL
=============================================================================
