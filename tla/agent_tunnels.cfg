SPECIFICATION Spec
CONSTANTS
    Tickets = {k1}
    Starts = {a1, a2}
    Tunnels = {t1, t2}
    NoTicket = NoTicket
    MaxParallelSessions = 1
    VerifyTicket = TRUE
INVARIANTS TypeOK CountIsTunnels StoredTicketsUnused
PROPERTIES SilentTunnelsEnd AbandonedTunnelsEnd ExpiredTicketsGo
