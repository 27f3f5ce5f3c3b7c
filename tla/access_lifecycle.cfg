SPECIFICATION ObservedSpec
CONSTANTS
    u1 = u1
    Requests = {r1}
    Users <- OneUser
    Owner <- OwnedByOne
    Sessions = {s1}
    Calls = {c1, c2}
    NoRequest = NoRequest
    MaxActiveRequestsPerUser = 1
    Durations = {1}
    JiraEnabled = TRUE
    MaxTime = 2
INVARIANTS TypeOK GrantAccounted RevokedByNextCycle
PROPERTIES ImplementsJitAccess BuriedStaysBuried DueRequestsExpire DeadRequestsLoseSessions DueSessionsClose
