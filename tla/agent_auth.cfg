SPECIFICATION Spec
CONSTANTS
    Calls = {c1, c2}
    NoCall = NoCall
    OfflineThreshold = 0
    ReconnectThreshold = 2
    RequireAgentToken = TRUE
    JoinTokenAccepted = TRUE
    AuthEnabled = TRUE
PROPERTY JoinTokenLetsIn
