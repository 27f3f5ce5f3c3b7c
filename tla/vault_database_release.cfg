SPECIFICATION Spec
CONSTANTS
    Credentials = {c1}
    BreakGlass = {}
    Sessions = {s1}
    Person = Person
    NoCredential = NoCredential
    Calls = {h1}
    MaxCheckouts = 2
    MaxRotations = 2
CHECK_DEADLOCK FALSE
INVARIANT TerminateReleases
