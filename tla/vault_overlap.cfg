SPECIFICATION Spec
CONSTANTS
    Credentials = {c1}
    BreakGlass = {}
    Sessions = {s1}
    Person = Person
    NoCredential = NoCredential
    Calls = {h1, h2}
    MaxCheckouts = 2
    MaxRotations = 1
CHECK_DEADLOCK FALSE
INVARIANT HandedOutOnce
