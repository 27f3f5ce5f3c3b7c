SPECIFICATION Spec
CONSTANTS
    Credentials = {c1, c2}
    BreakGlass = {c2}
    Sessions = {s1, s2}
    Person = Person
    NoCredential = NoCredential
    Calls = {h1, h2}
    MaxCheckouts = 2
    MaxRotations = 1
CHECK_DEADLOCK FALSE
SYMMETRY Symmetry
CONSTRAINT SomethingToCheck
INVARIANTS TypeOK OneHolder StatusMatchesCheckouts PasswordInHandWorks TerminateReleasesInMemory
