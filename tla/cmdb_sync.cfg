SPECIFICATION FairSpec
CONSTANTS
    Objects = {o1, o2}
    Values = {v1, v2}
    Absent = Absent
    DeltaSyncEnabled = TRUE
    FullSyncEveryNth = 3
INVARIANT NothingForgotten
PROPERTY CopyConverges
