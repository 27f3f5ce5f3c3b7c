SPECIFICATION Spec
CONSTANTS
    BatchSize = 2
    MaxEvents = 4
INVARIANTS TypeOK SkippedAtMostForgone
PROPERTY ExportedUnlessForgone
