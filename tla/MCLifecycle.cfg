CONSTANTS
    b1 = b1
    b2 = b2
    v1 = v1
    v2 = v2
    Backend = {b1, b2}
    Answers = {b1}
    Version = {v1, v2}
    MaxConcurrent = 1
    None = None
    MaxSignals = 2
    MaxRestarts = 1
SPECIFICATION FairSpec
INVARIANTS
    WritersDone
    ReloadAllOrNothing
PROPERTIES
    TermStops
    VerdictsHeal
CHECK_DEADLOCK FALSE
