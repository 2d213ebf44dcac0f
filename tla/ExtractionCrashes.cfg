\* Two different packages at a time, crashes, failures and foreign objects at
\* every step.
SPECIFICATION Spec
CONSTANTS
    r1 = r1
    r2 = r2
    r3 = r3
    a = a
    b = b
    x = x
    y = y
    MarkerName = marker
    Stranger = stranger
    Nobody = nobody
    Run = {r1, r2, r3}
    Path <- MCPath
    Directories <- MCDirectories
    Files <- MCFiles
    Found <- MCFound
    Plantable <- MCPlantable
    Erasable <- NoPath
CONSTRAINT TwoAtOnce
CHECK_DEADLOCK FALSE
INVARIANTS
    OneWriter
    MarkedOrReported
    DoneIsWhole
    LedgerIsExact
    NewestIsRemovable
    EarlyCodesWroteNothing
PROPERTIES
    OnlyOwnWork
    ImplementsExclusiveOutput
