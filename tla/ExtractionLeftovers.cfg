\* What an undo pass that cannot remove a file leaves in the destination.
SPECIFICATION Spec
CONSTANTS
    r1 = r1
    r2 = r2
    r3 = r3
    a = a
    b = b
    x = x
    y = y
    MarkerName = marker
    Stranger = stranger
    Run = {r1, r2}
    Path <- MCPath
    Directories <- MCDirectories
    Files <- MCFiles
    Found <- OnlyEmpty
    Plantable <- NoPath
    Erasable <- NoPath
CHECK_DEADLOCK FALSE
INVARIANTS
    PartialOutputIsMarked
