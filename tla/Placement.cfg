\* Two runs, two paths, one foreign file, failures, crashes and other programs.
SPECIFICATION Spec
CONSTANTS
    p1 = p1
    Process = {r1, r2}
    Foreign = {f1}
    Path = {p1, p2}
    Erasable = {p1}
    Nobody = Nobody
    Request = Request
    Stdin = Stdin
    Stdout = Stdout
    Command <- MCCommand
SYMMETRY Commutes
\* Every run ends.
CHECK_DEADLOCK FALSE
INVARIANTS
    DoneIsDelivered
    RefusalIsAccounted
    PipeCarriesPackages
PROPERTIES
    NothingIsOverwritten
    UndoSparesOthers
