\* One run on each platform, while others rename, replace and plant links.
SPECIFICATION Spec
CONSTANTS
    above = above
    dest = dest
    beside = beside
    inner = inner
    link = link
    n1 = n1
    n2 = n2
    n3 = n3
    n4 = n4
    n5 = n5
    n6 = n6
    out = out
    a = a
    f = f
    m = m
    None = none
    Node <- MCNode
    Name <- MCName
    Above = above
    Destination = out
    MarkerName = m
    Directories <- MCDirectories
    Files <- MCFiles
    Found <- MCFound
    Platform = {"linux", "unix", "windows"}
    Loose = {out, a}
    Lures = {beside, dest}
    MaxMoves = 2
CHECK_DEADLOCK FALSE
INVARIANTS
    ConfinedBeneath
    ConfinedUnlessRaced
    CreationsAreAccounted
    UndoReachesItsOwn
