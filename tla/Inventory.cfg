\* Small images, and what one or two changes make of them.
SPECIFICATION Spec
CONSTANTS
    a = a
    capA = capA
    b = b
    dir = dir
    bad = bad
    Name = {a, capA, b, dir, bad}
    Fold <- MCFold
    NameFlaw <- MCNameFlaw
    Slash = {dir}
    LocalWidth = 1
    CentralWidth = 2
    EndWidth = 2
    MaxArchive = 18
    MaxEntries = 3
    MaxComment = 1
    MaxEntry = 3
    MaxTotal = 5
    MaxRatio = 2
    Grace = 2
    Buffer = 2
    Image <- MCImage
INVARIANTS
    VerdictIsExact
    EveryByteHasOneOwner
    RefusedCoverIsFaulty
    CeilingsHold
    EntryBytesCannotFail
