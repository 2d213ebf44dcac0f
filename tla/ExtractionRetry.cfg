\* One package extracted twice into an empty destination, with fair scheduling,
\* while someone removes what a run has written.
SPECIFICATION FairSpec
CONSTANTS
    r1 = r1
    r2 = r2
    r3 = r3
    a = a
    b = b
    x = x
    y = y
    MarkerName = marker
    Stranger = stranger
    Run = {r1, r2}
    Path <- MCPath
    Directories <- SameDirectories
    Files <- SameFiles
    Found <- OnlyEmpty
    Plantable <- PlantableApart
    Erasable <- MCErasable
CHECK_DEADLOCK FALSE
PROPERTIES
    OnlyOwnWork
    ReportIsExact
    ReleasesMarker
