\* A directory by its attributes that has content.
SPECIFICATION Spec
CONSTANTS
    a = a
    capA = capA
    decA = decA
    b = b
    flawed = flawed
    wide = wide
    NotText = NotText
    Component = {a, capA, decA, b, flawed, wide}
    Flaw <- MCFlaw
    Width <- MCWidth
    Rank <- MCRank
    Key <- MCKey
    MaxFiles = 3
    MaxTotal = 4
    MaxPath = 7
    MaxComponent = 2
    MaxDepth = 3
    Word = 5
    Package <- MCPackage
INVARIANTS
    NoContentIsSkipped
