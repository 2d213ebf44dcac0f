\* A package with an element where it means nothing, planned over without an edit.
SPECIFICATION Spec
CONSTANTS
    Piece <- MCPiece
    Space = {" "}
    Numeral <- MCNumeral
    Finite <- MCFinite
    Decimal <- MCDecimal
    MaxDocument = 130
    MaxDepth = 6
    MaxElements = 45
    MaxAttributes = 1
    MaxText = 50
    Fold <- MCFold
    File <- MCFile
    MarkerFile = "marker"
    FileSize <- MCFileSize
    Packed <- MCPacked
    Crc <- MCCrc
    Unsafe <- MCUnsafe
    Unwritable = {"^M"}
    Escaped = {"&"}
    NotText = {"raw"}
    Kilobyte = 30
    RecordBytes = 5
    EndBytes = 2
    Word16 = 5
    Word32 = 1000
    MaxArchive = 244
    MaxEntries = 6
    MaxName = 12
    MaxEntry = 110
    MaxTotal = 134
    MaxRatio = 10
    Grace = 20
    Request = {}
    Found <- FoundMisplaced
    Foreign = {}
    Edit <- MCEdit
    Root <- MCRoot
PROPERTIES
    EveryWordIsKept
