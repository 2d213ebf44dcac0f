SPECIFICATION Spec
CONSTANTS
    Piece <- MCPiece
    Space = {" "}
    Numeral <- MCNumeral
    Finite <- MCFinite
    MaxDocument = 40
    MaxDepth = 6
    MaxElements = 17
    MaxAttributes = 1
    MaxText = 8
    Document <- MCDocument
INVARIANTS
    ForbiddenIsRefused
