CONSTANTS
    Ids = {a, b}
    NoId = NoId
    MaxRounds = 3
    MaxCalls = 2
    MaxPieces = 2
SPECIFICATION Spec
SYMMETRY Symmetry
INVARIANTS
    CallsAsSent
    PairedToolMessages
    RoundsKeptApart
CHECK_DEADLOCK FALSE
