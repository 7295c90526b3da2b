SPECIFICATION Spec
CONSTANTS
    Wallet = {w1, w2}
    Funds = 2
    MaxMoves = 2
    MaxSessions = 2
    MaxMishaps = 2
    Mishaps = {"kill", "save", "fails", "detail", "empty"}
    None = None
INVARIANT TypeOK
PROPERTIES ReportIsTrue PartialIsWarned PositionsFollowStrategies
SYMMETRY Symmetry
CHECK_DEADLOCK FALSE
