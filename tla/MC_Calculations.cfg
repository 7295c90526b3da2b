SPECIFICATION Spec
CONSTANTS
    Coins = {c1, c2}
    Sizes = {1, 2}
    Prices = {1, 3}
    MaxFills = 4
    Trades = {t1, t2}
    MaxTime = 5
    Window = 2
    MaxLag = 1
    Instances = {i1, i2, i3}
    Whole = 4
    MinWallet = 3
    FeeBuffer = 1
    CentParts = 2
    MaxCents = 14
    Places = 4
    Quanta = {1, 2, 3, 5}
    MaxDecimal = 45
    Limit = 2
    MaxPages = 3
    MaxEvents = 6
    None = None
INVARIANTS LotsAreThePosition EntryIsFirstIn ReportIsNewest RightEvent NearestIsOwn FundsWhatWasAsked HaltIsNear NeverWorse RoundTrips NoGapNoRepeat
CHECK_DEADLOCK FALSE
