SPECIFICATION Spec
CONSTANTS
    Inst = {i1, i2}
    Sid = {s1, s2, s3, s4}
    None = None
    Mishaps = {"kill", "torn", "create", "slow", "name", "name_lost", "funding", "balance", "delete", "register", "strategy_close", "recheck", "inventory", "lookup", "health", "app_pause"}
    MaxMishaps = 2
    Commands = {"create", "runtime", "verify", "close"}
    ByTheBook = TRUE
PROPERTIES LiveMeansDeployed NeverReusesDeadWallet
SYMMETRY Symmetry
