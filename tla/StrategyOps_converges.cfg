SPECIFICATION FairSpec
CONSTANTS
    Inst = {i1}
    Sid = {s1, s2, s3, s4}
    None = None
    Mishaps = {"kill", "torn", "create", "slow", "name", "funding", "balance", "delete", "register", "strategy_close", "recheck", "health", "inventory", "lookup", "strategy_list", "runtime", "app_close"}
    MaxMishaps = 3
    Commands = {"create", "runtime", "verify", "close"}
    ByTheBook = TRUE
PROPERTIES DeployConverges CloseConverges
