SPECIFICATION Spec
CONSTANTS
    Accounts = {1, 2}
    MaxCollateral = 2
    MaxBuilt = 1
    None = None
INVARIANTS TypeOK CacheYoungerThanBuild
PROPERTIES ActsWhereItLooked HaltHolds PinnedVerified
