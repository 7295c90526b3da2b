SPECIFICATION Spec
CONSTANTS
    Scanners = {"kestrel"}
    Perps = {}
    Xyz = {"gold", "oil"}
    Ttl = 3
    Cooldown = 1
    MaxPositions = 2
    MaxEmit = 1
    LastTime = 5
INVARIANT SignalsSpaced
CHECK_DEADLOCK FALSE
