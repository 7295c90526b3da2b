SPECIFICATION MCSpec
CONSTANTS
    Assets = {a1, a2}
    Opens = {0, 3}
    DayLength = 4
    Span = 2
    MaxSlots = 1
    MaxCount = 1
    LastDay = 3
    Scanners = {"kestrel", "hyena", "scorpion"}
    Perps = {"perp"}
    Xyz = {"xyz"}
    Ttl = 2
    Cooldown = 2
    MaxPositions = 1
    MaxEmit = 1
    LastTime = 6
INVARIANTS TypeOK OncePerSession SpacedUnlessWiped CooldownAfterClose
PROPERTY NeverSilenced
SYMMETRY Symmetry
CHECK_DEADLOCK FALSE
