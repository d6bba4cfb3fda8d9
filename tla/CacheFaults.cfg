SPECIFICATION FairSpec
CONSTANTS
    None = None
    MaxVersion = 3
    TTL = 2
    Faults = TRUE
    Slots = {s1, s2}
INVARIANTS
    TypeOK
PROPERTIES
    StaleEnds
