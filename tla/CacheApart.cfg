SPECIFICATION ApartSpec
CONSTANTS
    None = None
    MaxVersion = 6
    TTL = 3
    Faults = FALSE
    Slots = {s1, s2}
INVARIANTS
    Coherent
