SPECIFICATION Spec
CONSTANTS
    None = None
    MaxVersion = 2
    TTL = 2
    Faults = FALSE
    Slots = {s1, s2}
INVARIANTS
    Coherent
