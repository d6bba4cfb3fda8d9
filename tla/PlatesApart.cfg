SPECIFICATION ApartSpec
CONSTANTS
    None = None
    p1 = p1  p2 = p2  upper = upper  lower = lower  other = other
    Vehicles = {v1, v2, v3, v4}
    Spellings = {upper, lower, other}
    Plates = {p1, p2}
    Normal <- MCNormal
    Slots = {s1, s2}
SYMMETRY Symmetry
INVARIANTS
    PlatesUnique
