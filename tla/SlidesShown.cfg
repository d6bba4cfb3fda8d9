SPECIFICATION Spec
CONSTANTS
    None = None
    Slides = {d1, d2}
    Looks = {k1, k2}
    Slots = {s1, s2}
    Watchers = {a1}
SYMMETRY Symmetry
INVARIANTS
    TypeOK
    OldScreensAreTold
