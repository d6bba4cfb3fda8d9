SPECIFICATION ApartSpec
CONSTANTS
    None = None
    Phones = {p1}
    MaxCodes = 3
    Slots = {s1, s2}
SYMMETRY SlotSymmetry
INVARIANTS
    ComparedIsCurrent
PROPERTIES
    ChangesCurrentPassword
