SPECIFICATION Spec
CONSTANTS
    None = None
    Phones = {p1}
    MaxCodes = 2
    Slots = {s1, s2}
SYMMETRY SlotSymmetry
PROPERTIES
    ChangesCurrentPassword
