SPECIFICATION DeliverySpec
CONSTANTS
    None = None
    Phones = {p1, p2}
    MaxCodes = 3
    Slots = {s1, s2}
SYMMETRY SlotSymmetry
INVARIANTS
    UndeliveredIsSent
    DeliveredCodeWorks
