SPECIFICATION Spec
CONSTANTS
    None = None
    Phones = {p1}
    MaxCodes = 1
    Slots = {s1}
PROPERTIES
    OnlyRecentCodes
