SPECIFICATION Spec
CONSTANTS
    b1 = b1  b2 = b2  b3 = b3  b3 = b3  b4 = b4  w1 = w1  w2 = w2
    None = None
    Bookings = {b1, b2}
    Washers = {w1}
    Scores = {1, 5}
    Removable = {}
    Slots = {s1, s2}
    WasherOf <- MCWasherOf
INVARIANTS
    AverageCountsAll
CHECK_DEADLOCK FALSE
