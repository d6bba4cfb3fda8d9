SPECIFICATION ApartSpec
CONSTANTS
    b1 = b1  b2 = b2  b3 = b3  b3 = b3  b4 = b4  w1 = w1  w2 = w2
    None = None
    Bookings = {b1, b2, b3, b4}
    Washers = {w1, w2}
    Scores = {1, 5}
    Removable = {b1, b3}
    Slots = {s1, s2}
    WasherOf <- MCWasherOf
INVARIANTS
    AllCounted
    AverageCountsAll
CHECK_DEADLOCK FALSE
