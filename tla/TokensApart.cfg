SPECIFICATION ApartSpec
CONSTANTS
    None = None
    Notes = {n1}
    Workers = {k1, k2}
    Tokens = {t1, t2, t3}
    Malformed = {t2}
PROPERTIES
    LiveTokenKept
CHECK_DEADLOCK FALSE
