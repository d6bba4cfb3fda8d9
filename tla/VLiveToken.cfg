SPECIFICATION Spec
CONSTANTS
    None = None
    Notes = {n1}
    Workers = {k1}
    Tokens = {t1, t2}
    Malformed = {}
PROPERTIES
    LiveTokenKept
CHECK_DEADLOCK FALSE
