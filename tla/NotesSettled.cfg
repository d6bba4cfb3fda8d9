SPECIFICATION FairSpec
CONSTANTS
    None = None
    Notes = {n1}
    Workers = {k1, k2}
    Tokens = {t1, t2}
    Malformed = {t2}
INVARIANTS
    NotesInv
    PushesBounded
    GivesUpLast
PROPERTIES
    NotesSettle
CHECK_DEADLOCK FALSE
