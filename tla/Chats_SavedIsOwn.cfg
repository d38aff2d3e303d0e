CONSTANTS
    User = {u1, u2, u3}
    Thread = {t1, t2}
    MaxChats = 2
    None = None
SPECIFICATION Spec
INVARIANT SavedIsOwn
SYMMETRY Symmetry
CHECK_DEADLOCK FALSE
