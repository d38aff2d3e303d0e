CONSTANTS
    Call = {t1, t2}
    MaxRows = 3
    MaxRefreshes = 2
    MaxSaves = 2
    MaxFaults = 1
    None = None
SPECIFICATION Spec
INVARIANTS
    TypeOK
    OneActiveRow
    HeldIsActive
    SavedIsHeld
PROPERTY DeadStaysDead
SYMMETRY Symmetry
CHECK_DEADLOCK FALSE
