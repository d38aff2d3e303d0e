CONSTANTS
    Peer = {p1, p2}
    MaxMessages = 2
    MaxLate = 1
    None = None
SPECIFICATION Spec
INVARIANTS
    TypeOK
    ShownIsNotAhead
PROPERTY StatusGrows
SYMMETRY Symmetry
CHECK_DEADLOCK FALSE
CONSTRAINT FewUnderWay
