CONSTANTS
    Viewer = {v1}
    Thread = {t1, t2}
    Payload <- OneField
    MaxChanges = 3
    None = None
SPECIFICATION Spec
INVARIANTS
    TypeOK
    TighteningNeverShows
    AnswerWasTrue
CONSTRAINT FewUnderWay
SYMMETRY Symmetry
CHECK_DEADLOCK FALSE
