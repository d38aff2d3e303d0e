CONSTANTS
    Code = {k1, k2}
    Worker = {r1, r2, r3, r4, r5}
    MaxAttempts = 2
    None = None
    Request = {r1, r2, r3, r4, r5}
    UploadId = {u1, u2}
    Nothing = Nothing
SPECIFICATION BothSpec
INVARIANTS
    TypeOK
    AttemptsRespected
    CodeWorksOnce
    UnusedStays
    MediaTypeOK
    FilesMatchRows
    OneUploadPerId
SYMMETRY Symmetry
CHECK_DEADLOCK FALSE
