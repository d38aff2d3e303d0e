CONSTANTS
    Socket = {s1, s2, s3}
    Member = {u1, u2}
    Request = {r}
    Chat = {c1, c2}
    None = None
SPECIFICATION PresenceSpec
INVARIANTS
    PresenceTypeOK
    LiveIsReachable
    RegisteredIsServed
    LastEventIsTrue
CONSTRAINT FewUnderWay
SYMMETRY Symmetry
CHECK_DEADLOCK FALSE
