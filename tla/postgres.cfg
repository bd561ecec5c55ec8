SPECIFICATION PgSpec
CONSTANTS
    u1 = u1
    cal = cal
    a = a  b = b
    d1 = d1  d2 = d2
    x1 = x1  x2 = x2
    k1 = k1
    p1 = p1  p2 = p2
    Unset = Unset
    Wildcard = Wildcard
    Users = {u1}
    CalPaths = {cal}
    ObjPaths = {a, b}
    CalOf <- MCCalOf
    Data = {d1, d2}
    UidOf <- MCUidOf
    Conds <- Plain
    Conns = {k1}
    FKConns = {k1}
    Procs = {p1, p2}
    MaxRequests = 5
INVARIANTS
    PgTypeOK
    DeadlocksNeedDropOrExchange
PROPERTIES
    ImplementsStore
    EveryRequestEnds
CHECK_DEADLOCK FALSE
