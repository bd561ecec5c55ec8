SPECIFICATION Spec
CONSTANTS
    u1 = u1  u2 = u2
    cal = cal
    a = a  b = b
    d1 = d1  d2 = d2
    x1 = x1  x2 = x2
    k1 = k1  k2 = k2
    p1 = p1  p2 = p2
    Unset = Unset
    Wildcard = Wildcard
    Users = {u1}
    CalPaths = {cal}
    ObjPaths = {a}
    CalOf <- MCCalOf
    Data = {d1, d2}
    UidOf <- MCUidOf
    Conds <- SomeConds
    Conns = {k1}
    FKConns = {k1}
    Procs = {p1, p2}
    MaxRequests = 5
SYMMETRY Symmetry
PROPERTY AckedPutIsStored
CHECK_DEADLOCK FALSE
