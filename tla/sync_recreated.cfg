SPECIFICATION SyncSpec
CONSTANTS
    u1 = u1  u2 = u2
    cal = cal
    a = a  b = b
    d1 = d1  d2 = d2
    k1 = k1  k2 = k2
    p1 = p1  p2 = p2
    phone = phone
    Unset = Unset
    Wildcard = Wildcard
    Users = {u1}
    CalPaths = {cal}
    ObjPaths = {a}
    CalOf <- MCCalOf
    Data = {d1, d2}
    UidOf <- MCUidOf
    Conds <- MCConds
    Conns = {k1}
    FKConns = {k1}
    Procs = {p1, p2}
    MaxRequests = 5
    Clients = {phone}
    ClientUser <- MCClientUser
    ClientPath <- MCClientPath
INVARIANT AcceptedTokenMissesNothing
CHECK_DEADLOCK FALSE
