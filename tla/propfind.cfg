SPECIFICATION FairPropfindSpec
CONSTANTS
    u1 = u1  u2 = u2
    cal = cal  spaced = spaced  escaped = escaped  twice = twice
    a = a  b = b
    d1 = d1  d2 = d2
    k1 = k1
    p1 = p1  p2 = p2
    red = red
    phone = phone
    Unset = Unset
    Wildcard = Wildcard
    NoValue = NoValue
    AnyValue = AnyValue
    Users = {u1}
    CalPaths = {cal, spaced}
    ObjPaths = {a}
    CalOf <- MCCalOf
    Data = {d1, d2}
    UidOf <- MCUidOf
    Conds <- Plain
    Conns = {k1}
    FKConns = {k1}
    Procs = {p1}
    MaxRequests = 4
    Colors = {red}
    NoColor = NoColor
    Pollers = {phone}
    PollerUser <- MCPollerUser
    PollerPath <- MCPollerPath
    HrefText <- OneEscaped
    HomeSet = HomeSet
    Polls <- MCPolls
    Lists <- MCLists
INVARIANTS
    PropfindTypeOK
    CtagMissesNothing
    InjectedWhereItBelongs
    EditsKeepWhatIsFound
PROPERTY
    PollerConverges
CHECK_DEADLOCK FALSE
