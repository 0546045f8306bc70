CONSTANTS
    Requests = {r1, r2, r3}
    MaxConnections = 2
    Permits = 1
    MaxOrphans = 1
    Callers = {r1, r2}
    Sessions = {s1}
    Users = {u1}
    Owner <- MCOwner
    s1 = s1
    u1 = u1
    NoSession = NoSession
    NoUser = NoUser
    Kinds = {"login", "lookup", "deleteUser", "disable", "enable", "setPassword", "verify"}
SPECIFICATION MCSpec
INVARIANTS TypesOK HashingApart
PROPERTIES RequestsServed StaleEntriesDrain
