CONSTANTS
    Requests = {r1, r2}
    Sessions = {s1, s2}
    Users = {u1}
    s1 = s1
    s2 = s2
    u1 = u1
    Owner <- MCOwner
    NoSession = NoSession
    NoUser = NoUser
    Kinds = {"login", "logout", "changePassword", "endSession", "deleteUser", "disable", "unverify"}
SPECIFICATION Spec
SYMMETRY Symmetry
INVARIANTS StaleEntryExplained
PROPERTIES AbortKeepsRows
