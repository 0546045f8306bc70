CONSTANTS
    Requests = {r1, r2}
    Sessions = {s1}
    Users = {u1}
    s1 = s1
    s2 = s2
    u1 = u1
    Owner <- MCOwner1
    NoSession = NoSession
    NoUser = NoUser
    Kinds = {"login", "endSession"}
SPECIFICATION Spec
INVARIANT LogoutEndsSession
