CONSTANTS
    Tokens = {t1, t2, t3}
    NoToken = NoToken
    Sessions = {s1}
    s1 = s1
    NoSession = NoSession
    Requests = {r1, r2}
    SessionOf <- MCSessionOf
    Kinds = {"refresh", "grant", "revoke", "endSession", "delete", "sweep"}
SPECIFICATION Spec
SYMMETRY Symmetry
INVARIANTS LinearFamily NoZombie
PROPERTIES ImplementsFamily DoomedRevoked
