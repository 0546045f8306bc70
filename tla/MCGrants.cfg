CONSTANTS
    Requests = {r1, r2}
    Sessions = {x1, x2}
    Scopes = {openid, email}
    openid = openid
    email = email
    Asked <- MCAsked
    Pendings = {y1, y2}
    Codes = {c1, c2}
    Unused = Unused
    Gone = Gone
    NoId = NoId
    MaxRow = 2
    Verifiers = {v1}
    Devices = {y1, y2}
    Contested = {d1}
    UserCodes = {x1, x2}
    None = None
    PersistRetries = 2
SPECIFICATION MCSpec
SYMMETRY Symmetry
INVARIANTS TypesOK OneAnswerOneRedemption ConsentTracksUser CodesJustified DeviceTokensJustified UserCodesLead
CHECK_DEADLOCK FALSE
