CONSTANTS
    Replicas = {p1, p2}
    None = None
    MaxCrashes = 1
    Kids = {1, 2, 3, 4}
    LegacyKid = 4
    Torn = Torn
    MaxEvents = 2
SPECIFICATION MCSpec
INVARIANTS TypesOK UpMeansSeeded FailsOnlyInRace KeysBacked KeysSurvive
PROPERTIES  EveryoneComesUp
