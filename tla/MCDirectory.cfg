CONSTANTS
    Roles = {a, b, c}
    NoRole = NoRole
    Requests = {r1, r2}
    None = None
    MaxWrites = 3
    Idents <- MCIdents
    PoolSize = 2
SPECIFICATION MCSpec
INVARIANTS TypesOK HierarchyAcyclic WalksExact StaleExplained AccountsSound
PROPERTIES StalenessEnds RequestsEnd
