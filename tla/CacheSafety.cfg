SPECIFICATION Spec
CONSTANTS
    Origins = {o1, o2, o3}
    NoOrigin = noOrigin
    NoToken = noToken
    CacheSize = 2
    Lifetime = 4
    Margin = 1
    Times = {1, 4, 15}
    TimeModulus = 16
    GenModulus = 3
    TickModulus = 3
    MaxChanges = 2
    MaxTicks = 3
SYMMETRY OriginSymmetry
INVARIANTS
    TypeOK
    UsedTokenIsRight
    OneTokenPerOrigin
PROPERTY
    EvictsLeastRecentlyUsed
