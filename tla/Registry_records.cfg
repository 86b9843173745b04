SPECIFICATION Spec
CONSTANTS
    r1 = r1
    r2 = r2
    r3 = r3
    Keys = {k1}
    Default = Default
    Vals = {v1, v2}
    Requests = {r1, r2}
    MaxEvents = 5
    None = None
SYMMETRY Interchangeable
INVARIANTS
    LastMintWins
    EnvAsLastSet
    LiveAppIsWhole
    MintedTokensVerify
CHECK_DEADLOCK FALSE
