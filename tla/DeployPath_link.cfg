SPECIFICATION Spec
CONSTANTS
    Clients = {c1, c2}
    Shas <- Commits
    Wants <- Asked
    ShortSha = 2
    Limits = {2}
    Tokens <- Found
    Timeout = 3
    CheckEvery = 2
    Expires = 2
    MaxEvents = 3
    None = None
INVARIANTS
    RefusedOnlyWhileRelinking
    BuildFailedStands
    BuildFailureNoticed
CHECK_DEADLOCK FALSE
SYMMETRY Sym
