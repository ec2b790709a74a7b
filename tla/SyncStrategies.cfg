SPECIFICATION Spec
CONSTANTS
    a = a
    b = b
    ab = ab
    ba = ba
    k1 = k1
    k2 = k2
    v1 = v1
    v2 = v2
    user = user
    sync = sync
    Null = Null
    Keys = {k1, k2}
    Vals = {v1}
    Titles = {"title"}
    UserIds = {user, sync}
    Sites = {a, b}
    Definitions = {ab, ba}
    Config <- Strategic
    User = user
    Creators = {a}
    Editors = {a, b}
    Deleters = {a}
    ReuseKeys = TRUE
    CanStop = TRUE
    CanCrash = FALSE
    MaxTime = 1
    MaxEdits = 3
    MaxFaults = 0
    MaxSyncs = 2
INVARIANTS
    SuccessMeansPresent
PROPERTIES
    DeletesAnswerDeletions
