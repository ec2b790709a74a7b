SPECIFICATION Spec
CONSTANTS
    a = a
    b = b
    ab = ab
    ba = ba
    k1 = k1
    k2 = k2
    v1 = v1
    v2 = v2
    user = user
    sync = sync
    Null = Null
    Keys = {k1, k2}
    Vals = {v1}
    Titles = {"title"}
    UserIds = {user, sync}
    Sites = {a, b}
    Definitions = {ab, ba}
    Config <- TwoWay
    User = user
    Creators = {a}
    Editors = {a}
    Deleters = {a}
    ReuseKeys = FALSE
    CanStop = FALSE
    CanCrash = FALSE
    MaxTime = 2
    MaxEdits = 3
    MaxFaults = 1
    MaxSyncs = 2
INVARIANTS
    NoDuplicateKeys
PROPERTIES
    NoEcho
