SPECIFICATION WorkerSpec
CONSTANTS
    a = a
    b = b
    ab = ab
    ba = ba
    k1 = k1
    k2 = k2
    v1 = v1
    v2 = v2
    user = user
    sync = sync
    Null = Null
    Keys = {k1}
    Vals = {v1, v2}
    Titles = {"title"}
    UserIds = {user, sync}
    Sites = {a, b}
    Definitions = {ab}
    Config <- OneWay
    User = user
    Creators = {a}
    Editors = {a, b}
    Deleters = {a}
    ReuseKeys = FALSE
    CanStop = FALSE
    CanCrash = FALSE
    MaxTime = 2
    MaxEdits = 4
    MaxFaults = 0
    MaxSyncs = 2
    Rank <- RankOne
    Enabled = {{ab}}
    IdleDelay = 1
    RetryDelay = 1
PROPERTIES
    UpdateReachesTarget
