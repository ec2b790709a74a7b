SPECIFICATION WorkerSpec
CONSTANTS
    a = a
    b = b
    ab = ab
    ba = ba
    k1 = k1
    k2 = k2
    v1 = v1
    v2 = v2
    user = user
    sync = sync
    Null = Null
    Keys = {k1}
    Vals = {v1}
    Titles = {"title"}
    UserIds = {user, sync}
    Sites = {a, b}
    Definitions = {ab, ba}
    Config <- SlowAndFast
    User = user
    Creators = {a}
    Editors = {}
    Deleters = {a}
    ReuseKeys = FALSE
    CanStop = TRUE
    CanCrash = TRUE
    MaxTime = 2
    MaxEdits = 1
    MaxFaults = 1
    MaxSyncs = 3
    Rank <- RankTwo
    Enabled = {{}, {ba}, {ab, ba}}
    IdleDelay = 1
    RetryDelay = 1
INVARIANTS
    WorkerTypeOK
PROPERTIES
    EngineStartsCold
    SteadyPollingSkipsNothing
