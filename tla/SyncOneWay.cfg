SPECIFICATION Spec
CONSTANTS
    a = a
    b = b
    ab = ab
    ba = ba
    k1 = k1
    k2 = k2
    v1 = v1
    v2 = v2
    user = user
    sync = sync
    Null = Null
    Keys = {k1}
    Vals = {v1}
    Titles = {"title"}
    UserIds = {user, sync}
    Sites = {a, b}
    Definitions = {ab}
    Config <- OneWay
    User = user
    Creators = {a}
    Editors = {a, b}
    Deleters = {a}
    ReuseKeys = TRUE
    CanStop = FALSE
    CanCrash = TRUE
    MaxTime = 2
    MaxEdits = 3
    MaxFaults = 1
    MaxSyncs = 2
INVARIANTS
    TypeOK
    LogAdds
    SnapshotFirst
    SuccessMeansPresent
    FaultFreeSyncSucceeds
