SPECIFICATION Spec
CONSTANTS
    Workers = {w1}
    Records = {r1, r2}
    SyncIds = {r1, r2}
    SyncIdOf <- OneEach
    MaxVersions = 2
    MaxAge = 1
    MaxClock = 3
    MaxCaptures = 4
    MaxFaults = 2
INVARIANTS
    TypeOK
    VersionsInOrder
    NoGaps
    PendingIsNextOrSaved
PROPERTIES
    RetentionKeepsNewest
