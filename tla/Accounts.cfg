SPECIFICATION Spec
CONSTANTS
    l1 = l1
    l2 = l2
    web = web
    desktop = desktop
    Logins = {l1, l2}
    Editors = {1}
    Hosts = {web, desktop}
    Passwords = {"initial", "own"}
    InitialPassword = "initial"
    MaxFailedAttempts = 3
    LockoutDuration = 1
    MaxFailures = 3
    MaxTime = 1
    MaxAccounts = 2
SYMMETRY Symmetry
INVARIANTS
    TypeOK
    LocksAreEarned
PROPERTIES
    OnlyStaleSavesLift
    AccountsAreNotMixed
CHECK_DEADLOCK FALSE
