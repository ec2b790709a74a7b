SPECIFICATION Spec
CONSTANTS
    l1 = l1
    l2 = l2
    web = web
    desktop = desktop
    Logins = {l1}
    Editors = {1, 2}
    Hosts = {web, desktop}
    Passwords = {"initial", "own"}
    InitialPassword = "initial"
    MaxFailedAttempts = 3
    LockoutDuration = 1
    MaxFailures = 3
    MaxTime = 1
    MaxAccounts = 2
PROPERTIES
    BlankKeepsPassword
CHECK_DEADLOCK FALSE
