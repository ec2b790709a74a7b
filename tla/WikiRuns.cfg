SPECIFICATION FairSpec
CONSTANTS
    MaxRuns = 3
    Paths <- ThePaths
    AssetPaths = {"png"}
    BackupPaths = {}
    PrivateWords = {"[private]"}
    WikiTitles <- TheWikiTitles
    Revs = {0, 1, 2}
    Docs <- TheDocs
    InitialWiki <- TheWiki
    UserPages <- ThePages
    MaxEdits = 1
    MaxFaults = 1
INVARIANTS
    TypeOK
    SuccessMeansPublished
    LinksLeadSomewhere
PROPERTIES
    ActsAtOnce
    ProtectedPagesStay
    RunsEnd
CHECK_DEADLOCK FALSE
