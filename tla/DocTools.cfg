SPECIFICATION Spec
CONSTANTS
    FileOrder <- TheFiles
    Bodies <- TheBodies
    InitialDocs <- TheInitialDocs
    Jobs = {1, 2}
    MaxStarts = 2
INVARIANTS
    TypeOK
    ExitCodeTells
PROPERTIES
    AloneLeavesTheRightToc
CHECK_DEADLOCK FALSE
