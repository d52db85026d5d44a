CONSTANTS
    Ram = 1
    MaxGib = 2
    MaxInteger = 2000
    MaxDialogs = 1
    MaxEdits = 2
    MaxFaults = 1
    Typed <- TypedNumbers
    EditedMcp <- McpEdits
    EditedGuards <- Guards
SPECIFICATION Spec
INVARIANTS
    SetupIInv
    ReviewSettled
    OwnerRecoverable
PROPERTIES
    Idempotent
    UidKept
