SPECIFICATION Spec
CONSTANTS
    Kinds = {"own", "cloud", "byok"}
    OwnRequired <- MCOwnRequired
    ByokOptional <- MCByokOptional
    ByokRequired <- MCByokRequired
    InstallPrereqs = TRUE
    AsksMessage = TRUE
    Faults = {"command", "prune", "git", "crash", "stop", "clone", "hang", "flush"}
    MaxMishaps = 3
INVARIANTS
    TypeOK
    RecordedWorkDone
    StagesInOrder
    Resumable
    FinishedIsInstalled
    OwnFinishIsClean
PROPERTIES
    LiveResourcesKept
    DiskNeverRewinds
    ImplementsProtocol
