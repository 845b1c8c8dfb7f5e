SPECIFICATION BothSpec
CONSTANTS
    Kinds = {"own", "cloud", "byok"}
    OwnRequired <- MCOwnRequired
    ByokOptional <- MCByokOptional
    ByokRequired <- MCByokRequired
    InstallPrereqs = TRUE
    AsksMessage = TRUE
    Faults = {"command", "prune", "git", "crash", "hang", "flush"}
    MaxMishaps = 2
INVARIANTS
    RegistrationKept
    DownDestroysAll
    FinishedMeansReachable
