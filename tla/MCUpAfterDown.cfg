SPECIFICATION BothSpec
CONSTANTS
    Kinds = {"cloud"}
    OwnRequired <- MCOwnRequired
    ByokOptional <- MCByokOptional
    ByokRequired <- MCByokRequired
    InstallPrereqs = TRUE
    AsksMessage = TRUE
    Faults = {}
    MaxMishaps = 0
INVARIANTS
    FinishedIsInstalled
