SPECIFICATION FairSpec
CONSTANTS
    Kinds = {"own", "cloud", "byok"}
    OwnRequired <- MCOwnRequired
    ByokOptional <- MCByokOptional
    ByokRequired <- MCByokRequired
    InstallPrereqs = TRUE
    AsksMessage = FALSE
    Faults = {"command", "prune", "git", "crash", "stop", "hang", "flush"}
    MaxMishaps = 3
PROPERTIES
    FinishesOrWedges
    WedgedForGood
