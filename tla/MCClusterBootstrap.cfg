SPECIFICATION Spec
CONSTANTS
    Site = {s1, s2}
    Handle = {h1}
    MaxRecords = 2
    MaxCommands = 4
SYMMETRY Symmetric
INVARIANTS TypeOK OwnRecord LiveTokenHasItsId
PROPERTIES AbandonedForGood
CHECK_DEADLOCK FALSE
