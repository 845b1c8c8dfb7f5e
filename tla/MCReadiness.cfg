SPECIFICATION Spec
CONSTANTS
    Checks <- MCChecks
    CanHang = {"ping"}
    Deadline = 3
    MaxClock = 6
INVARIANTS
    TypeOK
PROPERTIES
    NoFailureLost
    Terminates
CHECK_DEADLOCK FALSE
