SPECIFICATION Spec
CONSTANTS
    Person = {ann, bob}
    Robot = {robot}
    Trusted = {ann}
    Bucket = {b1}
    Instance = {east}
    MaxServices = 2
    MaxCommands = 2
CONSTRAINT Independent
INVARIANTS TypeOK DomainIsOwners ReadyToDeploy
PROPERTIES MovedWhole StoredAsAsked WorkspaceFixed UpdateKeepsTheRest ImageIsOfItsRun EarlierConsolesWork
CHECK_DEADLOCK FALSE
