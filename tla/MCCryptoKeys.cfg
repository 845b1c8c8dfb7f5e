SPECIFICATION Spec
CONSTANTS
    User = {u1, u2}
    Key = {k1, k2}
    File = {f1}
    NoKey = NoKey
    Torn = Torn
SYMMETRY Symmetric
INVARIANTS TypeOK ListedCanOpen SharedKeyOpens
PROPERTIES NoKeyLost NobodyDropped RepoKeyFixed
