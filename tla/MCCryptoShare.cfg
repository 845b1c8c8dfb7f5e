SPECIFICATION Spec
CONSTANTS
    User = {u1, u2}
    Key = {k1, k2}
    File = {f1}
    NoKey = NoKey
    Torn = Torn
SYMMETRY Symmetric
PROPERTIES ShareLetsUsersDecrypt
