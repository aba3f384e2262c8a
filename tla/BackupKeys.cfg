\* One request and one account: its private key is not that of its public key.
SPECIFICATION Spec
CONSTANTS
    NULL = NULL
    Configs = {c1}
    Keys = {k1, k2}
    Names = {u1}
    Groups = {g1}
    Limits = {l1}
    Requests = {r1}
SYMMETRY Symmetry
CONSTRAINT OneBackup
INVARIANTS
    KeysMatch
