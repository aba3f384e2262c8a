\* One request beside the statements of the others: two accounts, one group.
SPECIFICATION Spec
CONSTANTS
    NULL = NULL
    Configs = {c1, c2}
    Keys = {k1, k2}
    Names = {u1, u2}
    Groups = {g1}
    Limits = {l1}
    Requests = {r1}
SYMMETRY Symmetry
CONSTRAINTS OneBackup OwnPairs
INVARIANTS
    TypeOK
    BackupIsSnapshot
    RestoreIsFaithful
PROPERTIES
    OnlyMergesPart
