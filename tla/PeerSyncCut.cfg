\* The syncer disables a spent account and nobody pushes.
SPECIFICATION FairSpec
CONSTANTS
    NULL = NULL
    Users = {u1}
    KeyPairs = {k1}
    Quotas = {1}
    Days = {}
    TickHours = 1
    MaxBytes = 1
    MaxHours = 0
PROPERTIES
    DisabledIsCut
