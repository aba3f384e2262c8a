\* The administrator disables an account while the syncer holds a dump.
SPECIFICATION Spec
CONSTANTS
    NULL = NULL
    Users = {u1}
    KeyPairs = {k1}
    Quotas = {}
    Days = {}
    TickHours = 1
    MaxBytes = 0
    MaxHours = 0
PROPERTIES
    DisableSticks
