\* An account that runs out, stays away for days and is renewed.
SPECIFICATION RenewalSpec
CONSTANTS
    NULL = NULL
    Users = {u1}
    KeyPairs = {k1}
    Quotas = {}
    Days = {3}
    TickHours = 24
    MaxBytes = 0
    MaxHours = 144
INVARIANTS
    RenewalLasts
