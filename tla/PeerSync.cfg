\* One account with a quota or with days: every way its counters can restart and
\* its row be edited, toggled, deleted and created again, under a clock that moves
\* by less than a day.
SPECIFICATION SyncSpec
CONSTANTS
    NULL = NULL
    Users = {u1}
    KeyPairs = {k1, k2}
    Quotas = {2}
    Days = {2}
    TickHours = 16
    MaxBytes = 2
    MaxHours = 64
CONSTRAINT OneLimit
INVARIANTS
    TypeOK
    NoOvercount
    AccountInv
    NoDayChargedTwice
    DaysInv
PROPERTIES
    MeterSpec
    ExhaustedIsDisabled
    SettledHolds
