\* Two requests from the empty database on: two accounts, two addresses.
SPECIFICATION Spec
CONSTANTS
    NULL = NULL
    Admins = {a1, a2}
    Names = {u1, u2}
    Hosts = {1, 2}
    Ranges = {{1, 2}}
    Requests = {r1, r2}
SYMMETRY Symmetry
INVARIANTS
    TypeOK
    OneAdmin
    DistinctAddresses
    ServerMatches
PROPERTIES
    WizardIsUsedOnce
