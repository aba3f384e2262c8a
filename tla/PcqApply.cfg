\* One user in one group, limited in both directions; two requests at once, and
\* every push, statement and command may fail.
SPECIFICATION FairSpec
CONSTANTS
    NULL = NULL
    Users = {u1}
    Groups = {g1}
    Rates = {1}
    Requests = {r1, r2}
    Main = Main
CONSTRAINT OneReason
INVARIANTS
    TypeOK
    InSync
    LimitsBind
    Unmixed
PROPERTIES
    EveryRequestEnds
