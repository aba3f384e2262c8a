\* Every sequence of two rows over two limits and an unset one.
SPECIFICATION Spec
CONSTANTS
    NULL = NULL
    Ips = {a}
    Columns = {1, 2}
    MaxRows = 2
INVARIANTS
    MinimumWins
\* The scan ends.
CHECK_DEADLOCK FALSE
