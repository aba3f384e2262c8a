\* Two requests at once, and one change of each kind of rows.
SPECIFICATION Spec
CONSTANTS
    NULL = NULL
    Empty = Empty
    Torn = Torn
    Requests = {r1, r2}
    Main = Main
    Writes = 1
SYMMETRY Symmetry
VIEW View
CONSTRAINT OneReason
INVARIANTS
    TypeOK
    WholeFile
    InSync

    
    
