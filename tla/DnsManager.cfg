\* Two requests at once, one address of their own, two rows of any content.
SPECIFICATION Spec
CONSTANTS
    NULL = NULL
    Own = {own}
    Server = Server
    LinkLocal = LinkLocal
    Records = {a, b}
    Kids = {k1, k2}
    Requests = {r1, r2}
    Main = Main
    Names = {"com", "example.com", "a.example.com"}
    Parent <- MCParent
    Values = {v}
    Listed = {"a.example.com"}
    BlockAddress = BlockAddress
    Upstream = Upstream
SYMMETRY Symmetry
CONSTRAINTS
    OneReason
    AloneAfterFailure
INVARIANTS
    TypeOK
    OneChild
    EndReachesManager
    InSync
    AnswersFollowRows
PROPERTIES
    EmbraceLasts
    SupervisorSpec
