\* One request after the other is enough: start DNS and stop it.
SPECIFICATION FairSpec
CONSTANTS
    NULL = NULL
    Own = {own}
    Server = Server
    LinkLocal = LinkLocal
    Records = {}
    Kids = {k1, k2}
    Requests = {r1}
    Main = Main
PROPERTIES
    EveryRequestEnds
