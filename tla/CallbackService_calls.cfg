CONSTANTS
    Client = {c1}
    Thread = {t1, t2}
    CallData = {d1, d2, d3, d4, d5, d6, d7, d8}
    None = None
    MaxGone = 2
SPECIFICATION FairSpec
INVARIANTS
    TypeOK
    OnePlace
    ReadyForClients
    OneAnswer
    ObjectsAreBounded
PROPERTIES
    CallsAreAnswered
    ImplementsListings
