CONSTANTS
    Client = {c1, c2}
    MasterClient = {c1}
    Publisher = {p1, p2}
    MaxPublish = 2
    NoOne = NoOne
SPECIFICATION FairSpec
INVARIANTS TypeOK DeliveredInOrder MissesAtMostOne
PROPERTY EventReachesApplication
