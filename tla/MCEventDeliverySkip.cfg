CONSTANTS
    Client = {c1, c2}
    MasterClient = {c1}
    Publisher = {p1}
    MaxPublish = 1
    NoOne = NoOne
SPECIFICATION Spec
INVARIANT ServesAllSubscribers
