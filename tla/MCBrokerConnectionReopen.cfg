CONSTANTS
    Manager = {m1}
    User = {u1}
    Dispatcher = d1
    Event = {e1}
    MaxCalls = 3
    NoThread = NoThread
SPECIFICATION Spec
CHECK_DEADLOCK FALSE
INVARIANT SubscriberListens
