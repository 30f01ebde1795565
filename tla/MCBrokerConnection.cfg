CONSTANTS
    Manager = {m1}
    User = {u1}
    Dispatcher = d1
    Event = {e1, e2}
    MaxCalls = 3
    NoThread = NoThread
SPECIFICATION FairSpec
CHECK_DEADLOCK FALSE
INVARIANTS TypeOK MutexIsReturned TablesExist
PROPERTY CallReturns
