CONSTANTS
    c1 = c1
    t1 = t1
    t2 = t2
    Client = {c1}
    Thread = {t1, t2}
    ProcessOf <- TwoThreads
    Event = {e1}
    Element = {e1}
    Dest = {"object"}
    MaxPending = 2
SPECIFICATION Spec
INVARIANT SubscriberIsListener
