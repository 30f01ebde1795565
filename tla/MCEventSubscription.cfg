CONSTANTS
    c1 = c1
    t1 = t1
    t2 = t2
    Client = {c1}
    Thread = {t1}
    ProcessOf <- OneThread
    Event = {e1, e2}
    Element = {e1}
    Dest = {"object"}
    MaxPending = 2
SPECIFICATION FairSpec
INVARIANTS TablesInv SubscriberIsListener ListenerIsSubscriber
PROPERTIES CallReturns ImplementsService
