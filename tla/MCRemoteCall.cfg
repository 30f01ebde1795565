CONSTANTS
    p1 = p1
    p2 = p2
    f = f
    Proc = {p1, p2, f}
    Foreign = {f}
    Calls <- MCCalls
    MaxCalls = 3
    NoCall = NoCall
SPECIFICATION FairSpec
CHECK_DEADLOCK FALSE
INVARIANTS TypeOK AnsweredOnce ResultIsTheProviders MessagesReleased
PROPERTY AnsweredUnlessBusy
