CONSTANTS
    Thread = {t1, t2}
    Object = {o1, o2}
    Method = {m1}
    Event = {e1}
    Addr = {a1, a2}
    MaxMethods = 2
    NoThing = NoThing
SPECIFICATION Spec
SYMMETRY Symmetry
INVARIANTS TypeOK RegistryIsAlive RegisteredIsReachable ListenerIsAlive AcceptsBoth GrantedServesBoth
