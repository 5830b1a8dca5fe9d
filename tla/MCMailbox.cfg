CONSTANTS
    p1 = p1  p2 = p2  c1 = c1  c2 = c2  c3 = c3  k1 = k1  k2 = k2
    Owners = {p1, p2}
    NoOwner = none
    Callers = {c1, c2, c3}
    NoCaller = nobody
    Keys = {k1, k2}
    HostOf <- MCHosts
    Deferrable = {k1}
    Scenes <- MCScenes
SPECIFICATION Spec
CHECK_DEADLOCK FALSE
INVARIANTS AtMostOnceDispatch OutcomesAreFacts
PROPERTIES ImplementsLedger
