CONSTANTS
    c1 = c1
    c2 = c2
    s1 = s1
    Callers <- TwoCallers
    Stoppers <- OneStopper
    MaxRequests = 3
    MaxInbox = 3
SPECIFICATION Spec
INVARIANTS TypeOK OneStartInFlight StopIsFinal
CHECK_DEADLOCK FALSE
