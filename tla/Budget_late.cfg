SPECIFICATION Spec
CONSTANTS
    r1 = r1  r2 = r2  r3 = r3
    Requests = {r1, r2, r3}
    Weight <- Light
    Ceilings = 1
    Length <- OneWindow
    MaxRequests <- OneEach
    MaxUnits <- OneEach
    MaxNow = 1
    MaxFaults = 0
INVARIANT CeilingAlwaysHolds
CHECK_DEADLOCK FALSE
