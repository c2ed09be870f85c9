SPECIFICATION GatewaySpec
CONSTANTS
    r1 = r1  r2 = r2  r3 = r3
    Requests = {r1, r2, r3}
    Weight <- Mixed
    Ceilings = 2
    Length <- TwoWindows
    MaxRequests <- TwoRequests
    MaxUnits <- TwoUnits
    MaxNow = 2
    MaxFaults = 1
    Word = 24
    Places = 1
    Padding = 2
    MaxPrice = 20
    LimitDefault = 24
    LimitMaximum = 30
    Configs <- SomeConfigs
    Asked <- SomeRequests
    MaxDepth = 3
    MaxTime = 2
    Answers <- SomeAnswers
    Lines <- SomeLines
    MaxLines = 4
SYMMETRY LightSymmetry
INVARIANTS TypeOK CeilingHolds CountersAreExact AllOrNothing PaidForIsSent AnswerIsTrue
CHECK_DEADLOCK FALSE
