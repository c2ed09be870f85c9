SPECIFICATION AuthoritySpec
CONSTANTS
    c1 = c1  r1 = r1  r2 = r2  b1 = b1  b2 = b2  relay = relay  s1 = s1  s2 = s2
    Commands = {c1}
    Rebuilds = {r1, r2}
    Epochs = {1, 2}
    Bodies = {b1, b2}
    None = None
    MaxFailures = 2
    MaxPowerLosses = 1
    Operators = {relay}
    Descriptors <- Published
    Submissions = {s1, s2}
    Loop = Loop
    EpochLength = 2
    Validity = 3
    ClockSkew = 0
    UnhealthyAfter = 2
    Nobody = Nobody
    MaxTime = 5
    MaxMishaps = 0
INVARIANT EligibleCanList
CHECK_DEADLOCK FALSE
