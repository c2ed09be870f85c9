SPECIFICATION FairSpec
CONSTANTS
    p1 = p1  p2 = p2  p3 = p3  t1 = t1  t2 = t2  k1 = k1  k2 = k2
    Procs = {p1, p2}
    Tokens = {t1}
    Keys = {k1}
    KeyOf <- OneToken
    None = None
    Tamper = "journal"
    MaxRecords = 3
    MaxLocks = 1
    MaxFaults = 2
PROPERTIES OneRedemption CallsReturn
CHECK_DEADLOCK FALSE
