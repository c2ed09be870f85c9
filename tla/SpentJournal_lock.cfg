SPECIFICATION Spec
CONSTANTS
    p1 = p1  p2 = p2  p3 = p3  t1 = t1  t2 = t2  k1 = k1  k2 = k2
    Procs = {p1, p2}
    Tokens = {t1, t2}
    Keys = {k1}
    KeyOf <- OneKey
    None = None
    Tamper = "lock"
    MaxRecords = 4
    MaxLocks = 2
    MaxFaults = 2
SYMMETRY ProcSymmetry
INVARIANTS TypeOK RedemptionIsDurable RefundIsDurable ViewIsReplay
PROPERTIES OneRedemption CleanStartup
CHECK_DEADLOCK FALSE
