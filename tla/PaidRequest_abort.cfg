SPECIFICATION Spec
CONSTANTS
    r1 = r1  r2 = r2  r3 = r3  c1 = c1  c2 = c2  t1 = t1  t2 = t2
    None = None
    Requests = {r1, r2}
    Copies = {}
    Tokens = {t1, t2}
    Capacity = 2
    MaxFaults = 1
INVARIANT GivenBackIsKept
CHECK_DEADLOCK FALSE
