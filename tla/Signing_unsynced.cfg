SPECIFICATION Spec
CONSTANTS
    c1 = c1  c2 = c2  r1 = r1  r2 = r2  b1 = b1  b2 = b2
    Commands = {c1, c2}
    Rebuilds = {}
    Epochs = {1, 2}
    Bodies = {b1, b2}
    None = None
    MaxFailures = 1
    MaxPowerLosses = 1
INVARIANT NoEquivocation
CHECK_DEADLOCK FALSE
