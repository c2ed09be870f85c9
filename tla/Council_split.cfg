SPECIFICATION DirectorySpec
CONSTANTS
    a1 = a1  a2 = a2  a3 = a3  a4 = a4  o1 = o1  m1 = m1  b1 = b1  b2 = b2
    x = x  y = y  c1 = c1  c2 = c2
    Authorities = {a1, a2, a3, a4}
    Faulty = {a4}
    Outsiders = {o1}
    Threshold = 3
    Mirrors = {m1}
    Epochs = {1, 2}
    Bodies = {b1, b2}
    Lifetime = 2
    Skew = 1
    None = None
    Nil = Nil
    MaxFailures = 2
    Relays = {x, y}
    Conns = {c1, c2}
    MaxTunnels = 1
    Stoppable = {x}
    Documents = {0, 1, 2}
    Lists <- Withdrawal
    Valid = 1
    Ahead = 1
    MaxStale = 0
    MaxNow = 2
SYMMETRY Symmetric
INVARIANTS TypeOK OneDirectory NoRollback SlotsExact StoppedIsQuiet HealthIsTrue WithdrawnGuardWasDialing
CHECK_DEADLOCK FALSE
