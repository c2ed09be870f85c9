SPECIFICATION Spec
CONSTANTS
    r1 = r1  r2 = r2  refill = refill  copy = copy  i1 = i1 
    None = None
    Requests = {r1, r2}
    Refill = refill
    Copy = copy
    Callers = {r1, r2, refill, copy}
    Invoices = {i1}
    Receipt = i1
    Program <- Daily2
    Books <- DailyBooks
    MaxVouchers = 4
    Batch = 2
    Ahead = 0
    Maximum = 2
    Minute = 2
    MaxTime = 2
    MaxCopies = 1
    MaxFaults = 1
INVARIANTS TypeOK ShownOnce NothingLost SpentIsWhatLeft NoForgottenRefill InvoicesBounded OffersAccepted
SYMMETRY Symmetry
PROPERTY OneSignature
CHECK_DEADLOCK FALSE
