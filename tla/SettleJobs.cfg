\* Two consumers race for one job, which may not parse, with
\* every kind of fault.
SPECIFICATION FairSpec
CONSTANTS
    c1 = c1  c2 = c2  m1 = m1  m2 = m2  p1 = p1
    Payments = {m1, m2}
    Payers = {p1}
    Auth <- mcAlike
    InflightTTL = 3
    NonceMargin = 1
    MaxExact = 9
    InitialFunds <- mcFunds
    LandWithin = 1
    MayCancel = TRUE
    Settlers = {c1, c2}
    Count = 2
    MinIdle = 1
    MaxDeliveries = 2
    Unparsable = {m2}
    Foreign = {}
    SettleFaults = {"unsent", "unacked", "rpc", "crash"}
    MaxSettleFaults = 2
    MaxJobs = 1
    Horizon = 3
INVARIANTS TypeOK AckedIsKnown FiledPaidIsPaid ExpiredNeverPaid
PROPERTIES EveryJobEnds
