\* One signature sent to two replicas; filters and settlers lose calls and crash.
SPECIFICATION Spec
CONSTANTS
    s1 = s1  s2 = s2  r1 = r1  r2 = r2  c1 = c1  m1 = m1  m2 = m2  p1 = p1  rt = rt
    NoRoute = NoRoute  NoTable = NoTable  NoPayment = NoPayment  Malformed = Malformed
    Streams = {s1, s2}
    Replicas = {r1, r2}
    ReplicaOf <- mcReplicaOf
    Skew <- mcSkew
    Wired = {r1, r2}
    Payments = {m1}
    Payers = {p1}
    Auth <- mcAuthOne
    Routes = {rt}
    Tables <- mcTables
    InflightTTL = 3
    NonceMargin = 1
    MaxExact = 9
    InitialFunds <- mcFunds
    LandWithin = 1
    MayCancel = FALSE
    MaxTimeout = 2
    SkewAllowance = 1
    Deadline = 0
    MaxServe = 1
    MaxRetries = 1
    Faults = {"unsent", "crash"}
    MaxFaults = 1
    Fresh = 1
    LastKnown = 2
    FetchTimeout = 0
    Settlers = {c1}
    Count = 2
    MinIdle = 1
    MaxDeliveries = 1
    Unparsable = {}
    Foreign = {}
    SettleFaults = {"unacked", "crash"}
    MaxSettleFaults = 1
    LastArrival = 1
    MaxTime = 2
PROPERTIES LifeCycle
