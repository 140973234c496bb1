\* One signature sent to two replicas whose clocks differ, every kind of fault: it is served
\* once, every hold ends and every leak is cleared.
SPECIFICATION FairSpec
CONSTANTS
    s1 = s1  s2 = s2  s3 = s3  r1 = r1  r2 = r2  m1 = m1  m2 = m2  m3 = m3  p1 = p1  rt = rt  free = free
    NoRoute = NoRoute  NoTable = NoTable  NoPayment = NoPayment  Malformed = Malformed
    Streams = {s1, s2}
    Replicas = {r1, r2}
    ReplicaOf <- mcReplicaOfTwo
    Skew <- mcSkew
    Wired = {r1, r2}
    Payments = {m1}
    Payers = {p1}
    Auth <- mcOnePayment
    Routes = {rt, free}
    Tables <- mcTables
    ChainBalance <- mcBalance
    InflightTTL = 2
    NonceMargin = 2
    MaxExact = 4
    MaxTimeout = 2
    SkewAllowance = 1
    Deadline = 1
    MaxServe = 2
    MaxRetries = 1
    Faults = {"unsent", "unacked", "crash"}
    MaxFaults = 2
    LastArrival = 3
    MaxTime = 6
INVARIANTS TypeOK ServedOnce
PROPERTIES HoldsEnd BackstopClears
