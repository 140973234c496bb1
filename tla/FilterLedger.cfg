\* Three requests of one payer, calls that never reach Redis, replicas that crash.
SPECIFICATION Spec
CONSTANTS
    s1 = s1  s2 = s2  s3 = s3  r1 = r1  r2 = r2  m1 = m1  m2 = m2  m3 = m3  p1 = p1  rt = rt  free = free
    NoRoute = NoRoute  NoTable = NoTable  NoPayment = NoPayment  Malformed = Malformed
    Streams <- mcStreams
    Replicas = {r1, r2}
    ReplicaOf <- mcReplicaOf
    Skew <- mcNoSkew
    Wired = {r1, r2}
    Payments = {m1, m2, m3}
    Payers = {p1}
    Auth <- mcAuth
    Routes = {rt}
    Tables <- mcOneTable
    ChainBalance <- mcBalance
    InflightTTL = 3
    NonceMargin = 2
    MaxExact = 4
    MaxTimeout = 4
    SkewAllowance = 1
    Deadline = 0
    MaxServe = 2
    MaxRetries = 1
    Faults = {"unsent", "crash"}
    MaxFaults = 1
    LastArrival = 1
    MaxTime = 4
INVARIANTS NeverUndercounts NoOverdraft InflightExact ClaimMeansAccepted QueueMatchesDecisions
SYMMETRY mcSymmetry
