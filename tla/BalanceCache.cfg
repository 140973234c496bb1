\* Two requesters on two replicas whose clocks differ, one payer.
SPECIFICATION Spec
CONSTANTS
    s1 = s1  s2 = s2  r1 = r1  r2 = r2  p1 = p1
    Payers = {p1}
    Replicas = {r1, r2}
    Readers = {s1, s2}
    ReplicaOf <- mcReplicaOf
    Skew <- mcSkew
    Fresh = 1
    LastKnown = 3
    FetchTimeout = 1
    Balances = {0, 1}
    MaxTime = 5
INVARIANTS TypeOK BoundedStaleness WaitersHaveARead
