\* One replica is stopped, killed and replaced while tables and Redis turn.
SPECIFICATION FairSpec
CONSTANTS
    r1 = r1  q1 = q1  q2 = q2
    NoTable = NoTable  Unpriced = Unpriced  Broken = Broken  Deleted = Deleted
    Replicas = {r1}
    Requests = {q1, q2}
    Untimed = {q2}
    MaxServe = 1
    Prices = {"price"}
    Drain = 2
    MaxEvents = 3
    LastEvent = 2
    MaxTime = 4
INVARIANTS TypeOK FreeOnlyIfUnpriced ReadyMeansAble DrainCutsNobody
PROPERTIES ProcessesExit ReadinessFollows
CHECK_DEADLOCK FALSE
