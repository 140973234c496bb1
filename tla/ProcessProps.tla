---------------------------- MODULE ProcessProps -----------------------------
(***************************************************************************)
(* What an operator may count on while tables change and break, Redis      *)
(* comes and goes and replicas are stopped and replaced.                   *)
(***************************************************************************)
EXTENDS Process

\* Every variable has its type.
TypeOK ==
    /\ now \in 0..MaxTime
    /\ cm \in Contents /\ redisUp \in BOOLEAN
    /\ main \in [Replicas -> MainSteps] /\ until \in [Replicas -> Nat]
    /\ table \in [Replicas -> Prices \cup {Unpriced, NoTable}]
    /\ checker \in [Replicas -> Checker]
    /\ serving \in [Replicas -> BOOLEAN] /\ latched \in [Replicas -> BOOLEAN]
    /\ stream \in [Requests -> Stream]
    /\ unpricedOnce \in BOOLEAN
    /\ events \in 0..MaxEvents

\* A request goes through unpaid only if somebody wrote a table without its route: broken
\* and deleted tables, restarts and drains never make a priced route free (Watcher: "the
\* controller being down or wrong must not make priced routes free").
FreeOnlyIfUnpriced ==
    \A q \in Requests : stream[q].decision = "unpriced" => unpricedOnce

\* A replica reports ready only with a table, and never once it has begun to shut down,
\* however the readiness goroutine and main interleave (readiness, hs.Shutdown).
ReadyMeansAble ==
    \A r \in Replicas : serving[r] => table[r] # NoTable /\ main[r] \in {"up", "told"}

\* A drain cuts off no request of a route with a timeout: the limit is longer than Envoy lets
\* its stream live (-drain 20 s against 15 s; "let in-flight requests finish").
DrainCutsNobody == \A q \in Requests \ Untimed : stream[q].at # "cut"

------------------------------------------------------------------------------
(* What makes these three inductive *)

\* A table without the route is in a store or in the ConfigMap only if somebody wrote it.
UnpricedWasWritten ==
    unpricedOnce \/ (cm # Unpriced /\ \A r \in Replicas : table[r] # Unpriced)

\* Past the wait for the first table a check has one, and a health server that takes changes
\* is that of a process that has not begun to stop.
CheckInv ==
    \A r \in Replicas :
        /\ checker[r].at \in {"pinging", "setting", "sleeping"} => table[r] # NoTable
        /\ main[r] \in {"unready", "draining"} => latched[r]

\* Envoy has let no stream of a route with a timeout grow too old, and a process that drains
\* took none after it began to.
DrainInv ==
    \A q \in Requests \ Untimed : stream[q].at = "open" =>
        /\ stream[q].since <= now /\ now <= stream[q].since + MaxServe
        /\ main[stream[q].on] = "draining" => stream[q].since + Drain <= until[stream[q].on]

ProcessInv ==
    /\ TypeOK
    /\ UnpricedWasWritten /\ FreeOnlyIfUnpriced
    /\ CheckInv /\ ReadyMeansAble
    /\ DrainInv /\ DrainCutsNobody

------------------------------------------------------------------------------

\* A replica that is told to stop exits, also with a stream that nobody ends (run, -drain).
ProcessesExit == \A r \in Replicas : (main[r] = "told") ~> (main[r] = "exited")

Able(r) == main[r] = "up" /\ redisUp /\ table[r] # NoTable

\* The readiness status ends up as the replica's condition: ready when it stays able, not
\* ready when it stays unable (readiness: "in step with what the filter needs").
ReadinessFollows ==
    \A r \in Replicas :
        /\ <>[]Able(r) => <>[]serving[r]
        /\ <>[]~Able(r) => <>[]~serving[r]

==============================================================================
