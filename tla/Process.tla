------------------------------- MODULE Process -------------------------------
(***************************************************************************)
(* The filter's process (cmd/x402-filter): its start, the price-table      *)
(* watch (pricing.Watcher, pricing.Store), the readiness goroutine with    *)
(* the health server, and the way from SIGTERM to the exit.                *)
(*                                                                         *)
(* main, the watcher and the readiness goroutine share a context that      *)
(* SIGTERM cancels; each gets to see that in its own time.                 *)
(***************************************************************************)
EXTENDS Naturals, Time

CONSTANTS
    Replicas,
    Requests,      \* requests Envoy may bring, a stream each
    Untimed,       \* those among them on routes without a timeout
    MaxServe,      \* Envoy's timeout for the others, in ticks
    Prices,        \* what a table may ask for the route
    Drain,         \* -drain, in ticks
    MaxEvents,     \* bound: writes of the table, turns of Redis, SIGTERMs and kills
    LastEvent,     \* bound: none of them after this time
    NoTable, Unpriced, Broken, Deleted

\* What the ConfigMap may hold: a table with the route's price, a table without the route,
\* one that Parse refuses or that lacks the key, or nothing, the object being deleted.
Contents == Prices \cup {Unpriced, Broken, Deleted}
Parses(c) == c \in Prices \cup {Unpriced}

ASSUME ProcessAssumption ==
    /\ {Drain, MaxServe, MaxEvents, LastEvent, MaxTime} \subseteq Nat
    /\ LastEvent + Drain <= MaxTime
    /\ Untimed \subseteq Requests
    /\ NoTable \notin Contents
    /\ Prices \cap {Unpriced, Broken, Deleted} = {}

\* As deployed, the routes' timeout is shorter than -drain: 15 s against 20 s.
ASSUME DrainAssumption == MaxServe < Drain

VARIABLES
    cm,          \* the ConfigMap
    redisUp,     \* whether Redis answers a ping in time
    main,        \* by replica: where main stands
    until,       \* by replica: when the drain limit is reached
    table,       \* by replica: pricing.Store
    checker,     \* by replica: the readiness goroutine
    serving,     \* by replica: the health status of the service "readiness"
    latched,     \* by replica: the health server was shut down and takes no more changes
    stream,      \* by request: its stream: where it is open, since when, how it went
    unpricedOnce,  \* history: a table without the route has been in the ConfigMap
    events

replicaVars == <<main, until, table, checker, serving, latched>>
vars == <<now, cm, redisUp, replicaVars, stream, unpricedOnce, events>>

\* "told": the context is cancelled and main has not acted on it yet.
MainSteps == {"up", "told", "unready", "draining", "exited"}

\* ready is the goroutine's own memory of what it last reported.
Checker == [at : {"waiting", "pinging", "setting", "sleeping", "gone"}, ready : BOOLEAN]
NewChecker == [at |-> "waiting", ready |-> FALSE]

\* decision is what the request phase made of it; the stream is closed by Envoy, or cut by
\* the drain limit, or gone with a process that was killed.
Stream == [at : {"new", "open", "closed", "cut", "killed"}, on : Replicas, since : Nat,
           decision : {"none", "table_not_loaded", "unpriced", "priced"}]

\* Replicas that have been up for a while: the table loaded, the first check passed.
Init ==
    /\ now = 0
    /\ cm \in Prices
    /\ redisUp = TRUE
    /\ main = [r \in Replicas |-> "up"] /\ until = [r \in Replicas |-> 0]
    /\ table = [r \in Replicas |-> cm]
    /\ checker = [r \in Replicas |-> [at |-> "sleeping", ready |-> TRUE]]
    /\ serving = [r \in Replicas |-> TRUE] /\ latched = [r \in Replicas |-> FALSE]
    /\ stream \in [Requests -> [at : {"new"}, on : Replicas, since : {0}, decision : {"none"}]]
    /\ unpricedOnce = FALSE
    /\ events = 0

Event == events < MaxEvents /\ now <= LastEvent /\ events' = events + 1

Cancelled(r) == main[r] # "up"
Running(r) == main[r] # "exited"

\* The gRPC server takes new streams until GracefulStop.
Accepting(r) == main[r] \in {"up", "told", "unready"}

------------------------------------------------------------------------------
(* The price table *)

WriteTable(c) ==
    /\ Event
    /\ cm # c
    /\ cm' = c
    /\ unpricedOnce' = (unpricedOnce \/ c = Unpriced)
    /\ UNCHANGED <<now, redisUp, replicaVars, stream>>

\* Mutant: of a table that does not parse the good routes are taken.
ApplyGoodPart(old, c) ==
    IF Parses(c) THEN c ELSE IF c = Broken THEN Unpriced ELSE old

\* Mutant: whatever the ConfigMap holds is stored.
ApplyAny(old, c) == c

\* Watcher.apply and the delete handler: a table that parses is stored; anything else
\* leaves the last good one.
Apply(old, c) == IF Parses(c) THEN c ELSE old

\* The watch delivers the ConfigMap as it is now; it ends with the context.
WatchTable(r) ==
    /\ main[r] = "up"
    /\ table[r] # Apply(table[r], cm)
    /\ table' = [table EXCEPT ![r] = Apply(@, cm)]
    /\ UNCHANGED <<now, cm, redisUp, main, until, checker, serving, latched, stream, unpricedOnce, events>>

------------------------------------------------------------------------------
(* Readiness *)

RedisTurns ==
    /\ Event
    /\ redisUp' = ~redisUp
    /\ UNCHANGED <<now, cm, replicaVars, stream, unpricedOnce>>

CheckerGoes(r, at, ready) ==
    /\ checker' = [checker EXCEPT ![r] = [at |-> at, ready |-> ready]]
    /\ UNCHANGED <<now, cm, redisUp, main, until, table, latched, stream, unpricedOnce, events>>

\* The first table is stored: the first check begins.
TableLoaded(r) ==
    /\ Running(r)
    /\ checker[r].at = "waiting"
    /\ table[r] # NoTable
    /\ CheckerGoes(r, "pinging", FALSE)
    /\ UNCHANGED serving

\* The context ends the goroutine while it waits; a ping under way is seen to its end.
CheckerStops(r) ==
    /\ Running(r) /\ Cancelled(r)
    /\ checker[r].at \in {"waiting", "sleeping"}
    /\ CheckerGoes(r, "gone", checker[r].ready)
    /\ UNCHANGED serving

\* The ping is answered in time, or it fails, also because the context ended.
Ping(r) == redisUp /\ ~Cancelled(r)

\* check: only a change is reported.
Pinged(r) ==
    /\ Running(r)
    /\ checker[r].at = "pinging"
    /\ CheckerGoes(r, IF Ping(r) = checker[r].ready THEN "sleeping" ELSE "setting", Ping(r))
    /\ UNCHANGED serving

\* SetServingStatus: without effect once the health server was shut down.
SetStatus(r) ==
    /\ Running(r)
    /\ checker[r].at = "setting"
    /\ serving' = [serving EXCEPT ![r] = IF latched[r] THEN @ ELSE checker[r].ready]
    /\ CheckerGoes(r, "sleeping", checker[r].ready)

\* Mutant: one check, and no ticker.
NextCheckNever(r) ==
    /\ Running(r)
    /\ checker[r].at = "sleeping"
    /\ CheckerGoes(r, "gone", checker[r].ready)
    /\ UNCHANGED serving

\* The ticker fires; with the context ended as well, Go picks either.  A check that would
\* find what the last one found changes nothing and is not a step.
NextCheck(r) ==
    /\ Running(r)
    /\ checker[r].at = "sleeping"
    /\ redisUp # checker[r].ready \/ Cancelled(r)
    /\ CheckerGoes(r, "pinging", checker[r].ready)
    /\ UNCHANGED serving

------------------------------------------------------------------------------
(* From SIGTERM to the exit *)

Sigterm(r) ==
    /\ Event
    /\ main[r] = "up"
    /\ main' = [main EXCEPT ![r] = "told"]
    /\ UNCHANGED <<now, cm, redisUp, until, table, checker, serving, latched, stream,
                   unpricedOnce>>

\* Mutant: the status is set and the health server left open to changes.
ShutdownOpen(r) ==
    /\ main[r] = "told"
    /\ main' = [main EXCEPT ![r] = "unready"]
    /\ serving' = [serving EXCEPT ![r] = FALSE]
    /\ UNCHANGED <<now, cm, redisUp, until, table, checker, latched, stream, unpricedOnce, events>>

\* hs.Shutdown: every status is NOT_SERVING from here on.
Shutdown(r) ==
    /\ main[r] = "told"
    /\ main' = [main EXCEPT ![r] = "unready"]
    /\ serving' = [serving EXCEPT ![r] = FALSE]
    /\ latched' = [latched EXCEPT ![r] = TRUE]
    /\ UNCHANGED <<now, cm, redisUp, until, table, checker, stream, unpricedOnce, events>>

OpenOn(r) == {q \in Requests : stream[q].at = "open" /\ stream[q].on = r}

\* The process is gone, and the streams it still had with it.
Exit(r, end) ==
    /\ main' = [main EXCEPT ![r] = "exited"]
    /\ until' = [until EXCEPT ![r] = 0]
    /\ serving' = [serving EXCEPT ![r] = FALSE]
    /\ stream' = [q \in Requests |->
                    IF q \in OpenOn(r) THEN [stream[q] EXCEPT !.at = end] ELSE stream[q]]
    /\ UNCHANGED <<now, cm, redisUp, table, checker, latched, unpricedOnce>>

\* Mutant: the server is stopped, not drained.
GracefulStopHard(r) ==
    /\ main[r] = "unready"
    /\ Exit(r, "cut")
    /\ UNCHANGED events

\* GracefulStop begins: no new streams, and the drain limit runs.
GracefulStop(r) ==
    /\ main[r] = "unready"
    /\ main' = [main EXCEPT ![r] = "draining"]
    /\ until' = [until EXCEPT ![r] = now + Drain]
    /\ UNCHANGED <<now, cm, redisUp, table, checker, serving, latched, stream, unpricedOnce, events>>

\* GracefulStop returns once the last stream has ended.
Drained(r) ==
    /\ main[r] = "draining"
    /\ OpenOn(r) = {}
    /\ Exit(r, "closed")
    /\ UNCHANGED events

\* Mutant: main waits for GracefulStop however long it takes.
StopAtLimitNever(r) ==
    /\ main[r] = "draining"
    /\ OpenOn(r) = {}
    /\ Exit(r, "cut")
    /\ UNCHANGED events

\* The drain limit: Stop, with streams still open.
StopAtLimit(r) ==
    /\ main[r] = "draining"
    /\ OpenOn(r) # {}
    /\ now >= until[r]
    /\ Exit(r, "cut")
    /\ UNCHANGED events

\* The process dies, or is killed.
Kill(r) ==
    /\ Event
    /\ Running(r)
    /\ Exit(r, "killed")

\* Kubernetes puts a new process in the place of one that is gone.
Start(r) ==
    /\ main[r] = "exited"
    /\ main' = [main EXCEPT ![r] = "up"]
    /\ table' = [table EXCEPT ![r] = NoTable]
    /\ checker' = [checker EXCEPT ![r] = NewChecker]
    /\ latched' = [latched EXCEPT ![r] = FALSE]
    /\ UNCHANGED <<now, cm, redisUp, until, serving, stream, unpricedOnce, events>>

------------------------------------------------------------------------------
(* Envoy and the clock *)

\* requestHeaders as far as it asks for the table: without one the answer is a 503, and a
\* route that is not in it goes on to the backend unpaid.
OpenStream(q) ==
    LET t == table[stream[q].on] IN
    /\ stream[q].at = "new"
    /\ Accepting(stream[q].on)
    /\ stream' = [stream EXCEPT ![q] = [@ EXCEPT !.since = now,
          !.at = IF t = NoTable THEN "closed" ELSE "open",
          !.decision = IF t = NoTable THEN "table_not_loaded"
                       ELSE IF t = Unpriced THEN "unpriced" ELSE "priced"]]
    /\ UNCHANGED <<now, cm, redisUp, replicaVars, unpricedOnce, events>>

CloseStream(q) ==
    /\ stream[q].at = "open"
    /\ stream' = [stream EXCEPT ![q].at = "closed"]
    /\ UNCHANGED <<now, cm, redisUp, replicaVars, unpricedOnce, events>>

\* Time passes; main acts on the signal within a tick, and Envoy ends a stream in time, if
\* its route has a timeout.
Tick ==
    /\ now < MaxTime
    /\ \A r \in Replicas : main[r] \notin {"told", "unready"}
    /\ \A q \in Requests \ Untimed : stream[q].at = "open" => now < stream[q].since + MaxServe
    /\ now' = now + 1
    /\ UNCHANGED <<cm, redisUp, replicaVars, stream, unpricedOnce, events>>

\* The goroutines of a replica.
Main(r) == Shutdown(r) \/ GracefulStop(r) \/ Drained(r) \/ StopAtLimit(r)
Readiness(r) == TableLoaded(r) \/ CheckerStops(r) \/ Pinged(r) \/ SetStatus(r) \/ NextCheck(r)

Next ==
    \/ \E r \in Replicas : WatchTable(r) \/ Readiness(r) \/ Main(r)
                          \/ Start(r) \/ Sigterm(r) \/ Kill(r)
    \/ \E q \in Requests : OpenStream(q) \/ CloseStream(q)
    \/ RedisTurns \/ \E c \in Contents : WriteTable(c)
    \/ Tick

Spec == Init /\ [][Next]_vars

\* Each goroutine of a replica gets on, Kubernetes replaces what has exited, time passes, and
\* Envoy ends the streams of routes with a timeout.  Nobody owes the others an end.
Fairness ==
    /\ \A r \in Replicas :
         WF_vars(WatchTable(r)) /\ WF_vars(Readiness(r)) /\ WF_vars(Main(r)) /\ WF_vars(Start(r))
    /\ \A q \in Requests \ Untimed : WF_vars(CloseStream(q))
    /\ WF_vars(Tick)

FairSpec == Spec /\ Fairness

==============================================================================
