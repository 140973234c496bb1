---------------------------- MODULE ProcessProofs ----------------------------
(***************************************************************************)
(* Proofs about the filter's process, for every number of replicas and     *)
(* requests, every price, every order of the goroutines and every sequence *)
(* of table writes, Redis outages, SIGTERMs and kills.                     *)
(***************************************************************************)
EXTENDS ProcessProps, TLAPS

\* The invariant holds for replicas that have been up for a while and have no streams yet.
LEMMA InitHolds == Init => ProcessInv
  <1> SUFFICES ASSUME Init PROVE ProcessInv
      OBVIOUS
  <1>1. Unpriced \notin Prices /\ NoTable \notin Prices
    BY ProcessAssumption DEF Contents
  <1>2. /\ stream \in [Requests -> Stream]
        /\ \A q \in Requests : stream[q].at = "new" /\ stream[q].decision = "none"
    BY DEF Init, Stream
  <1>3. TypeOK
    <2>1. checker \in [Replicas -> Checker]
      <3>1. [at |-> "sleeping", ready |-> TRUE] \in Checker
        BY Zenon DEF Checker
      <3> QED BY <3>1 DEF Init
    <2>2. /\ redisUp \in BOOLEAN /\ unpricedOnce \in BOOLEAN
          /\ serving \in [Replicas -> BOOLEAN] /\ latched \in [Replicas -> BOOLEAN]
      BY DEF Init
    <2>3. now \in 0..MaxTime /\ events \in 0..MaxEvents
      BY ProcessAssumption DEF Init
    <2>4. main \in [Replicas -> MainSteps] /\ until \in [Replicas -> Nat]
      BY DEF Init, MainSteps
    <2>5. cm \in Contents /\ table \in [Replicas -> Prices \cup {Unpriced, NoTable}]
      BY DEF Init, Contents
    <2> QED BY <1>2, <2>1, <2>2, <2>3, <2>4, <2>5 DEF TypeOK
  <1>4. UnpricedWasWritten /\ CheckInv /\ ReadyMeansAble
    BY <1>1 DEF Init, UnpricedWasWritten, CheckInv, ReadyMeansAble
  <1>5. FreeOnlyIfUnpriced /\ DrainInv /\ DrainCutsNobody
    BY <1>2 DEF FreeOnlyIfUnpriced, DrainInv, DrainCutsNobody
  <1> QED BY <1>3, <1>4, <1>5 DEF ProcessInv

\* What every step of the readiness goroutine does to the types.
LEMMA CheckerType ==
  ASSUME TypeOK, NEW r \in Replicas, Readiness(r)
  PROVE  TypeOK'
  <1> USE DEF TypeOK
  <1>1. ASSUME NEW at \in {"pinging", "setting", "sleeping", "gone"}, NEW ready \in BOOLEAN,
               CheckerGoes(r, at, ready), serving' \in [Replicas -> BOOLEAN]
        PROVE  TypeOK'
    <2>1. [at |-> at, ready |-> ready] \in Checker
      BY Zenon DEF Checker
    <2>2. checker' \in [Replicas -> Checker]
      BY <1>1, <2>1 DEF CheckerGoes
    <2> QED BY <1>1, <2>2 DEF CheckerGoes
  <1>2. checker[r].ready \in BOOLEAN /\ Ping(r) \in BOOLEAN
    BY DEF Checker, Ping, Cancelled
  <1>3. CASE TableLoaded(r)
    BY <1>1, <1>3 DEF TableLoaded
  <1>4. CASE CheckerStops(r)
    BY <1>1, <1>2, <1>4 DEF CheckerStops
  <1>5. CASE Pinged(r)
    BY <1>1, <1>2, <1>5 DEF Pinged
  <1>6. CASE SetStatus(r)
    <2>1. serving' \in [Replicas -> BOOLEAN]
      BY <1>2, <1>6 DEF SetStatus
    <2> QED BY <1>1, <1>2, <1>6, <2>1 DEF SetStatus
  <1>7. CASE NextCheck(r)
    BY <1>1, <1>2, <1>7 DEF NextCheck
  <1> QED BY <1>3, <1>4, <1>5, <1>6, <1>7 DEF Readiness

\* A replica that ends leaves every stream a stream.
LEMMA ExitType ==
  ASSUME TypeOK, NEW r \in Replicas, NEW end \in {"closed", "cut", "killed"}, Exit(r, end),
         events' \in 0..MaxEvents
  PROVE  TypeOK'
  <1>1. \A q \in Requests : [stream[q] EXCEPT !.at = end] \in Stream
    BY DEF TypeOK, Stream
  <1>2. stream' \in [Requests -> Stream]
    BY <1>1 DEF Exit, TypeOK
  <1> QED BY <1>2 DEF Exit, TypeOK, MainSteps

\* Every step keeps the types.
LEMMA TypeStep == ProcessInv /\ [Next]_vars => TypeOK'
  <1> SUFFICES ASSUME TypeOK, [Next]_vars PROVE TypeOK'
      BY DEF ProcessInv
  <1>1. ASSUME NEW r \in Replicas, WatchTable(r) PROVE TypeOK'
    BY <1>1 DEF WatchTable, Apply, Parses, TypeOK
  <1>2. ASSUME NEW r \in Replicas, Readiness(r) PROVE TypeOK'
    BY <1>2, CheckerType
  <1>3. ASSUME NEW r \in Replicas, Shutdown(r) PROVE TypeOK'
    BY <1>3 DEF Shutdown, TypeOK, MainSteps
  <1>4. ASSUME NEW r \in Replicas, Sigterm(r) PROVE TypeOK'
    BY <1>4, ProcessAssumption DEF Sigterm, Event, TypeOK, MainSteps
  <1>5. ASSUME NEW r \in Replicas, GracefulStop(r) PROVE TypeOK'
    BY <1>5, ProcessAssumption DEF GracefulStop, TypeOK, MainSteps
  <1>6. ASSUME NEW r \in Replicas, Start(r) PROVE TypeOK'
    BY <1>6 DEF Start, TypeOK, MainSteps, Checker, NewChecker
  <1>7. ASSUME NEW r \in Replicas, Drained(r) \/ StopAtLimit(r) PROVE TypeOK'
    BY <1>7, ExitType DEF Drained, StopAtLimit, TypeOK
  <1>8. ASSUME NEW r \in Replicas, Kill(r) PROVE TypeOK'
    <2>1. events' \in 0..MaxEvents
      BY <1>8, ProcessAssumption DEF Kill, Event, TypeOK
    <2> QED BY <1>8, <2>1, ExitType DEF Kill
  <1>9. ASSUME NEW q \in Requests, OpenStream(q) PROVE TypeOK'
    <2>1. stream[q] \in Stream /\ now \in Nat
      BY DEF TypeOK
    <2>2. stream'[q] \in Stream
      BY <1>9, <2>1 DEF OpenStream, TypeOK, Stream
    <2>3. stream' \in [Requests -> Stream]
      BY <1>9, <2>2 DEF OpenStream, TypeOK
    <2> QED BY <1>9, <2>3 DEF OpenStream, TypeOK, replicaVars
  <1>10. ASSUME NEW q \in Requests, CloseStream(q) PROVE TypeOK'
    <2>1. [stream[q] EXCEPT !.at = "closed"] \in Stream
      BY DEF TypeOK, Stream
    <2> QED BY <1>10, <2>1 DEF CloseStream, TypeOK, replicaVars
  <1>11. ASSUME RedisTurns PROVE TypeOK'
    BY <1>11, ProcessAssumption DEF RedisTurns, Event, TypeOK, replicaVars
  <1>12. ASSUME NEW c \in Contents, WriteTable(c) PROVE TypeOK'
    BY <1>12, ProcessAssumption DEF WriteTable, Event, TypeOK, replicaVars
  <1>13. ASSUME Tick PROVE TypeOK'
    BY <1>13, ProcessAssumption DEF Tick, TypeOK, replicaVars
  <1>14. ASSUME UNCHANGED vars PROVE TypeOK'
    BY <1>14 DEF vars, TypeOK, replicaVars
  <1> QED BY <1>1, <1>2, <1>3, <1>4, <1>5, <1>6, <1>7, <1>8, <1>9, <1>10, <1>11, <1>12, <1>13,
             <1>14
          DEF Next, Main

------------------------------------------------------------------------------
(* A priced route does not become free *)

\* Only WriteTable puts a table without the route into the ConfigMap, and it is remembered;
\* a store gets it from there, and a stream from the store.
LEMMA FreeStep ==
    ProcessInv /\ [Next]_vars => UnpricedWasWritten' /\ FreeOnlyIfUnpriced'
  <1> SUFFICES ASSUME TypeOK, UnpricedWasWritten, FreeOnlyIfUnpriced, [Next]_vars
               PROVE  UnpricedWasWritten' /\ FreeOnlyIfUnpriced'
      BY DEF ProcessInv
  <1> USE DEF UnpricedWasWritten, FreeOnlyIfUnpriced
  <1>1. ASSUME NEW r \in Replicas, WatchTable(r)
        PROVE  UnpricedWasWritten' /\ FreeOnlyIfUnpriced'
    BY <1>1 DEF WatchTable, Apply, TypeOK
  <1>2. ASSUME NEW r \in Replicas, Start(r)
        PROVE  UnpricedWasWritten' /\ FreeOnlyIfUnpriced'
    BY <1>2, ProcessAssumption DEF Start, Contents, TypeOK
  <1>3. ASSUME NEW r \in Replicas, Readiness(r) \/ Shutdown(r) \/ GracefulStop(r) \/ Sigterm(r)
        PROVE  UnpricedWasWritten' /\ FreeOnlyIfUnpriced'
    BY <1>3 DEF Readiness, TableLoaded, CheckerStops, Pinged, SetStatus, NextCheck, CheckerGoes,
                Shutdown, GracefulStop, Sigterm
  <1>4. ASSUME NEW r \in Replicas, NEW end, Exit(r, end)
        PROVE  UnpricedWasWritten' /\ FreeOnlyIfUnpriced'
    <2>1. \A q \in Requests : stream'[q].decision = stream[q].decision
      BY <1>4 DEF Exit, TypeOK, Stream
    <2> QED BY <1>4, <2>1 DEF Exit
  <1>5. ASSUME NEW q \in Requests, OpenStream(q)
        PROVE  UnpricedWasWritten' /\ FreeOnlyIfUnpriced'
    <2>1. stream[q].on \in Replicas
      BY DEF TypeOK, Stream
    <2>2. stream'[q].decision = "unpriced" => table[stream[q].on] = Unpriced
      BY <1>5 DEF OpenStream, TypeOK, Stream
    <2>3. \A p \in Requests \ {q} : stream'[p] = stream[p]
      BY <1>5 DEF OpenStream, TypeOK
    <2> QED BY <1>5, <2>1, <2>2, <2>3 DEF OpenStream, replicaVars
  <1>6. ASSUME NEW q \in Requests, CloseStream(q)
        PROVE  UnpricedWasWritten' /\ FreeOnlyIfUnpriced'
    <2>1. \A p \in Requests : stream'[p].decision = stream[p].decision
      BY <1>6 DEF CloseStream, TypeOK, Stream
    <2> QED BY <1>6, <2>1 DEF CloseStream, replicaVars
  <1>7. ASSUME NEW c \in Contents, WriteTable(c)
        PROVE  UnpricedWasWritten' /\ FreeOnlyIfUnpriced'
    BY <1>7 DEF WriteTable, replicaVars, TypeOK
  <1>8. ASSUME RedisTurns \/ Tick \/ UNCHANGED vars
        PROVE  UnpricedWasWritten' /\ FreeOnlyIfUnpriced'
    BY <1>8 DEF RedisTurns, Tick, vars, replicaVars
  <1> QED BY <1>1, <1>2, <1>3, <1>4, <1>5, <1>6, <1>7, <1>8
          DEF Next, Main, Drained, StopAtLimit, Kill

------------------------------------------------------------------------------
(* A replica that reports ready is able *)

\* The readiness goroutine checks only with a table, and what it reports after hs.Shutdown
\* changes nothing: until then main is "up" or "told".
LEMMA ReadyStep == ProcessInv /\ [Next]_vars => CheckInv' /\ ReadyMeansAble'
  <1> SUFFICES ASSUME TypeOK, CheckInv, ReadyMeansAble, [Next]_vars
               PROVE  CheckInv' /\ ReadyMeansAble'
      BY DEF ProcessInv
  <1> USE DEF CheckInv, ReadyMeansAble
  <1>1. ASSUME NEW r \in Replicas, WatchTable(r) PROVE CheckInv' /\ ReadyMeansAble'
    <2>1. Apply(table[r], cm) # NoTable
      BY <1>1, ProcessAssumption DEF WatchTable, Apply, Parses, Contents
    <2> QED BY <1>1, <2>1 DEF WatchTable, TypeOK
  <1>2. ASSUME NEW r \in Replicas, Readiness(r) PROVE CheckInv' /\ ReadyMeansAble'
    <2>1. UNCHANGED <<main, table, latched>>
      BY <1>2 DEF Readiness, TableLoaded, CheckerStops, Pinged, SetStatus, NextCheck, CheckerGoes
    <2>2. \A p \in Replicas \ {r} : checker'[p] = checker[p] /\ serving'[p] = serving[p]
      BY <1>2 DEF TypeOK, Readiness, TableLoaded, CheckerStops, Pinged, SetStatus, NextCheck,
                  CheckerGoes
    <2>3. checker'[r].at \in {"pinging", "setting", "sleeping"} => table[r] # NoTable
      BY <1>2 DEF TypeOK, Readiness, TableLoaded, CheckerStops, Pinged, SetStatus, NextCheck,
                  CheckerGoes
    <2>4. serving'[r] => table[r] # NoTable /\ main[r] \in {"up", "told"}
      <3>1. CASE SetStatus(r)
        <4>1. main[r] \in MainSteps
          BY DEF TypeOK
        <4> QED BY <3>1, <4>1 DEF SetStatus, Running, MainSteps, TypeOK
      <3>2. CASE ~SetStatus(r)
        BY <1>2, <3>2 DEF Readiness, TableLoaded, CheckerStops, Pinged, NextCheck
      <3> QED BY <3>1, <3>2
    <2> QED BY <2>1, <2>2, <2>3, <2>4
  <1>3. ASSUME NEW r \in Replicas, Shutdown(r) PROVE CheckInv' /\ ReadyMeansAble'
    BY <1>3 DEF Shutdown, TypeOK
  <1>4. ASSUME NEW r \in Replicas, Sigterm(r) \/ GracefulStop(r) PROVE CheckInv' /\ ReadyMeansAble'
    BY <1>4 DEF Sigterm, GracefulStop, TypeOK
  <1>5. ASSUME NEW r \in Replicas, Start(r) PROVE CheckInv' /\ ReadyMeansAble'
    BY <1>5 DEF Start, NewChecker, TypeOK
  <1>6. ASSUME NEW r \in Replicas, NEW end, Exit(r, end) PROVE CheckInv' /\ ReadyMeansAble'
    BY <1>6 DEF Exit, TypeOK
  <1>7. ASSUME UNCHANGED replicaVars PROVE CheckInv' /\ ReadyMeansAble'
    BY <1>7 DEF replicaVars
  <1> QED BY <1>1, <1>2, <1>3, <1>4, <1>5, <1>6, <1>7
          DEF Next, Main, Drained, StopAtLimit, Kill, vars, RedisTurns, Tick, WriteTable,
              OpenStream, CloseStream

------------------------------------------------------------------------------
(* A drain cuts off no stream that Envoy ends in time *)

\* When the drain limit is reached, every stream with a timeout is over: it was there before
\* the drain began, and has lived for MaxServe at the most.
LEMMA LimitFindsNone ==
  ASSUME ProcessInv, NEW r \in Replicas, StopAtLimit(r), NEW q \in Requests \ Untimed
  PROVE  q \notin OpenOn(r)
  <1> SUFFICES ASSUME stream[q].at = "open", stream[q].on = r PROVE FALSE
      BY DEF OpenOn
  <1>1. now \in Nat /\ stream[q].since \in Nat /\ until[r] \in Nat
    BY DEF ProcessInv, TypeOK, Stream
  <1>2. now <= stream[q].since + MaxServe /\ stream[q].since + Drain <= until[r]
    BY DEF ProcessInv, DrainInv, StopAtLimit
  <1>3. now >= until[r]
    BY DEF StopAtLimit
  <1> QED BY <1>1, <1>2, <1>3, DrainAssumption, ProcessAssumption

\* No step lets a stream with a timeout grow too old or adds one to a draining process.
LEMMA DrainStep == ProcessInv /\ [Next]_vars => DrainInv' /\ DrainCutsNobody'
  <1> SUFFICES ASSUME ProcessInv, [Next]_vars PROVE DrainInv' /\ DrainCutsNobody'
      OBVIOUS
  <1> USE DEF DrainInv, DrainCutsNobody
  <1>0. TypeOK /\ DrainInv /\ DrainCutsNobody
    BY DEF ProcessInv
  <1>t. /\ now \in Nat /\ MaxServe \in Nat /\ Drain \in Nat
        /\ \A q \in Requests : stream[q].since \in Nat /\ stream[q].on \in Replicas
        /\ \A r \in Replicas : until[r] \in Nat
    BY <1>0, ProcessAssumption DEF TypeOK, Stream
  <1>1. ASSUME UNCHANGED <<main, until, now, stream>> PROVE DrainInv' /\ DrainCutsNobody'
    BY <1>0, <1>1
  <1>2. ASSUME NEW r \in Replicas, Shutdown(r) \/ Sigterm(r) \/ Start(r)
        PROVE  DrainInv' /\ DrainCutsNobody'
    <2>1. \A p \in Replicas : main'[p] = "draining" => main[p] = "draining"
      BY <1>0, <1>2 DEF Shutdown, Sigterm, Start, TypeOK
    <2>2. UNCHANGED <<now, until, stream>>
      BY <1>2 DEF Shutdown, Sigterm, Start
    <2> QED BY <1>0, <1>t, <2>1, <2>2
  <1>3. ASSUME NEW r \in Replicas, GracefulStop(r) PROVE DrainInv' /\ DrainCutsNobody'
    <2>1. /\ until'[r] = now + Drain
          /\ \A p \in Replicas \ {r} : main'[p] = main[p] /\ until'[p] = until[p]
          /\ UNCHANGED <<now, stream>>
      BY <1>0, <1>3 DEF GracefulStop, TypeOK
    <2> QED BY <1>0, <1>t, <2>1
  <1>4. ASSUME NEW r \in Replicas, NEW end \in {"closed", "cut", "killed"}, Exit(r, end),
               end = "cut" => \A q \in Requests \ Untimed : q \notin OpenOn(r)
        PROVE  DrainInv' /\ DrainCutsNobody'
    <2>1. /\ main'[r] = "exited"
          /\ \A p \in Replicas \ {r} : main'[p] = main[p] /\ until'[p] = until[p]
          /\ now' = now
      BY <1>0, <1>4 DEF Exit, TypeOK
    <2>2. \A q \in Requests :
             \/ stream'[q] = stream[q]
             \/ q \in OpenOn(r) /\ stream'[q] = [stream[q] EXCEPT !.at = end]
      BY <1>4 DEF Exit
    <2>3. \A q \in Requests : stream'[q].on = stream[q].on /\ stream'[q].since = stream[q].since
      BY <1>0, <2>2 DEF TypeOK, Stream
    <2>4. \A q \in Requests :
             stream'[q].at = stream[q].at \/ (q \in OpenOn(r) /\ stream'[q].at = end)
      BY <1>0, <2>2 DEF TypeOK, Stream
    <2>5. DrainCutsNobody'
      BY <1>0, <1>4, <2>4
    <2>6. DrainInv'
      BY <1>0, <1>t, <2>1, <2>3, <2>4 DEF OpenOn
    <2> QED BY <2>5, <2>6
  <1>5. ASSUME NEW q \in Requests, OpenStream(q) PROVE DrainInv' /\ DrainCutsNobody'
    <2>1. /\ stream'[q].since = now /\ stream'[q].on = stream[q].on
          /\ stream'[q].at \in {"open", "closed"}
      BY <1>0, <1>5 DEF OpenStream, TypeOK, Stream
    <2>2. main[stream[q].on] # "draining"
      BY <1>5 DEF OpenStream, Accepting
    <2>3. \A p \in Requests \ {q} : stream'[p] = stream[p]
      BY <1>0, <1>5 DEF OpenStream, TypeOK
    <2>4. UNCHANGED <<main, until, now>>
      BY <1>5 DEF OpenStream, replicaVars
    <2> QED BY <1>0, <1>t, <2>1, <2>2, <2>3, <2>4
  <1>6. ASSUME NEW q \in Requests, CloseStream(q) PROVE DrainInv' /\ DrainCutsNobody'
    <2>1. /\ stream'[q].at = "closed"
          /\ \A p \in Requests \ {q} : stream'[p] = stream[p]
      BY <1>0, <1>6 DEF CloseStream, TypeOK, Stream
    <2> QED BY <1>0, <1>6, <2>1 DEF CloseStream, replicaVars
  <1>7. ASSUME Tick PROVE DrainInv' /\ DrainCutsNobody'
    BY <1>0, <1>t, <1>7 DEF Tick, replicaVars
  <1>8. ASSUME NEW r \in Replicas, StopAtLimit(r) PROVE DrainInv' /\ DrainCutsNobody'
    BY <1>4, <1>8, LimitFindsNone DEF StopAtLimit
  <1>9. ASSUME NEW r \in Replicas, Drained(r) \/ Kill(r) PROVE DrainInv' /\ DrainCutsNobody'
    BY <1>4, <1>9 DEF Drained, Kill
  <1>10. ASSUME NEW r \in Replicas, WatchTable(r) \/ Readiness(r)
         PROVE  DrainInv' /\ DrainCutsNobody'
    BY <1>1, <1>10 DEF WatchTable, Readiness, TableLoaded, CheckerStops, Pinged, SetStatus,
                       NextCheck, CheckerGoes
  <1>11. ASSUME RedisTurns \/ (\E c \in Contents : WriteTable(c)) \/ UNCHANGED vars
         PROVE  DrainInv' /\ DrainCutsNobody'
    BY <1>1, <1>11 DEF RedisTurns, WriteTable, vars, replicaVars
  <1> QED BY <1>2, <1>3, <1>5, <1>6, <1>7, <1>8, <1>9, <1>10, <1>11 DEF Next, Main

------------------------------------------------------------------------------
(* The theorems *)

\* The inductive invariant holds in every reachable state of the filter's process.
THEOREM Invariance == Spec => []ProcessInv
  <1>1. ProcessInv /\ [Next]_vars => ProcessInv'
    BY TypeStep, FreeStep, ReadyStep, DrainStep DEF ProcessInv
  <1> QED BY InitHolds, <1>1, PTL DEF Spec

\* Every variable has its type.
THEOREM TypeCorrect == Spec => []TypeOK
  BY Invariance, PTL DEF ProcessInv

\* A route that has a price in every table ever written is never served free, whatever broken
\* tables, deletions, restarts and drains come in between (Watcher.apply, requestHeaders).
THEOREM PricedStaysPriced == Spec => []FreeOnlyIfUnpriced
  BY Invariance, PTL DEF ProcessInv

\* A replica that reports ready has a table and has not begun to shut down, in every order of
\* the readiness goroutine's steps and main's (readiness, hs.Shutdown).
THEOREM ReadyReplicaIsAble == Spec => []ReadyMeansAble
  BY Invariance, PTL DEF ProcessInv

\* With -drain longer than Envoy's route timeout, a stopping replica cuts off no request of a
\* route that has one (run: GracefulStop, then Stop at the limit).
THEOREM TimedRequestsSurviveDrain == Spec => []DrainCutsNobody
  BY Invariance, PTL DEF ProcessInv

==============================================================================
