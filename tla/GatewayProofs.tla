---------------------------- MODULE GatewayProofs ----------------------------
(***************************************************************************)
(* Proofs about the gateway as deployed, built on what FilterProofs,       *)
(* SettleProofs and BalanceProofs establish of its parts.                  *)
(***************************************************************************)
EXTENDS GatewayProps, SumProofs, TLAPS

FP == INSTANCE FilterProofs WITH ChainBalance <- InitialFunds
SP == INSTANCE SettleProofs WITH MaxJobs <- Cardinality(Streams), Horizon <- MaxTime
BP == INSTANCE BalanceProofs WITH Readers <- Streams, Balances <- Nat

------------------------------------------------------------------------------
(* The parts' assumptions follow from the whole's *)

\* The filter's constants.
LEMMA FilterConstants ==
  /\ Auth \in [Payments -> FP!Authorization]
  /\ InflightTTL \in Nat \ {0} /\ NonceMargin \in Nat \ {0} /\ MaxExact \in Nat \ {0}
  /\ FP!IsFiniteSet(Streams)
  /\ Faults \subseteq FP!FaultKinds
  BY GatewayAssumption DEF FP!Authorization, FP!FaultKinds, IsFiniteSet, FP!IsFiniteSet

\* The settlers' constants; the stream has an entry at most for each request.
LEMMA SettleConstants ==
  /\ Auth \in [Payments -> SP!Authorization]
  /\ {MaxSettleFaults, Cardinality(Streams), MaxTime} \subseteq Nat
  /\ SettleFaults \subseteq SP!SettleFaultKinds
  <1>1. Cardinality(Streams) \in Nat
    BY GatewayAssumption, FS_CardinalityType
  <1> QED BY <1>1, GatewayAssumption DEF SP!Authorization, SP!SettleFaultKinds

------------------------------------------------------------------------------
(* The parts' actions, in the vocabulary of the parts' proofs *)

\* The filter's calls on Redis are those FilterProofs speaks of.
LEMMA SameCalls ==
  ASSUME NEW s \in Streams
  PROVE  /\ F!ReserveCall(s) <=> FP!ReserveCall(s)
         /\ F!CaptureCall(s) <=> FP!CaptureCall(s)
         /\ F!ReleaseCall(s) <=> FP!ReleaseCall(s)
         /\ F!Payer(s) = FP!Payer(s)
         /\ F!ReserveOutcome(req[s].pay, req[s].price, req[s].bal)
               = FP!ReserveOutcome(req[s].pay, req[s].price, req[s].bal)
  BY DEF F!ReserveCall, FP!ReserveCall, F!ReserveScript, FP!ReserveScript,
         F!ReserveOutcome, FP!ReserveOutcome, F!Clamp, FP!Clamp, F!Claimed, FP!Claimed,
         F!Inflight, FP!Inflight, F!ledger, FP!ledger,
         F!CaptureCall, FP!CaptureCall, F!Capture, FP!Capture,
         F!ReleaseCall, FP!ReleaseCall, F!ReleaseScript, FP!ReleaseScript,
         F!Payer, FP!Payer

\* A filter handler's step is one of those FilterProofs speaks of.
LEMMA FilterMoves ==
  ASSUME NEW s \in Streams, Request(s)
  PROVE  FP!Moving(s)
  <1> USE DEF F!ledger, FP!ledger, F!Becomes, FP!Becomes, F!Refuse, FP!Refuse
  <1>1. ASSUME NEW route \in Routes, NEW hdr \in Payments, F!RequestHeaders(s, route, hdr)
        PROVE  FP!RequestHeaders(s, route, hdr)
    BY <1>1 DEF F!RequestHeaders, FP!RequestHeaders, F!Screen, FP!Screen, F!Verify, FP!Verify,
                F!Clock, FP!Clock
  <1>2. F!ReserveReply(s) => FP!ReserveReply(s)
    BY SameCalls DEF F!ReserveReply, FP!ReserveReply
  <1>3. F!ReserveLate(s) => FP!ReserveLate(s)
    BY DEF F!ReserveLate, FP!ReserveLate
  <1>4. F!CaptureReply(s) => FP!CaptureReply(s)
    BY SameCalls DEF F!CaptureReply, FP!CaptureReply
  <1>5. F!ReleaseReply(s) => FP!ReleaseReply(s)
    BY SameCalls DEF F!ReleaseReply, FP!ReleaseReply, F!AfterRelease, FP!AfterRelease
  <1>6. ASSUME NEW g \in BOOLEAN
        PROVE  /\ F!ReserveLost(s, g) => FP!ReserveLost(s, g)
               /\ F!CaptureLost(s, g) => FP!CaptureLost(s, g)
               /\ F!ReleaseLost(s, g) => FP!ReleaseLost(s, g)
    <2> USE DEF F!Lost, FP!Lost, F!Fault, FP!Fault, F!Again, FP!Again
    <2>1. F!ReserveLost(s, g) => FP!ReserveLost(s, g)
      BY SameCalls DEF F!ReserveLost, FP!ReserveLost
    <2>2. F!CaptureLost(s, g) => FP!CaptureLost(s, g)
      BY SameCalls DEF F!CaptureLost, FP!CaptureLost, F!StartRelease, FP!StartRelease
    <2>3. F!ReleaseLost(s, g) => FP!ReleaseLost(s, g)
      BY SameCalls DEF F!ReleaseLost, FP!ReleaseLost, F!AfterRelease, FP!AfterRelease
    <2> QED BY <2>1, <2>2, <2>3
  <1>7. F!Envoy(s) => FP!Envoy(s)
    BY DEF F!Envoy, FP!Envoy, F!ResponseHeaders, FP!ResponseHeaders,
           F!StreamEnd, FP!StreamEnd, F!StartRelease, FP!StartRelease
  <1> QED BY <1>1, <1>2, <1>3, <1>4, <1>5, <1>6, <1>7 DEF Request, FP!Moving, FP!Headers

\* So is what it does with the balance, once the cache has answered with a number.
LEMMA BalanceMoves ==
  ASSUME BP!BalanceInv, NEW s \in Streams, UseBalance(s) \/ BalanceLost(s) \/ BalanceLate(s)
  PROVE  FP!Moving(s)
  <1> USE DEF F!ledger, FP!ledger, F!Becomes, FP!Becomes, F!Refuse, FP!Refuse
  <1>1. get[s].v \in Nat
    BY DEF BP!BalanceInv, BP!TypeOK, BP!CacheTypeOK, BP!Get
  <1>2. F!BalanceRead(s, get[s].v) => FP!BalanceRead(s, get[s].v)
    BY DEF F!BalanceRead, FP!BalanceRead, F!NonceTTL, FP!NonceTTL, F!Clock, FP!Clock
  <1>3. ASSUME NEW d \in {"deadline", "dependency_unavailable"}, F!BalanceFailed(s, d)
        PROVE  FP!BalanceFailed(s, d)
    BY <1>3 DEF F!BalanceFailed, FP!BalanceFailed
  <1> QED BY <1>1, <1>2, <1>3 DEF UseBalance, BalanceLost, BalanceLate, FP!Moving

\* So is the death of a replica.
LEMMA SameReplica ==
  ASSUME NEW r \in Replicas, F!Crash(r)
  PROVE  FP!Crash(r)
  BY DEF F!Crash, FP!Crash, F!Fault, FP!Fault, F!ledger, FP!ledger

\* So is the clock's.
LEMMA SameClock ==
  ASSUME F!Tick
  PROVE  FP!Tick
  BY DEF F!Tick, FP!Tick, F!Advance, FP!Advance, F!filterVars, FP!filterVars, F!ledger, FP!ledger

\* A settler's step is one of those SettleProofs speaks of.
LEMMA SettlerMoves ==
  ASSUME NEW c \in Settlers
  PROVE  (S!Settler(c) => SP!Settler(c)) /\ (S!Die(c) => SP!Die(c))
  <1> USE DEF S!ledger, SP!ledger, S!chainVars, SP!chainVars, S!groupVars, SP!groupVars,
              S!Free, SP!Free, S!Current, SP!Current, S!Pay, SP!Pay, S!At, SP!At,
              S!Goto, SP!Goto, S!NextJob, SP!NextJob, S!Idle, SP!Idle,
              S!SettleFault, SP!SettleFault, S!AuthorizationState, SP!AuthorizationState
  <1>1. S!Read(c) => SP!Read(c)
    BY DEF S!Read, SP!Read, S!Deliver, SP!Deliver, S!JobIds, SP!JobIds
  <1>2. S!ClaimIdle(c) => SP!ClaimIdle(c)
    BY DEF S!ClaimIdle, SP!ClaimIdle, S!Deliver, SP!Deliver, S!JobIds, SP!JobIds,
           S!Pending, SP!Pending, S!IsIdle, SP!IsIdle, S!Cardinality, SP!Cardinality
  <1>3. S!Begin(c) => SP!Begin(c)
    BY DEF S!Begin, SP!Begin, S!Dispatch, SP!Dispatch, S!Deliveries, SP!Deliveries,
           S!Pending, SP!Pending
  <1>4. \A d \in BOOLEAN : S!SettleNotSent(c, d) => SP!SettleNotSent(c, d)
    BY DEF S!SettleNotSent, SP!SettleNotSent, S!Answered, SP!Answered
  <1>5. S!SettleSent(c) => SP!SettleSent(c)
    BY DEF S!SettleSent, SP!SettleSent, S!Submit, SP!Submit
  <1>6. S!SettleSucceeds(c) => SP!SettleSucceeds(c)
    BY DEF S!SettleSucceeds, SP!SettleSucceeds
  <1>7. S!SettleReverts(c) => SP!SettleReverts(c)
    BY DEF S!SettleReverts, SP!SettleReverts, S!Drop, SP!Drop, S!Answered, SP!Answered
  <1>8. S!SettleTimesOut(c) => SP!SettleTimesOut(c)
    BY DEF S!SettleTimesOut, SP!SettleTimesOut, S!Answered, SP!Answered
  <1>9. S!Ask(c) => SP!Ask(c)
    BY DEF S!Ask, SP!Ask
  <1>10. S!AskExpired(c) => SP!AskExpired(c)
    BY DEF S!AskExpired, SP!AskExpired
  <1> USE DEF S!LostCall, SP!LostCall
  <1>11. S!DeadLetter(c) => SP!DeadLetter(c)
    BY DEF S!DeadLetter, SP!DeadLetter, S!Bury, SP!Bury
  <1>12. S!Release(c) => SP!Release(c)
    BY DEF S!Release, SP!Release, S!GiveBack, SP!GiveBack, S!ReleaseScript, SP!ReleaseScript,
           S!Inflight, SP!Inflight
  <1>13. S!Ack(c) => SP!Ack(c)
    BY DEF S!Ack, SP!Ack
  <1>14. S!Die(c) => SP!Die(c)
    BY DEF S!Die, SP!Die
  <1> QED BY <1>1, <1>2, <1>3, <1>4, <1>5, <1>6, <1>7, <1>8, <1>9, <1>10, <1>11, <1>12, <1>13,
             <1>14 DEF S!Settler, SP!Settler

\* So is a step of the chain.
LEMMA ChainMoves == S!ChainNext => SP!ChainNext
  BY DEF S!ChainNext, SP!ChainNext, S!Land, SP!Land, S!Cancel, SP!Cancel, S!ledger, SP!ledger,
         S!settleVars, SP!settleVars, S!groupVars, SP!groupVars

\* And a step of the cache.
LEMMA CacheMoves ==
  /\ \A s \in Streams, p \in Payers : B!GetNext(s, p) => BP!GetNext(s, p)
  /\ \A s \in Streams : (B!GetFails(s) => BP!GetFails(s)) /\ (B!Overrun(s) => BP!Overrun(s))
  /\ \A r \in Replicas, p \in Payers :
        (B!FetchNext(r, p) => BP!FetchNext(r, p)) /\ (B!InTime(r, p) => BP!InTime(r, p))
  <1> USE DEF B!NoFetch, BP!NoFetch
  <1>1. \A s \in Streams, p \in Payers : B!GetNext(s, p) => BP!GetNext(s, p)
    BY DEF B!GetNext, BP!GetNext, B!GetFresh, BP!GetFresh, B!GetLastKnown, BP!GetLastKnown,
           B!GetMiss, BP!GetMiss, B!Calls, BP!Calls, B!InCache, BP!InCache, B!Age, BP!Age,
           B!FromCache, BP!FromCache, B!StartFetch, BP!StartFetch
  <1>2. \A s \in Streams : (B!GetFails(s) => BP!GetFails(s)) /\ (B!Overrun(s) => BP!Overrun(s))
    BY DEF B!GetFails, BP!GetFails, B!Overrun, BP!Overrun, B!Calls, BP!Calls
  <1>3. \A r \in Replicas, p \in Payers :
          (B!FetchNext(r, p) => BP!FetchNext(r, p)) /\ (B!InTime(r, p) => BP!InTime(r, p))
    BY DEF B!FetchNext, BP!FetchNext, B!FetchRead, BP!FetchRead, B!FetchWrite, BP!FetchWrite,
           B!FetchFails, BP!FetchFails, B!Waiters, BP!Waiters, B!InTime, BP!InTime
  <1> QED BY <1>1, <1>2, <1>3

\* The parts start as they do on their own.
LEMMA InitSplits ==
  ASSUME Init
  PROVE  FP!Init /\ SP!Init /\ BP!BalanceInit
  <1>1. FP!Init
    BY DEF Init, F!Init, FP!Init, F!LedgerInit, FP!LedgerInit, F!FilterInit, FP!FilterInit,
           F!NewRequest, FP!NewRequest
  <1>2. SP!Init
    BY DEF Init, S!Init, SP!Init, S!LedgerInit, SP!LedgerInit, S!ChainInit, SP!ChainInit,
           S!SettleInit, SP!SettleInit, S!JobIds, SP!JobIds, S!Idle, SP!Idle
  <1>3. BP!BalanceInit
    BY DEF Init, B!BalanceInit, BP!BalanceInit, B!NoFetch, BP!NoFetch
  <1> QED BY <1>1, <1>2, <1>3

\* The ledger of the filter and of the settlers is one.
LEMMA OneLedger == /\ FP!LedgerTypeOK <=> SP!LedgerTypeOK
                   /\ (FP!LedgerTypeOK <=> SP!LedgerTypeOK)'
  BY DEF FP!LedgerTypeOK, SP!LedgerTypeOK, FP!Job, SP!Job

------------------------------------------------------------------------------
(* The inductive invariant *)

\* The parts keep their own invariants beside one another, and the chain follows the queue.
GatewayInv == FP!LifeInv /\ SP!SettleInv /\ BP!BalanceInv /\ ChainInv

\* The queue has room: every job is that of a stream of its own.
LEMMA QueueFits ==
  ASSUME FP!LifeInv
  PROVE  Len(stream) \in Nat /\ Len(stream) <= Cardinality(Streams)
  <1> DEFINE h == [i \in 1..Len(stream) |->
                     CHOOSE s \in Streams : req[s].captured /\ req[s].pay = stream[i].pay]
  <1>1. Len(stream) \in Nat /\ DOMAIN stream = 1..Len(stream)
    BY DEF FP!LifeInv, FP!FilterInv, FP!TypeOK, FP!LedgerTypeOK
  <1>2. ASSUME NEW i \in 1..Len(stream)
        PROVE  h[i] \in Streams /\ req[h[i]].captured /\ req[h[i]].pay = stream[i].pay
    BY <1>1 DEF FP!LifeInv, FP!QueueInv
  <1> HIDE DEF h
  <1>3. ASSUME NEW i \in 1..Len(stream), NEW j \in 1..Len(stream), h[i] = h[j]
        PROVE  i = j
    <2>1. stream[i].pay = stream[j].pay /\ req[h[i]].pay = stream[i].pay
      BY <1>2, <1>3
    <2>2. \E k \in DOMAIN stream : FP!JobsOf(req[h[i]].pay) = {k}
      BY <1>2 DEF FP!LifeInv, FP!QueueInv
    <2> QED BY <1>1, <2>1, <2>2 DEF FP!JobsOf
  <1>4. h \in Injection(1..Len(stream), Streams)
    <2>1. h \in [1..Len(stream) -> Streams]
      BY <1>2 DEF h
    <2> QED BY <1>3, <2>1 DEF Injection, IsInjective
  <1>5. IsFiniteSet(Streams)
    BY GatewayAssumption
  <1>6. Cardinality(1..Len(stream)) <= Cardinality(Streams)
    BY <1>4, <1>5, FS_Injection
  <1>7. Cardinality(1..Len(stream)) = Len(stream)
    <2> DEFINE n == Len(stream)
    <2>1. n \in Nat /\ 1 \in Int
      BY <1>1
    <2> HIDE DEF n
    <2>2. Cardinality(1..n) = IF 1 > n THEN 0 ELSE n - 1 + 1
      BY <2>1, FS_Interval
    <2> QED BY <2>1, <2>2 DEF n
  <1> QED BY <1>1, <1>6, <1>7

\* So does the queue after any step that keeps the filter's invariant.
LEMMA QueueStillFits == (FP!LifeInv => Len(stream) <= Cardinality(Streams))'
  <1>1. FP!LifeInv => Len(stream) <= Cardinality(Streams)
    BY QueueFits
  <1> QED BY <1>1, PTL

\* What the settlers' steps leave alone, and what they do to the chain and the sums.
LEMMA SettlerFrame ==
  ASSUME NEW c \in Settlers, SP!Settler(c) \/ SP!Die(c)
  PROVE  /\ UNCHANGED <<now, nonceExp, stream, nonce, funds>>
         /\ \/ UNCHANGED <<inflight, inflightExp, released>>
            \/ SP!At(c, "releasing") /\ SP!GiveBack(c)
         /\ \/ mempool' = mempool
            \/ SP!At(c, "settling") /\ SP!Submit(SP!Pay(c))
            \/ SP!Drop(SP!Pay(c))
  <1> USE DEF SP!ledger, SP!chainVars
  <1>1. CASE SP!Read(c) \/ SP!ClaimIdle(c) \/ SP!Begin(c)
    BY <1>1 DEF SP!Read, SP!ClaimIdle, SP!Begin
  <1>2. CASE \E d \in BOOLEAN : SP!SettleNotSent(c, d)
    BY <1>2 DEF SP!SettleNotSent
  <1>3. CASE SP!SettleSent(c) \/ SP!SettleReverts(c)
    BY <1>3 DEF SP!SettleSent, SP!SettleReverts, SP!Submit, SP!Drop
  <1>4. CASE SP!SettleSucceeds(c) \/ SP!SettleTimesOut(c) \/ SP!Ask(c) \/ SP!AskExpired(c)
    BY <1>4 DEF SP!SettleSucceeds, SP!SettleTimesOut, SP!Ask, SP!AskExpired
  <1>5. CASE SP!DeadLetter(c) \/ SP!Ack(c) \/ SP!Die(c)
    BY <1>5 DEF SP!DeadLetter, SP!Ack, SP!Die
  <1>6. CASE SP!Release(c)
    BY <1>6 DEF SP!Release, SP!LostCall, SP!GiveBack, SP!ReleaseScript
  <1> QED BY <1>1, <1>2, <1>3, <1>4, <1>5, <1>6 DEF SP!Settler

\* A settler's step keeps the settlers' invariant.
LEMMA SettlerHolds ==
  ASSUME SP!SettleInv, NEW c \in Settlers, SP!Settler(c) \/ SP!Die(c)
  PROVE  SP!SettleInv'
  <1> USE FilterConstants, SettleConstants, GatewayAssumption
  <1>1. CASE SP!Read(c)
    BY <1>1, SP!ReadStep
  <1>2. CASE SP!ClaimIdle(c)
    BY <1>2, SP!ClaimStep
  <1>3. CASE \/ SP!Begin(c)
             \/ \E definite \in BOOLEAN : SP!SettleNotSent(c, definite)
             \/ SP!SettleSent(c) \/ SP!SettleSucceeds(c) \/ SP!SettleReverts(c)
             \/ SP!SettleTimesOut(c) \/ SP!Ask(c) \/ SP!AskExpired(c)
    BY <1>3, SP!HandleStep
  <1>4. CASE SP!DeadLetter(c) \/ SP!Release(c) \/ SP!Ack(c) \/ SP!Die(c)
    BY <1>4, SP!FinishStep
  <1> QED BY <1>1, <1>2, <1>3, <1>4 DEF SP!Settler

\* A handler's step keeps the filter's and the settlers' invariants: the queue only grows.
LEMMA HandlerKeeps ==
  ASSUME FP!RepliesArrive, FP!LifeInv, SP!SettleInv, ChainInv,
         NEW s \in Streams, FP!Moving(s), UNCHANGED settleVars
  PROVE  FP!LifeInv' /\ SP!SettleInv' /\ ChainInv' /\ FP!Acts(s)
  <1>1. FP!LifeInv' /\ FP!Acts(s)
    BY FilterConstants, GatewayAssumption, FP!MovingLives
  <1>2. now' = now /\ (stream' = stream \/ \E j \in SP!Job : stream' = Append(stream, j))
    <2> USE DEF FP!Acts, FP!ledger
    <2>1. CASE FP!Captures(s)
      <3>1. /\ req[s].rsv /\ now' = now
            /\ stream' = Append(stream, [pay |-> req[s].pay, amount |-> req[s].price])
        BY <1>1, <2>1 DEF FP!Captures, FP!CaptureCall, FP!Capture
      <3>2. req[s].pay \in Payments /\ req[s].price \in Nat
        <4>1. req[s].pay \in Payments
          BY <3>1 DEF FP!LifeInv, FP!FilterInv, FP!PhaseInv
        <4>2. req[s] \in FP!Request /\ MaxExact \in Nat
          BY FilterConstants DEF FP!LifeInv, FP!FilterInv, FP!TypeOK
        <4> QED BY <4>1, <4>2 DEF FP!Request
      <3> QED BY <3>1, <3>2 DEF SP!Job
    <2>2. CASE ~FP!Captures(s)
      BY <1>1, <2>2 DEF FP!Keeps, FP!Accepts, FP!Forgives, FP!Refunds, FP!ReserveCall,
                        FP!ReserveScript, FP!ReleaseCall, FP!ReleaseScript
    <2> QED BY <2>1, <2>2
  <1>3. /\ stream \in Seq(SP!Job) /\ stream' \in Seq(SP!Job) /\ SP!LedgerTypeOK'
        /\ now \in Nat
    BY <1>1, OneLedger DEF FP!LifeInv, FP!FilterInv, FP!TypeOK, SP!LedgerTypeOK
  <1>4. /\ Len(stream) <= Len(stream')
        /\ \A i \in 1..Len(stream) : i \in 1..Len(stream') /\ stream'[i] = stream[i]
    <2>1. CASE stream' = stream
      BY <1>3, <2>1
    <2>2. ASSUME NEW j \in SP!Job, stream' = Append(stream, j)
          PROVE  /\ Len(stream) <= Len(stream')
                 /\ \A i \in 1..Len(stream) : i \in 1..Len(stream') /\ stream'[i] = stream[i]
      BY <1>3, <2>2
    <2> QED BY <1>2, <2>1, <2>2
  <1>5. /\ cursor \in Nat /\ cursor <= Len(stream) /\ SP!ChainTypeOK /\ Len(stream) \in Nat
        /\ nonce' = nonce /\ mempool' = mempool /\ cursor' = cursor /\ refused' = refused
        /\ dead' = dead /\ funds' = funds
    BY <1>3 DEF SP!SettleInv, SP!TypeOK, SP!SettleTypeOK, settleVars
  <1>6. SP!Forward
    BY <1>2, <1>3, <1>4, <1>5 DEF SP!Forward
  <1>7. SP!ChainTypeOK' /\ UNCHANGED SP!settleVars
    BY <1>5 DEF SP!ChainTypeOK, settleVars, SP!settleVars, SP!groupVars
  <1>8. Len(stream') <= Cardinality(Streams)
    BY <1>1, QueueStillFits
  <1>9. SP!SettleInv'
    BY <1>3, <1>4, <1>6, <1>7, <1>8, FilterConstants, SettleConstants, GatewayAssumption,
       SP!OutsideStep
  <1>10. ChainInv'
    <2> SUFFICES ASSUME NEW m \in Payments, mempool[m] > 0 \/ nonce[m] = "settled"
                 PROVE  \E i \in DOMAIN stream' : stream'[i].pay = m
        BY <1>5 DEF ChainInv
    <2>1. PICK i \in 1..Len(stream) : stream[i].pay = m
      BY <1>3 DEF ChainInv
    <2> QED BY <1>3, <1>4, <2>1
  <1> QED BY <1>1, <1>9, <1>10

\* A settler's step leaves the filter's invariant: it only gives amounts back.
LEMMA SettlerKeeps ==
  ASSUME FP!LifeInv, SP!SettleInv, ChainInv, NEW c \in Settlers, SP!Settler(c) \/ SP!Die(c),
         SettleOnly
  PROVE  FP!LifeInv' /\ SP!SettleInv' /\ ChainInv'
  <1>1. SP!SettleInv'
    BY SettlerHolds
  <1>2. UNCHANGED <<now, nonceExp, stream, nonce, funds, table, req, faults>>
    BY SettlerFrame DEF SettleOnly, filterVars
  <1>3. FP!LedgerTypeOK' /\ table' \in [Replicas -> Tables \cup {NoTable}]
    BY <1>1, <1>2, OneLedger DEF SP!SettleInv, SP!TypeOK, FP!LifeInv, FP!FilterInv, FP!TypeOK
  <1>4. FP!InflightExact'
    <2> SUFFICES ASSUME NEW p \in Payers PROVE inflight'[p] <= MaxExact
        BY DEF FP!InflightExact
    <2>1. /\ inflight[p] <= MaxExact /\ inflight[p] \in Nat /\ inflight \in [Payers -> Nat]
          /\ MaxExact \in Nat
      BY GatewayAssumption
         DEF FP!LifeInv, FP!FilterInv, FP!TypeOK, FP!LedgerTypeOK, FP!InflightExact
    <2>2. CASE UNCHANGED <<inflight, inflightExp>>
      BY <2>1, <2>2
    <2>3. CASE SP!At(c, "releasing") /\ SP!GiveBack(c)
      <3> DEFINE o == Auth[SP!Pay(c)].payer
                 a == stream[SP!Current(c)].amount
                 after == SP!Inflight(o) - a
      <3>1. a \in Nat
        <4>1. stream[SP!Current(c)] \in SP!Job
          BY <2>3, FilterConstants, SettleConstants, GatewayAssumption, SP!InHand
             DEF SP!SettleInv, SP!At
        <4> QED BY <4>1 DEF SP!Job
      <3>2. inflight' = [inflight EXCEPT ![o] = IF after <= 0 THEN 0 ELSE after]
        BY <2>3 DEF SP!GiveBack, SP!ReleaseScript
      <3>3. o = p => SP!Inflight(o) \in Nat /\ SP!Inflight(o) <= MaxExact
        BY <2>1 DEF SP!Inflight
      <3> HIDE DEF o, a
      <3>4. CASE o = p
        <4>1. inflight'[p] = IF after <= 0 THEN 0 ELSE after
          BY <2>1, <3>2, <3>4
        <4> QED BY <2>1, <3>1, <3>3, <3>4, <4>1
      <3>5. CASE o # p
        BY <2>1, <3>2, <3>5
      <3> QED BY <3>4, <3>5
    <2> QED BY <2>2, <2>3, SettlerFrame
  <1>5. FP!LifeInv'
    BY <1>2, <1>3, <1>4, FilterConstants, GatewayAssumption, FP!OthersLive
  <1>6. ChainInv'
    <2> SUFFICES ASSUME NEW m \in Payments, mempool'[m] > 0, nonce[m] # "settled"
                 PROVE  \E i \in DOMAIN stream : stream[i].pay = m
        BY <1>2 DEF ChainInv
    <2>1. CASE mempool[m] > 0
      BY <2>1 DEF ChainInv
    <2>2. CASE SP!At(c, "settling") /\ m = SP!Pay(c)
      <3>1. SP!Current(c) \in DOMAIN stream
        BY <2>2, FilterConstants, SettleConstants, GatewayAssumption, SP!InHand
           DEF SP!SettleInv, SP!At
      <3> QED BY <2>2, <3>1 DEF SP!Pay
    <2>3. mempool \in [Payments -> Nat]
      BY DEF SP!SettleInv, SP!TypeOK, SP!ChainTypeOK
    <2> QED BY <2>1, <2>2, <2>3, SettlerFrame DEF SP!Submit, SP!Drop
  <1> QED BY <1>1, <1>5, <1>6

\* The chain's step keeps the invariant: only what was captured is out to be mined.
LEMMA ChainKeeps ==
  ASSUME GatewayInv, SP!ChainNext, SettleOnly
  PROVE  GatewayInv'
  <1>1. SP!SettleInv'
    BY FilterConstants, SettleConstants, GatewayAssumption, SP!ChainStep DEF GatewayInv
  <1>2. UNCHANGED <<now, nonceExp, inflight, inflightExp, stream, table, req, faults>>
    BY DEF SettleOnly, filterVars, SP!ChainNext, SP!ledger
  <1>3. FP!LifeInv'
    <2>1. /\ FP!LedgerTypeOK' /\ FP!InflightExact'
          /\ table' \in [Replicas -> Tables \cup {NoTable}]
      BY <1>2 DEF GatewayInv, FP!LifeInv, FP!FilterInv, FP!TypeOK, FP!LedgerTypeOK,
                  FP!InflightExact
    <2> QED BY <1>2, <2>1, FilterConstants, GatewayAssumption, FP!OthersLive DEF GatewayInv
  <1>4. PICK m \in Payments : SP!Land(m) \/ SP!Cancel(m)
    BY DEF SP!ChainNext
  <1>5. /\ now \in Nat /\ mempool \in [Payments -> Nat] /\ funds \in [Payers -> Nat]
        /\ Auth[m].payer \in Payers /\ Auth[m].value \in Nat
        /\ nonce \in [Payments -> {"fresh", "settled", "cancelled"}]
    BY GatewayAssumption
       DEF GatewayInv, SP!SettleInv, SP!TypeOK, SP!LedgerTypeOK, SP!ChainTypeOK
  <1>6. ChainInv'
    BY <1>2, <1>4, <1>5 DEF GatewayInv, ChainInv, SP!Land, SP!Cancel
  <1>7. BP!BalanceInv'
    <2>1. UNCHANGED <<cached, fetch, get>>
      BY DEF SettleOnly, cacheVars
    <2>2. UNCHANGED BP!vars \/ \E p \in Payers, v \in Nat : BP!Spend(p, v)
      <3>1. CASE funds' = funds
        BY <1>2, <2>1, <3>1 DEF BP!vars, BP!cacheVars
      <3>2. CASE funds' # funds
        <4> DEFINE p == Auth[m].payer
                   v == funds[p] - Auth[m].value
        <4>1. funds' = [funds EXCEPT ![p] = v] /\ v \in Nat /\ p \in Payers
          BY <1>4, <1>5, <3>2 DEF SP!Land, SP!Cancel
        <4>2. funds[p] # v
          BY <1>5, <3>2, <4>1
        <4> QED BY <1>2, <2>1, <4>1, <4>2 DEF BP!Spend, BP!cacheVars
      <3> QED BY <3>1, <3>2
    <2> QED BY <2>2, GatewayAssumption, BP!OutsideHolds DEF GatewayInv
  <1> QED BY <1>1, <1>3, <1>6, <1>7 DEF GatewayInv

\* A replica's death takes the reads it had under way, and everybody who waited for them.
LEMMA ReadsDie ==
  ASSUME BP!BalanceInv, NEW r \in Replicas, UNCHANGED <<now, funds, cached>>,
         fetch' = [fetch EXCEPT ![r] = [p \in Payers |-> B!NoFetch]],
         get' = [s \in Streams |->
                   IF ReplicaOf[s] = r /\ get[s].st = "waiting"
                   THEN [get[s] EXCEPT !.st = "overran"] ELSE get[s]]
  PROVE  BP!BalanceInv'
  <1>1. /\ fetch \in [Replicas -> [Payers -> BP!Fetch]] /\ get \in [Streams -> BP!Get]
        /\ BP!ReadInv /\ BP!EntryInv /\ BP!BoundedStaleness /\ BP!WaitersHaveARead
        /\ B!NoFetch \in BP!Fetch /\ B!NoFetch.st = "none"
    BY DEF BP!BalanceInv, BP!TypeOK, BP!CacheTypeOK, B!NoFetch, BP!Fetch
  <1>2. ASSUME NEW s \in Streams
        PROVE  /\ get'[s] \in BP!Get
               /\ \/ get'[s] = get[s] /\ ~(ReplicaOf[s] = r /\ get[s].st = "waiting")
                  \/ get'[s].st = "overran"
    BY <1>1 DEF BP!Get
  <1>3. BP!TypeOK'
    <2>1. fetch' \in [Replicas -> [Payers -> BP!Fetch]]
      BY <1>1
    <2>2. get' \in [Streams -> BP!Get]
      BY <1>2
    <2> QED BY <2>1, <2>2 DEF BP!BalanceInv, BP!TypeOK, BP!CacheTypeOK
  <1>4. ASSUME NEW q \in Replicas, NEW p \in Payers
        PROVE  \/ q # r /\ fetch'[q][p] = fetch[q][p]
               \/ q = r /\ fetch'[q][p].st = "none"
    BY <1>1
  <1>5. BP!ReadInv'
    BY <1>1, <1>4 DEF BP!ReadInv
  <1>6. BP!EntryInv'
    BY <1>1 DEF BP!EntryInv, BP!WrittenAt
  <1>7. BP!BoundedStaleness'
    BY <1>1, <1>2 DEF BP!BoundedStaleness, BP!Disagreement
  <1>8. BP!WaitersHaveARead'
    <2> SUFFICES ASSUME NEW s \in Streams, get'[s].st = "waiting"
                 PROVE  fetch'[ReplicaOf[s]][get'[s].payer].st # "none"
        BY DEF BP!WaitersHaveARead
    <2>1. get'[s] = get[s] /\ ReplicaOf[s] # r
      BY <1>2
    <2>2. get[s] \in BP!Get /\ ReplicaOf[s] \in Replicas
      BY <1>1, GatewayAssumption
    <2>3. get[s].payer \in Payers
      BY <2>2 DEF BP!Get
    <2>4. fetch[ReplicaOf[s]][get[s].payer].st # "none"
      BY <1>1, <2>1 DEF BP!WaitersHaveARead
    <2> QED BY <1>4, <2>1, <2>2, <2>3, <2>4
  <1> QED BY <1>3, <1>5, <1>6, <1>7, <1>8 DEF BP!BalanceInv

\* What neither moves the requests nor the settlers keeps their invariants.
LEMMA QuietKeeps ==
  ASSUME FP!LifeInv, SP!SettleInv, ChainInv, FP!LifeInv', UNCHANGED <<stream, settleVars>>,
         now' = now \/ now' = now + 1
  PROVE  SP!SettleInv' /\ ChainInv'
  <1>1. /\ now \in Nat /\ cursor \in Nat /\ cursor <= Len(stream) /\ SP!ChainTypeOK
        /\ Len(stream) \in Nat /\ Len(stream) <= Cardinality(Streams)
    BY QueueFits DEF SP!SettleInv, SP!TypeOK, SP!LedgerTypeOK, SP!SettleTypeOK
  <1>2. SP!LedgerTypeOK'
    BY OneLedger DEF FP!LifeInv, FP!FilterInv, FP!TypeOK
  <1>3. /\ nonce' = nonce /\ mempool' = mempool /\ cursor' = cursor /\ refused' = refused
        /\ dead' = dead /\ stream' = stream
    BY DEF settleVars
  <1>4. SP!Forward /\ SP!ChainTypeOK' /\ UNCHANGED SP!settleVars
    <2>1. SP!Forward
      BY <1>1, <1>3 DEF SP!Forward
    <2>2. SP!ChainTypeOK' /\ UNCHANGED SP!settleVars
      BY <1>1, <1>3 DEF SP!ChainTypeOK, settleVars, SP!settleVars, SP!groupVars
    <2> QED BY <2>1, <2>2
  <1>5. SP!SettleInv'
    BY <1>1, <1>2, <1>3, <1>4, FilterConstants, SettleConstants, GatewayAssumption,
       SP!OutsideStep
  <1> QED BY <1>3, <1>5 DEF ChainInv

\* Everything starts empty.
LEMMA GatewayInit == Init => GatewayInv
  <1> SUFFICES ASSUME Init PROVE GatewayInv
      OBVIOUS
  <1> USE FilterConstants, SettleConstants, GatewayAssumption
  <1>1. FP!Init /\ SP!Init /\ BP!BalanceInit
    BY InitSplits
  <1>2. FP!LifeInv
    BY <1>1, FP!LivesAtFirst
  <1>3. SP!SettleInv
    BY <1>1, SP!InitHolds
  <1>4. BP!BalanceInv
    <2>1. BP!Init
      BY <1>1 DEF BP!Init, SP!Init, SP!LedgerInit, SP!ChainInit
    <2> QED BY <2>1, BP!InitHolds
  <1>5. ChainInv
    BY <1>1 DEF ChainInv, SP!Init, SP!ChainInit
  <1> QED BY <1>2, <1>3, <1>4, <1>5 DEF GatewayInv

\* What a filter replica, its cache or the clock does keeps the invariant.
LEMMA FilterKeeps ==
  ASSUME FP!RepliesArrive, GatewayInv,
         \/ \E s \in Streams :
              \/ Request(s) /\ FilterOnly
              \/ AskBalance(s) \/ UseBalance(s) \/ BalanceLost(s) \/ BalanceLate(s)
         \/ \E r \in Replicas :
              \/ Crash(r)
              \/ \E t \in Tables : F!ApplyTable(r, t) /\ FilterOnly
              \/ \E p \in Payers : Refresh(r, p)
         \/ Tick
         \/ UNCHANGED vars
  PROVE  GatewayInv'
  <1> USE DEF GatewayInv
  <1>1. ASSUME NEW s \in Streams,
               (Request(s) /\ FilterOnly) \/ UseBalance(s) \/ BalanceLost(s) \/ BalanceLate(s)
        PROVE  GatewayInv'
    <2>1. FP!Moving(s) /\ UNCHANGED settleVars
      BY <1>1, FilterMoves, BalanceMoves
         DEF FilterOnly, UseBalance, BalanceLost, BalanceLate
    <2>2. FP!LifeInv' /\ SP!SettleInv' /\ ChainInv' /\ FP!Acts(s)
      BY <2>1, HandlerKeeps
    <2>3. UNCHANGED <<now, funds>>
      BY <2>1, <2>2 DEF FP!Acts, settleVars
    <2>4. BP!BalanceInv'
      <3>1. CASE BalanceLate(s)
        BY <2>3, <3>1, CacheMoves, GatewayAssumption, BP!EndHolds DEF BalanceLate
      <3>2. CASE ~BalanceLate(s)
        <4>1. UNCHANGED BP!vars
          BY <1>1, <2>3, <3>2
             DEF FilterOnly, UseBalance, BalanceLost, cacheVars, BP!vars, BP!cacheVars
        <4> QED BY <4>1, GatewayAssumption, BP!OutsideHolds
      <3> QED BY <3>1, <3>2
    <2> QED BY <2>2, <2>4
  <1>2. ASSUME CacheOnly, BP!BalanceInv'
        PROVE  GatewayInv'
    <2>1. UNCHANGED <<now, nonceExp, inflight, inflightExp, stream, table, req, faults,
                      settleVars>>
      BY <1>2 DEF CacheOnly, clockAndLedger, filterVars
    <2>2. FP!LifeInv'
      <3>1. /\ FP!LedgerTypeOK' /\ FP!InflightExact'
            /\ table' \in [Replicas -> Tables \cup {NoTable}]
        BY <2>1 DEF FP!LifeInv, FP!FilterInv, FP!TypeOK, FP!LedgerTypeOK, FP!InflightExact
      <3> QED BY <2>1, <3>1, FilterConstants, GatewayAssumption, FP!OthersLive
    <2> QED BY <1>2, <2>1, <2>2, QuietKeeps
  <1>3. ASSUME NEW s \in Streams, AskBalance(s)
        PROVE  GatewayInv'
    <2>1. UNCHANGED <<now, funds>> /\ CacheOnly
      BY <1>3 DEF AskBalance, CacheOnly, clockAndLedger, settleVars
    <2>2. FP!Payer(s) \in Payers /\ F!Payer(s) = FP!Payer(s)
      <3>1. req[s].pay \in Payments
        BY <1>3 DEF AskBalance, FP!LifeInv, FP!FilterInv, FP!PhaseInv
      <3> QED BY <3>1, SameCalls, GatewayAssumption DEF FP!Payer
    <2>3. BP!GetNext(s, FP!Payer(s)) \/ BP!GetFails(s)
      BY <1>3, <2>2, CacheMoves DEF AskBalance
    <2>4. BP!BalanceInv'
      BY <2>1, <2>2, <2>3, GatewayAssumption, BP!GetHolds, BP!EndHolds
    <2> QED BY <1>2, <2>1, <2>4
  <1>4. ASSUME NEW r \in Replicas, Crash(r)
        PROVE  GatewayInv'
    <2>1. FP!LifeInv' /\ now' = now /\ UNCHANGED FP!ledger
      BY <1>4, SameReplica, FilterConstants, GatewayAssumption, FP!CrashLives DEF Crash
    <2>2. UNCHANGED <<stream, settleVars, funds, cached>>
      BY <1>4, <2>1 DEF Crash, settleVars, FP!ledger
    <2>3. BP!BalanceInv'
      BY <1>4, <2>1, <2>2, ReadsDie DEF Crash
    <2> QED BY <2>1, <2>2, <2>3, QuietKeeps
  <1>5. ASSUME NEW r \in Replicas, NEW t \in Tables, F!ApplyTable(r, t), FilterOnly
        PROVE  GatewayInv'
    <2>1. /\ UNCHANGED <<now, nonceExp, inflight, inflightExp, stream, req, faults>>
          /\ table' = [table EXCEPT ![r] = t] /\ UNCHANGED settleVars /\ UNCHANGED BP!vars
      BY <1>5 DEF F!ApplyTable, F!ledger, FilterOnly, cacheVars, settleVars, BP!vars,
                  BP!cacheVars
    <2>2. /\ FP!LedgerTypeOK' /\ FP!InflightExact'
          /\ table' \in [Replicas -> Tables \cup {NoTable}]
      BY <2>1 DEF FP!LifeInv, FP!FilterInv, FP!TypeOK, FP!LedgerTypeOK, FP!InflightExact
    <2>3. FP!LifeInv'
      BY <2>1, <2>2, FilterConstants, GatewayAssumption, FP!OthersLive
    <2>4. BP!BalanceInv'
      BY <2>1, GatewayAssumption, BP!OutsideHolds
    <2> QED BY <2>1, <2>3, <2>4, QuietKeeps
  <1>6. ASSUME NEW r \in Replicas, NEW p \in Payers, Refresh(r, p)
        PROVE  GatewayInv'
    <2>1. UNCHANGED <<now, funds>> /\ CacheOnly
      BY <1>6 DEF Refresh, CacheOnly, clockAndLedger, settleVars
    <2>2. BP!FetchNext(r, p)
      BY <1>6, CacheMoves DEF Refresh
    <2>3. BP!BalanceInv'
      BY <2>1, <2>2, GatewayAssumption, BP!ReadHolds, BP!WriteHolds, BP!FailHolds
         DEF BP!FetchNext
    <2> QED BY <1>2, <2>1, <2>3
  <1>7. CASE Tick
    <2>1. FP!Tick /\ UNCHANGED <<cacheVars, settleVars>>
      BY <1>7, SameClock DEF Tick
    <2>2. FP!LifeInv'
      BY <2>1, FilterConstants, GatewayAssumption, FP!TickLives
    <2>3. now < MaxTime /\ now' = now + 1 /\ UNCHANGED <<stream, settleVars>>
      BY <2>1 DEF FP!Tick, FP!Advance, FP!ledger
    <2>4. BP!Tick
      BY <1>7, <2>1, <2>3, CacheMoves DEF Tick, BP!Tick, BP!cacheVars, cacheVars, settleVars
    <2>5. BP!BalanceInv'
      BY <2>4, GatewayAssumption, BP!OutsideHolds
    <2> QED BY <2>2, <2>3, <2>5, QuietKeeps
  <1>8. CASE UNCHANGED vars
    <2>1. CacheOnly /\ UNCHANGED BP!vars
      BY <1>8 DEF vars, CacheOnly, clockAndLedger, cacheVars, settleVars, BP!vars, BP!cacheVars
    <2>2. BP!BalanceInv'
      BY <2>1, GatewayAssumption, BP!OutsideHolds
    <2> QED BY <1>2, <2>1, <2>2
  <1> QED BY <1>1, <1>3, <1>4, <1>5, <1>6, <1>7, <1>8

\* Every step of the gateway keeps the invariant.
LEMMA GatewayStep ==
  ASSUME FP!RepliesArrive, GatewayInv, [Next]_vars
  PROVE  GatewayInv'
  <1>1. CASE Settlement
    <2> PICK c \in Settlers : S!Settler(c) \/ S!Die(c)
        BY <1>1 DEF Settlement
    <2>1. SP!Settler(c) \/ SP!Die(c)
      BY SettlerMoves
    <2>2. SettleOnly
      BY <1>1 DEF Settlement
    <2>3. FP!LifeInv' /\ SP!SettleInv' /\ ChainInv'
      BY <2>1, <2>2, SettlerKeeps DEF GatewayInv
    <2>4. UNCHANGED BP!vars
      BY <2>1, <2>2, SettlerFrame DEF SettleOnly, cacheVars, BP!vars, BP!cacheVars
    <2>5. BP!BalanceInv'
      BY <2>4, GatewayAssumption, BP!OutsideHolds DEF GatewayInv
    <2> QED BY <2>3, <2>5 DEF GatewayInv
  <1>2. CASE S!ChainNext /\ SettleOnly
    BY <1>2, ChainMoves, ChainKeeps
  <1>3. CASE ~Settlement /\ ~(S!ChainNext /\ SettleOnly)
    BY <1>3, FilterKeeps DEF Next, Finished
  <1> QED BY <1>1, <1>2, <1>3

\* The parts' invariants hold together, when the filter's calls on Redis do not lose replies:
\* the handlers, caches and settlers run against one ledger and one chain.
THEOREM GatewayInvariance ==
  ASSUME FP!RepliesArrive
  PROVE  Spec => []GatewayInv
  <1>1. GatewayInv /\ [Next]_vars => GatewayInv'
    BY GatewayStep
  <1> QED BY GatewayInit, <1>1, PTL DEF Spec

\* What the parts promise on their own they keep beside one another: a signature is served
\* once, sums stay exact, every acknowledged job has a known end that is true of the chain,
\* and no request is decided on a balance that is too old.
THEOREM PartsHoldTogether ==
  ASSUME FP!RepliesArrive
  PROVE  Spec => [](/\ FP!ServedOnce /\ FP!InflightExact
                    /\ SP!AckedIsKnown /\ SP!FiledPaidIsPaid /\ SP!ExpiredNeverPaid
                    /\ BP!BoundedStaleness)
  <1>1. GatewayInv => /\ FP!ServedOnce /\ FP!InflightExact /\ SP!AckedIsKnown
                      /\ BP!BoundedStaleness
    BY DEF GatewayInv, FP!LifeInv, FP!FilterInv, SP!SettleInv, BP!BalanceInv
  <1>2. GatewayInv => SP!FiledPaidIsPaid
    BY DEF GatewayInv, SP!SettleInv, SP!RecordInv, SP!Justified, SP!FiledPaidIsPaid,
           SP!AuthorizationState
  <1>3. GatewayInv => SP!ExpiredNeverPaid
    BY DEF GatewayInv, SP!SettleInv, SP!RecordInv, SP!Justified, SP!ExpiredNeverPaid
  <1> QED BY <1>1, <1>2, <1>3, GatewayInvariance, PTL

------------------------------------------------------------------------------
(* The gateway implements the life cycle of a payment *)

\* What a payment's status depends on.
LEMMA StatusKept ==
  ASSUME NEW m \in Payments, nonce'[m] = "settled" <=> nonce[m] = "settled",
         \A s \in Streams :
            /\ req'[s].rsv /\ req'[s].pay = m <=> req[s].rsv /\ req[s].pay = m
            /\ req[s].rsv /\ req[s].pay = m =>
                  /\ req'[s].captured <=> req[s].captured
                  /\ req'[s].released <=> req[s].released
  PROVE  Status(m)' = Status(m)
  <1>1. \A s \in Streams : s \in Accepted(m)' <=> s \in Accepted(m)
    BY DEF Accepted
  <1>2. Accepted(m)' = Accepted(m) /\ \A s \in Accepted(m) : s \in Streams /\ req[s].pay = m
    BY <1>1 DEF Accepted
  <1>3. /\ (\E s \in Accepted(m) : req'[s].released) <=> (\E s \in Accepted(m) : req[s].released)
        /\ (\E s \in Accepted(m) : req'[s].captured) <=> (\E s \in Accepted(m) : req[s].captured)
    BY DEF Accepted
  <1> HIDE DEF Accepted
  <1> QED BY <1>2, <1>3 DEF Status

\* One payment's step is a step of the life cycle.
LEMMA OnePayment ==
  ASSUME NEW m \in Payments, \A o \in Payments : o # m => Status(o)' = Status(o),
         <<Status(m), Status(m)'>> \in Abstract!Allowed
  PROVE  Abstract!Next
  <1> DEFINE st == [o \in Payments |-> Status(o)]
             next == Status(m)'
  <1>1. next \in Abstract!Statuses
    BY DEF Abstract!Allowed, Abstract!Statuses
  <1>2. st' = [o \in Payments |-> Status(o)']
    OBVIOUS
  <1>3. st' = [st EXCEPT ![m] = next]
    BY <1>2
  <1>4. st[m] = Status(m)
    OBVIOUS
  <1>5. <<st[m], next>> \in Abstract!Allowed
    BY <1>4
  <1> QED BY <1>1, <1>3, <1>5 DEF Abstract!Next, Abstract!Move

\* A payment is accepted by one stream only, and it is settled only when that captured it.
LEMMA OneHolder ==
  ASSUME GatewayInv, NEW m \in Payments
  PROVE  /\ \A s, t \in Accepted(m) : s = t
         /\ \A s \in Streams : (req[s].captured \/ req[s].released => req[s].rsv)
                               /\ ~(req[s].captured /\ req[s].released)
         /\ (\E i \in DOMAIN stream : stream[i].pay = m) => \E s \in Accepted(m) : req[s].captured
         /\ nonce[m] = "settled" => \E s \in Accepted(m) : req[s].captured
  <1>1. \A s, t \in Accepted(m) : s = t
    BY DEF GatewayInv, FP!LifeInv, FP!FilterInv, FP!ServedOnce, Accepted
  <1>2. \A s \in Streams : (req[s].captured \/ req[s].released => req[s].rsv)
                           /\ ~(req[s].captured /\ req[s].released)
    BY DEF GatewayInv, FP!LifeInv, FP!Lived
  <1>3. (\E i \in DOMAIN stream : stream[i].pay = m) => \E s \in Accepted(m) : req[s].captured
    BY <1>2 DEF GatewayInv, FP!LifeInv, FP!QueueInv, Accepted
  <1>4. nonce[m] = "settled" => \E i \in DOMAIN stream : stream[i].pay = m
    BY DEF GatewayInv, ChainInv
  <1> QED BY <1>1, <1>2, <1>3, <1>4

\* A handler's step moves its own payment: accepted, captured or forgiven.
LEMMA HandlerImplements ==
  ASSUME GatewayInv, GatewayInv', NEW s \in Streams, FP!Acts(s), UNCHANGED settleVars
  PROVE  \/ \A m \in Payments : Status(m)' = Status(m)
         \/ Abstract!Next
  <1>1. nonce' = nonce /\ \A t \in Streams : t # s => req'[t] = req[t]
    BY DEF settleVars, FP!Acts
  <1>2. CASE FP!Keeps(s) \/ FP!Refunds(s)
    <2>1. ASSUME NEW t \in Streams
          PROVE  /\ req'[t].rsv <=> req[t].rsv
                 /\ req[t].rsv => /\ req'[t].pay = req[t].pay
                                  /\ req'[t].captured <=> req[t].captured
                                  /\ req'[t].released <=> req[t].released
      <3>1. ~(req[t].captured /\ req[t].released)
        BY DEF GatewayInv, FP!LifeInv, FP!Lived
      <3> QED BY <1>1, <1>2, <3>1 DEF FP!Keeps, FP!Refunds, FP!SameTerms
    <2> QED BY <1>1, <2>1, StatusKept
  <1>3. CASE FP!Accepts(s) \/ FP!Captures(s) \/ FP!Forgives(s)
    <2>1. req[s].pay \in Payments
      BY <1>3 DEF FP!Accepts, FP!Captures, FP!Forgives, GatewayInv, FP!LifeInv, FP!FilterInv,
                  FP!PhaseInv
    <2>2. PICK m \in Payments : m = req[s].pay
      BY <2>1
    <2>3. /\ req'[s].rsv /\ req'[s].pay = m
          /\ FP!Accepts(s) => ~req[s].rsv /\ ~req'[s].captured /\ ~req'[s].released
          /\ FP!Captures(s) => /\ req[s].rsv /\ ~req[s].captured /\ ~req[s].released
                               /\ req'[s].captured /\ ~req'[s].released
          /\ FP!Forgives(s) => /\ req[s].rsv /\ ~req[s].captured /\ ~req[s].released
                               /\ ~req'[s].captured /\ req'[s].released
      BY <1>3, <2>2 DEF FP!Accepts, FP!Captures, FP!Forgives, FP!SameTerms
    <2>4. ASSUME NEW o \in Payments, o # m PROVE Status(o)' = Status(o)
      BY <1>1, <2>2, <2>3, <2>4, StatusKept
    <2>5. \A t \in Streams : req'[t].rsv /\ req'[t].pay = m => t = s
      BY <2>3 DEF GatewayInv, FP!LifeInv, FP!FilterInv, FP!ServedOnce
    <2>6. \A t \in Accepted(m) : t = s
      BY <1>1, <2>5 DEF Accepted
    <2>7. Accepted(m)' = {s}
      BY <2>3, <2>5 DEF Accepted
    <2>8. nonce[m] # "settled" /\ nonce'[m] # "settled"
      <3>1. \A t \in Accepted(m) : ~req[t].captured
        BY <1>3, <2>3, <2>6 DEF Accepted
      <3> QED BY <1>1, <3>1, OneHolder
    <2>9. /\ req[s].rsv => Accepted(m) = {s}
          /\ ~req[s].rsv => Accepted(m) = {}
      BY <2>2, <2>6 DEF Accepted
    <2> HIDE DEF Accepted
    <2>10. <<Status(m), Status(m)'>> \in Abstract!Allowed
      <3>1. CASE FP!Accepts(s)
        <4>1. Status(m) = "unused" /\ Status(m)' = "held"
          BY <2>3, <2>7, <2>8, <2>9, <3>1 DEF Status
        <4> QED BY <4>1 DEF Abstract!Allowed
      <3>2. CASE FP!Captures(s)
        <4>1. Status(m) = "held" /\ Status(m)' = "owed"
          BY <2>3, <2>7, <2>8, <2>9, <3>2 DEF Status
        <4> QED BY <4>1 DEF Abstract!Allowed
      <3>3. CASE FP!Forgives(s)
        <4>1. Status(m) = "held" /\ Status(m)' = "forgiven"
          BY <2>3, <2>7, <2>8, <2>9, <3>3 DEF Status
        <4> QED BY <4>1 DEF Abstract!Allowed
      <3> QED BY <1>3, <3>1, <3>2, <3>3
    <2> QED BY <2>4, <2>10, OnePayment
  <1> QED BY <1>2, <1>3 DEF FP!Acts

\* The chain charges only what is owed.
LEMMA ChainImplements ==
  ASSUME GatewayInv, SP!ChainNext, SettleOnly
  PROVE  \/ \A m \in Payments : Status(m)' = Status(m)
         \/ Abstract!Next
  <1>1. req' = req
    BY DEF SettleOnly, filterVars
  <1>2. PICK m \in Payments : SP!Land(m) \/ SP!Cancel(m)
    BY DEF SP!ChainNext
  <1>3. /\ nonce \in [Payments -> {"fresh", "settled", "cancelled"}]
        /\ mempool \in [Payments -> Nat] /\ now \in Nat
    BY DEF GatewayInv, SP!SettleInv, SP!TypeOK, SP!ChainTypeOK, SP!LedgerTypeOK
  <1>4. ASSUME NEW o \in Payments, o # m PROVE Status(o)' = Status(o)
    BY <1>1, <1>2, <1>3, <1>4, StatusKept DEF SP!Land, SP!Cancel
  <1>5. CASE SP!Cancel(m)
    BY <1>1, <1>3, <1>4, <1>5, StatusKept DEF SP!Cancel
  <1>6. CASE SP!Land(m)
    <2>1. nonce[m] = "fresh" /\ nonce'[m] = "settled" /\ mempool[m] > 0
      BY <1>3, <1>6 DEF SP!Land
    <2>2. PICK s \in Accepted(m) : req[s].captured
      BY <2>1, OneHolder DEF GatewayInv, ChainInv
    <2>3. \A t \in Accepted(m) : ~req[t].released
      BY <2>2, OneHolder DEF Accepted
    <2>4. Status(m) = "owed" /\ Status(m)' = "charged"
      BY <2>1, <2>2, <2>3 DEF Status
    <2> QED BY <1>4, <2>4, OnePayment DEF Abstract!Allowed
  <1> QED BY <1>2, <1>5, <1>6

\* Every step of the gateway is a step of the life cycle, or none.
LEMMA StepImplements ==
  ASSUME FP!RepliesArrive, GatewayInv, GatewayInv', [Next]_vars
  PROVE  [Abstract!Next]_[m \in Payments |-> Status(m)]
  <1>1. SUFFICES (\A m \in Payments : Status(m)' = Status(m)) \/ Abstract!Next
    OBVIOUS
  <1>2. ASSUME NEW s \in Streams, FP!Moving(s), UNCHANGED settleVars
        PROVE  (\A m \in Payments : Status(m)' = Status(m)) \/ Abstract!Next
    BY <1>2, HandlerKeeps, HandlerImplements DEF GatewayInv
  <1>3. ASSUME nonce' = nonce,
               \A t \in Streams : /\ req'[t].rsv = req[t].rsv /\ req'[t].pay = req[t].pay
                                  /\ req'[t].captured = req[t].captured
                                  /\ req'[t].released = req[t].released
        PROVE  \A m \in Payments : Status(m)' = Status(m)
    BY <1>3, StatusKept
  <1>4. CASE \E s \in Streams : \/ Request(s) /\ FilterOnly
                                \/ UseBalance(s) \/ BalanceLost(s) \/ BalanceLate(s)
    BY <1>2, <1>4, FilterMoves, BalanceMoves
       DEF GatewayInv, FilterOnly, UseBalance, BalanceLost, BalanceLate
  <1>5. CASE \E r \in Replicas : Crash(r)
    <2> PICK r \in Replicas : Crash(r)
        BY <1>5
    <2>1. \A t \in Streams : /\ req'[t].rsv = req[t].rsv /\ req'[t].pay = req[t].pay
                             /\ req'[t].captured = req[t].captured
                             /\ req'[t].released = req[t].released
      BY SameReplica, FilterConstants, GatewayAssumption, FP!CrashLives
         DEF Crash, GatewayInv, FP!SameTerms
    <2> QED BY <1>3, <2>1 DEF Crash, settleVars
  <1>6. CASE req' = req /\ nonce' = nonce
    BY <1>3, <1>6
  <1>7. CASE S!ChainNext /\ SettleOnly
    BY <1>7, ChainMoves, ChainImplements
  <1>8. CASE Settlement
    BY <1>6, <1>8, SettlerMoves, SettlerFrame DEF Settlement, SettleOnly, filterVars
  <1>9. CASE \/ \E s \in Streams : AskBalance(s)
             \/ \E r \in Replicas, p \in Payers : Refresh(r, p)
             \/ \E r \in Replicas, t \in Tables : F!ApplyTable(r, t) /\ FilterOnly
             \/ Tick \/ Finished \/ UNCHANGED vars
    BY <1>6, <1>9, SameClock DEF AskBalance, Refresh, CacheOnly, FilterOnly, filterVars,
           settleVars, F!ApplyTable, Tick, FP!Tick, FP!filterVars, Finished, vars
  <1> QED BY <1>4, <1>5, <1>7, <1>8, <1>9 DEF Next

\* The gateway, with its retries, redeliveries, stale balances, crashes and late landings,
\* implements the life cycle of a payment: it accepts a signature once, charges only what it
\* served, and never charges what it forgave.
THEOREM ImplementsLifeCycle ==
  ASSUME FP!RepliesArrive
  PROVE  Spec => LifeCycle
  <1>1. Init => Abstract!Init
    <2> SUFFICES ASSUME Init, NEW m \in Payments PROVE Status(m) = "unused"
        BY DEF Abstract!Init
    <2>1. nonce[m] = "fresh" /\ \A s \in Streams : req[s].rsv = FALSE
      BY InitSplits DEF FP!Init, FP!FilterInit, FP!NewRequest, SP!Init, SP!ChainInit
    <2> QED BY <2>1 DEF Status, Accepted
  <1>2. GatewayInv /\ GatewayInv' /\ [Next]_vars
          => [Abstract!Next]_[m \in Payments |-> Status(m)]
    BY StepImplements
  <1> QED BY <1>1, <1>2, GatewayInvariance, PTL DEF Spec, LifeCycle, Abstract!Spec

------------------------------------------------------------------------------
(* A payment is counted until it is settled *)

\* The sum without x, and with it.
LEMMA SumWithout ==
  ASSUME NEW W, IsFiniteSet(W), NEW f \in [W -> Nat], NEW A \in SUBSET W, NEW x \in A,
         NEW T \in SUBSET A, x \notin T, \A t \in T : f[t] > 0,
         NEW total \in Nat, SumFunctionOnSet(f, A) <= total
  PROVE  /\ SumFunctionOnSet(f, T) <= total - f[x]
         /\ total - f[x] <= 0 => T = {} /\ SumFunctionOnSet(f, T) = 0
  <1> DEFINE sum(U) == SumFunctionOnSet(f, U)
  <1>1. T \in SUBSET (A \ {x}) /\ A \ {x} \in SUBSET W /\ T \in SUBSET W /\ f[x] \in Nat
    OBVIOUS
  <1>2. sum(A) = f[x] + sum(A \ {x})
    BY SumRemove
  <1>3. sum(T) <= sum(A \ {x})
    BY <1>1, SumMonotone
  <1>4. sum(T) \in Nat /\ sum(A \ {x}) \in Nat
    BY <1>1, SumType
  <1>5. T # {} => sum(T) > 0
    <2> SUFFICES ASSUME NEW t \in T PROVE sum(T) > 0
        OBVIOUS
    <2>1. sum(T) = f[t] + sum(T \ {t})
      BY <1>1, SumRemove
    <2>2. sum(T \ {t}) \in Nat /\ f[t] \in Nat
      BY <1>1, SumType
    <2> HIDE DEF sum
    <2> QED BY <2>1, <2>2
  <1> HIDE DEF sum
  <1>6. sum(T) <= total - f[x]
    BY <1>1, <1>2, <1>3, <1>4 DEF sum
  <1>7. total - f[x] <= 0 => sum(T) = 0
    BY <1>1, <1>4, <1>6
  <1>8. total - f[x] <= 0 => T = {}
    BY <1>4, <1>5, <1>7
  <1> QED BY <1>6, <1>7, <1>8 DEF sum

\* The sum with at most x more.
LEMMA SumWith ==
  ASSUME NEW W, IsFiniteSet(W), NEW f \in [W -> Nat], NEW A \in SUBSET W, NEW x \in W,
         NEW T \in SUBSET W, T \ {x} \subseteq A, NEW total \in Nat, SumFunctionOnSet(f, A) <= total
  PROVE  /\ SumFunctionOnSet(f, T) <= total + f[x]
         /\ x \notin T => SumFunctionOnSet(f, T) <= total
  <1> DEFINE sum(U) == SumFunctionOnSet(f, U)
  <1>1. T \ {x} \in SUBSET A /\ f[x] \in Nat
    OBVIOUS
  <1>2. x \in T => sum(T) = f[x] + sum(T \ {x})
    BY SumRemove
  <1>3. x \notin T => T \ {x} = T
    OBVIOUS
  <1>4. sum(T \ {x}) <= sum(A)
    BY <1>1, SumMonotone
  <1>5. sum(T) \in Nat /\ sum(T \ {x}) \in Nat /\ sum(A) \in Nat /\ sum(A) <= total
    BY <1>1, SumType
  <1> HIDE DEF sum
  <1>6. x \notin T => sum(T) <= total
    BY <1>3, <1>4, <1>5
  <1>7. x \in T => sum(T) <= total + f[x]
    BY <1>1, <1>2, <1>4, <1>5
  <1>8. sum(T) <= total + f[x]
    BY <1>1, <1>5, <1>6, <1>7
  <1> QED BY <1>6, <1>8 DEF sum

\* What the sums are made of.
LEMMA SumTypes ==
  ASSUME GatewayInv
  PROVE  /\ Prices \in [Streams -> Nat] /\ IsFiniteSet(Streams) /\ now \in Nat
         /\ inflight \in [Payers -> Nat] /\ inflightExp \in [Payers -> Nat]
         /\ InflightTTL \in Nat \ {0}
         /\ \A p \in Payers : F!Inflight(p) \in Nat
         /\ \A s \in Streams : /\ req[s].t0 \in Nat /\ req[s].price \in Nat
                               /\ req[s].rsv => /\ req[s].price > 0 /\ req[s].t0 <= now
                                                /\ req[s].pay \in Payments
                                                /\ F!Payer(s) \in Payers
  <1>1. /\ req \in [Streams -> FP!Request] /\ FP!LedgerTypeOK /\ MaxExact \in Nat
        /\ InflightTTL \in Nat \ {0}
    BY FilterConstants DEF GatewayInv, FP!LifeInv, FP!FilterInv, FP!TypeOK
  <1>2. \A s \in Streams : req[s].t0 \in Nat /\ req[s].price \in Nat
    BY <1>1 DEF FP!Request
  <1>3. Prices \in [Streams -> Nat]
    BY <1>2 DEF Prices
  <1>4. /\ inflight \in [Payers -> Nat] /\ inflightExp \in [Payers -> Nat] /\ now \in Nat
        /\ \A p \in Payers : F!Inflight(p) \in Nat
    BY <1>1 DEF FP!LedgerTypeOK, F!Inflight
  <1>5. ASSUME NEW s \in Streams, req[s].rsv
        PROVE  /\ req[s].price > 0 /\ req[s].t0 <= now /\ req[s].pay \in Payments
               /\ F!Payer(s) \in Payers
    <2>1. req[s].price > 0 /\ req[s].t0 <= now /\ req[s].pay \in Payments
      BY <1>5 DEF GatewayInv, FP!LifeInv, FP!Lived, FP!FilterInv, FP!PhaseInv
    <2> QED BY <2>1, GatewayAssumption DEF F!Payer
  <1> QED BY <1>1, <1>2, <1>3, <1>4, <1>5, GatewayAssumption

\* The same after a step.
LEMMA SumTypesNext ==
  ASSUME GatewayInv'
  PROVE  /\ Prices' \in [Streams -> Nat] /\ now' \in Nat
         /\ inflight' \in [Payers -> Nat] /\ inflightExp' \in [Payers -> Nat]
         /\ \A s \in Streams : /\ req'[s].t0 \in Nat /\ req'[s].price \in Nat
                               /\ req'[s].rsv => req'[s].t0 <= now' /\ req'[s].price > 0
  <1>1. /\ req' \in [Streams -> FP!Request] /\ FP!LedgerTypeOK' /\ MaxExact \in Nat
    BY FilterConstants DEF GatewayInv, FP!LifeInv, FP!FilterInv, FP!TypeOK
  <1>2. \A s \in Streams : req'[s].t0 \in Nat /\ req'[s].price \in Nat
    BY <1>1 DEF FP!Request
  <1>3. Prices' \in [Streams -> Nat]
    BY <1>2 DEF Prices
  <1>4. \A s \in Streams : req'[s].rsv => req'[s].t0 <= now' /\ req'[s].price > 0
    BY DEF GatewayInv, FP!LifeInv, FP!Lived
  <1> QED BY <1>1, <1>2, <1>3, <1>4 DEF FP!LedgerTypeOK

\* Nothing new is in the sum.
Narrows(s) ==
    InSum(s)' => /\ InSum(s) /\ req'[s].pay = req[s].pay /\ req'[s].price = req[s].price
                 /\ req'[s].t0 = req[s].t0

\* What the sums come to when nothing new is in them, key by key.
LEMMA NarrowSums ==
  ASSUME GatewayInv, GatewayInv', \A s \in Streams : Narrows(s), NEW p \in Payers
  PROVE  /\ InSumOf(p)' \in SUBSET InSumOf(p) /\ InSumOf(p) \in SUBSET Streams
         /\ \A s \in InSumOf(p)' : /\ req'[s].t0 = req[s].t0 /\ Prices[s] > 0
         /\ (SumFunctionOnSet(Prices, InSumOf(p)))' = SumFunctionOnSet(Prices, InSumOf(p)')
         /\ SumFunctionOnSet(Prices, InSumOf(p)') <= SumFunctionOnSet(Prices, InSumOf(p))
         /\ SumFunctionOnSet(Prices, InSumOf(p)') \in Nat
         /\ SumFunctionOnSet(Prices, InSumOf(p)) \in Nat
  <1> DEFINE A == InSumOf(p)
             T == InSumOf(p)'
  <1>1. /\ T \in SUBSET A /\ A \in SUBSET Streams
        /\ \A s \in T : Prices[s] = Prices'[s] /\ req'[s].t0 = req[s].t0
    BY DEF InSumOf, Narrows, Prices, F!Payer
  <1>2. \A s \in A : Prices[s] > 0
    BY SumTypes DEF InSumOf, InSum, Prices
  <1> HIDE DEF A, T
  <1>3. T \in SUBSET Streams /\ IsFiniteSet(T)
    BY <1>1, SumTypes, FS_Subset
  <1>4. SumFunctionOnSet(Prices', T) = SumFunctionOnSet(Prices, T)
    BY <1>1, <1>3, SumSame
  <1>5. SumFunctionOnSet(Prices, T) <= SumFunctionOnSet(Prices, A)
    BY <1>1, SumTypes, SumMonotone
  <1>6. SumFunctionOnSet(Prices, T) \in Nat /\ SumFunctionOnSet(Prices, A) \in Nat
    BY <1>1, <1>3, SumTypes, SumType
  <1> QED BY <1>1, <1>2, <1>4, <1>5, <1>6 DEF A, T

\* A step that leaves the sums alone, or lets a key expire, keeps them covering.
LEMMA SumsNarrow ==
  ASSUME GatewayInv, GatewayInv', SumsCover, now' = now \/ now' = now + 1,
         inflight' = inflight, inflightExp' = inflightExp, \A s \in Streams : Narrows(s)
  PROVE  SumsCover'
  <1> SUFFICES ASSUME NEW p \in Payers
               PROVE  /\ (SumFunctionOnSet(Prices, InSumOf(p)))' <= F!Inflight(p)'
                      /\ \A s \in InSumOf(p)' : req'[s].t0 + InflightTTL <= inflightExp'[p]
      BY DEF SumsCover
  <1> DEFINE T == InSumOf(p)'
             sum(U) == SumFunctionOnSet(Prices, U)
  <1>1. /\ \A s \in T : req'[s].t0 = req[s].t0 /\ s \in Streams
        /\ (SumFunctionOnSet(Prices, InSumOf(p)))' = sum(T)
        /\ sum(T) <= sum(InSumOf(p)) /\ sum(T) \in Nat /\ sum(InSumOf(p)) \in Nat
    BY NarrowSums
  <1>2. \A s \in T : now' < req[s].t0 + InflightTTL /\ req[s].t0 + InflightTTL <= inflightExp[p]
    BY <1>1, NarrowSums DEF InSumOf, InSum, Alive, SumsCover
  <1>3. sum(InSumOf(p)) <= F!Inflight(p)
    BY DEF SumsCover
  <1>4. T = {} => sum(T) = 0
    BY FS_EmptySet, SumUnfolds
  <1> HIDE DEF T, sum
  <1>5. sum(T) <= F!Inflight(p)'
    <2>1. CASE T = {}
      <3>1. F!Inflight(p)' \in Nat
        BY SumTypesNext DEF F!Inflight
      <3> QED BY <1>4, <2>1, <3>1
    <2>2. CASE T # {}
      <3>1. PICK s \in T : TRUE
        BY <2>2
      <3>2. now < inflightExp[p] /\ now' < inflightExp[p]
        BY <1>1, <1>2, <3>1, SumTypes
      <3>3. F!Inflight(p)' = F!Inflight(p)
        BY <3>2 DEF F!Inflight
      <3> QED BY <1>1, <1>3, <3>3, SumTypes
    <2> QED BY <2>1, <2>2
  <1> QED BY <1>1, <1>2, <1>5 DEF T

\* A release of what is in the sum, for the first time, keeps the sums covering the rest.
LEMMA SumsRelease ==
  ASSUME GatewayInv, GatewayInv', SumsCover, now' = now, NEW x \in Streams, InSum(x), ~InSum(x)',
         F!ReleaseScript(F!Payer(x), req[x].price), \A s \in Streams : Narrows(s)
  PROVE  SumsCover'
  <1> DEFINE p0 == F!Payer(x)
             price == req[x].price
             after == F!Inflight(p0) - price
  <1>1. /\ inflight' = [inflight EXCEPT ![p0] = IF after <= 0 THEN 0 ELSE after]
        /\ inflightExp' = [inflightExp EXCEPT ![p0] = IF after <= 0 THEN 0 ELSE @]
    BY DEF F!ReleaseScript
  <1>2. /\ p0 \in Payers /\ price \in Nat /\ F!Inflight(p0) \in Nat /\ after \in Int
        /\ inflight \in [Payers -> Nat] /\ inflightExp \in [Payers -> Nat] /\ now \in Nat
        /\ Prices[x] = price
    BY SumTypes DEF InSum, Prices
  <1> SUFFICES ASSUME NEW p \in Payers
               PROVE  /\ (SumFunctionOnSet(Prices, InSumOf(p)))' <= F!Inflight(p)'
                      /\ \A s \in InSumOf(p)' : req'[s].t0 + InflightTTL <= inflightExp'[p]
      BY DEF SumsCover
  <1> DEFINE A == InSumOf(p)
             T == InSumOf(p)'
             sum(U) == SumFunctionOnSet(Prices, U)
  <1>3. /\ T \in SUBSET A /\ A \in SUBSET Streams
        /\ \A s \in T : req'[s].t0 = req[s].t0 /\ Prices[s] > 0
        /\ (SumFunctionOnSet(Prices, InSumOf(p)))' = sum(T)
        /\ sum(T) <= sum(A) /\ sum(T) \in Nat /\ sum(A) \in Nat
    BY NarrowSums
  <1>4. sum(A) <= F!Inflight(p) /\ \A s \in A : req[s].t0 + InflightTTL <= inflightExp[p]
    BY DEF SumsCover
  <1>5. F!Inflight(p) \in Nat
    BY SumTypes
  <1>6. x \notin T /\ (p = p0 => x \in A)
    BY DEF InSumOf
  <1> HIDE DEF A, T
  <1>7. CASE p # p0
    <2>1. F!Inflight(p)' = F!Inflight(p) /\ inflightExp'[p] = inflightExp[p]
      BY <1>1, <1>2, <1>7 DEF F!Inflight
    <2> HIDE DEF sum
    <2>2. sum(T) <= F!Inflight(p)
      BY <1>3, <1>4, <1>5
    <2>3. \A s \in T : req'[s].t0 + InflightTTL <= inflightExp'[p]
      BY <1>3, <1>4, <2>1
    <2> QED BY <1>3, <2>1, <2>2, <2>3 DEF T
  <1>8. CASE p = p0
    <2>1. /\ sum(T) <= F!Inflight(p) - Prices[x]
          /\ F!Inflight(p) - Prices[x] <= 0 => T = {} /\ sum(T) = 0
      BY <1>3, <1>4, <1>5, <1>6, <1>8, SumTypes, SumWithout
    <2> HIDE DEF sum
    <2>2. CASE after <= 0
      <3>1. F!Inflight(p)' = 0
        BY <1>1, <1>2, <1>8, <2>2 DEF F!Inflight
      <3>2. T = {} /\ sum(T) = 0
        BY <1>2, <1>8, <2>1, <2>2
      <3> QED BY <1>3, <3>1, <3>2 DEF T
    <2>3. CASE ~(after <= 0)
      <3>1. now < inflightExp[p]
        BY <1>2, <1>8, <2>3 DEF F!Inflight
      <3>2. inflightExp'[p] = inflightExp[p] /\ inflight'[p] = after
        BY <1>1, <1>2, <1>8, <2>3
      <3>3. F!Inflight(p)' = after
        BY <3>1, <3>2 DEF F!Inflight
      <3>4. sum(T) <= F!Inflight(p)'
        BY <1>2, <1>8, <2>1, <3>3
      <3>5. \A s \in T : req'[s].t0 + InflightTTL <= inflightExp'[p]
        BY <1>3, <1>4, <3>2
      <3> QED BY <1>3, <3>4, <3>5 DEF T
    <2> QED BY <2>2, <2>3
  <1> QED BY <1>7, <1>8

\* An acceptance adds its price to the sum and restarts the key's TTL.
LEMMA SumsAccept ==
  ASSUME GatewayInv, GatewayInv', SumsCover, now' = now, NEW x \in Streams, FP!Accepts(x),
         \A s \in Streams : s # x => Narrows(s)
  PROVE  SumsCover'
  <1> DEFINE p0 == F!Payer(x)
             price == req[x].price
  <1>1. /\ req[x].pay \in Payments /\ p0 \in Payers /\ FP!Payer(x) = p0
    BY GatewayAssumption DEF FP!Accepts, GatewayInv, FP!LifeInv, FP!FilterInv, FP!PhaseInv,
          F!Payer, FP!Payer
  <1>2. /\ inflight' = [inflight EXCEPT ![p0] = F!Inflight(p0) + price]
        /\ inflightExp' = [inflightExp EXCEPT ![p0] = now + InflightTTL]
    BY DEF FP!Accepts, FP!ReserveCall, FP!ReserveScript, FP!Inflight, F!Inflight, F!Payer
  <1>3. /\ price \in Nat /\ F!Inflight(p0) \in Nat /\ now \in Nat /\ InflightTTL \in Nat \ {0}
        /\ inflight \in [Payers -> Nat] /\ inflightExp \in [Payers -> Nat]
        /\ Prices \in [Streams -> Nat] /\ IsFiniteSet(Streams)
        /\ \A s \in Streams : req[s].rsv => req[s].t0 <= now /\ req[s].t0 \in Nat
    BY <1>1, SumTypes
  <1>4. /\ req'[x].t0 = req[x].t0 /\ req'[x].price = price /\ req'[x].pay = req[x].pay
        /\ req[x].t0 <= now /\ req[x].t0 \in Nat
    BY SumTypes, SumTypesNext DEF FP!Accepts, FP!SameTerms
  <1> SUFFICES ASSUME NEW p \in Payers
               PROVE  /\ (SumFunctionOnSet(Prices, InSumOf(p)))' <= F!Inflight(p)'
                      /\ \A s \in InSumOf(p)' : req'[s].t0 + InflightTTL <= inflightExp'[p]
      BY DEF SumsCover
  <1> DEFINE A == InSumOf(p)
             T == InSumOf(p)'
             sum(U) == SumFunctionOnSet(Prices, U)
  <1>5. /\ T \ {x} \subseteq A /\ T \in SUBSET Streams /\ A \in SUBSET Streams
        /\ \A s \in T : Prices[s] = Prices'[s] /\ req'[s].t0 = req[s].t0
        /\ x \in T => p = p0
    BY <1>4 DEF InSumOf, Narrows, Prices, F!Payer
  <1>6. \A s \in T : req[s].t0 <= now /\ req[s].t0 \in Nat
    <2>1. \A s \in A : req[s].t0 <= now /\ req[s].t0 \in Nat
      BY <1>3 DEF InSumOf, InSum
    <2> QED BY <1>4, <1>5, <2>1
  <1>7. /\ sum(A) <= F!Inflight(p) /\ \A s \in A : req[s].t0 + InflightTTL <= inflightExp[p]
        /\ F!Inflight(p) \in Nat
    BY SumTypes DEF SumsCover
  <1> HIDE DEF A, T
  <1>8. (SumFunctionOnSet(Prices, InSumOf(p)))' = sum(T)
    <2>1. IsFiniteSet(T)
      BY <1>3, <1>5, FS_Subset
    <2>2. SumFunctionOnSet(Prices', T) = SumFunctionOnSet(Prices, T)
      BY <1>5, <2>1, SumSame
    <2> QED BY <2>2 DEF T
  <1>9. sum(T) <= F!Inflight(p) + Prices[x] /\ (x \notin T => sum(T) <= F!Inflight(p))
    BY <1>3, <1>5, <1>7, SumWith
  <1> HIDE DEF sum
  <1>10. CASE p = p0
    <2>1. inflight'[p] = F!Inflight(p) + price /\ inflightExp'[p] = now + InflightTTL
      BY <1>2, <1>3, <1>10
    <2>2. F!Inflight(p)' = F!Inflight(p) + price
      BY <1>3, <2>1 DEF F!Inflight
    <2>3. Prices[x] = price
      BY DEF Prices
    <2>4. \A s \in T : req'[s].t0 + InflightTTL <= inflightExp'[p]
      BY <1>3, <1>5, <1>6, <2>1
    <2> QED BY <1>8, <1>9, <2>2, <2>3, <2>4 DEF T
  <1>11. CASE p # p0
    <2>1. inflight'[p] = inflight[p] /\ inflightExp'[p] = inflightExp[p]
      BY <1>2, <1>3, <1>11
    <2>2. F!Inflight(p)' = F!Inflight(p)
      BY <2>1 DEF F!Inflight
    <2>3. x \notin T /\ \A s \in T : s \in A
      BY <1>5, <1>11
    <2>4. \A s \in T : req'[s].t0 + InflightTTL <= inflightExp'[p]
      BY <1>5, <1>7, <2>1, <2>3
    <2> QED BY <1>8, <1>9, <2>2, <2>3, <2>4 DEF T
  <1> QED BY <1>10, <1>11

\* A step that only ends handlers, gives amounts back for good, or lets time pass.
LEMMA QuietCounts ==
  ASSUME GatewayInv, GatewayInv', CountInv, now' = now \/ now' = now + 1,
         UNCHANGED <<inflight, inflightExp, stream>>, released \subseteq released',
         \A s \in Streams :
            /\ req'[s].rsv = req[s].rsv /\ req'[s].captured = req[s].captured
            /\ req'[s].released = req[s].released /\ FP!SameTerms(s)
            /\ req'[s].phase = req[s].phase \/ req'[s].phase = "closed"
  PROVE  CountInv'
  <1>1. ASSUME NEW s \in Streams PROVE Narrows(s)
    <2>1. /\ req'[s].rsv = req[s].rsv /\ req'[s].captured = req[s].captured
          /\ req'[s].released = req[s].released /\ req'[s].pay = req[s].pay
          /\ req'[s].price = req[s].price /\ req'[s].t0 = req[s].t0
          /\ req'[s].phase = "releasing" => req[s].phase = "releasing"
      BY DEF FP!SameTerms
    <2>2. Settling(req[s].pay)' => Settling(req[s].pay)
      BY <2>1 DEF Settling
    <2>3. Alive(s)' => Alive(s)
      BY <2>1, SumTypes DEF Alive
    <2> QED BY <2>1, <2>2, <2>3 DEF Narrows, InSum
  <1>2. SumsCover'
    BY <1>1, SumsNarrow DEF CountInv
  <1>3. JobsSay'
    BY DEF CountInv, JobsSay, FP!SameTerms
  <1> QED BY <1>2, <1>3 DEF CountInv

\* A handler's step counts what it accepts, and gives back only what it alone holds.
LEMMA HandlerCounts ==
  ASSUME FP!HoldsOutliveServing, GatewayInv, GatewayInv', CountInv, NEW s \in Streams,
         FP!Acts(s), UNCHANGED settleVars
  PROVE  CountInv'
  <1>1. now' = now /\ released' = released /\ \A t \in Streams : t # s => req'[t] = req[t]
    BY DEF FP!Acts, settleVars
  <1>2. stream \in Seq(SP!Job) /\ FP!ServedOnce
        /\ \A t \in Streams : FP!Lived(req[t]) /\ (req[t].captured => req[t].rsv)
    BY OneLedger DEF GatewayInv, FP!LifeInv, FP!FilterInv, FP!TypeOK, FP!Lived, SP!LedgerTypeOK
  <1>3. CASE FP!Captures(s)
    <2> DEFINE job == [pay |-> req[s].pay, amount |-> req[s].price]
    <2>1. /\ stream' = Append(stream, job) /\ UNCHANGED <<inflight, inflightExp>>
          /\ req[s].rsv /\ ~req[s].captured /\ ~req[s].released
          /\ req'[s].rsv /\ req'[s].captured /\ FP!SameTerms(s)
      BY <1>3 DEF FP!Captures, FP!CaptureCall, FP!Capture
    <2> HIDE DEF job
    <2>2. /\ DOMAIN stream' = DOMAIN stream \cup {Len(stream) + 1}
          /\ stream'[Len(stream) + 1] = job
          /\ \A i \in DOMAIN stream : stream'[i] = stream[i]
      BY <1>2, <2>1
    <2>3. ASSUME NEW t \in Streams PROVE Narrows(t)
      <3>1. CASE t = s
        BY <1>1, <2>1, <3>1 DEF Narrows, InSum, Alive, FP!SameTerms
      <3>2. CASE t # s
        <4>1. req'[t] = req[t] /\ Alive(t)' = Alive(t)
          BY <1>1, <3>2 DEF Alive
        <4>2. req[t].captured /\ Settling(req[t].pay)' => Settling(req[t].pay)
          <5> SUFFICES ASSUME req[t].captured, Settling(req[t].pay)' PROVE Settling(req[t].pay)
              OBVIOUS
          <5>1. req[t].pay # req[s].pay
            BY <1>2, <2>1, <3>2 DEF FP!ServedOnce
          <5>2. job.pay = req[s].pay
            BY DEF job
          <5> QED BY <1>1, <2>2, <4>1, <5>1, <5>2 DEF Settling
        <4> QED BY <4>1, <4>2 DEF Narrows, InSum
      <3> QED BY <3>1, <3>2
    <2>4. SumsCover'
      BY <1>1, <2>1, <2>3, SumsNarrow DEF CountInv
    <2>5. JobsSay'
      <3> SUFFICES ASSUME NEW t \in Streams, req'[t].captured
                   PROVE  \E i \in DOMAIN stream' :
                             stream'[i] = [pay |-> req'[t].pay, amount |-> req'[t].price]
          BY DEF JobsSay
      <3>1. CASE t = s
        BY <2>1, <2>2, <3>1 DEF job, FP!SameTerms
      <3>2. CASE t # s
        BY <1>1, <2>2, <3>2 DEF CountInv, JobsSay
      <3> QED BY <3>1, <3>2
    <2> QED BY <2>4, <2>5 DEF CountInv
  <1>4. CASE ~FP!Captures(s)
    <2>1. stream' = stream
      BY <1>4 DEF FP!Acts, FP!Keeps, FP!Accepts, FP!Forgives, FP!Refunds, FP!ledger,
                  FP!ReserveCall, FP!ReserveScript, FP!ReleaseCall, FP!ReleaseScript
    <2>2. ASSUME NEW t \in Streams, t # s PROVE Narrows(t)
      BY <1>1, <2>1, <2>2 DEF Narrows, InSum, Alive, Settling
    <2>3. JobsSay'
      <3> SUFFICES ASSUME NEW t \in Streams, req'[t].captured
                   PROVE  \E i \in DOMAIN stream' :
                             stream'[i] = [pay |-> req'[t].pay, amount |-> req'[t].price]
          BY DEF JobsSay
      <3>1. req[t].captured /\ req'[t].pay = req[t].pay /\ req'[t].price = req[t].price
        BY <1>1, <1>2, <1>4 DEF FP!Acts, FP!Keeps, FP!Accepts, FP!Forgives, FP!Refunds, FP!SameTerms
      <3> QED BY <2>1, <3>1 DEF CountInv, JobsSay
    <2>4. SumsCover'
      <3>1. CASE FP!Accepts(s)
        BY <1>1, <2>2, <3>1, SumsAccept DEF CountInv
      <3>2. CASE FP!Keeps(s) \/ FP!Forgives(s)
        <4>1. UNCHANGED <<inflight, inflightExp>>
          BY <3>2 DEF FP!Keeps, FP!Forgives, FP!ledger
        <4>2. Narrows(s)
          BY <1>1, <2>1, <3>2
             DEF FP!Keeps, FP!Forgives, FP!SameTerms, Narrows, InSum, Alive, Settling
        <4> QED BY <1>1, <2>2, <4>1, <4>2, SumsNarrow DEF CountInv
      <3>3. CASE FP!Refunds(s)
        <4>1. F!ReleaseScript(F!Payer(s), req[s].price)
          BY <3>3, SameCalls DEF FP!Refunds, F!ReleaseCall
        <4>2. InSum(s) /\ ~InSum(s)' /\ Narrows(s)
          BY <1>2, <3>3 DEF FP!Refunds, FP!SameTerms, FP!Lived, InSum, Narrows, Alive
        <4> QED BY <1>1, <2>2, <3>3, <4>1, <4>2, SumsRelease DEF CountInv
      <3> QED BY <1>4, <3>1, <3>2, <3>3 DEF FP!Acts
    <2> QED BY <2>3, <2>4 DEF CountInv
  <1> QED BY <1>3, <1>4

\* A settler's release, when it is due, gives back what its payment counts for and no more.
LEMMA SettlerCounts ==
  ASSUME GatewayInv, GatewayInv', CountInv, ReleasesAreDue, NEW c \in Settlers,
         SP!Settler(c) \/ SP!Die(c), SettleOnly
  PROVE  CountInv'
  <1>1. UNCHANGED <<now, stream, req>>
    BY SettlerFrame DEF SettleOnly, filterVars
  <1>2. CASE UNCHANGED <<inflight, inflightExp, released>>
    BY <1>1, <1>2, QuietCounts DEF FP!SameTerms
  <1>3. CASE SP!At(c, "releasing") /\ SP!GiveBack(c)
    <2> DEFINE i == SP!Current(c)
    <2>1. i \in DOMAIN stream /\ released' = released \cup {i}
      <3>1. i \in DOMAIN stream
        BY <1>3, FilterConstants, SettleConstants, GatewayAssumption, SP!InHand
           DEF GatewayInv, SP!SettleInv, SP!At
      <3> QED BY <1>3, <3>1 DEF SP!GiveBack
    <2>2. PICK x \in Streams : req[x].captured /\ req[x].pay = stream[i].pay
      BY <2>1 DEF GatewayInv, FP!LifeInv, FP!QueueInv
    <2>3. /\ req[x].rsv /\ ~req[x].released /\ req[x].phase # "releasing"
          /\ req[x].pay \in Payments
      BY <2>2 DEF GatewayInv, FP!LifeInv, FP!Lived, FP!FilterInv, FP!PhaseInv
    <2>4. FP!JobsOf(req[x].pay) = {i}
      BY <2>1, <2>2 DEF GatewayInv, FP!LifeInv, FP!QueueInv, FP!JobsOf
    <2>5. stream[i] = [pay |-> req[x].pay, amount |-> req[x].price]
      <3>1. PICK j \in DOMAIN stream : stream[j] = [pay |-> req[x].pay, amount |-> req[x].price]
        BY <2>2 DEF CountInv, JobsSay
      <3>2. j \in FP!JobsOf(req[x].pay)
        BY <3>1 DEF FP!JobsOf
      <3> QED BY <2>4, <3>1, <3>2
    <2>6. i \notin released /\ Alive(x)
      <3>1. S!At(c, "releasing") /\ S!Current(c) = i /\ S!Pay(c) = req[x].pay
        BY <1>3, <2>2 DEF S!At, SP!At, S!Free, SP!Free, S!Current, SP!Current, S!Pay
      <3> QED BY <2>3, <3>1 DEF ReleasesAreDue, ReleasesAreFirst, ReleasesAreInTime, Accepted
    <2>7. F!ReleaseScript(F!Payer(x), req[x].price)
      BY <1>3, <2>2, <2>5 DEF SP!GiveBack, SP!Pay, F!Payer, F!ReleaseScript, SP!ReleaseScript,
            F!Inflight, SP!Inflight
    <2> HIDE DEF i
    <2>8. InSum(x)
      BY <2>1, <2>2, <2>3, <2>6 DEF InSum, Settling
    <2>9. ~InSum(x)'
      <3>1. ~Settling(req[x].pay)'
        BY <1>1, <2>1, <2>4 DEF Settling, FP!JobsOf
      <3> QED BY <1>1, <2>2, <2>3, <3>1 DEF InSum, Settling
    <2>10. ASSUME NEW t \in Streams PROVE Narrows(t)
      BY <1>1, <2>1 DEF Narrows, InSum, Alive, Settling
    <2>11. SumsCover'
      BY <1>1, <2>7, <2>8, <2>9, <2>10, SumsRelease DEF CountInv
    <2>12. JobsSay'
      BY <1>1 DEF CountInv, JobsSay
    <2> QED BY <2>11, <2>12 DEF CountInv
  <1> QED BY <1>2, <1>3, SettlerFrame

\* Nothing counts at the start.
LEMMA CountAtFirst == Init => CountInv
  <1> SUFFICES ASSUME Init PROVE CountInv
      OBVIOUS
  <1>1. GatewayInv
    BY GatewayInit
  <1>2. \A s \in Streams : req[s].rsv = FALSE /\ req[s].captured = FALSE
    BY InitSplits DEF FP!Init, FP!FilterInit, FP!NewRequest
  <1>3. ASSUME NEW p \in Payers
        PROVE  /\ InSumOf(p) = {} /\ SumFunctionOnSet(Prices, InSumOf(p)) = 0
               /\ F!Inflight(p) \in Nat
    <2>1. InSumOf(p) = {}
      BY <1>2 DEF InSumOf, InSum
    <2> QED BY <1>1, <2>1, FS_EmptySet, SumUnfolds, SumTypes
  <1>4. SumsCover
    BY <1>3 DEF SumsCover
  <1> QED BY <1>2, <1>4 DEF CountInv, JobsSay

\* Every step keeps the sums covering, when the releases the settlers are about to make are
\* due.
LEMMA CountStep ==
  ASSUME FP!RepliesArrive, FP!HoldsOutliveServing, GatewayInv, GatewayInv', CountInv,
         ReleasesAreDue, [Next]_vars
  PROVE  CountInv'
  <1>1. ASSUME NEW s \in Streams, FP!Moving(s), UNCHANGED settleVars
        PROVE  CountInv'
    BY <1>1, HandlerKeeps, HandlerCounts DEF GatewayInv
  <1>2. CASE \E s \in Streams : \/ Request(s) /\ FilterOnly
                                \/ UseBalance(s) \/ BalanceLost(s) \/ BalanceLate(s)
    BY <1>1, <1>2, FilterMoves, BalanceMoves
       DEF GatewayInv, FilterOnly, UseBalance, BalanceLost, BalanceLate
  <1>3. CASE \E r \in Replicas : Crash(r)
    <2> PICK r \in Replicas : Crash(r)
        BY <1>3
    <2>1. FP!Crash(r) /\ released' = released
      BY SameReplica DEF Crash, settleVars
    <2>2. /\ now' = now /\ UNCHANGED FP!ledger
          /\ \A t \in Streams :
               /\ req'[t].rsv = req[t].rsv /\ req'[t].captured = req[t].captured
               /\ req'[t].released = req[t].released /\ FP!SameTerms(t)
               /\ req'[t].phase = req[t].phase \/ req'[t].phase = "closed"
      BY <2>1, FilterConstants, GatewayAssumption, FP!CrashLives DEF GatewayInv
    <2> QED BY <2>1, <2>2, QuietCounts DEF FP!ledger
  <1>4. CASE Settlement
    BY <1>4, SettlerMoves, SettlerCounts DEF Settlement
  <1>5. ASSUME UNCHANGED <<inflight, inflightExp, stream, req, released>>,
               now' = now \/ now' = now + 1
        PROVE  CountInv'
    BY <1>5, QuietCounts DEF FP!SameTerms
  <1>6. CASE S!ChainNext /\ SettleOnly
    BY <1>5, <1>6, ChainMoves
       DEF SettleOnly, filterVars, SP!ChainNext, SP!ledger, SP!settleVars
  <1>7. CASE \/ \E s \in Streams : AskBalance(s)
             \/ \E r \in Replicas, p \in Payers : Refresh(r, p)
             \/ \E r \in Replicas, t \in Tables : F!ApplyTable(r, t) /\ FilterOnly
             \/ Finished \/ UNCHANGED vars
    BY <1>5, <1>7 DEF AskBalance, Refresh, CacheOnly, FilterOnly, filterVars, clockAndLedger,
           settleVars, F!ApplyTable, F!ledger, Finished, vars
  <1>8. CASE Tick
    BY <1>5, <1>8, SameClock
       DEF Tick, FP!Tick, FP!Advance, FP!ledger, FP!filterVars, settleVars
  <1> QED BY <1>2, <1>3, <1>4, <1>6, <1>7, <1>8 DEF Next

\* What is out is in the sum.
LEMMA CountMeans ==
  ASSUME GatewayInv, CountInv
  PROVE  CountedUntilSettled
  <1> SUFFICES ASSUME NEW p \in Payers
               PROVE  SumFunctionOnSet(Prices, Out(p)) <= F!Inflight(p)
      BY DEF CountedUntilSettled
  <1>1. InSumOf(p) \in SUBSET Streams /\ Out(p) \in SUBSET InSumOf(p)
    BY DEF Out, InSumOf, InSum
  <1>2. SumFunctionOnSet(Prices, InSumOf(p)) <= F!Inflight(p) /\ F!Inflight(p) \in Nat
    BY SumTypes DEF CountInv, SumsCover
  <1>3. SumFunctionOnSet(Prices, Out(p)) <= SumFunctionOnSet(Prices, InSumOf(p))
    BY <1>1, SumTypes, SumMonotone
  <1>4. /\ SumFunctionOnSet(Prices, Out(p)) \in Nat
        /\ SumFunctionOnSet(Prices, InSumOf(p)) \in Nat
    <2>1. Out(p) \in SUBSET Streams
      BY <1>1
    <2> QED BY <1>1, <2>1, SumTypes, SumType
  <1> QED BY <1>2, <1>3, <1>4

\* As long as no settler gives an amount back twice, or after its key has expired, every
\* payment is counted in flight from its request to the end of its settlement, whichever
\* releases fail and whoever crashes between two steps.
THEOREM CountedWhileReleasesAreDue ==
  ASSUME FP!RepliesArrive, FP!HoldsOutliveServing
  PROVE  Spec /\ []ReleasesAreDue => []CountedUntilSettled
  <1>1. GatewayInv /\ GatewayInv' /\ CountInv /\ ReleasesAreDue /\ [Next]_vars => CountInv'
    BY CountStep
  <1>2. GatewayInv /\ CountInv => CountedUntilSettled
    BY CountMeans
  <1> QED BY <1>1, <1>2, CountAtFirst, GatewayInvariance, PTL DEF Spec

------------------------------------------------------------------------------
(* When releases are due *)

\* Nobody has given back what a settler is about to, and time has not run out.
DueInv == SP!OnceInv /\ now <= MaxTime

\* A settler that handles a job once gives its amount back once.
LEMMA OneRelease ==
  ASSUME GatewayInv, DueInv
  PROVE  ReleasesAreFirst
  <1>1. SP!ReleasedOnce
    BY FilterConstants, SettleConstants, GatewayAssumption, SP!OnceMeans DEF GatewayInv, DueInv
  <1>2. \A c \in Settlers : /\ S!At(c, "releasing") <=> SP!At(c, "releasing")
                            /\ S!Current(c) = SP!Current(c)
    BY DEF S!At, SP!At, S!Free, SP!Free, S!Current, SP!Current
  <1> QED BY <1>1, <1>2 DEF ReleasesAreFirst, SP!ReleasedOnce

\* It does so in time, if the clock stops before the first key can expire.
LEMMA InTheFirstLife ==
  ASSUME MaxTime < InflightTTL, GatewayInv, DueInv
  PROVE  ReleasesAreInTime
  <1> SUFFICES ASSUME NEW s \in Streams PROVE Alive(s)
      BY DEF ReleasesAreInTime, Accepted
  <1>1. now \in Nat /\ req[s].t0 \in Nat /\ InflightTTL \in Nat /\ MaxTime \in Nat
    BY SumTypes, GatewayAssumption
  <1> QED BY <1>1 DEF Alive, DueInv

\* Every step of the gateway keeps this.
LEMMA DueStep ==
  ASSUME SP!Undisturbed, FP!RepliesArrive, GatewayInv, DueInv, [Next]_vars
  PROVE  DueInv'
  <1>1. now \in Nat /\ MaxTime \in Nat /\ SP!OnceInv /\ now <= MaxTime
    BY SumTypes, GatewayAssumption DEF DueInv
  <1>2. CASE Settlement
    <2> PICK c \in Settlers : SP!Settler(c) \/ SP!Die(c)
        BY <1>2, SettlerMoves DEF Settlement
    <2>1. SP!OnceInv'
      BY <1>1, FilterConstants, SettleConstants, GatewayAssumption, SP!OnceStep DEF GatewayInv
    <2> QED BY <1>1, <2>1, SettlerFrame DEF DueInv
  <1>3. ASSUME UNCHANGED SP!settleVars PROVE SP!OnceInv'
    BY <1>1, <1>3, FilterConstants, SettleConstants, GatewayAssumption, SP!OnceElsewhere
  <1>4. CASE S!ChainNext /\ SettleOnly
    BY <1>1, <1>3, <1>4, ChainMoves DEF SP!ChainNext, DueInv
  <1>5. ASSUME UNCHANGED settleVars, ~Settlement, ~(S!ChainNext /\ SettleOnly)
        PROVE  DueInv'
    <2>1. SP!OnceInv'
      BY <1>3, <1>5 DEF settleVars, SP!settleVars, SP!groupVars
    <2>2. ASSUME NEW s \in Streams, FP!Moving(s) PROVE now' = now
      BY <1>5, <2>2, HandlerKeeps DEF GatewayInv, FP!Acts
    <2>3. CASE \E s \in Streams : \/ Request(s) \/ UseBalance(s) \/ BalanceLost(s)
                                  \/ BalanceLate(s)
      BY <1>1, <2>1, <2>2, <2>3, FilterMoves, BalanceMoves DEF GatewayInv, DueInv
    <2>4. CASE \/ \E s \in Streams : AskBalance(s)
               \/ \E r \in Replicas, p \in Payers : Refresh(r, p)
               \/ \E r \in Replicas, t \in Tables : F!ApplyTable(r, t)
               \/ \E r \in Replicas : Crash(r)
               \/ Finished \/ UNCHANGED vars
      <3>1. now' = now
        BY <2>4 DEF AskBalance, Refresh, CacheOnly, clockAndLedger, F!ApplyTable, F!ledger,
              Crash, F!Crash, Finished, vars
      <3> QED BY <1>1, <2>1, <3>1 DEF DueInv
    <2>5. CASE Tick
      BY <1>1, <2>1, <2>5, SameClock DEF Tick, FP!Tick, FP!Advance, DueInv
    <2> QED BY <1>5, <2>3, <2>4, <2>5 DEF Next
  <1> QED BY <1>2, <1>4, <1>5 DEF Next, FilterOnly, AskBalance, CacheOnly, UseBalance,
         BalanceLost, BalanceLate, Crash, Refresh, Tick, Finished, vars

\* Nothing has been given back at the start.
LEMMA DueAtFirst == Init => DueInv
  <1> SUFFICES ASSUME Init PROVE DueInv
      OBVIOUS
  <1>1. SP!Init
    BY InitSplits
  <1>2. now = 0 /\ MaxTime \in Nat
    BY <1>1, GatewayAssumption DEF SP!Init, SP!LedgerInit
  <1> QED BY <1>1, <1>2, FilterConstants, SettleConstants, GatewayAssumption, SP!OnceAtFirst
          DEF DueInv

\* With one settler that nobody disturbs, being in time is all it takes: as long as jobs
\* reach their end within the in-flight key's lifetime, a payment is counted until then.
THEOREM CountedWhenInTime ==
  ASSUME FP!RepliesArrive, FP!HoldsOutliveServing, SP!Undisturbed
  PROVE  Spec /\ []ReleasesAreInTime => []CountedUntilSettled
  <1>1. DueInv /\ GatewayInv /\ [Next]_vars => DueInv'
    BY DueStep
  <1>2. DueInv /\ GatewayInv => ReleasesAreFirst
    BY OneRelease
  <1>3. ReleasesAreFirst /\ ReleasesAreInTime => ReleasesAreDue
    BY DEF ReleasesAreDue
  <1> QED BY <1>1, <1>2, <1>3, DueAtFirst, GatewayInvariance, CountedWhileReleasesAreDue, PTL
          DEF Spec

\* Until the first key can expire no condition is left: releases of the filter that fail,
\* settlements that are retried and a chain that cannot be asked never make a sum too low.
THEOREM CountedInTheFirstLife ==
  ASSUME FP!RepliesArrive, FP!HoldsOutliveServing, SP!Undisturbed, MaxTime < InflightTTL
  PROVE  Spec => []CountedUntilSettled
  <1>1. DueInv /\ GatewayInv /\ [Next]_vars => DueInv'
    BY DueStep
  <1>2. DueInv /\ GatewayInv => ReleasesAreInTime
    BY InTheFirstLife
  <1> QED BY <1>1, <1>2, DueAtFirst, GatewayInvariance, CountedWhenInTime, PTL DEF Spec

==============================================================================
