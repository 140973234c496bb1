------------------------------- MODULE Gateway -------------------------------
(***************************************************************************)
(* The gateway as deployed: filter replicas with the balance cache, the    *)
(* ledger in Redis, settlers and the chain.  The request path and the      *)
(* settlement path meet only in the ledger and in the payer's balance,     *)
(* which the cache remembers while settlements change it.                  *)
(***************************************************************************)
EXTENDS Integers, Sequences, FiniteSets

CONSTANTS
    \* the ledger and the chain
    Payments, Payers, Auth, InflightTTL, NonceMargin, MaxExact,
    InitialFunds, LandWithin, MayCancel,
    \* the filter and its cache
    Streams, Replicas, ReplicaOf, Skew, Wired, Routes, Tables, MaxTimeout,
    SkewAllowance, Deadline, MaxServe, MaxRetries, Faults, MaxFaults,
    Fresh, LastKnown, FetchTimeout, NoRoute, NoTable, NoPayment, Malformed,
    \* the settlers
    Settlers, Count, MinIdle, MaxDeliveries, Unparsable, Foreign,
    SettleFaults, MaxSettleFaults,
    \* bounds
    LastArrival, MaxTime

VARIABLES
    now, nonceExp, inflight, inflightExp, stream,
    table, req, faults,
    cached, fetch, get,
    nonce, funds, mempool,
    cursor, count, since, acked, dead, filed, batch, work, released, refused, settleFaults

F == INSTANCE Filter WITH ChainBalance <- InitialFunds
S == INSTANCE Settle WITH MaxJobs <- Cardinality(Streams), Horizon <- MaxTime
B == INSTANCE Balance WITH Readers <- Streams, Balances <- Nat

\* What the parts assume of their constants, for the whole.
ASSUME GatewayAssumption ==
    \* the ledger and the chain
    /\ Auth \in [Payments -> [payer : Payers, accepted : Nat, value : Nat,
                             validAfter : Nat, validBefore : Nat]]
    /\ {InflightTTL, NonceMargin, MaxExact} \subseteq Nat \ {0}
    /\ InitialFunds \in [Payers -> Nat] /\ LandWithin \in Nat /\ MayCancel \in BOOLEAN
    \* the filter: the margin covers the clocks' disagreement and one request phase
    /\ IsFiniteSet(Streams)
    /\ ReplicaOf \in [Streams -> Replicas]
    /\ Skew \in [Replicas -> Int]
    /\ \A r, q \in Replicas : Skew[r] - Skew[q] + Deadline <= NonceMargin
    /\ Wired \subseteq Replicas
    /\ Tables \subseteq [Routes -> 0..MaxExact]
    /\ {MaxTimeout, SkewAllowance, Deadline, MaxServe, MaxRetries,
        MaxFaults, LastArrival, MaxTime} \subseteq Nat
    /\ Faults \subseteq {"unsent", "unacked", "crash"}
    /\ NoRoute \notin Routes /\ NoTable \notin Tables
    /\ NoPayment \notin Payments /\ Malformed \notin Payments
    \* the cache
    /\ Payers # {}
    /\ {Fresh, FetchTimeout} \subseteq Nat /\ LastKnown \in Nat \ {0} /\ Fresh <= LastKnown
    \* the settlers
    /\ {Count, MinIdle, MaxDeliveries} \subseteq Nat \ {0}
    /\ MaxSettleFaults \in Nat
    /\ Unparsable \subseteq Payments /\ Foreign \subseteq Payments
    /\ SettleFaults \subseteq {"unsent", "unacked", "rpc", "crash"}
    /\ \A m \in Payments : Auth[m].validBefore <= MaxTime

clockAndLedger == <<now, nonceExp, inflight, inflightExp, stream>>
filterVars == <<table, req, faults>>
cacheVars == <<cached, fetch, get>>
settleVars == <<nonce, funds, mempool, cursor, count, since, acked, dead, filed, batch,
                work, released, refused, settleFaults>>

vars == <<clockAndLedger, filterVars, cacheVars, settleVars>>

\* Who moves: a filter handler, the cache, or the settlers and the chain.
FilterOnly == UNCHANGED <<cacheVars, settleVars>>
CacheOnly == UNCHANGED <<clockAndLedger, filterVars, settleVars>>
SettleOnly == UNCHANGED <<filterVars, cacheVars>>

------------------------------------------------------------------------------

\* accept calls cache.Get for the payer, once per request ...
AskBalance(s) ==
    /\ req[s].phase = "balance"
    /\ get[s].st = "idle"
    /\ B!GetNext(s, F!Payer(s)) \/ B!GetFails(s)
    /\ CacheOnly

Answered(s) == get[s].st \in {"fresh", "last_known", "fetched"}

\* ... and goes on with what it returns.
UseBalance(s) ==
    /\ Answered(s)
    /\ F!BalanceRead(s, get[s].v)
    /\ FilterOnly

\* Redis or the RPC failed, or the deadline passed just after the answer.
BalanceLost(s) ==
    /\ get[s].st = "failed" \/ (Answered(s) /\ now > req[s].t0 + Deadline)
    /\ F!BalanceFailed(s, "dependency_unavailable")
    /\ FilterOnly

\* The deadline passes while the request waits for the read: the read goes on.
BalanceLate(s) ==
    /\ B!Overrun(s)
    /\ F!BalanceFailed(s, "deadline")
    /\ UNCHANGED settleVars

Request(s) ==
    \/ \E route \in Routes, hdr \in Payments : F!RequestHeaders(s, route, hdr)
    \/ F!ReserveReply(s) \/ F!ReserveLate(s) \/ F!CaptureReply(s) \/ F!ReleaseReply(s)
    \/ \E giveUp \in BOOLEAN :
         F!ReserveLost(s, giveUp) \/ F!CaptureLost(s, giveUp) \/ F!ReleaseLost(s, giveUp)
    \/ F!Envoy(s)

\* A replica dies, and the reads it had under way with it.
Crash(r) ==
    /\ F!Crash(r)
    /\ fetch' = [fetch EXCEPT ![r] = [p \in Payers |-> B!NoFetch]]
    /\ get' = [s \in Streams |->
                 IF ReplicaOf[s] = r /\ get[s].st = "waiting"
                 THEN [get[s] EXCEPT !.st = "overran"] ELSE get[s]]
    /\ UNCHANGED <<cached, settleVars>>

\* The read of the balance sees what settlements have left of it.
Refresh(r, p) == B!FetchNext(r, p) /\ CacheOnly

Settlement ==
    /\ \E c \in Settlers : S!Settler(c) \/ S!Die(c)
    /\ SettleOnly

Tick ==
    /\ \A r \in Replicas, p \in Payers : B!InTime(r, p)
    /\ F!Tick
    /\ UNCHANGED <<cacheVars, settleVars>>

Finished ==
    /\ now = MaxTime
    /\ \A s \in Streams : req[s].phase \in {"idle", "closed"}
    /\ S!Finished
    /\ UNCHANGED vars

Init == F!Init /\ S!Init /\ B!BalanceInit

Next ==
    \/ \E s \in Streams :
         \/ Request(s) /\ FilterOnly
         \/ AskBalance(s) \/ UseBalance(s) \/ BalanceLost(s) \/ BalanceLate(s)
    \/ \E r \in Replicas :
         \/ Crash(r)
         \/ \E t \in Tables : F!ApplyTable(r, t) /\ FilterOnly
         \/ \E p \in Payers : Refresh(r, p)
    \/ Settlement
    \/ S!ChainNext /\ SettleOnly
    \/ Tick
    \/ Finished

Spec == Init /\ [][Next]_vars

==============================================================================
