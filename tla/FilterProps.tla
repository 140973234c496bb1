----------------------------- MODULE FilterProps -----------------------------
(***************************************************************************)
(* What the filter must get right: a signature is accepted once, the       *)
(* in-flight sum never undercounts, the capture stream says what the       *)
(* decisions say, and no hold lasts for ever.                              *)
(***************************************************************************)
EXTENDS Filter, FiniteSetsExt

\* Every variable has its type; in particular no in-flight sum, claim or TTL is negative
\* and the retry counter stays within the client's MaxRetries (rdb.go).
TypeOK ==
    /\ LedgerTypeOK
    /\ table \in [Replicas -> Tables \cup {NoTable}]
    /\ req \in [Streams -> Request]
    /\ faults \in 0..MaxFaults

\* A signature is accepted at most once, for ever and across replicas whose clocks
\* disagree, whatever replies are lost and whichever replicas crash (reserve.go: "a
\* signature is served once").
ServedOnce ==
    \A s, t \in Streams :
        req[s].rsv /\ req[t].rsv /\ req[s].pay = req[t].pay => s = t

------------------------------------------------------------------------------

HeldBy(s, p) == req[s].rsv /\ ~req[s].released /\ Payer(s) = p

Sum(S) == SumFunctionOnSet([s \in Streams |-> req[s].price], S)

\* What p has been served, or is being served, within the in-flight key's lifetime.
Held(p) == Sum({s \in Streams : HeldBy(s, p) /\ now < req[s].t0 + InflightTTL})

\* The in-flight sum never undercounts the payer's holds: failed releases, crashes and
\* expired keys only ever leave it too high (reserve.go: "overcounting is the safe
\* direction").
NeverUndercounts == \A p \in Payers : Held(p) <= Inflight(p)

\* Concurrent requests cannot overdraw a balance: what is held at once is covered by the
\* balance the requests were accepted against (reserve.go, section 10.4).
NoOverdraft == \A p \in Payers : Held(p) <= Clamp(ChainBalance[p])

\* Every sum the Lua scripts compute is exact: the stored amount stays within MaxExact,
\* because the balance is clamped before it is compared (reserve.go, MaxExact).
InflightExact == \A p \in Payers : inflight[p] <= MaxExact

\* A claim that is alive belongs to a request that was accepted: a refusal, a 503 or a
\* timeout never burns the buyer's signature (reserveScript's order of checks).
ClaimMeansAccepted ==
    \A m \in Payments : Claimed(m) => \E s \in Streams : req[s].rsv /\ req[s].pay = m

JobsOf(m) == {i \in DOMAIN stream : stream[i].pay = m}

\* The capture stream holds exactly one job for a payment whose request was captured and
\* none for one that was released, whatever the response, the stream's end and a crash
\* did in which order (responseHeaders, finish).
QueueMatchesDecisions ==
    \A s \in Streams : req[s].rsv =>
        Cardinality(JobsOf(req[s].pay)) = IF req[s].captured THEN 1 ELSE 0

\* A hold does not outlive its stream: it is captured or given back, whether the response
\* came, the client went away or calls on Redis failed; only a crash of the replica, which
\* loses the price table too, may leave it (Process, finish).  Given back means that release
\* was called: if the call does not reach Redis, the key's TTL is left (BackstopClears).
HoldsEnd ==
    \A s \in Streams :
        req[s].rsv /\ req[s].phase # "closed" ~>
            (req[s].captured \/ req[s].released \/ table[ReplicaOf[s]] = NoTable)

\* Once requests stop, whatever failed releases and crashes left behind is cleared by the
\* in-flight key's TTL, and stays cleared (server.go, release: "the TTL is the backstop").
BackstopClears == <>[](\A p \in Payers : Inflight(p) = 0)

------------------------------------------------------------------------------
(* Why ServedOnce holds: the parts of its inductive invariant *)

Window(s) == Auth[req[s].pay].validBefore - Skew[ReplicaOf[s]]

\* Where a stream's handler may stand, and what it then knows.
PhaseInv ==
    \A s \in Streams :
        /\ req[s].phase \in {"balance", "reserving"} => req[s].pay \in Payments /\ ~req[s].rsv
        /\ req[s].phase = "idle" => ~req[s].rsv
        /\ req[s].phase \in {"capturing", "releasing"} => req[s].rsv
        /\ req[s].rsv => req[s].pay \in Payments

\* A stream that may still reserve was verified inside the signature's window, and the
\* claim it would make outlives the window, on its replica's clock, by the margin.
WindowInv ==
    \A s \in Streams :
        /\ req[s].phase \in {"balance", "reserving"} => req[s].t0 < Window(s)
        /\ req[s].phase = "reserving" => now + req[s].ttl >= Window(s) + NonceMargin

\* The claim of an accepted payment lasts that long.
ClaimInv ==
    \A s \in Streams : req[s].rsv => nonceExp[req[s].pay] >= Window(s) + NonceMargin

FilterInv == TypeOK /\ PhaseInv /\ WindowInv /\ ClaimInv /\ ServedOnce /\ InflightExact

------------------------------------------------------------------------------
(* Why the sums, the claims and the queue are right when no reply is lost *)

\* Nothing is served longer than the in-flight key lives, and every reply arrives: the
\* defaults are 30 s for the key, 15 s for a route's timeout and 250 ms for the deadline.
HoldsOutliveServing == Deadline < InflightTTL /\ MaxServe < InflightTTL
RepliesArrive == "unacked" \notin Faults

\* How far a reservation got, by the handler's phase.
Lived(q) ==
    /\ q.rsv \/ q.phase \in {"balance", "reserving"} => q.price > 0 /\ q.t0 <= now
    /\ ~q.rsv => ~q.captured /\ ~q.released
    /\ HoldsOutliveServing /\ q.rsv /\ q.phase \in {"open", "capturing", "releasing"}
          => now < q.t0 + InflightTTL
    /\ q.phase \in {"open", "capturing"} => ~q.captured /\ ~q.released
    /\ q.phase = "releasing" => q.released
    /\ q.phase = "answered" /\ q.rsv => q.captured \/ q.released
    /\ ~(q.captured /\ q.released)

\* And the balance it is checked against.
Staged(q) ==
    /\ Lived(q)
    /\ q.phase = "reserving" => q.bal = ChainBalance[Auth[q.pay].payer]

StageInv == \A s \in Streams : Staged(req[s])

\* The release that is under way has not reached Redis: its amount is still counted.
Counted(s, p) ==
    /\ req[s].rsv
    /\ Payer(s) = p
    /\ ~req[s].released \/ req[s].phase = "releasing"
    /\ now < req[s].t0 + InflightTTL

\* What is counted is in the sum, and the key lives as long as anything in it counts.
SumInv ==
    \A p \in Payers :
        /\ Sum({s \in Streams : Counted(s, p)}) <= Inflight(p)
        /\ \A s \in Streams : Counted(s, p) => req[s].t0 + InflightTTL <= inflightExp[p]
        /\ Inflight(p) <= Clamp(ChainBalance[p])

\* Every job is that of a captured request, and a captured request has one job.
QueueInv ==
    /\ \A i \in DOMAIN stream :
         \E s \in Streams : req[s].captured /\ req[s].pay = stream[i].pay
    /\ \A s \in Streams : req[s].captured =>
         \E i \in DOMAIN stream : JobsOf(req[s].pay) = {i}

\* What a reservation's life and the queue rest on, whatever balances are read.
LifeInv == FilterInv /\ (\A s \in Streams : Lived(req[s])) /\ QueueInv

HoldsInv == FilterInv /\ StageInv /\ SumInv /\ ClaimMeansAccepted /\ QueueInv

==============================================================================
