------------------------------- MODULE Filter --------------------------------
(***************************************************************************)
(* The ext_proc filter (package extproc): replicas that each serve many    *)
(* streams, one stream per HTTP request.  A request phase prices the       *)
(* request, verifies the payment, reads the payer's balance and reserves;  *)
(* a response phase captures a 2xx and releases anything else; the end of  *)
(* a stream releases what no response phase settled.                       *)
(*                                                                         *)
(* Each call on Redis is a step of its own and may fail in two ways: the   *)
(* command never ran, or it ran and its reply was lost.  The client tries  *)
(* again MaxRetries times (package rdb), which runs the command again.     *)
(***************************************************************************)
EXTENDS Reserve, FiniteSets

CONSTANTS
    Streams, Replicas,
    ReplicaOf,       \* the replica that serves each stream
    Skew,            \* a replica's clock minus Redis' clock
    Wired,           \* the replicas started with payments on
    Routes,
    Tables,          \* price tables a replica may load: price by route, 0 = no entry
    ChainBalance,    \* what a balance read returns, by payer
    MaxTimeout,      \* the routes' maxTimeoutSeconds (0: no cap)
    SkewAllowance,   \* verify.SkewAllowance
    Deadline,        \* the request phase's budget, in ticks
    MaxServe,        \* how long after its request phase Envoy keeps a stream open
    MaxRetries,      \* go-redis MaxRetries on the request path
    Faults,          \* the faults that happen, of FaultKinds
    MaxFaults,       \* bound: how many of them
    LastArrival,     \* bound: no request arrives after this time
    MaxTime,         \* bound: the clock stops here
    NoRoute, NoTable, NoPayment, Malformed

FaultKinds == {"unsent", "unacked", "crash"}
Headers == Payments \cup {NoPayment, Malformed}

ASSUME FilterAssumption ==
    /\ IsFiniteSet(Streams)
    /\ ReplicaOf \in [Streams -> Replicas]
    /\ Skew \in [Replicas -> Int]
    /\ Wired \subseteq Replicas
    /\ Tables \subseteq [Routes -> 0..MaxExact]
    /\ ChainBalance \in [Payers -> Nat]
    /\ {MaxTimeout, SkewAllowance, Deadline, MaxServe, MaxRetries,
        MaxFaults, LastArrival, MaxTime} \subseteq Nat
    /\ Faults \subseteq FaultKinds
    /\ NoRoute \notin Routes /\ NoTable \notin Tables
    /\ NoPayment \notin Payments /\ Malformed \notin Payments

\* The margin added to a claim covers the clocks' disagreement and one request phase.
ASSUME SkewAssumption ==
    \A r, q \in Replicas : Skew[r] - Skew[q] + Deadline <= NonceMargin

VARIABLES
    table,       \* by replica: the price table pricing.Store holds
    req,         \* by stream: the request struct, and where its handler stands
    faults       \* how many faults have happened

filterVars == <<table, req, faults>>
vars == <<now, ledger, filterVars>>

Phases == {"idle", "balance", "reserving", "open", "capturing", "releasing",
           "answered", "closed"}

Decisions == {"none", "payment_required", "payment_present_unverified",
    "payment_invalid", "replay", "insufficient_funds", "payment_accepted", "paid",
    "released_non_2xx", "released_stream_end", "capture_failed", "deadline",
    "dependency_unavailable", "unpriced", "no_route_attribute", "table_not_loaded"}

Request == [phase : Phases, decision : Decisions, pay : Headers, price : 0..MaxExact,
            t0 : Nat, bal : Nat, ttl : Nat, tries : 0..MaxRetries,
            rsv : BOOLEAN, captured : BOOLEAN, released : BOOLEAN]

NewRequest == [phase |-> "idle", decision |-> "none", pay |-> NoPayment, price |-> 0,
               t0 |-> 0, bal |-> 0, ttl |-> 0, tries |-> 0,
               rsv |-> FALSE, captured |-> FALSE, released |-> FALSE]

FilterInit ==
    /\ table = [r \in Replicas |-> NoTable]
    /\ req = [s \in Streams |-> NewRequest]
    /\ faults = 0

Clock(s) == now + Skew[ReplicaOf[s]]
Payer(s) == Auth[req[s].pay].payer

Becomes(s, q) == req' = [req EXCEPT ![s] = q]

Fault(kind) ==
    /\ kind \in Faults
    /\ faults < MaxFaults
    /\ faults' = faults + 1

------------------------------------------------------------------------------
(* The request phase *)

\* verify.Verify for a payload that parses and whose signature recovers to its payer:
\* the echoed amount is the route's, the price is a floor on the signed value, and the
\* validity window contains the replica's clock and ends before the cap.
Verify(m, price, clock) ==
    /\ Auth[m].accepted = price
    /\ Auth[m].value >= price
    /\ Auth[m].validAfter <= clock
    /\ clock < Auth[m].validBefore
    /\ MaxTimeout > 0 => Auth[m].validBefore <= clock + MaxTimeout + SkewAllowance

\* What requestHeaders decides before it talks to anybody: the first check that does
\* not hold names the decision.
Screen(s, route, hdr) ==
    LET r == ReplicaOf[s] IN
    IF route = NoRoute THEN "no_route_attribute"
    ELSE IF table[r] = NoTable THEN "table_not_loaded"
    ELSE IF table[r][route] = 0 THEN "unpriced"
    ELSE IF hdr = NoPayment THEN "payment_required"
    ELSE IF r \notin Wired THEN "payment_present_unverified"
    ELSE IF hdr = Malformed THEN "payment_invalid"
    ELSE IF ~Verify(hdr, table[r][route], Clock(s)) THEN "payment_invalid"
    ELSE "none"

\* The request headers arrive.  Every refusal is an immediate answer that ends the
\* stream; an unpriced route goes on to the backend with nothing reserved.
RequestHeaders(s, route, hdr) ==
    LET d == Screen(s, route, hdr) IN
    /\ req[s].phase = "idle"
    /\ now <= LastArrival
    /\ Becomes(s, [req[s] EXCEPT
         !.decision = d,
         !.phase = IF d = "none" THEN "balance"
                   ELSE IF d = "unpriced" THEN "open" ELSE "closed",
         !.pay = IF d = "none" THEN hdr ELSE @,
         !.price = IF d = "none" THEN table[ReplicaOf[s]][route] ELSE @,
         !.t0 = now])
    /\ UNCHANGED <<now, ledger, table, faults>>

\* The request is refused, or put off, with an immediate answer.
Refuse(s, decision) ==
    Becomes(s, [req[s] EXCEPT !.phase = "closed", !.decision = decision])

\* cache.Get returns v in time.  The claim's TTL is fixed here, before the script runs.
BalanceRead(s, v) ==
    /\ req[s].phase = "balance"
    /\ now <= req[s].t0 + Deadline
    /\ Becomes(s, [req[s] EXCEPT !.phase = "reserving", !.bal = v,
                                   !.ttl = NonceTTL(req[s].pay, Clock(s))])
    /\ UNCHANGED <<now, ledger, table, faults>>

\* cache.Get overran its share of the deadline, or Redis or the RPC failed.
BalanceFailed(s, decision) ==
    /\ req[s].phase = "balance"
    /\ decision \in {"deadline", "dependency_unavailable"}
    /\ decision = "deadline" => now >= req[s].t0 + Deadline
    /\ Refuse(s, decision)
    /\ UNCHANGED <<now, ledger, table, faults>>

ReserveCall(s) == ReserveScript(req[s].pay, req[s].price, req[s].bal, req[s].ttl)

\* The reserve script runs and its reply arrives: accepted, replay or insufficient.
ReserveReply(s) ==
    LET o == ReserveOutcome(req[s].pay, req[s].price, req[s].bal) IN
    /\ req[s].phase = "reserving"
    /\ now <= req[s].t0 + Deadline
    /\ ReserveCall(s)
    /\ IF o = "ok"
       THEN Becomes(s, [req[s] EXCEPT !.phase = "open", !.decision = "payment_accepted",
                                      !.rsv = TRUE, !.tries = 0])
       ELSE Refuse(s, o)
    /\ UNCHANGED <<now, table, faults>>

\* One attempt fails: the command never ran, or ran and its reply was lost.  The client
\* runs it again, or gives up: out of tries, or out of time.
Lost(s, call, giveUp) ==
    /\ \/ Fault("unsent") /\ UNCHANGED ledger
       \/ Fault("unacked") /\ call
    /\ giveUp \/ req[s].tries < MaxRetries
    /\ UNCHANGED <<now, table>>

Again(s) == Becomes(s, [req[s] EXCEPT !.tries = @ + 1])

ReserveLost(s, giveUp) ==
    /\ req[s].phase = "reserving"
    /\ now <= req[s].t0 + Deadline
    /\ Lost(s, ReserveCall(s), giveUp)
    /\ IF giveUp THEN Refuse(s, "dependency_unavailable") ELSE Again(s)

\* The deadline passes before the script is sent.
ReserveLate(s) ==
    /\ req[s].phase = "reserving"
    /\ now >= req[s].t0 + Deadline
    /\ Refuse(s, "dependency_unavailable")
    /\ UNCHANGED <<now, ledger, table, faults>>

------------------------------------------------------------------------------
(* The response phase and the end of the stream *)

\* release marks the reservation released before it calls Redis.
StartRelease(s, why) ==
    Becomes(s, [req[s] EXCEPT !.phase = "releasing", !.decision = why,
                               !.released = TRUE, !.tries = 0])

\* The response headers arrive: nothing was reserved, a 2xx, or anything else.
ResponseHeaders(s, is2xx) ==
    /\ req[s].phase = "open"
    /\ IF ~req[s].rsv THEN Becomes(s, [req[s] EXCEPT !.phase = "answered"])
       ELSE IF is2xx THEN Becomes(s, [req[s] EXCEPT !.phase = "capturing"])
       ELSE StartRelease(s, "released_non_2xx")
    /\ UNCHANGED <<now, ledger, table, faults>>

CaptureCall(s) == Capture(req[s].pay, req[s].price)

\* Mutant: captured is not set once the job is queued.
CaptureReplyForgets(s) ==
    /\ req[s].phase = "capturing"
    /\ CaptureCall(s)
    /\ Becomes(s, [req[s] EXCEPT !.phase = "answered", !.decision = "paid"])
    /\ UNCHANGED <<now, table, faults>>

\* The job is queued and the reply arrives.
CaptureReply(s) ==
    /\ req[s].phase = "capturing"
    /\ CaptureCall(s)
    /\ Becomes(s, [req[s] EXCEPT !.phase = "answered", !.decision = "paid",
                                   !.captured = TRUE])
    /\ UNCHANGED <<now, table, faults>>

CaptureLost(s, giveUp) ==
    /\ req[s].phase = "capturing"
    /\ Lost(s, CaptureCall(s), giveUp)
    /\ IF giveUp THEN StartRelease(s, "capture_failed") ELSE Again(s)

\* What follows release: the response goes on, or finish returns and the stream is gone.
AfterRelease(s) ==
    Becomes(s, [req[s] EXCEPT
        !.phase = IF req[s].decision = "released_stream_end" THEN "closed" ELSE "answered"])

ReleaseCall(s) == ReleaseScript(Payer(s), req[s].price)

ReleaseReply(s) ==
    /\ req[s].phase = "releasing"
    /\ ReleaseCall(s)
    /\ AfterRelease(s)
    /\ UNCHANGED <<now, table, faults>>

\* A release that fails is logged and not repeated: the in-flight TTL is the backstop.
ReleaseLost(s, giveUp) ==
    /\ req[s].phase = "releasing"
    /\ Lost(s, ReleaseCall(s), giveUp)
    /\ IF giveUp THEN AfterRelease(s) ELSE Again(s)

\* Mutant: finish does not ask whether the reservation was captured or released.
StreamEndAlways(s) ==
    /\ req[s].phase \in {"open", "answered"}
    /\ IF req[s].rsv THEN StartRelease(s, "released_stream_end")
       ELSE Becomes(s, [req[s] EXCEPT !.phase = "closed"])
    /\ UNCHANGED <<now, ledger, table, faults>>

\* Mutant: the end of a stream releases nothing.
StreamEndNoFinish(s) ==
    /\ req[s].phase \in {"open", "answered"}
    /\ Becomes(s, [req[s] EXCEPT !.phase = "closed"])
    /\ UNCHANGED <<now, ledger, table, faults>>

\* Envoy closes the stream, the client goes away or an answer cannot be sent: finish.
StreamEnd(s) ==
    /\ req[s].phase \in {"open", "answered"}
    /\ IF req[s].rsv /\ ~req[s].captured /\ ~req[s].released
       THEN StartRelease(s, "released_stream_end")
       ELSE Becomes(s, [req[s] EXCEPT !.phase = "closed"])
    /\ UNCHANGED <<now, ledger, table, faults>>

------------------------------------------------------------------------------
(* The replica and the clock *)

\* pricing.Watcher applies a table that parses.
ApplyTable(r, t) ==
    /\ table[r] # t
    /\ table' = [table EXCEPT ![r] = t]
    /\ UNCHANGED <<now, ledger, req, faults>>

\* A replica dies: its open streams go with it, finish does not run, and the restarted
\* process has no price table.
Crash(r) ==
    /\ Fault("crash")
    /\ table' = [table EXCEPT ![r] = NoTable]
    /\ req' = [s \in Streams |->
                 IF ReplicaOf[s] = r /\ req[s].phase # "idle"
                 THEN [req[s] EXCEPT !.phase = "closed"] ELSE req[s]]
    /\ UNCHANGED <<now, ledger>>

\* The clock advances.  Envoy's route timeout ends a stream within MaxServe of its
\* request phase.
Tick ==
    /\ now < MaxTime
    /\ \A s \in Streams : req[s].phase \in {"open", "capturing", "releasing"}
                              => now < req[s].t0 + MaxServe
    /\ Advance
    /\ UNCHANGED filterVars

\* Nothing is left to do within the bounds.
Finished ==
    /\ now = MaxTime
    /\ \A s \in Streams : req[s].phase \in {"idle", "closed"}
    /\ UNCHANGED vars

Handle(s) ==
    \/ BalanceRead(s, ChainBalance[Payer(s)])
    \/ \E d \in {"deadline", "dependency_unavailable"} : BalanceFailed(s, d)
    \/ ReserveReply(s) \/ ReserveLate(s)
    \/ CaptureReply(s) \/ ReleaseReply(s)
    \/ \E giveUp \in BOOLEAN :
          ReserveLost(s, giveUp) \/ CaptureLost(s, giveUp) \/ ReleaseLost(s, giveUp)

Envoy(s) ==
    \/ \E is2xx \in BOOLEAN : ResponseHeaders(s, is2xx)
    \/ StreamEnd(s)

Init == LedgerInit /\ FilterInit

Next ==
    \/ \E s \in Streams :
         \/ \E route \in Routes \cup {NoRoute}, hdr \in Headers : RequestHeaders(s, route, hdr)
         \/ Handle(s)
         \/ Envoy(s)
    \/ \E r \in Replicas : Crash(r) \/ \E t \in Tables : ApplyTable(r, t)
    \/ Tick
    \/ Finished

Spec == Init /\ [][Next]_vars

\* Handlers run under contexts with deadlines, so they always get on; Envoy ends every
\* stream; time passes.  Requests, tables and faults are never owed.
Fairness ==
    /\ \A s \in Streams : WF_vars(Handle(s)) /\ WF_vars(Envoy(s))
    /\ WF_vars(Tick)

FairSpec == Spec /\ Fairness

==============================================================================
