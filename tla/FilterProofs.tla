---------------------------- MODULE FilterProofs -----------------------------
(***************************************************************************)
(* Proofs about the filter, for every number of replicas, streams and      *)
(* payments, every table, every clock within the assumed skew and every    *)
(* sequence of faults.                                                     *)
(***************************************************************************)
EXTENDS FilterProps, SumProofs, TLAPS

\* The invariant holds when the filter starts: nothing is claimed, counted or reserved.
LEMMA InitHolds == Init => FilterInv
  <1> SUFFICES ASSUME Init PROVE FilterInv
      OBVIOUS
  <1> USE DEF Init, LedgerInit, FilterInit, NewRequest
  <1>1. TypeOK
    BY FilterAssumption, LedgerAssumption
       DEF TypeOK, LedgerTypeOK, Request, Phases, Decisions, Headers, Job
  <1>2. PhaseInv /\ WindowInv /\ ClaimInv /\ ServedOnce
    BY DEF PhaseInv, WindowInv, ClaimInv, ServedOnce
  <1>3. InflightExact
    BY LedgerAssumption DEF InflightExact
  <1> QED BY <1>1, <1>2, <1>3 DEF FilterInv

\* The heart of the argument: a stream that runs the reserve script within its deadline
\* finds the claim of any request that was accepted before with the same payment.
LEMMA ClaimStillAlive ==
  ASSUME FilterInv, NEW s \in Streams, NEW t \in Streams,
         req[s].phase = "reserving", now <= req[s].t0 + Deadline,
         req[t].rsv, req[t].pay = req[s].pay
  PROVE  Claimed(req[s].pay)
  <1> DEFINE m == req[s].pay
  <1>1. m \in Payments /\ Auth[m].validBefore \in Nat
    BY AuthAssumption DEF FilterInv, PhaseInv, Authorization
  <1>2. /\ ReplicaOf[s] \in Replicas /\ ReplicaOf[t] \in Replicas
        /\ Skew[ReplicaOf[s]] \in Int /\ Skew[ReplicaOf[t]] \in Int
        /\ Deadline \in Nat /\ NonceMargin \in Nat
    BY FilterAssumption, LedgerAssumption
  <1>3. now \in Nat /\ nonceExp[m] \in Nat /\ req[s].t0 \in Nat
    BY <1>1 DEF FilterInv, TypeOK, LedgerTypeOK, Request
  <1>4. req[s].t0 < Auth[m].validBefore - Skew[ReplicaOf[s]]
    BY DEF FilterInv, WindowInv, Window
  <1>5. nonceExp[m] >= Auth[m].validBefore - Skew[ReplicaOf[t]] + NonceMargin
    BY DEF FilterInv, ClaimInv, Window
  <1>6. Skew[ReplicaOf[t]] - Skew[ReplicaOf[s]] + Deadline <= NonceMargin
    BY <1>2, SkewAssumption
  <1>7. now < nonceExp[m]
    BY <1>1, <1>2, <1>3, <1>4, <1>5, <1>6
  <1> QED BY <1>7 DEF Claimed

------------------------------------------------------------------------------
(* The ledger's operations *)

\* The reserve script keeps the ledger's types, and the sum it writes stays within what
\* Lua counts exactly, because it compares against a clamped balance.
LEMMA ReserveScriptType ==
  ASSUME LedgerTypeOK, InflightExact, now' = now,
         NEW m \in Payments, NEW price \in Nat, NEW balance \in Nat, NEW ttl \in Nat,
         ReserveScript(m, price, balance, ttl)
  PROVE  LedgerTypeOK' /\ InflightExact'
  <1> DEFINE p == Auth[m].payer
  <1>1. p \in Payers
    BY AuthAssumption DEF Authorization
  <1>2. Inflight(p) \in Nat
    BY <1>1 DEF Inflight, LedgerTypeOK
  <1>3. Clamp(balance) \in Nat /\ Clamp(balance) <= MaxExact
    BY LedgerAssumption DEF Clamp
  <1>4. CASE ReserveOutcome(m, price, balance) = "ok"
    <2>1. Inflight(p) + price \in Nat /\ Inflight(p) + price <= MaxExact
      BY <1>2, <1>3, <1>4, LedgerAssumption DEF ReserveOutcome
    <2> DEFINE sum == Inflight(p) + price
    <2>2. /\ nonceExp' = [nonceExp EXCEPT ![m] = now + ttl]
          /\ inflight' = [inflight EXCEPT ![p] = sum]
          /\ inflightExp' = [inflightExp EXCEPT ![p] = now + InflightTTL]
          /\ stream' = stream
      BY <1>4 DEF ReserveScript
    <2> HIDE DEF sum, p
    <2>3. sum \in Nat /\ sum <= MaxExact
      BY <2>1 DEF sum
    <2>4. now + ttl \in Nat /\ now + InflightTTL \in Nat
      BY LedgerAssumption DEF LedgerTypeOK
    <2> QED BY <1>1, <2>2, <2>3, <2>4 DEF LedgerTypeOK, InflightExact
  <1>5. CASE ReserveOutcome(m, price, balance) # "ok"
    BY <1>5 DEF ReserveScript, LedgerTypeOK, InflightExact, ledger
  <1> QED BY <1>4, <1>5

\* The release script never leaves a negative or a larger sum.
LEMMA ReleaseScriptType ==
  ASSUME LedgerTypeOK, InflightExact, now' = now,
         NEW p \in Payers, NEW amount \in Nat, ReleaseScript(p, amount)
  PROVE  LedgerTypeOK' /\ InflightExact'
  <1>1. Inflight(p) \in Nat /\ Inflight(p) <= MaxExact
    BY LedgerAssumption DEF Inflight, LedgerTypeOK, InflightExact
  <1> DEFINE kept == IF Inflight(p) - amount <= 0 THEN 0 ELSE Inflight(p) - amount
  <1>2. kept \in Nat /\ kept <= MaxExact
    BY <1>1, LedgerAssumption
  <1> HIDE DEF kept
  <1>3. inflight' = [inflight EXCEPT ![p] = kept]
    BY DEF ReleaseScript, kept
  <1>4. inflightExp' \in [Payers -> Nat] /\ nonceExp' = nonceExp /\ stream' = stream
    BY DEF ReleaseScript, LedgerTypeOK
  <1> QED BY <1>2, <1>3, <1>4 DEF LedgerTypeOK, InflightExact

\* Queueing a job touches no claim and no sum.
LEMMA CaptureType ==
  ASSUME LedgerTypeOK, InflightExact, now' = now,
         NEW m \in Payments, NEW amount \in Nat, Capture(m, amount)
  PROVE  LedgerTypeOK' /\ InflightExact'
  BY DEF Capture, LedgerTypeOK, InflightExact, Job

\* A step that leaves Redis alone keeps the ledger's part of the invariant.
LEMMA LedgerUnchanged ==
  ASSUME LedgerTypeOK, InflightExact, now' \in Nat, UNCHANGED ledger
  PROVE  LedgerTypeOK' /\ InflightExact'
  BY DEF ledger, LedgerTypeOK, InflightExact

------------------------------------------------------------------------------
(* Steps of a stream *)

\* A step of stream s to request q that leaves the payment, the claim's terms and the
\* reservation alone, and does not move the handler back.
Quiet(s, q) ==
    /\ q.pay = req[s].pay /\ q.t0 = req[s].t0 /\ q.ttl = req[s].ttl /\ q.rsv = req[s].rsv
    /\ q.phase \in {"idle", "balance", "reserving"} => q.phase = req[s].phase
    /\ q.phase \in {"capturing", "releasing"} => req[s].rsv

\* A step of one stream that reserves nothing keeps the invariant, if the stream's new
\* record is one the conditions above allow.
LEMMA QuietStep ==
  ASSUME FilterInv, NEW s \in Streams, NEW q \in Request, Becomes(s, q),
         now' = now, table' = table, faults' \in 0..MaxFaults,
         LedgerTypeOK', InflightExact', Quiet(s, q),
         \A t \in Streams : req[t].rsv => nonceExp'[req[t].pay] = nonceExp[req[t].pay]
  PROVE  FilterInv'
  <1>1. req' \in [Streams -> Request]
    BY DEF Becomes, FilterInv, TypeOK
  <1>2. TypeOK'
    BY <1>1 DEF FilterInv, TypeOK
  <1>3. \A t \in Streams :
           /\ req'[t].pay = req[t].pay /\ req'[t].t0 = req[t].t0
           /\ req'[t].ttl = req[t].ttl /\ req'[t].rsv = req[t].rsv
           /\ req'[t].phase \in {"idle", "balance", "reserving"}
                 => req'[t].phase = req[t].phase
           /\ req'[t].phase \in {"capturing", "releasing"} => req[t].rsv
    BY DEF Quiet, Becomes, FilterInv, TypeOK, PhaseInv
  <1>4. PhaseInv'
    BY <1>3 DEF FilterInv, PhaseInv
  <1>5. WindowInv'
    BY <1>3 DEF FilterInv, WindowInv, Window
  <1>6. ClaimInv'
    BY <1>3 DEF FilterInv, ClaimInv, Window
  <1>7. ServedOnce'
    BY <1>3 DEF FilterInv, ServedOnce
  <1> QED BY <1>2, <1>4, <1>5, <1>6, <1>7 DEF FilterInv

\* The script changes no claim of a payment that was accepted before.
LEMMA ClaimsKept ==
  ASSUME FilterInv, NEW s \in Streams, req[s].phase = "reserving",
         now <= req[s].t0 + Deadline, ReserveCall(s)
  PROVE  \A t \in Streams : req[t].rsv => nonceExp'[req[t].pay] = nonceExp[req[t].pay]
  <1> SUFFICES ASSUME NEW t \in Streams, req[t].rsv
               PROVE  nonceExp'[req[t].pay] = nonceExp[req[t].pay]
      OBVIOUS
  <1>1. req[t].pay \in Payments /\ req[s].pay \in Payments
    BY DEF FilterInv, PhaseInv
  <1>2. nonceExp \in [Payments -> Nat]
    BY DEF FilterInv, TypeOK, LedgerTypeOK
  <1>3. CASE req[t].pay = req[s].pay
    <2>1. Claimed(req[s].pay)
      BY <1>3, ClaimStillAlive
    <2> QED BY <2>1 DEF ReserveCall, ReserveScript, ReserveOutcome, ledger
  <1>4. CASE req[t].pay # req[s].pay
    BY <1>1, <1>2, <1>4 DEF ReserveCall, ReserveScript, ledger
  <1> QED BY <1>3, <1>4

\* What a step that calls Redis for stream s may do to the ledger.
LEMMA CallType ==
  ASSUME FilterInv, NEW s \in Streams, now' = now,
         \/ req[s].phase = "reserving" /\ ReserveCall(s)
         \/ req[s].phase = "capturing" /\ CaptureCall(s)
         \/ req[s].phase = "releasing" /\ ReleaseCall(s)
         \/ UNCHANGED ledger
  PROVE  LedgerTypeOK' /\ InflightExact'
  <1>1. /\ req[s].price \in Nat /\ req[s].bal \in Nat /\ req[s].ttl \in Nat
        /\ LedgerTypeOK /\ InflightExact /\ now' \in Nat
    BY LedgerAssumption DEF FilterInv, TypeOK, LedgerTypeOK, Request
  <1>2. CASE req[s].phase = "reserving" /\ ReserveCall(s)
    BY <1>1, <1>2, ReserveScriptType DEF ReserveCall, FilterInv, PhaseInv
  <1>3. CASE req[s].phase = "capturing" /\ CaptureCall(s)
    BY <1>1, <1>3, CaptureType DEF CaptureCall, FilterInv, PhaseInv
  <1>4. CASE req[s].phase = "releasing" /\ ReleaseCall(s)
    <2>1. Payer(s) \in Payers
      BY <1>4, AuthAssumption DEF Payer, FilterInv, PhaseInv, Authorization
    <2> QED BY <1>1, <1>4, <2>1, ReleaseScriptType DEF ReleaseCall
  <1>5. CASE UNCHANGED ledger
    BY <1>1, <1>5, LedgerUnchanged
  <1> QED BY <1>2, <1>3, <1>4, <1>5

\* The request phase up to the balance read.
LEMMA RequestHeadersStep ==
  ASSUME FilterInv, NEW s \in Streams, NEW route \in Routes \cup {NoRoute},
         NEW hdr \in Headers, RequestHeaders(s, route, hdr)
  PROVE  FilterInv'
  <1> DEFINE d == Screen(s, route, hdr)
  <1>1. /\ now' = now /\ UNCHANGED ledger /\ table' = table /\ faults' = faults
        /\ nonceExp' = nonceExp /\ req[s].phase = "idle" /\ ~req[s].rsv
    BY DEF RequestHeaders, ledger, FilterInv, PhaseInv
  <1>2. LedgerTypeOK' /\ InflightExact'
    BY <1>1, CallType
  <1>3. d \in Decisions
    BY DEF Screen, Decisions
  <1>4. req[s] \in Request /\ now \in Nat
    BY DEF FilterInv, TypeOK, LedgerTypeOK
  <1>5. CASE d # "none"
    <2> DEFINE q == [req[s] EXCEPT !.decision = d, !.t0 = now,
                        !.phase = IF d = "unpriced" THEN "open" ELSE "closed"]
    <2>1. q \in Request
      BY <1>3, <1>4 DEF Request, Phases
    <2>2. req' = [req EXCEPT ![s] = q]
      BY <1>4, <1>5 DEF RequestHeaders, Becomes, Request
    <2>3. /\ q.pay = req[s].pay /\ q.rsv = FALSE /\ q.phase \in {"open", "closed"}
      BY <1>1, <1>4 DEF Request
    <2> HIDE DEF q
    <2>4. TypeOK'
      BY <1>1, <1>2, <2>1, <2>2 DEF FilterInv, TypeOK
    <2>5. PhaseInv' /\ WindowInv' /\ ClaimInv' /\ ServedOnce'
      BY <1>1, <2>2, <2>3 DEF FilterInv, TypeOK, PhaseInv, WindowInv, ClaimInv, ServedOnce, Window
    <2> QED BY <1>2, <2>4, <2>5 DEF FilterInv
  <1>6. CASE d = "none"
    <2>1. /\ hdr \in Payments /\ table[ReplicaOf[s]][route] \in 0..MaxExact
          /\ Clock(s) < Auth[hdr].validBefore
      <3>1. /\ route # NoRoute /\ table[ReplicaOf[s]] # NoTable
            /\ hdr # NoPayment /\ hdr # Malformed
            /\ Verify(hdr, table[ReplicaOf[s]][route], Clock(s))
        BY <1>6 DEF Screen
      <3>2. table[ReplicaOf[s]] \in Tables
        BY <3>1, FilterAssumption DEF FilterInv, TypeOK
      <3> QED BY <3>1, <3>2, FilterAssumption DEF Headers, Verify
    <2> DEFINE q == [req[s] EXCEPT !.decision = d, !.phase = "balance", !.pay = hdr,
                        !.price = table[ReplicaOf[s]][route], !.t0 = now]
    <2>2. q \in Request
      BY <1>3, <1>4, <2>1 DEF Request, Phases, Headers
    <2>3. req' = [req EXCEPT ![s] = q]
      BY <1>6 DEF RequestHeaders, Becomes
    <2>4. q.pay = hdr /\ q.rsv = FALSE /\ q.phase = "balance" /\ q.t0 = now
      BY <1>1, <1>4 DEF Request
    <2> HIDE DEF q
    <2>5. TypeOK'
      BY <1>1, <1>2, <2>2, <2>3 DEF FilterInv, TypeOK
    <2>6. PhaseInv' /\ ClaimInv' /\ ServedOnce'
      BY <1>1, <2>1, <2>3, <2>4 DEF FilterInv, TypeOK, PhaseInv, ClaimInv, ServedOnce, Window
    <2>7. now < Auth[hdr].validBefore - Skew[ReplicaOf[s]]
      BY <1>4, <2>1, AuthAssumption, FilterAssumption DEF Clock, Authorization
    <2>8. WindowInv'
      BY <1>1, <2>3, <2>4, <2>7 DEF FilterInv, TypeOK, WindowInv, Window
    <2> QED BY <1>2, <2>5, <2>6, <2>8 DEF FilterInv
  <1> QED BY <1>5, <1>6

\* The balance arrives: the claim's TTL is fixed from the replica's clock.
LEMMA BalanceReadStep ==
  ASSUME FilterInv, NEW s \in Streams, NEW v \in Nat, BalanceRead(s, v)
  PROVE  FilterInv'
  <1> DEFINE m == req[s].pay
             ttl == NonceTTL(m, Clock(s))
             q == [req[s] EXCEPT !.phase = "reserving", !.bal = v, !.ttl = ttl]
  <1>1. /\ now' = now /\ UNCHANGED ledger /\ table' = table /\ faults' = faults
        /\ nonceExp' = nonceExp /\ req[s].phase = "balance"
        /\ m \in Payments /\ ~req[s].rsv /\ req[s].t0 < Window(s)
    BY DEF BalanceRead, ledger, FilterInv, PhaseInv, WindowInv
  <1>2. LedgerTypeOK' /\ InflightExact'
    BY <1>1, CallType
  <1>3. req[s] \in Request /\ now \in Nat
    BY DEF FilterInv, TypeOK, LedgerTypeOK
  <1>4. /\ Auth[m].validBefore \in Nat
        /\ Skew[ReplicaOf[s]] \in Int /\ NonceMargin \in Nat
    BY <1>1, AuthAssumption, FilterAssumption, LedgerAssumption DEF Authorization
  <1>5. ttl \in Nat /\ now + ttl >= Window(s) + NonceMargin
    BY <1>3, <1>4 DEF NonceTTL, Clock, Window
  <1> HIDE DEF ttl
  <1>6. q \in Request
    BY <1>3, <1>4, <1>5 DEF Request, Phases
  <1>7. req' = [req EXCEPT ![s] = q]
    BY DEF BalanceRead, Becomes, ttl
  <1>8. /\ q.pay = m /\ q.rsv = FALSE /\ q.phase = "reserving"
        /\ q.t0 = req[s].t0 /\ q.ttl = ttl
    BY <1>1, <1>3 DEF Request
  <1> HIDE DEF q
  <1>9. TypeOK'
    BY <1>1, <1>2, <1>6, <1>7 DEF FilterInv, TypeOK
  <1>10. PhaseInv' /\ ClaimInv' /\ ServedOnce'
    BY <1>1, <1>7, <1>8 DEF FilterInv, TypeOK, PhaseInv, ClaimInv, ServedOnce, Window
  <1>11. WindowInv'
    BY <1>1, <1>5, <1>7, <1>8 DEF FilterInv, TypeOK, WindowInv, Window
  <1> QED BY <1>2, <1>9, <1>10, <1>11 DEF FilterInv

\* The script accepts the payment: no earlier request was accepted with it, and its claim
\* lives as long as the next verifier may look at the signature.
LEMMA AcceptStep ==
  ASSUME FilterInv, NEW s \in Streams, ReserveReply(s),
         ReserveOutcome(req[s].pay, req[s].price, req[s].bal) = "ok"
  PROVE  FilterInv'
  <1> DEFINE m == req[s].pay
             q == [req[s] EXCEPT !.phase = "open", !.decision = "payment_accepted",
                                 !.rsv = TRUE, !.tries = 0]
  <1>1. /\ req[s].phase = "reserving" /\ now <= req[s].t0 + Deadline /\ ReserveCall(s)
        /\ now' = now /\ table' = table /\ faults' = faults
        /\ req' = [req EXCEPT ![s] = q]
    BY DEF ReserveReply, Becomes
  <1>2. LedgerTypeOK' /\ InflightExact'
    BY <1>1, CallType
  <1>3. req[s] \in Request /\ m \in Payments /\ nonceExp \in [Payments -> Nat]
    BY <1>1 DEF FilterInv, TypeOK, PhaseInv, LedgerTypeOK
  <1>4. q \in Request
    <2>1. 0 \in 0..MaxRetries
      BY FilterAssumption
    <2> QED BY <1>3, <2>1, Zenon DEF Request, Phases, Decisions
  <1>5. q.pay = m /\ q.rsv = TRUE /\ q.phase = "open"
    BY <1>3 DEF Request
  <1> HIDE DEF q
  <1>6. TypeOK'
    BY <1>1, <1>2, <1>4 DEF FilterInv, TypeOK
  <1>7. \A t \in Streams : req[t].rsv => req[t].pay # m
    <2> SUFFICES ASSUME NEW t \in Streams, req[t].rsv, req[t].pay = m PROVE FALSE
        OBVIOUS
    <2>1. Claimed(m)
      BY <1>1, ClaimStillAlive
    <2> QED BY <2>1 DEF ReserveOutcome
  <1>8. nonceExp'[m] >= Window(s) + NonceMargin
    <2>1. nonceExp'[m] = now + req[s].ttl
      BY <1>1, <1>3 DEF ReserveCall, ReserveScript
    <2> QED BY <1>1, <2>1 DEF FilterInv, WindowInv
  <1>9. \A t \in Streams : req[t].rsv => nonceExp'[req[t].pay] = nonceExp[req[t].pay]
    BY <1>1, ClaimsKept
  <1>10. PhaseInv' /\ ServedOnce'
    BY <1>1, <1>3, <1>5, <1>7 DEF FilterInv, TypeOK, PhaseInv, ServedOnce
  <1>11. WindowInv'
    BY <1>1, <1>5 DEF FilterInv, TypeOK, WindowInv, Window
  <1>12. ClaimInv'
    BY <1>1, <1>5, <1>8, <1>9 DEF FilterInv, TypeOK, ClaimInv, Window
  <1> QED BY <1>2, <1>6, <1>10, <1>11, <1>12 DEF FilterInv

\* The ways a handler moves on that leave its payment and its reservation alone.
Moves(s) ==
    \/ \E d \in Decisions : Refuse(s, d)
    \/ req[s].tries < MaxRetries /\ Again(s)
    \/ req[s].rsv /\ \E d \in Decisions : StartRelease(s, d)
    \/ AfterRelease(s)
    \/ Becomes(s, [req[s] EXCEPT !.phase = "answered"])
    \/ Becomes(s, [req[s] EXCEPT !.phase = "closed"])
    \/ req[s].rsv /\ Becomes(s, [req[s] EXCEPT !.phase = "capturing"])
    \/ Becomes(s, [req[s] EXCEPT !.phase = "answered", !.decision = "paid",
                                  !.captured = TRUE])

\* Each of these records is one that QuietStep allows.
LEMMA MoveStep ==
  ASSUME FilterInv, NEW s \in Streams, Moves(s),
         now' = now, table' = table, faults' \in 0..MaxFaults,
         LedgerTypeOK', InflightExact',
         \A t \in Streams : req[t].rsv => nonceExp'[req[t].pay] = nonceExp[req[t].pay]
  PROVE  FilterInv'
  <1>1. req[s] \in Request /\ 0 \in 0..MaxRetries
    BY FilterAssumption DEF FilterInv, TypeOK
  <1>2. CASE \E d \in Decisions : Refuse(s, d)
    <2> PICK d \in Decisions : Refuse(s, d)
        BY <1>2
    <2> DEFINE q == [req[s] EXCEPT !.phase = "closed", !.decision = d]
    <2>1. q \in Request
      BY <1>1 DEF Request, Phases, Decisions
    <2>2. Quiet(s, q)
      BY <1>1, <1>2 DEF Quiet, Request, FilterInv, PhaseInv
    <2>3. Becomes(s, q)
      BY <1>2 DEF Refuse
    <2> QED BY <2>1, <2>2, <2>3, QuietStep
  <1>3. CASE req[s].tries < MaxRetries /\ Again(s)
    <2> DEFINE q == [req[s] EXCEPT !.tries = @ + 1]
    <2>0. req[s].tries + 1 \in 0..MaxRetries
      BY <1>1, <1>3, FilterAssumption DEF Request
    <2>1. q \in Request
      BY <1>1, <2>0 DEF Request, Phases, Decisions
    <2>2. Quiet(s, q)
      BY <1>1, <1>3 DEF Quiet, Request, FilterInv, PhaseInv
    <2>3. Becomes(s, q)
      BY <1>3 DEF Again
    <2> QED BY <2>1, <2>2, <2>3, QuietStep
  <1>4. CASE req[s].rsv /\ \E d \in Decisions : StartRelease(s, d)
    <2> PICK d \in Decisions : StartRelease(s, d)
        BY <1>4
    <2> DEFINE q == [req[s] EXCEPT !.phase = "releasing", !.decision = d,
                                    !.released = TRUE, !.tries = 0]
    <2>1. q \in Request
      BY <1>1, Zenon DEF Request, Phases, Decisions
    <2>2. Quiet(s, q)
      BY <1>1, <1>4 DEF Quiet, Request, FilterInv, PhaseInv
    <2>3. Becomes(s, q)
      BY <1>4 DEF StartRelease
    <2> QED BY <2>1, <2>2, <2>3, QuietStep
  <1>5. CASE AfterRelease(s)
    <2> DEFINE q == [req[s] EXCEPT !.phase =
            IF req[s].decision = "released_stream_end" THEN "closed" ELSE "answered"]
    <2>1. q \in Request
      BY <1>1 DEF Request, Phases, Decisions
    <2>2. Quiet(s, q)
      BY <1>1, <1>5 DEF Quiet, Request, FilterInv, PhaseInv
    <2>3. Becomes(s, q)
      BY <1>5 DEF AfterRelease
    <2> QED BY <2>1, <2>2, <2>3, QuietStep
  <1>6. CASE Becomes(s, [req[s] EXCEPT !.phase = "answered"])
    <2> DEFINE q == [req[s] EXCEPT !.phase = "answered"]
    <2>1. q \in Request
      BY <1>1 DEF Request, Phases, Decisions
    <2>2. Quiet(s, q)
      BY <1>1, <1>6 DEF Quiet, Request, FilterInv, PhaseInv
    <2>3. Becomes(s, q)
      BY <1>6
    <2> QED BY <2>1, <2>2, <2>3, QuietStep
  <1>7. CASE Becomes(s, [req[s] EXCEPT !.phase = "closed"])
    <2> DEFINE q == [req[s] EXCEPT !.phase = "closed"]
    <2>1. q \in Request
      BY <1>1 DEF Request, Phases, Decisions
    <2>2. Quiet(s, q)
      BY <1>1, <1>7 DEF Quiet, Request, FilterInv, PhaseInv
    <2>3. Becomes(s, q)
      BY <1>7
    <2> QED BY <2>1, <2>2, <2>3, QuietStep
  <1>8. CASE req[s].rsv /\ Becomes(s, [req[s] EXCEPT !.phase = "capturing"])
    <2> DEFINE q == [req[s] EXCEPT !.phase = "capturing"]
    <2>1. q \in Request
      BY <1>1 DEF Request, Phases, Decisions
    <2>2. Quiet(s, q)
      BY <1>1, <1>8 DEF Quiet, Request, FilterInv, PhaseInv
    <2>3. Becomes(s, q)
      BY <1>8
    <2> QED BY <2>1, <2>2, <2>3, QuietStep
  <1>9. CASE Becomes(s, [req[s] EXCEPT !.phase = "answered", !.decision = "paid",
                                       !.captured = TRUE])
    <2> DEFINE q == [req[s] EXCEPT !.phase = "answered", !.decision = "paid", !.captured = TRUE]
    <2>1. q \in Request
      BY <1>1, Zenon DEF Request, Phases, Decisions
    <2>2. Quiet(s, q)
      BY <1>1, <1>9 DEF Quiet, Request, FilterInv, PhaseInv
    <2>3. Becomes(s, q)
      BY <1>9
    <2> QED BY <2>1, <2>2, <2>3, QuietStep
  <1> QED BY <1>2, <1>3, <1>4, <1>5, <1>6, <1>7, <1>8, <1>9 DEF Moves

\* Every step of a stream that neither starts a request phase nor accepts a payment.
LEMMA HandlerStep ==
  ASSUME FilterInv, NEW s \in Streams,
         \/ \E d \in {"deadline", "dependency_unavailable"} : BalanceFailed(s, d)
         \/ ReserveReply(s) /\ ReserveOutcome(req[s].pay, req[s].price, req[s].bal) # "ok"
         \/ ReserveLate(s) \/ CaptureReply(s) \/ ReleaseReply(s)
         \/ \E giveUp \in BOOLEAN :
               ReserveLost(s, giveUp) \/ CaptureLost(s, giveUp) \/ ReleaseLost(s, giveUp)
         \/ Envoy(s)
  PROVE  FilterInv'
  <1> DEFINE Kept == \A t \in Streams :
                       req[t].rsv => nonceExp'[req[t].pay] = nonceExp[req[t].pay]
             Called == \/ req[s].phase = "reserving" /\ ReserveCall(s)
                       \/ req[s].phase = "capturing" /\ CaptureCall(s)
                       \/ req[s].phase = "releasing" /\ ReleaseCall(s)
                       \/ UNCHANGED ledger
             Still == now' = now /\ table' = table
  <1>0. SUFFICES Moves(s) /\ Still /\ faults' \in 0..MaxFaults /\ Called /\ Kept
    BY CallType, MoveStep
  <1>1. faults \in 0..MaxFaults /\ MaxFaults \in Nat
    BY FilterAssumption DEF FilterInv, TypeOK
  <1>2. /\ UNCHANGED ledger => Kept
        /\ CaptureCall(s) => Kept
        /\ ReleaseCall(s) => Kept
    BY DEF ledger, CaptureCall, Capture, ReleaseCall, ReleaseScript
  <1>3. req[s].phase = "reserving" /\ now <= req[s].t0 + Deadline /\ ReserveCall(s) => Kept
    BY ClaimsKept
  <1>4. ASSUME NEW kind \in FaultKinds, Fault(kind) PROVE faults' \in 0..MaxFaults
    BY <1>1, <1>4 DEF Fault
  <1>5. \A giveUp \in BOOLEAN : giveUp = TRUE \/ giveUp = FALSE
    OBVIOUS
  <1> HIDE DEF Kept
  <1>6. CASE \E d \in {"deadline", "dependency_unavailable"} : BalanceFailed(s, d)
    BY <1>1, <1>2, <1>6 DEF BalanceFailed, Moves, Decisions
  <1>7. CASE ReserveReply(s) /\ ReserveOutcome(req[s].pay, req[s].price, req[s].bal) # "ok"
    <2>1. ReserveOutcome(req[s].pay, req[s].price, req[s].bal) \in Decisions
      BY <1>7 DEF ReserveOutcome, Decisions
    <2> QED BY <1>1, <1>3, <1>7, <2>1 DEF ReserveReply, Moves
  <1>8. CASE ReserveLate(s)
    BY <1>1, <1>2, <1>8 DEF ReserveLate, Moves, Decisions
  <1>9. CASE CaptureReply(s)
    BY <1>1, <1>2, <1>9 DEF CaptureReply, Moves
  <1>10. CASE ReleaseReply(s)
    BY <1>1, <1>2, <1>10 DEF ReleaseReply, Moves
  <1>11. CASE \E giveUp \in BOOLEAN : ReserveLost(s, giveUp)
    <2> PICK giveUp \in BOOLEAN : ReserveLost(s, giveUp)
        BY <1>11
    <2>1. faults' \in 0..MaxFaults
      BY <1>4 DEF ReserveLost, Lost, FaultKinds
    <2>2. Still /\ Called /\ Kept
      BY <1>2, <1>3 DEF ReserveLost, Lost
    <2>3. Moves(s)
      BY <1>5 DEF ReserveLost, Lost, Moves, Decisions
    <2> QED BY <2>1, <2>2, <2>3
  <1>12. CASE \E giveUp \in BOOLEAN : CaptureLost(s, giveUp)
    <2> PICK giveUp \in BOOLEAN : CaptureLost(s, giveUp)
        BY <1>12
    <2>1. faults' \in 0..MaxFaults
      BY <1>4 DEF CaptureLost, Lost, FaultKinds
    <2>2. Still /\ Called /\ Kept
      BY <1>2 DEF CaptureLost, Lost
    <2>3. req[s].rsv
      BY DEF CaptureLost, FilterInv, PhaseInv
    <2>4. Moves(s)
      BY <1>5, <2>3 DEF CaptureLost, Lost, Moves, Decisions
    <2> QED BY <2>1, <2>2, <2>4
  <1>13. CASE \E giveUp \in BOOLEAN : ReleaseLost(s, giveUp)
    <2> PICK giveUp \in BOOLEAN : ReleaseLost(s, giveUp)
        BY <1>13
    <2>1. faults' \in 0..MaxFaults
      BY <1>4 DEF ReleaseLost, Lost, FaultKinds
    <2>2. Still /\ Called /\ Kept
      BY <1>2 DEF ReleaseLost, Lost
    <2>3. Moves(s)
      BY <1>5 DEF ReleaseLost, Lost, Moves
    <2> QED BY <2>1, <2>2, <2>3
  <1>14. CASE Envoy(s)
    BY <1>1, <1>2, <1>14 DEF Envoy, ResponseHeaders, StreamEnd, Moves, Decisions
  <1> QED BY <1>6, <1>7, <1>8, <1>9, <1>10, <1>11, <1>12, <1>13, <1>14

------------------------------------------------------------------------------
(* Steps of replicas and of the clock *)

\* A crash closes streams and forgets a table; what was accepted stays accepted.
LEMMA CrashStep ==
  ASSUME FilterInv, NEW r \in Replicas, Crash(r)
  PROVE  FilterInv'
  <1>1. /\ now' = now /\ UNCHANGED ledger /\ nonceExp' = nonceExp
        /\ table' \in [Replicas -> Tables \cup {NoTable}]
    BY DEF Crash, ledger, FilterInv, TypeOK
  <1>2. LedgerTypeOK' /\ InflightExact'
    BY <1>1, LedgerUnchanged DEF FilterInv, TypeOK, LedgerTypeOK
  <1>3. faults' \in 0..MaxFaults
    BY FilterAssumption DEF Crash, Fault, FilterInv, TypeOK
  <1>4. ASSUME NEW t \in Streams
        PROVE  /\ req'[t] \in Request
               /\ req'[t].pay = req[t].pay /\ req'[t].t0 = req[t].t0
               /\ req'[t].ttl = req[t].ttl /\ req'[t].rsv = req[t].rsv
               /\ req'[t].phase # "closed" => req'[t].phase = req[t].phase
    <2>1. req[t] \in Request
      BY DEF FilterInv, TypeOK
    <2>2. req'[t] = req[t] \/ req'[t] = [req[t] EXCEPT !.phase = "closed"]
      BY DEF Crash
    <2> QED BY <2>1, <2>2 DEF Request, Phases
  <1>5. req' \in [Streams -> Request]
    BY <1>4 DEF Crash
  <1>6. TypeOK'
    BY <1>1, <1>2, <1>3, <1>5 DEF TypeOK
  <1>7. PhaseInv' /\ WindowInv' /\ ClaimInv' /\ ServedOnce'
    BY <1>1, <1>4 DEF FilterInv, PhaseInv, WindowInv, ClaimInv, ServedOnce, Window
  <1> QED BY <1>2, <1>6, <1>7 DEF FilterInv

\* The clock moves towards a claim's end, never away from it: a TTL fixed earlier and
\* counted from a later time ends later.
LEMMA TickStep ==
  ASSUME FilterInv, Tick
  PROVE  FilterInv'
  <1>1. /\ now' = now + 1 /\ now \in Nat /\ UNCHANGED ledger /\ nonceExp' = nonceExp
        /\ table' = table /\ req' = req /\ faults' = faults
    BY DEF Tick, Advance, ledger, filterVars, FilterInv, TypeOK, LedgerTypeOK
  <1>2. LedgerTypeOK' /\ InflightExact'
    BY <1>1, LedgerUnchanged DEF FilterInv, TypeOK, LedgerTypeOK
  <1>3. TypeOK'
    BY <1>1, <1>2 DEF FilterInv, TypeOK
  <1>4. PhaseInv' /\ ClaimInv' /\ ServedOnce'
    BY <1>1 DEF FilterInv, PhaseInv, ClaimInv, ServedOnce, Window
  <1>5. WindowInv'
    <2> SUFFICES ASSUME NEW s \in Streams
                 PROVE  /\ req[s].phase \in {"balance", "reserving"} => req[s].t0 < Window(s)
                        /\ req[s].phase = "reserving"
                              => now + 1 + req[s].ttl >= Window(s) + NonceMargin
      BY <1>1 DEF WindowInv, Window
    <2>1. CASE req[s].phase = "reserving"
      <3>1. Window(s) \in Int /\ NonceMargin \in Int /\ req[s].ttl \in Nat
        BY <2>1, AuthAssumption, FilterAssumption, LedgerAssumption
           DEF Window, Authorization, Request, FilterInv, PhaseInv, TypeOK
      <3> QED BY <1>1, <2>1, <3>1 DEF FilterInv, WindowInv
    <2> QED BY <2>1 DEF FilterInv, WindowInv
  <1> QED BY <1>2, <1>3, <1>4, <1>5 DEF FilterInv

\* A new price table changes no request that is already priced.
LEMMA ApplyTableStep ==
  ASSUME FilterInv, NEW r \in Replicas, NEW t \in Tables, ApplyTable(r, t)
  PROVE  FilterInv'
  <1>1. /\ now' = now /\ UNCHANGED ledger /\ nonceExp' = nonceExp /\ inflight' = inflight
        /\ req' = req /\ faults' = faults
        /\ table' \in [Replicas -> Tables \cup {NoTable}]
    BY DEF ApplyTable, ledger, FilterInv, TypeOK
  <1>2. LedgerTypeOK' /\ InflightExact'
    BY <1>1, LedgerUnchanged DEF FilterInv, TypeOK, LedgerTypeOK
  <1> QED BY <1>1, <1>2 DEF FilterInv, TypeOK, PhaseInv, WindowInv, ClaimInv, ServedOnce, Window

------------------------------------------------------------------------------

\* Every step of the filter keeps the invariant.
LEMMA NextHolds == FilterInv /\ [Next]_vars => FilterInv'
  <1> SUFFICES ASSUME FilterInv, [Next]_vars PROVE FilterInv'
      OBVIOUS
  <1>1. CASE \E s \in Streams, route \in Routes \cup {NoRoute}, hdr \in Headers :
               RequestHeaders(s, route, hdr)
    BY <1>1, RequestHeadersStep
  <1>2. CASE \E s \in Streams : Handle(s)
    <2> PICK s \in Streams : Handle(s)
        BY <1>2
    <2>1. CASE BalanceRead(s, ChainBalance[Payer(s)])
      <3>1. ChainBalance[Payer(s)] \in Nat
        BY <2>1, AuthAssumption, FilterAssumption
           DEF BalanceRead, FilterInv, PhaseInv, Payer, Authorization
      <3> QED BY <2>1, <3>1, BalanceReadStep
    <2> QED BY <2>1, AcceptStep, HandlerStep DEF Handle
  <1>3. CASE \E s \in Streams : Envoy(s)
    BY <1>3, HandlerStep
  <1>4. CASE \E r \in Replicas : Crash(r) \/ \E t \in Tables : ApplyTable(r, t)
    BY <1>4, CrashStep, ApplyTableStep
  <1>5. CASE Tick
    BY <1>5, TickStep
  <1>6. CASE UNCHANGED vars
    BY <1>6 DEF vars, ledger, filterVars, FilterInv, TypeOK, LedgerTypeOK, PhaseInv,
                WindowInv, ClaimInv, ServedOnce, InflightExact, Window
  <1> QED BY <1>1, <1>2, <1>3, <1>4, <1>5, <1>6 DEF Next, Finished

\* Every behaviour of the filter keeps the inductive invariant.
THEOREM Invariance == Spec => []FilterInv
  BY InitHolds, NextHolds, PTL DEF Spec

\* The variables keep their types: Redis' sums, claims and TTLs are never negative and no
\* call is tried more often than the client allows.
THEOREM TypeCorrect == Spec => []TypeOK
  <1>1. FilterInv => TypeOK
    BY DEF FilterInv
  <1> QED BY <1>1, Invariance, PTL

\* A signature is served once: two requests are never both accepted with one payment, for
\* any number of replicas with clocks that differ by at most NonceMargin less the request
\* deadline, whatever replies are lost, whichever commands run twice and whenever a
\* replica crashes.
THEOREM SignatureServedOnce == Spec => []ServedOnce
  <1>1. FilterInv => ServedOnce
    BY DEF FilterInv
  <1> QED BY <1>1, Invariance, PTL

\* Every in-flight sum is within what Lua counts exactly.
THEOREM SumsExact == Spec => []InflightExact
  <1>1. FilterInv => InflightExact
    BY DEF FilterInv
  <1> QED BY <1>1, Invariance, PTL

------------------------------------------------------------------------------
(* What is held: the sums, the claims and the queue *)

\* The amounts of the requests, as the sums take them.
Prices == [s \in Streams |-> req[s].price]

\* A step that leaves the sums alone keeps them right if nothing new counts.
LEMMA SumKept ==
  ASSUME TypeOK, TypeOK', SumInv, now' = now,
         inflight' = inflight, inflightExp' = inflightExp,
         \A t \in Streams, p \in Payers : Counted(t, p)' =>
             Counted(t, p) /\ req'[t].price = req[t].price /\ req'[t].t0 = req[t].t0
  PROVE  SumInv'
  <1> SUFFICES ASSUME NEW p \in Payers
               PROVE  /\ Sum({s \in Streams : Counted(s, p)})' <= Inflight(p)'
                      /\ \A s \in Streams : Counted(s, p)'
                             => req'[s].t0 + InflightTTL <= inflightExp'[p]
                      /\ Inflight(p)' <= Clamp(ChainBalance[p])
      BY DEF SumInv, Clamp
  <1> DEFINE S == {s \in Streams : Counted(s, p)}
             T == {s \in Streams : Counted(s, p)'}
  <1>1. Inflight(p)' = Inflight(p)
    BY DEF Inflight
  <1>2. SumFunctionOnSet(Prices', T) <= SumFunctionOnSet(Prices, S)
    <2>1. T \in SUBSET S /\ S \in SUBSET Streams
      OBVIOUS
    <2>2. \A t \in T : Prices[t] = Prices'[t]
      BY DEF Prices
    <2>3. Prices \in [Streams -> Nat] /\ IsFiniteSet(Streams) /\ Prices' \in [Streams -> Nat]
      BY FilterAssumption, LedgerAssumption DEF TypeOK, Request, Prices
    <2> HIDE DEF S, T
    <2> QED BY <2>1, <2>2, <2>3, SumNarrows
  <1>3. SumFunctionOnSet(Prices, S) \in Nat /\ SumFunctionOnSet(Prices', T) \in Nat
    <2>1. S \in SUBSET Streams /\ T \in SUBSET Streams
      OBVIOUS
    <2>3. Prices \in [Streams -> Nat] /\ IsFiniteSet(Streams) /\ Prices' \in [Streams -> Nat]
      BY FilterAssumption, LedgerAssumption DEF TypeOK, Request, Prices
    <2> HIDE DEF S, T
    <2> QED BY <2>1, <2>3, SumType
  <1>4. /\ Sum(S) = SumFunctionOnSet(Prices, S)
        /\ Sum({s \in Streams : Counted(s, p)})' = SumFunctionOnSet(Prices', T)
    BY DEF Sum, Prices
  <1>5. SumFunctionOnSet(Prices, S) <= Inflight(p) /\ Inflight(p) <= Clamp(ChainBalance[p])
    BY <1>4 DEF SumInv
  <1>6. Inflight(p) \in Nat
    BY DEF Inflight, TypeOK, LedgerTypeOK
  <1>7. \A s \in Streams : Counted(s, p)' => req'[s].t0 + InflightTTL <= inflightExp'[p]
    BY DEF SumInv
  <1> HIDE DEF S, T
  <1> QED BY <1>1, <1>2, <1>3, <1>4, <1>5, <1>6, <1>7

\* A step of stream s to request q that leaves Redis alone: the reservation and its amount
\* stay, no job is claimed that was not, and nothing counts again that did not.
Settled(s, q) ==
    /\ q.rsv = req[s].rsv /\ q.captured = req[s].captured
    /\ q.rsv => q.pay = req[s].pay /\ q.price = req[s].price /\ q.t0 = req[s].t0
    /\ ~q.released \/ q.phase = "releasing" => ~req[s].released \/ req[s].phase = "releasing"

\* Such a step keeps what is held right, if q is a stage that a reservation goes through.
LEMMA SettledStep ==
  ASSUME HoldsInv, FilterInv', NEW s \in Streams, NEW q \in Request, Becomes(s, q),
         now' = now, UNCHANGED ledger, Staged(q), Settled(s, q)
  PROVE  HoldsInv'
  <1>1. /\ nonceExp' = nonceExp /\ inflight' = inflight
        /\ inflightExp' = inflightExp /\ stream' = stream
    BY DEF ledger
  <1>2. /\ TypeOK /\ TypeOK' /\ req' = [req EXCEPT ![s] = q] /\ req \in [Streams -> Request]
    BY DEF HoldsInv, FilterInv, TypeOK, Becomes
  <1>3. \A t \in Streams :
           /\ req'[t].rsv = req[t].rsv /\ req'[t].captured = req[t].captured
           /\ req'[t].rsv => /\ req'[t].pay = req[t].pay /\ req'[t].price = req[t].price
                             /\ req'[t].t0 = req[t].t0
           /\ ~req'[t].released \/ req'[t].phase = "releasing"
                => ~req[t].released \/ req[t].phase = "releasing"
    BY <1>2 DEF Settled
  <1>4. StageInv'
    <2> SUFFICES ASSUME NEW t \in Streams PROVE Staged(req[t])'
        BY DEF StageInv
    <2>1. CASE t = s
      <3>1. req'[t] = q
        BY <1>2, <2>1
      <3> QED BY <3>1 DEF Staged, Lived
    <2>2. CASE t # s
      <3>1. req'[t] = req[t]
        BY <1>2, <2>2
      <3> QED BY <3>1 DEF Staged, Lived, HoldsInv, StageInv
    <2> QED BY <2>1, <2>2
  <1>5. SumInv'
    <2>1. \A t \in Streams, p \in Payers : Counted(t, p)' =>
             Counted(t, p) /\ req'[t].price = req[t].price /\ req'[t].t0 = req[t].t0
      BY <1>3 DEF Counted, Payer
    <2> QED BY <1>1, <1>2, <2>1, SumKept DEF HoldsInv
  <1>6. ClaimMeansAccepted'
    BY <1>1, <1>3 DEF HoldsInv, ClaimMeansAccepted, Claimed
  <1>7. QueueInv'
    <2>1. \A t \in Streams : req[t].captured => req[t].rsv
      BY DEF HoldsInv, StageInv, Staged, Lived
    <2>2. \A t \in Streams : /\ req'[t].captured = req[t].captured
                             /\ req[t].captured => req'[t].pay = req[t].pay
      BY <1>3, <2>1
    <2> QED BY <1>1, <2>2 DEF HoldsInv, QueueInv, JobsOf
  <1> QED BY <1>4, <1>5, <1>6, <1>7 DEF HoldsInv

\* The jobs after one more is queued.
LEMMA JobsAfterAppend ==
  ASSUME TypeOK, NEW m \in Payments, NEW n \in Payments, NEW amount \in Nat, Capture(m, amount)
  PROVE  /\ stream \in Seq(Job)
         /\ DOMAIN stream' = DOMAIN stream \cup {Len(stream) + 1}
         /\ Len(stream) + 1 \notin DOMAIN stream
         /\ \A i \in DOMAIN stream : stream'[i] = stream[i]
         /\ stream'[Len(stream) + 1].pay = m
         /\ {i \in DOMAIN stream' : stream'[i].pay = n}
               = IF n = m THEN JobsOf(n) \cup {Len(stream) + 1} ELSE JobsOf(n)
  <1> DEFINE j == [pay |-> m, amount |-> amount]
             k == Len(stream) + 1
  <1>1. stream \in Seq(Job) /\ j \in Job /\ stream' = Append(stream, j) /\ Len(stream) \in Nat
    BY DEF TypeOK, LedgerTypeOK, Job, Capture
  <1>2. j.pay = m
    OBVIOUS
  <1> HIDE DEF j
  <1>3. /\ DOMAIN stream = 1..Len(stream) /\ DOMAIN stream' = 1..k
        /\ \A i \in 1..Len(stream) : stream'[i] = stream[i]
        /\ stream'[k] = j
    BY <1>1
  <1>4. DOMAIN stream' = DOMAIN stream \cup {k} /\ k \notin DOMAIN stream
    BY <1>1, <1>3
  <1> HIDE DEF k
  <1>5. {i \in DOMAIN stream' : stream'[i].pay = n}
           = IF n = m THEN JobsOf(n) \cup {k} ELSE JobsOf(n)
    BY <1>2, <1>3, <1>4 DEF JobsOf
  <1> QED BY <1>1, <1>2, <1>3, <1>4, <1>5 DEF k

\* The job that a capture adds is the one job of its request.
LEMMA CaptureQueues ==
  ASSUME FilterInv, QueueInv, \A t \in Streams : req[t].captured => req[t].rsv,
         NEW s \in Streams, NEW q, Capture(req[s].pay, req[s].price),
         req[s].rsv, ~req[s].captured, req' = [req EXCEPT ![s] = q],
         q.captured, q.pay = req[s].pay
  PROVE  QueueInv'
  <1> DEFINE m == req[s].pay
  <1>1. /\ TypeOK /\ req \in [Streams -> Request] /\ m \in Payments /\ req[s].price \in Nat
    BY LedgerAssumption DEF FilterInv, TypeOK, PhaseInv, Request
  <1>2. req'[s] = q /\ \A t \in Streams : t # s => req'[t] = req[t]
    BY <1>1
  <1> DEFINE k == Len(stream) + 1
             Jobs(n) == {i \in DOMAIN stream' : stream'[i].pay = n}
  <1>3. /\ DOMAIN stream' = DOMAIN stream \cup {k} /\ k \notin DOMAIN stream
        /\ \A i \in DOMAIN stream : stream'[i] = stream[i]
        /\ stream'[k].pay = m
    BY <1>1, JobsAfterAppend
  <1>4. \A n \in Payments : Jobs(n) = IF n = m THEN JobsOf(n) \cup {k} ELSE JobsOf(n)
    BY <1>1, JobsAfterAppend
  <1> HIDE DEF k, Jobs
  <1>5. JobsOf(m) = {}
    <2> SUFFICES ASSUME NEW i \in DOMAIN stream, stream[i].pay = m PROVE FALSE
        BY DEF JobsOf
    <2>1. PICK t \in Streams : req[t].captured /\ req[t].pay = m
      BY DEF QueueInv
    <2>2. req[t].rsv
      BY <2>1
    <2>3. t = s
      BY <2>1, <2>2 DEF FilterInv, ServedOnce
    <2> QED BY <2>1, <2>3
  <1>6. ASSUME NEW i \in DOMAIN stream'
        PROVE  \E t \in Streams : req'[t].captured /\ req'[t].pay = stream'[i].pay
    <2>1. CASE i = k
      BY <1>2, <1>3, <2>1
    <2>2. CASE i # k
      <3>1. i \in DOMAIN stream /\ stream'[i] = stream[i]
        BY <1>3, <1>6, <2>2
      <3>2. PICK t \in Streams : req[t].captured /\ req[t].pay = stream[i].pay
        BY <3>1 DEF QueueInv
      <3> QED BY <1>2, <3>1, <3>2
    <2> QED BY <2>1, <2>2
  <1>7. ASSUME NEW t \in Streams, req'[t].captured
        PROVE  \E i \in DOMAIN stream' : Jobs(req'[t].pay) = {i}
    <2>1. CASE t = s
      <3>1. Jobs(m) = {k}
        BY <1>1, <1>4, <1>5
      <3> QED BY <1>2, <1>3, <2>1, <3>1
    <2>2. CASE t # s
      <3>1. req'[t] = req[t] /\ req[t].captured
        BY <1>2, <1>7, <2>2
      <3>2. req[t].rsv /\ req[t].pay \in Payments
        BY <3>1 DEF FilterInv, PhaseInv
      <3>3. req[t].pay # m
        BY <2>2, <3>2 DEF FilterInv, ServedOnce
      <3>4. Jobs(req[t].pay) = JobsOf(req[t].pay)
        BY <1>4, <3>2, <3>3
      <3>5. PICK i \in DOMAIN stream : JobsOf(req[t].pay) = {i}
        BY <3>1 DEF QueueInv
      <3> QED BY <1>3, <3>1, <3>4, <3>5
    <2> QED BY <2>1, <2>2
  <1> QED BY <1>6, <1>7 DEF QueueInv, JobsOf, Jobs

\* A captured request gets its one job, and stays counted until it is settled.
LEMMA CaptureHolds ==
  ASSUME HoldsInv, FilterInv', NEW s \in Streams, CaptureReply(s)
  PROVE  HoldsInv'
  <1> DEFINE m == req[s].pay
             q == [req[s] EXCEPT !.phase = "answered", !.decision = "paid", !.captured = TRUE]
  <1>1. /\ req[s].phase = "capturing" /\ Capture(m, req[s].price) /\ now' = now
        /\ nonceExp' = nonceExp /\ inflight' = inflight /\ inflightExp' = inflightExp
        /\ req' = [req EXCEPT ![s] = q]
    BY DEF CaptureReply, CaptureCall, Capture, Becomes
  <1>2. /\ TypeOK /\ TypeOK' /\ req \in [Streams -> Request]
        /\ m \in Payments /\ req[s].price \in Nat
    BY <1>1, LedgerAssumption DEF HoldsInv, FilterInv, TypeOK, PhaseInv, Request
  <1>3. req[s].rsv = TRUE /\ req[s].captured = FALSE /\ req[s].released = FALSE
    BY <1>1, <1>2 DEF HoldsInv, FilterInv, PhaseInv, StageInv, Staged, Lived, Request
  <1>4. /\ q.phase = "answered" /\ q.pay = m /\ q.price = req[s].price /\ q.t0 = req[s].t0
        /\ q.rsv = TRUE /\ q.captured = TRUE /\ q.released = FALSE
    BY <1>2, <1>3 DEF Request
  <1> HIDE DEF q
  <1>5. \A t \in Streams : t # s => req'[t] = req[t]
    BY <1>1, <1>2
  <1>6. req'[s] = q
    BY <1>1, <1>2
  <1>7. StageInv'
    <2> SUFFICES ASSUME NEW t \in Streams PROVE Staged(req[t])'
        BY DEF StageInv
    <2>1. CASE t = s
      <3>1. q.price > 0 /\ q.t0 <= now
        BY <1>3, <1>4 DEF HoldsInv, StageInv, Staged, Lived
      <3> QED BY <1>1, <1>4, <1>6, <2>1, <3>1 DEF Staged, Lived
    <2>2. CASE t # s
      BY <1>1, <1>5, <2>2 DEF Staged, Lived, HoldsInv, StageInv
    <2> QED BY <2>1, <2>2
  <1>8. SumInv'
    <2>1. \A t \in Streams, p \in Payers : Counted(t, p)' =>
             Counted(t, p) /\ req'[t].price = req[t].price /\ req'[t].t0 = req[t].t0
      BY <1>1, <1>3, <1>4, <1>5, <1>6 DEF Counted, Payer
    <2> QED BY <1>1, <1>2, <2>1, SumKept DEF HoldsInv
  <1>9. ClaimMeansAccepted'
    BY <1>1, <1>3, <1>4, <1>5, <1>6 DEF HoldsInv, ClaimMeansAccepted, Claimed
  <1>10. QueueInv'
    <2>1. \A t \in Streams : req[t].captured => req[t].rsv
      BY DEF HoldsInv, StageInv, Staged, Lived
    <2> QED BY <1>1, <1>3, <1>4, <2>1, CaptureQueues DEF HoldsInv
  <1> QED BY <1>7, <1>8, <1>9, <1>10 DEF HoldsInv

\* An accepted request's amount goes into the sum, whose key then lives a whole TTL; the
\* balance that was read covers the new sum.
LEMMA AcceptHolds ==
  ASSUME HoldsOutliveServing, HoldsInv, FilterInv', NEW s \in Streams, ReserveReply(s),
         ReserveOutcome(req[s].pay, req[s].price, req[s].bal) = "ok"
  PROVE  HoldsInv'
  <1> DEFINE m == req[s].pay
             p0 == Payer(s)
             q == [req[s] EXCEPT !.phase = "open", !.decision = "payment_accepted",
                                 !.rsv = TRUE, !.tries = 0]
  <1>1. /\ req[s].phase = "reserving" /\ now <= req[s].t0 + Deadline /\ now' = now
        /\ nonceExp' = [nonceExp EXCEPT ![m] = now + req[s].ttl]
        /\ inflight' = [inflight EXCEPT ![p0] = Inflight(p0) + req[s].price]
        /\ inflightExp' = [inflightExp EXCEPT ![p0] = now + InflightTTL]
        /\ stream' = stream
        /\ req' = [req EXCEPT ![s] = q]
    BY DEF ReserveReply, ReserveCall, ReserveScript, Becomes, Payer
  <1>2. /\ TypeOK /\ TypeOK' /\ req \in [Streams -> Request] /\ m \in Payments
        /\ req[s].price \in Nat /\ req[s].t0 \in Nat /\ now \in Nat
        /\ nonceExp \in [Payments -> Nat] /\ inflight \in [Payers -> Nat]
        /\ inflightExp \in [Payers -> Nat]
    <2>1. TypeOK /\ TypeOK' /\ PhaseInv
      BY DEF HoldsInv, FilterInv
    <2>2. m \in Payments
      BY <1>1, <2>1 DEF PhaseInv
    <2>3. /\ req \in [Streams -> Request] /\ now \in Nat
          /\ nonceExp \in [Payments -> Nat] /\ inflight \in [Payers -> Nat]
          /\ inflightExp \in [Payers -> Nat]
      BY <2>1 DEF TypeOK, LedgerTypeOK
    <2>4. req[s].price \in Nat /\ req[s].t0 \in Nat
      BY <2>3, LedgerAssumption DEF Request
    <2> QED BY <2>1, <2>2, <2>3, <2>4
  <1>3. p0 \in Payers /\ InflightTTL \in Nat \ {0} /\ Deadline \in Nat /\ Deadline < InflightTTL
    BY <1>2, AuthAssumption, LedgerAssumption, FilterAssumption
       DEF Payer, Authorization, HoldsOutliveServing
  <1>4. /\ req[s].rsv = FALSE /\ req[s].captured = FALSE /\ req[s].released = FALSE
        /\ req[s].price > 0 /\ req[s].t0 <= now /\ req[s].bal = ChainBalance[p0]
    BY <1>1, <1>2 DEF HoldsInv, FilterInv, PhaseInv, StageInv, Staged, Lived, Request, Payer
  <1>5. /\ q.phase = "open" /\ q.pay = m /\ q.price = req[s].price /\ q.t0 = req[s].t0
        /\ q.rsv = TRUE /\ q.captured = FALSE /\ q.released = FALSE
    BY <1>2, <1>4 DEF Request
  <1> HIDE DEF q
  <1>6. req'[s] = q /\ \A t \in Streams : t # s => req'[t] = req[t]
    BY <1>1, <1>2
  <1>7. StageInv'
    <2> SUFFICES ASSUME NEW t \in Streams PROVE Staged(req[t])'
        BY DEF StageInv
    <2>1. CASE t = s
      <3>1. now < q.t0 + InflightTTL
        BY <1>1, <1>2, <1>3, <1>5
      <3> QED BY <1>1, <1>4, <1>5, <1>6, <2>1, <3>1 DEF Staged, Lived
    <2>2. CASE t # s
      BY <1>1, <1>6, <2>2 DEF Staged, Lived, HoldsInv, StageInv
    <2> QED BY <2>1, <2>2
  <1>8. SumInv'
    <2> SUFFICES ASSUME NEW p \in Payers
                 PROVE  /\ Sum({t \in Streams : Counted(t, p)})' <= Inflight(p)'
                        /\ \A t \in Streams : Counted(t, p)'
                               => req'[t].t0 + InflightTTL <= inflightExp'[p]
                        /\ Inflight(p)' <= Clamp(ChainBalance[p])
        BY DEF SumInv, Clamp
    <2> DEFINE S == {t \in Streams : Counted(t, p)}
               T == {t \in Streams : Counted(t, p)'}
               sum(U) == SumFunctionOnSet(Prices, U)
    <2>1. Prices' = Prices /\ Prices \in [Streams -> Nat] /\ IsFiniteSet(Streams)
      BY <1>2, <1>5, <1>6, FilterAssumption, LedgerAssumption DEF Prices, Request
    <2>2. /\ sum(S) <= Inflight(p) /\ Inflight(p) <= Clamp(ChainBalance[p])
          /\ \A t \in S : req[t].t0 + InflightTTL <= inflightExp[p]
      BY DEF HoldsInv, SumInv, Sum, Prices
    <2>3. Sum({t \in Streams : Counted(t, p)})' = SumFunctionOnSet(Prices', T)
      BY DEF Sum, Prices
    <2>3a. Sum({t \in Streams : Counted(t, p)})' = sum(T)
      BY <2>1, <2>3
    <2>4. \A t \in T : t # s => t \in S
      BY <1>1, <1>6 DEF Counted, Payer
    <2>5. s \in T => p = p0
      BY <1>1, <1>5, <1>6 DEF Counted, Payer
    <2>6. \A t \in T : /\ req'[t].t0 \in Nat /\ req'[t].t0 <= now
                       /\ t # s => req'[t].t0 = req[t].t0
      BY <1>1, <1>2, <1>6, <1>7 DEF Counted, StageInv, Staged, Lived, TypeOK, Request
    <2>7. \A U \in SUBSET Streams : sum(U) \in Nat
      BY <2>1, SumType
    <2>8. S \in SUBSET Streams /\ T \in SUBSET Streams /\ T \ {s} \in SUBSET S
      BY <2>4
    <2> HIDE DEF S, T
    <2>9. sum(T \ {s}) <= sum(S)
      BY <2>1, <2>8, SumMonotone
    <2>10. s \in T => sum(T) = req[s].price + sum(T \ {s})
      <3>1. s \in T => sum(T) = Prices[s] + sum(T \ {s})
        BY <2>1, <2>8, SumRemove
      <3> QED BY <3>1 DEF Prices
    <2>11. s \notin T => T \ {s} = T
      OBVIOUS
    <2>12. sum(S) \in Nat /\ sum(T) \in Nat /\ sum(T \ {s}) \in Nat /\ Inflight(p) \in Nat
      BY <1>2, <2>7, <2>8 DEF Inflight
    <2> HIDE DEF sum
    <2>13. CASE p = p0
      <3>1. Inflight(p)' = Inflight(p) + req[s].price /\ inflightExp'[p] = now + InflightTTL
        BY <1>1, <1>2, <1>3, <2>13 DEF Inflight
      <3>2. Clamp(ChainBalance[p]) \in Int
        BY FilterAssumption, LedgerAssumption DEF Clamp
      <3>3. ~ (Clamp(ChainBalance[p]) - Inflight(p) < req[s].price)
        BY <1>4, <2>13 DEF ReserveOutcome, Payer
      <3>4. Inflight(p)' <= Clamp(ChainBalance[p])
        BY <1>2, <2>12, <3>1, <3>2, <3>3
      <3>5. sum(T) <= Inflight(p)'
        BY <1>2, <2>2, <2>9, <2>10, <2>11, <2>12, <3>1
      <3>6. \A t \in T : req'[t].t0 + InflightTTL <= inflightExp'[p]
        BY <1>2, <1>3, <2>6, <3>1
      <3> QED BY <2>3a, <3>4, <3>5, <3>6 DEF T
    <2>14. CASE p # p0
      <3>1. Inflight(p)' = Inflight(p) /\ inflightExp'[p] = inflightExp[p]
        BY <1>1, <1>2, <1>3, <2>14 DEF Inflight
      <3>2. s \notin T
        BY <2>5, <2>14
      <3>3. sum(T) <= Inflight(p)'
        BY <2>2, <2>9, <2>11, <2>12, <3>1, <3>2
      <3>4. \A t \in T : req'[t].t0 + InflightTTL <= inflightExp'[p]
        BY <2>2, <2>4, <2>6, <3>1, <3>2
      <3> QED BY <2>2, <2>3a, <3>1, <3>3, <3>4 DEF T
    <2> QED BY <2>13, <2>14
  <1>9. ClaimMeansAccepted'
    <2> SUFFICES ASSUME NEW n \in Payments, Claimed(n)'
                 PROVE  \E t \in Streams : req'[t].rsv /\ req'[t].pay = n
        BY DEF ClaimMeansAccepted
    <2>1. CASE n = m
      BY <1>5, <1>6, <2>1
    <2>2. CASE n # m
      <3>1. Claimed(n)
        BY <1>1, <1>2, <2>2 DEF Claimed
      <3>2. PICK t \in Streams : req[t].rsv /\ req[t].pay = n
        BY <3>1 DEF HoldsInv, ClaimMeansAccepted
      <3> QED BY <1>4, <1>6, <3>2
    <2> QED BY <2>1, <2>2
  <1>10. QueueInv'
    <2>1. \A t \in Streams : req'[t].captured = req[t].captured /\ req'[t].pay = req[t].pay
      BY <1>4, <1>5, <1>6
    <2> QED BY <1>1, <2>1 DEF HoldsInv, QueueInv, JobsOf
  <1> QED BY <1>7, <1>8, <1>9, <1>10 DEF HoldsInv

\* A release takes out of the sum what it put in: the key that it deletes holds nothing else.
LEMMA ReleaseHolds ==
  ASSUME HoldsOutliveServing, HoldsInv, FilterInv', NEW s \in Streams, ReleaseReply(s)
  PROVE  HoldsInv'
  <1> DEFINE p0 == Payer(s)
             price == req[s].price
             after == Inflight(p0) - price
             q == [req[s] EXCEPT !.phase =
                     IF req[s].decision = "released_stream_end" THEN "closed" ELSE "answered"]
  <1>1. /\ req[s].phase = "releasing" /\ now' = now
        /\ inflight' = [inflight EXCEPT ![p0] = IF after <= 0 THEN 0 ELSE after]
        /\ inflightExp' = [inflightExp EXCEPT ![p0] = IF after <= 0 THEN 0 ELSE @]
        /\ nonceExp' = nonceExp /\ stream' = stream
        /\ req' = [req EXCEPT ![s] = q]
    BY DEF ReleaseReply, ReleaseCall, ReleaseScript, AfterRelease, Becomes
  <1>2. /\ TypeOK /\ TypeOK' /\ req \in [Streams -> Request] /\ req[s].pay \in Payments
        /\ price \in Nat /\ req[s].t0 \in Nat /\ now \in Nat
        /\ inflight \in [Payers -> Nat] /\ inflightExp \in [Payers -> Nat]
    <2>1. TypeOK /\ TypeOK' /\ PhaseInv
      BY DEF HoldsInv, FilterInv
    <2>2. req[s].pay \in Payments
      BY <1>1, <2>1 DEF PhaseInv
    <2>3. /\ req \in [Streams -> Request] /\ now \in Nat
          /\ inflight \in [Payers -> Nat] /\ inflightExp \in [Payers -> Nat]
      BY <2>1 DEF TypeOK, LedgerTypeOK
    <2>4. req[s].price \in Nat /\ req[s].t0 \in Nat
      BY <2>3, LedgerAssumption DEF Request
    <2> QED BY <2>1, <2>2, <2>3, <2>4
  <1>3. p0 \in Payers /\ InflightTTL \in Nat
    BY <1>2, AuthAssumption, LedgerAssumption DEF Payer, Authorization
  <1>4. /\ req[s].rsv = TRUE /\ req[s].captured = FALSE /\ req[s].released = TRUE
        /\ now < req[s].t0 + InflightTTL /\ price > 0 /\ req[s].t0 <= now
    BY <1>1, <1>2 DEF HoldsInv, FilterInv, PhaseInv, StageInv, Staged, Lived, Request
  <1>5. /\ q.phase \in {"answered", "closed"} /\ q.pay = req[s].pay /\ q.price = price
        /\ q.t0 = req[s].t0 /\ q.rsv = TRUE /\ q.captured = FALSE /\ q.released = TRUE
    BY <1>2, <1>4 DEF Request
  <1> HIDE DEF q
  <1>6. req'[s] = q /\ \A t \in Streams : t # s => req'[t] = req[t]
    BY <1>1, <1>2
  <1>7. StageInv'
    <2> SUFFICES ASSUME NEW t \in Streams PROVE Staged(req[t])'
        BY DEF StageInv
    <2>1. CASE t = s
      BY <1>1, <1>4, <1>5, <1>6, <2>1 DEF Staged, Lived
    <2>2. CASE t # s
      BY <1>1, <1>6, <2>2 DEF Staged, Lived, HoldsInv, StageInv
    <2> QED BY <2>1, <2>2
  <1>8. SumInv'
    <2> SUFFICES ASSUME NEW p \in Payers
                 PROVE  /\ Sum({t \in Streams : Counted(t, p)})' <= Inflight(p)'
                        /\ \A t \in Streams : Counted(t, p)'
                               => req'[t].t0 + InflightTTL <= inflightExp'[p]
                        /\ Inflight(p)' <= Clamp(ChainBalance[p])
        BY DEF SumInv, Clamp
    <2> DEFINE S == {t \in Streams : Counted(t, p)}
               T == {t \in Streams : Counted(t, p)'}
               sum(U) == SumFunctionOnSet(Prices, U)
    <2>1. Prices' = Prices /\ Prices \in [Streams -> Nat] /\ IsFiniteSet(Streams)
      BY <1>2, <1>5, <1>6, FilterAssumption, LedgerAssumption DEF Prices, Request
    <2>2. /\ sum(S) <= Inflight(p) /\ Inflight(p) <= Clamp(ChainBalance[p])
          /\ \A t \in S : req[t].t0 + InflightTTL <= inflightExp[p]
      BY DEF HoldsInv, SumInv, Sum, Prices
    <2>3. Sum({t \in Streams : Counted(t, p)})' = SumFunctionOnSet(Prices', T)
      BY DEF Sum, Prices
    <2>4. Sum({t \in Streams : Counted(t, p)})' = sum(T)
      BY <2>1, <2>3
    <2>5. s \notin T /\ \A t \in T : t \in S /\ req'[t].t0 = req[t].t0
      BY <1>1, <1>5, <1>6 DEF Counted, Payer
    <2>6. p = p0 => s \in S
      BY <1>1, <1>4 DEF Counted
    <2>7. \A t \in T : Prices[t] > 0 /\ Prices[t] \in Nat
      BY <2>1, <2>5 DEF Counted, HoldsInv, StageInv, Staged, Lived, Prices
    <2>8. S \in SUBSET Streams /\ T \in SUBSET (S \ {s}) /\ T \in SUBSET S
      BY <2>5
    <2>9. sum(S) \in Nat /\ sum(T) \in Nat /\ sum(S \ {s}) \in Nat
      BY <2>1, <2>8, SumType
    <2> HIDE DEF S, T
    <2>10. sum(T) <= sum(S \ {s}) /\ sum(T) <= sum(S)
      BY <2>1, <2>8, SumMonotone
    <2>11. s \in S => sum(S) = price + sum(S \ {s})
      <3>1. s \in S => sum(S) = Prices[s] + sum(S \ {s})
        BY <2>1, <2>8, SumRemove
      <3> QED BY <3>1 DEF Prices
    <2>12. T # {} => sum(T) > 0
      <3> SUFFICES ASSUME NEW t \in T PROVE sum(T) > 0
          OBVIOUS
      <3>1. sum(T) = Prices[t] + sum(T \ {t})
        BY <2>1, <2>8, SumRemove
      <3>2. sum(T \ {t}) \in Nat
        BY <2>1, <2>8, SumType
      <3> QED BY <2>7, <3>1, <3>2
    <2>13. Inflight(p) \in Nat
      BY <1>2 DEF Inflight
    <2> HIDE DEF sum
    <2>14. CASE p # p0
      <3>1. Inflight(p)' = Inflight(p) /\ inflightExp'[p] = inflightExp[p]
        BY <1>1, <1>2, <1>3, <2>14 DEF Inflight
      <3>2. \A t \in T : req'[t].t0 + InflightTTL <= inflightExp'[p]
        BY <2>2, <2>5, <3>1
      <3> QED BY <2>2, <2>4, <2>9, <2>10, <2>13, <3>1, <3>2 DEF T
    <2>15. CASE p = p0 /\ after <= 0
      <3>1. Inflight(p)' = 0
        BY <1>1, <1>2, <1>3, <2>15 DEF Inflight
      <3>2. sum(T) = 0
        BY <1>2, <2>2, <2>6, <2>9, <2>10, <2>11, <2>13, <2>15
      <3>3. T = {}
        BY <2>12, <3>2
      <3>4. Clamp(ChainBalance[p]) >= 0
        BY FilterAssumption, LedgerAssumption DEF Clamp
      <3> QED BY <2>4, <3>1, <3>2, <3>3, <3>4 DEF T
    <2>16. CASE p = p0 /\ ~(after <= 0)
      <3>1. now < inflightExp[p]
        BY <1>2, <1>3, <2>16 DEF Inflight
      <3>2. inflightExp'[p] = inflightExp[p] /\ inflight'[p] = after
        BY <1>1, <1>2, <1>3, <2>16
      <3>3. Inflight(p)' = Inflight(p) - price
        BY <1>1, <2>16, <3>1, <3>2 DEF Inflight
      <3>4. sum(T) <= Inflight(p)'
        BY <1>2, <2>2, <2>6, <2>9, <2>10, <2>11, <2>13, <2>16, <3>3
      <3>5. Clamp(ChainBalance[p]) \in Int
        BY FilterAssumption, LedgerAssumption DEF Clamp
      <3>6. Inflight(p)' <= Clamp(ChainBalance[p])
        BY <1>2, <2>2, <2>13, <3>3, <3>5
      <3>7. \A t \in T : req'[t].t0 + InflightTTL <= inflightExp'[p]
        BY <2>2, <2>5, <3>2
      <3> QED BY <2>4, <3>4, <3>6, <3>7 DEF T
    <2> QED BY <2>14, <2>15, <2>16
  <1>9. ClaimMeansAccepted'
    <2>1. \A t \in Streams : req'[t].rsv = req[t].rsv /\ req'[t].pay = req[t].pay
      BY <1>4, <1>5, <1>6
    <2> QED BY <1>1, <2>1 DEF HoldsInv, ClaimMeansAccepted, Claimed
  <1>10. QueueInv'
    <2>1. \A t \in Streams : req'[t].captured = req[t].captured /\ req'[t].pay = req[t].pay
      BY <1>4, <1>5, <1>6
    <2> QED BY <1>1, <2>1 DEF HoldsInv, QueueInv, JobsOf
  <1> QED BY <1>7, <1>8, <1>9, <1>10 DEF HoldsInv

\* The request phase up to the script: nothing is reserved, and a price of zero never comes
\* this far.
LEMMA RequestHolds ==
  ASSUME HoldsInv, FilterInv', NEW s \in Streams,
         \/ \E route \in Routes \cup {NoRoute}, hdr \in Headers : RequestHeaders(s, route, hdr)
         \/ BalanceRead(s, ChainBalance[Payer(s)])
  PROVE  HoldsInv'
  <1>1. /\ req \in [Streams -> Request] /\ req[s] \in Request /\ now \in Nat
        /\ req' \in [Streams -> Request]
    BY DEF HoldsInv, FilterInv, TypeOK, LedgerTypeOK
  <1>2. now' = now /\ UNCHANGED ledger /\ req[s].phase \in {"idle", "balance"} /\ ~req[s].rsv
    BY DEF RequestHeaders, BalanceRead, HoldsInv, FilterInv, PhaseInv
  <1>3. ~req[s].captured /\ ~req[s].released
    BY <1>2 DEF HoldsInv, StageInv, Staged, Lived
  <1> DEFINE q == req'[s]
  <1>4. q \in Request
    BY <1>1
  <1>5. Becomes(s, q)
    BY <1>1 DEF RequestHeaders, BalanceRead, Becomes
  <1>6. Staged(q) /\ q.rsv = req[s].rsv /\ q.captured = req[s].captured
    <2>1. CASE \E route \in Routes \cup {NoRoute}, hdr \in Headers : RequestHeaders(s, route, hdr)
      <3> PICK route \in Routes \cup {NoRoute}, hdr \in Headers : RequestHeaders(s, route, hdr)
          BY <2>1
      <3> DEFINE d == Screen(s, route, hdr)
                 price == table[ReplicaOf[s]][route]
      <3>1. /\ q.phase = IF d = "none" THEN "balance"
                         ELSE IF d = "unpriced" THEN "open" ELSE "closed"
            /\ q.price = IF d = "none" THEN price ELSE req[s].price
            /\ q.t0 = now /\ q.rsv = req[s].rsv
            /\ q.captured = req[s].captured /\ q.released = req[s].released
        BY <1>1 DEF RequestHeaders, Becomes, Request
      <3>2. d = "none" => price > 0
        <4> SUFFICES ASSUME d = "none" PROVE price > 0
            OBVIOUS
        <4>1. route # NoRoute /\ table[ReplicaOf[s]] # NoTable /\ price # 0
          BY DEF Screen
        <4>2. table[ReplicaOf[s]] \in Tables
          BY <4>1, FilterAssumption DEF HoldsInv, FilterInv, TypeOK
        <4>3. price \in 0..MaxExact
          BY <4>1, <4>2, FilterAssumption
        <4> QED BY <4>1, <4>3
      <3> HIDE DEF q, d, price
      <3> QED BY <1>1, <1>2, <1>3, <3>1, <3>2 DEF Staged, Lived
    <2>2. CASE BalanceRead(s, ChainBalance[Payer(s)])
      <3>1. /\ q.phase = "reserving" /\ q.pay = req[s].pay /\ q.price = req[s].price
            /\ q.t0 = req[s].t0 /\ q.rsv = req[s].rsv /\ q.bal = ChainBalance[Payer(s)]
            /\ q.captured = req[s].captured /\ q.released = req[s].released
        BY <1>1, <2>2 DEF BalanceRead, Becomes, Request
      <3>2. req[s].price > 0 /\ req[s].t0 <= now
        BY <2>2 DEF BalanceRead, HoldsInv, StageInv, Staged, Lived
      <3> HIDE DEF q
      <3> QED BY <1>2, <1>3, <3>1, <3>2 DEF Staged, Lived, Payer
    <2> QED BY <2>1, <2>2
  <1> HIDE DEF q
  <1>7. Settled(s, q)
    BY <1>2, <1>3, <1>6 DEF Settled
  <1> QED BY <1>2, <1>4, <1>5, <1>6, <1>7, SettledStep

\* Every other step of a stream that leaves Redis alone: refusals, retries, the start of a
\* capture or a release, a release that is given up, and the end of the stream.
LEMMA IdleHolds ==
  ASSUME HoldsInv, FilterInv', NEW s \in Streams, now' = now, UNCHANGED ledger,
         \/ req[s].phase \in {"balance", "reserving"} /\ \E d \in Decisions : Refuse(s, d)
         \/ Again(s)
         \/ req[s].phase \in {"open", "capturing"} /\ req[s].rsv
              /\ \E d \in Decisions : StartRelease(s, d)
         \/ req[s].phase = "releasing" /\ AfterRelease(s)
         \/ req[s].phase = "open" /\ ~req[s].rsv
              /\ Becomes(s, [req[s] EXCEPT !.phase = "answered"])
         \/ req[s].phase = "open" /\ Becomes(s, [req[s] EXCEPT !.phase = "capturing"])
         \/ req[s].phase # "releasing" /\ Becomes(s, [req[s] EXCEPT !.phase = "closed"])
  PROVE  HoldsInv'
  <1>1. /\ req \in [Streams -> Request] /\ req[s] \in Request
        /\ req' \in [Streams -> Request] /\ Staged(req[s])
    BY DEF HoldsInv, FilterInv, TypeOK, StageInv
  <1> DEFINE q == req'[s]
  <1>2. q \in Request
    BY <1>1
  <1>3. Becomes(s, q)
    BY <1>1 DEF Refuse, Again, StartRelease, AfterRelease, Becomes
  <1> DEFINE Same == /\ q.rsv = req[s].rsv /\ q.captured = req[s].captured
                     /\ q.pay = req[s].pay /\ q.price = req[s].price
                     /\ q.t0 = req[s].t0 /\ q.bal = req[s].bal
             Kept == /\ q.released = req[s].released
                     /\ \/ q.phase = req[s].phase
                        \/ q.phase = "closed" /\ req[s].phase # "releasing"
                        \/ q.phase \in {"answered", "closed"} /\ req[s].phase = "releasing"
                        \/ q.phase = "answered" /\ ~req[s].rsv /\ req[s].phase = "open"
                        \/ q.phase = "capturing" /\ req[s].phase = "open"
             Begun == /\ q.released /\ q.phase = "releasing" /\ req[s].rsv
                      /\ req[s].phase \in {"open", "capturing"}
  <1>4. Same /\ (Kept \/ Begun)
    <2>1. CASE req[s].phase \in {"balance", "reserving"} /\ \E d \in Decisions : Refuse(s, d)
      <3> PICK d \in Decisions : Refuse(s, d)
          BY <2>1
      <3>1. q = [req[s] EXCEPT !.phase = "closed", !.decision = d]
        BY <1>1 DEF Refuse, Becomes
      <3> QED BY <1>1, <2>1, <3>1 DEF Request
    <2>2. CASE Again(s)
      BY <1>1, <2>2 DEF Again, Becomes, Request
    <2>3. CASE /\ req[s].phase \in {"open", "capturing"} /\ req[s].rsv
             /\ \E d \in Decisions : StartRelease(s, d)
      <3> PICK d \in Decisions : StartRelease(s, d)
          BY <2>3
      <3>1. q = [req[s] EXCEPT !.phase = "releasing", !.decision = d, !.released = TRUE,
                               !.tries = 0]
        BY <1>1 DEF StartRelease, Becomes
      <3>2. q.phase = "releasing" /\ Same
        BY <1>1, <3>1 DEF Request
      <3>3. q.released = TRUE
        BY <1>1, <3>1, Zenon DEF Request
      <3> HIDE DEF q, Same
      <3> QED BY <2>3, <3>2, <3>3
    <2>4. CASE req[s].phase = "releasing" /\ AfterRelease(s)
      BY <1>1, <2>4 DEF AfterRelease, Becomes, Request
    <2>5. CASE /\ req[s].phase = "open" /\ ~req[s].rsv
             /\ Becomes(s, [req[s] EXCEPT !.phase = "answered"])
      BY <1>1, <2>5 DEF Becomes, Request
    <2>6. CASE req[s].phase = "open" /\ Becomes(s, [req[s] EXCEPT !.phase = "capturing"])
      BY <1>1, <2>6 DEF Becomes, Request
    <2>7. CASE /\ req[s].phase # "releasing"
             /\ Becomes(s, [req[s] EXCEPT !.phase = "closed"])
      BY <1>1, <2>7 DEF Becomes, Request
    <2> QED BY <2>1, <2>2, <2>3, <2>4, <2>5, <2>6, <2>7
  <1> HIDE DEF q
  <1>6. Staged(q) /\ Settled(s, q)
    BY <1>1, <1>4 DEF Staged, Lived, Settled
  <1> QED BY <1>2, <1>3, <1>6, SettledStep

\* The steps of a stream, when every reply arrives: a call that failed did not run.
LEMMA HandlerHolds ==
  ASSUME RepliesArrive, HoldsOutliveServing, HoldsInv, FilterInv', NEW s \in Streams,
         Handle(s) \/ Envoy(s)
  PROVE  HoldsInv'
  <1>2. CASE BalanceRead(s, ChainBalance[Payer(s)])
    BY <1>2, RequestHolds
  <1>3. CASE \E d \in {"deadline", "dependency_unavailable"} : BalanceFailed(s, d)
    BY <1>3, IdleHolds DEF BalanceFailed, Decisions
  <1>4. CASE ReserveReply(s)
    <2>1. CASE ReserveOutcome(req[s].pay, req[s].price, req[s].bal) = "ok"
      BY <1>4, <2>1, AcceptHolds
    <2>2. CASE ReserveOutcome(req[s].pay, req[s].price, req[s].bal) # "ok"
      <3>1. ReserveOutcome(req[s].pay, req[s].price, req[s].bal) \in Decisions
        BY <2>2 DEF ReserveOutcome, Decisions
      <3>2. /\ req[s].phase = "reserving" /\ now' = now /\ UNCHANGED ledger
            /\ Refuse(s, ReserveOutcome(req[s].pay, req[s].price, req[s].bal))
        BY <1>4, <2>2 DEF ReserveReply, ReserveCall, ReserveScript
      <3> QED BY <3>1, <3>2, IdleHolds
    <2> QED BY <2>1, <2>2
  <1>5. CASE ReserveLate(s)
    BY <1>5, IdleHolds DEF ReserveLate, Decisions
  <1>6. CASE CaptureReply(s)
    BY <1>6, CaptureHolds
  <1>7. CASE ReleaseReply(s)
    BY <1>7, ReleaseHolds
  <1>8. CASE \E giveUp \in BOOLEAN : ReserveLost(s, giveUp)
    <2> PICK giveUp \in BOOLEAN : ReserveLost(s, giveUp)
        BY <1>8
    <2>1. now' = now /\ UNCHANGED ledger
      BY DEF ReserveLost, Lost, Fault, RepliesArrive
    <2>2. Again(s) \/ (req[s].phase = "reserving" /\ \E d \in Decisions : Refuse(s, d))
      BY DEF ReserveLost, Decisions
    <2> QED BY <2>1, <2>2, IdleHolds
  <1>9. CASE \E giveUp \in BOOLEAN : CaptureLost(s, giveUp)
    <2> PICK giveUp \in BOOLEAN : CaptureLost(s, giveUp)
        BY <1>9
    <2>1. now' = now /\ UNCHANGED ledger
      BY DEF CaptureLost, Lost, Fault, RepliesArrive
    <2>2. req[s].phase = "capturing" /\ req[s].rsv
      BY DEF CaptureLost, HoldsInv, FilterInv, PhaseInv
    <2>3. Again(s) \/ \E d \in Decisions : StartRelease(s, d)
      BY DEF CaptureLost, Decisions
    <2> QED BY <2>1, <2>2, <2>3, IdleHolds
  <1>10. CASE \E giveUp \in BOOLEAN : ReleaseLost(s, giveUp)
    <2> PICK giveUp \in BOOLEAN : ReleaseLost(s, giveUp)
        BY <1>10
    <2>1. now' = now /\ UNCHANGED ledger
      BY DEF ReleaseLost, Lost, Fault, RepliesArrive
    <2>2. Again(s) \/ (req[s].phase = "releasing" /\ AfterRelease(s))
      BY DEF ReleaseLost
    <2> QED BY <2>1, <2>2, IdleHolds
  <1>11. CASE \E is2xx \in BOOLEAN : ResponseHeaders(s, is2xx)
    <2>1. now' = now /\ UNCHANGED ledger /\ req[s].phase = "open"
      BY <1>11 DEF ResponseHeaders
    <2>2. \/ ~req[s].rsv /\ Becomes(s, [req[s] EXCEPT !.phase = "answered"])
          \/ Becomes(s, [req[s] EXCEPT !.phase = "capturing"])
          \/ req[s].rsv /\ \E d \in Decisions : StartRelease(s, d)
      BY <1>11 DEF ResponseHeaders, Decisions
    <2> QED BY <2>1, <2>2, IdleHolds
  <1>12. CASE StreamEnd(s)
    <2>1. now' = now /\ UNCHANGED ledger /\ req[s].phase \in {"open", "answered"}
      BY <1>12 DEF StreamEnd
    <2>2. \/ Becomes(s, [req[s] EXCEPT !.phase = "closed"])
          \/ /\ req[s].rsv /\ ~req[s].captured /\ ~req[s].released
             /\ \E d \in Decisions : StartRelease(s, d)
      BY <1>12 DEF StreamEnd, Decisions
    <2>3. req[s].phase = "answered" /\ req[s].rsv => req[s].captured \/ req[s].released
      BY DEF HoldsInv, StageInv, Staged, Lived
    <2> QED BY <2>1, <2>2, <2>3, IdleHolds
  <1> QED BY <1>2, <1>3, <1>4, <1>5, <1>6, <1>7, <1>8, <1>9, <1>10, <1>11, <1>12
          DEF Handle, Envoy

\* A crash leaves holds in the sum that nobody will release, and takes none out of it.
LEMMA CrashHolds ==
  ASSUME HoldsInv, FilterInv', NEW r \in Replicas, Crash(r)
  PROVE  HoldsInv'
  <1>1. /\ now' = now /\ nonceExp' = nonceExp /\ inflight' = inflight
        /\ inflightExp' = inflightExp /\ stream' = stream /\ TypeOK /\ TypeOK'
    BY DEF Crash, ledger, HoldsInv, FilterInv
  <1>2. ASSUME NEW t \in Streams
        PROVE  /\ req'[t].rsv = req[t].rsv /\ req'[t].captured = req[t].captured
               /\ req'[t].released = req[t].released /\ req'[t].pay = req[t].pay
               /\ req'[t].price = req[t].price /\ req'[t].t0 = req[t].t0
               /\ req'[t].bal = req[t].bal
               /\ req'[t].phase = req[t].phase \/ req'[t].phase = "closed"
    <2>1. req[t] \in Request
      BY <1>1 DEF TypeOK
    <2>2. req'[t] = req[t] \/ req'[t] = [req[t] EXCEPT !.phase = "closed"]
      BY DEF Crash
    <2> QED BY <2>1, <2>2 DEF Request
  <1>3. StageInv'
    BY <1>1, <1>2 DEF HoldsInv, StageInv, Staged, Lived
  <1>4. SumInv'
    <2>1. \A t \in Streams, p \in Payers : Counted(t, p)' =>
             Counted(t, p) /\ req'[t].price = req[t].price /\ req'[t].t0 = req[t].t0
      BY <1>1, <1>2 DEF Counted, Payer
    <2> QED BY <1>1, <2>1, SumKept DEF HoldsInv
  <1>5. ClaimMeansAccepted' /\ QueueInv'
    BY <1>1, <1>2 DEF HoldsInv, ClaimMeansAccepted, Claimed, QueueInv, JobsOf
  <1> QED BY <1>3, <1>4, <1>5 DEF HoldsInv

\* The clock passes: a key that expires now has nothing in it that still counts.
LEMMA TickHolds ==
  ASSUME HoldsOutliveServing, HoldsInv, FilterInv', Tick
  PROVE  HoldsInv'
  <1>1. /\ now' = now + 1 /\ nonceExp' = nonceExp /\ inflight' = inflight
        /\ inflightExp' = inflightExp /\ stream' = stream /\ req' = req
    BY DEF Tick, Advance, ledger, filterVars
  <1>2. /\ TypeOK /\ now \in Nat /\ inflight \in [Payers -> Nat]
        /\ inflightExp \in [Payers -> Nat]
        /\ InflightTTL \in Nat /\ MaxServe \in Nat /\ MaxServe < InflightTTL
        /\ \A s \in Streams : req[s].t0 \in Nat /\ req[s].price \in Nat
    <2>1. TypeOK /\ now \in Nat /\ inflight \in [Payers -> Nat] /\ inflightExp \in [Payers -> Nat]
      BY DEF HoldsInv, FilterInv, TypeOK, LedgerTypeOK
    <2>2. InflightTTL \in Nat /\ MaxServe \in Nat /\ MaxServe < InflightTTL
      BY FilterAssumption, LedgerAssumption DEF HoldsOutliveServing
    <2>3. \A s \in Streams : req[s].t0 \in Nat /\ req[s].price \in Nat
      BY <2>1, LedgerAssumption DEF TypeOK, Request
    <2> QED BY <2>1, <2>2, <2>3
  <1>3. StageInv'
    <2> SUFFICES ASSUME NEW s \in Streams PROVE Staged(req[s])'
        BY DEF StageInv
    <2>1. req[s].t0 <= now => req[s].t0 <= now + 1
      BY <1>2
    <2>2. req[s].phase \in {"open", "capturing", "releasing"} => now + 1 < req[s].t0 + InflightTTL
      <3> SUFFICES ASSUME req[s].phase \in {"open", "capturing", "releasing"}
                   PROVE  now + 1 < req[s].t0 + InflightTTL
          OBVIOUS
      <3>1. now < req[s].t0 + MaxServe
        BY DEF Tick
      <3> QED BY <1>2, <3>1
    <2>3. Staged(req[s])
      BY DEF HoldsInv, StageInv
    <2> QED BY <1>1, <2>1, <2>2, <2>3 DEF Staged, Lived
  <1>4. SumInv'
    <2> SUFFICES ASSUME NEW p \in Payers
                 PROVE  /\ Sum({s \in Streams : Counted(s, p)})' <= Inflight(p)'
                        /\ \A s \in Streams : Counted(s, p)'
                               => req'[s].t0 + InflightTTL <= inflightExp'[p]
                        /\ Inflight(p)' <= Clamp(ChainBalance[p])
        BY DEF SumInv, Clamp
    <2> DEFINE S == {s \in Streams : Counted(s, p)}
               T == {s \in Streams : Counted(s, p)'}
               sum(U) == SumFunctionOnSet(Prices, U)
    <2>1. Prices' = Prices /\ Prices \in [Streams -> Nat] /\ IsFiniteSet(Streams)
      BY <1>1, <1>2, FilterAssumption DEF Prices
    <2>2. /\ sum(S) <= Inflight(p) /\ Inflight(p) <= Clamp(ChainBalance[p])
          /\ \A s \in S : req[s].t0 + InflightTTL <= inflightExp[p]
      BY DEF HoldsInv, SumInv, Sum, Prices
    <2>3. Sum({s \in Streams : Counted(s, p)})' = SumFunctionOnSet(Prices', T)
      BY DEF Sum, Prices
    <2>4. Sum({s \in Streams : Counted(s, p)})' = sum(T)
      BY <2>1, <2>3
    <2>5. \A s \in T : s \in S /\ now + 1 < req[s].t0 + InflightTTL
      BY <1>1, <1>2 DEF Counted, Payer
    <2>6. S \in SUBSET Streams /\ T \in SUBSET S
      BY <2>5
    <2> HIDE DEF S, T
    <2>7. sum(T) <= sum(S) /\ sum(S) \in Nat /\ sum(T) \in Nat /\ (T = {} => sum(T) = 0)
      BY <2>1, <2>6, SumMonotone, SumType, SumUnfolds, FS_EmptySet
    <2> HIDE DEF sum
    <2>8. Inflight(p) \in Nat /\ Clamp(ChainBalance[p]) \in Nat
      BY <1>2, FilterAssumption, LedgerAssumption DEF Inflight, Clamp
    <2>9. \A s \in T : req'[s].t0 + InflightTTL <= inflightExp'[p]
      BY <1>1, <2>2, <2>5
    <2>10. CASE now + 1 < inflightExp[p]
      <3>1. Inflight(p)' = Inflight(p)
        BY <1>1, <1>2, <2>10 DEF Inflight
      <3> QED BY <2>2, <2>4, <2>7, <2>8, <2>9, <3>1 DEF T
    <2>11. CASE ~(now + 1 < inflightExp[p])
      <3>1. Inflight(p)' = 0
        BY <1>1, <2>11 DEF Inflight
      <3>2. T = {}
        <4> SUFFICES ASSUME NEW s \in T PROVE FALSE
            OBVIOUS
        <4>1. /\ now + 1 < req[s].t0 + InflightTTL
              /\ req[s].t0 + InflightTTL <= inflightExp[p]
              /\ req[s].t0 \in Nat /\ inflightExp[p] \in Nat
          BY <1>2, <2>2, <2>5, <2>6
        <4> QED BY <1>2, <2>11, <4>1
      <3> QED BY <2>4, <2>7, <2>8, <3>1, <3>2 DEF T
    <2> QED BY <2>10, <2>11
  <1>5. ClaimMeansAccepted'
    <2>1. \A m \in Payments : Claimed(m)' => Claimed(m)
      BY <1>1, <1>2 DEF Claimed, TypeOK, LedgerTypeOK
    <2> QED BY <1>1, <2>1 DEF HoldsInv, ClaimMeansAccepted
  <1>6. QueueInv'
    BY <1>1 DEF HoldsInv, QueueInv, JobsOf
  <1> QED BY <1>3, <1>4, <1>5, <1>6 DEF HoldsInv

\* Nothing is held, claimed or queued when the filter starts.
LEMMA HoldsAtFirst == Init => HoldsInv
  <1> SUFFICES ASSUME Init PROVE HoldsInv
      OBVIOUS
  <1>1. FilterInv
    BY InitHolds
  <1>2. /\ now = 0 /\ stream = <<>> /\ nonceExp = [m \in Payments |-> 0]
        /\ inflight = [p \in Payers |-> 0] /\ inflightExp = [p \in Payers |-> 0]
        /\ \A s \in Streams : req[s] = NewRequest
    BY DEF Init, LedgerInit, FilterInit
  <1>3. StageInv
    BY <1>2 DEF StageInv, Staged, Lived, NewRequest
  <1>4. SumInv
    <2> SUFFICES ASSUME NEW p \in Payers
                 PROVE  /\ Sum({s \in Streams : Counted(s, p)}) <= Inflight(p)
                        /\ \A s \in Streams : ~Counted(s, p)
                        /\ Inflight(p) <= Clamp(ChainBalance[p])
        BY DEF SumInv
    <2>1. \A s \in Streams : ~Counted(s, p)
      BY <1>2 DEF Counted, NewRequest
    <2>2. {s \in Streams : Counted(s, p)} = {}
      BY <2>1
    <2>3. SumFunctionOnSet([s \in Streams |-> req[s].price], {}) = 0
      BY SumUnfolds, FS_EmptySet
    <2>4. Sum({s \in Streams : Counted(s, p)}) = 0
      BY <2>2, <2>3 DEF Sum
    <2>5. Inflight(p) = 0
      BY <1>2 DEF Inflight
    <2>6. Clamp(ChainBalance[p]) \in Nat
      BY FilterAssumption, LedgerAssumption DEF Clamp
    <2> QED BY <2>1, <2>4, <2>5, <2>6
  <1>5. ClaimMeansAccepted
    BY <1>2 DEF ClaimMeansAccepted, Claimed
  <1>6. QueueInv
    BY <1>2 DEF QueueInv, NewRequest
  <1> QED BY <1>1, <1>3, <1>4, <1>5, <1>6 DEF HoldsInv

\* Every step keeps what is held right, on top of what the theorems above established.
LEMMA NextKeepsHolds ==
  ASSUME RepliesArrive, HoldsOutliveServing
  PROVE  HoldsInv /\ [Next]_vars => HoldsInv'
  <1> SUFFICES ASSUME HoldsInv, [Next]_vars PROVE HoldsInv'
      OBVIOUS
  <1>1. FilterInv'
    BY NextHolds DEF HoldsInv
  <1>2. CASE \E s \in Streams, route \in Routes \cup {NoRoute}, hdr \in Headers :
               RequestHeaders(s, route, hdr)
    BY <1>1, <1>2, RequestHolds
  <1>3. CASE \E s \in Streams : Handle(s) \/ Envoy(s)
    BY <1>1, <1>3, HandlerHolds
  <1>4. CASE \E r \in Replicas : Crash(r)
    BY <1>1, <1>4, CrashHolds
  <1>5. CASE UNCHANGED <<now, ledger, req>>
    <2>1. /\ now' = now /\ req' = req /\ nonceExp' = nonceExp /\ inflight' = inflight
          /\ inflightExp' = inflightExp /\ stream' = stream
      BY <1>5 DEF ledger
    <2>2. StageInv' /\ ClaimMeansAccepted' /\ QueueInv'
      BY <2>1 DEF HoldsInv, StageInv, Staged, Lived, ClaimMeansAccepted, Claimed, QueueInv, JobsOf
    <2>3. SumInv'
      <3>1. \A t \in Streams, p \in Payers : Counted(t, p)' => Counted(t, p)
        BY <2>1 DEF Counted, Payer
      <3> QED BY <1>1, <2>1, <3>1, SumKept DEF HoldsInv, FilterInv
    <2> QED BY <1>1, <2>2, <2>3 DEF HoldsInv
  <1>6. CASE Tick
    BY <1>1, <1>6, TickHolds
  <1> QED BY <1>2, <1>3, <1>4, <1>5, <1>6 DEF Next, Finished, ApplyTable, vars, filterVars

\* Every behaviour in which replies arrive keeps what is held right, if nothing is served
\* longer than the in-flight key lives.
THEOREM HoldsInvariance ==
  ASSUME RepliesArrive, HoldsOutliveServing
  PROVE  Spec => []HoldsInv
  <1>1. HoldsInv /\ [Next]_vars => HoldsInv'
    BY NextKeepsHolds
  <1> QED BY <1>1, HoldsAtFirst, PTL DEF Spec

\* The in-flight sum never undercounts: whatever streams end, calls fail and replicas crash,
\* and whichever keys expire, a payer's sum covers every hold younger than the key's TTL.
THEOREM SumsNeverUndercount ==
  ASSUME RepliesArrive, HoldsOutliveServing
  PROVE  Spec => []NeverUndercounts
  <1>1. HoldsInv => NeverUndercounts
    <2> SUFFICES ASSUME HoldsInv, NEW p \in Payers PROVE Held(p) <= Inflight(p)
        BY DEF NeverUndercounts
    <2> DEFINE S == {s \in Streams : Counted(s, p)}
               T == {s \in Streams : HeldBy(s, p) /\ now < req[s].t0 + InflightTTL}
    <2>1. Prices \in [Streams -> Nat] /\ IsFiniteSet(Streams)
      BY FilterAssumption, LedgerAssumption DEF HoldsInv, FilterInv, TypeOK, Request, Prices
    <2>2. S \in SUBSET Streams /\ T \in SUBSET S
      BY DEF Counted, HeldBy
    <2>3. /\ Held(p) = SumFunctionOnSet(Prices, T)
          /\ SumFunctionOnSet(Prices, S) <= Inflight(p)
      BY DEF HoldsInv, SumInv, Held, Sum, Prices
    <2>4. Inflight(p) \in Nat
      BY DEF HoldsInv, FilterInv, TypeOK, LedgerTypeOK, Inflight
    <2> HIDE DEF S, T
    <2>5. /\ SumFunctionOnSet(Prices, T) <= SumFunctionOnSet(Prices, S)
          /\ SumFunctionOnSet(Prices, T) \in Nat /\ SumFunctionOnSet(Prices, S) \in Nat
      BY <2>1, <2>2, SumMonotone, SumType
    <2> QED BY <2>3, <2>4, <2>5
  <1> QED BY <1>1, HoldsInvariance, PTL

\* Concurrent requests never overdraw: what a payer holds at once is within the balance its
\* requests were accepted against.
THEOREM BalancesCoverHolds ==
  ASSUME RepliesArrive, HoldsOutliveServing
  PROVE  Spec => []NoOverdraft
  <1>1. HoldsInv /\ NeverUndercounts => NoOverdraft
    <2> SUFFICES ASSUME HoldsInv, NeverUndercounts, NEW p \in Payers
                 PROVE  Held(p) <= Clamp(ChainBalance[p])
        BY DEF NoOverdraft
    <2>1. Held(p) <= Inflight(p) /\ Inflight(p) <= Clamp(ChainBalance[p])
      BY DEF NeverUndercounts, HoldsInv, SumInv
    <2>2. Inflight(p) \in Nat /\ Clamp(ChainBalance[p]) \in Nat
      BY FilterAssumption, LedgerAssumption
         DEF HoldsInv, FilterInv, TypeOK, LedgerTypeOK, Inflight, Clamp
    <2>3. Held(p) \in Nat
      <3> DEFINE T == {s \in Streams : HeldBy(s, p) /\ now < req[s].t0 + InflightTTL}
      <3>1. /\ Prices \in [Streams -> Nat] /\ IsFiniteSet(Streams)
            /\ T \in SUBSET Streams /\ Held(p) = SumFunctionOnSet(Prices, T)
        BY FilterAssumption, LedgerAssumption
           DEF HoldsInv, FilterInv, TypeOK, Request, Prices, Held, Sum
      <3> HIDE DEF T
      <3> QED BY <3>1, SumType
    <2> QED BY <2>1, <2>2, <2>3
  <1> QED BY <1>1, HoldsInvariance, SumsNeverUndercount, PTL

\* A refusal, a failed call or a timeout never burns a signature: what is claimed was
\* accepted.
THEOREM ClaimsWereAccepted ==
  ASSUME RepliesArrive, HoldsOutliveServing
  PROVE  Spec => []ClaimMeansAccepted
  <1>1. HoldsInv => ClaimMeansAccepted
    BY DEF HoldsInv
  <1> QED BY <1>1, HoldsInvariance, PTL

\* The queue says what the requests' ends say: one job for what was captured, none for what
\* was released or never answered.
THEOREM QueueIsRight ==
  ASSUME RepliesArrive, HoldsOutliveServing
  PROVE  Spec => []QueueMatchesDecisions
  <1>1. HoldsInv => QueueMatchesDecisions
    <2> SUFFICES ASSUME HoldsInv, NEW s \in Streams, req[s].rsv
                 PROVE  Cardinality(JobsOf(req[s].pay)) = IF req[s].captured THEN 1 ELSE 0
        BY DEF QueueMatchesDecisions
    <2>1. CASE req[s].captured
      <3>1. PICK i \in DOMAIN stream : JobsOf(req[s].pay) = {i}
        BY <2>1 DEF HoldsInv, QueueInv
      <3> QED BY <2>1, <3>1, FS_Singleton
    <2>2. CASE ~req[s].captured
      <3>1. JobsOf(req[s].pay) = {}
        <4> SUFFICES ASSUME NEW i \in DOMAIN stream, stream[i].pay = req[s].pay PROVE FALSE
            BY DEF JobsOf
        <4>1. PICK t \in Streams : req[t].captured /\ req[t].pay = req[s].pay
          BY DEF HoldsInv, QueueInv
        <4>2. t = s
          BY <4>1 DEF HoldsInv, StageInv, Staged, Lived, FilterInv, ServedOnce
        <4> QED BY <2>2, <4>1, <4>2
      <3> QED BY <2>2, <3>1, FS_EmptySet
    <2> QED BY <2>1, <2>2
  <1> QED BY <1>1, HoldsInvariance, PTL

------------------------------------------------------------------------------
(* The life of a reservation, whatever balances are read: what the gateway's *)
(* proofs use of the filter                                                  *)

\* A step of stream s leaves alone what it pays and since when.
SameTerms(s) ==
    /\ req'[s].pay = req[s].pay /\ req'[s].price = req[s].price /\ req'[s].t0 = req[s].t0

\* The steps of a handler, by what they do to the reservation and to Redis.
Keeps(s) ==
    /\ UNCHANGED ledger
    /\ req'[s].rsv = req[s].rsv
    /\ req'[s].captured = req[s].captured /\ req'[s].released = req[s].released
    /\ req[s].rsv => SameTerms(s)
    /\ req'[s].phase = "releasing" => req[s].phase = "releasing"
Accepts(s) ==
    /\ req[s].phase = "reserving" /\ now <= req[s].t0 + Deadline
    /\ ReserveCall(s) /\ ReserveOutcome(req[s].pay, req[s].price, req[s].bal) = "ok"
    /\ ~req[s].rsv
    /\ req'[s].rsv /\ ~req'[s].captured /\ ~req'[s].released /\ SameTerms(s)
Captures(s) ==
    /\ CaptureCall(s)
    /\ req[s].rsv /\ ~req[s].captured /\ ~req[s].released
    /\ req'[s].rsv /\ req'[s].captured /\ ~req'[s].released /\ SameTerms(s)
Forgives(s) ==
    /\ UNCHANGED ledger
    /\ req[s].rsv /\ ~req[s].captured /\ ~req[s].released
    /\ req'[s].rsv /\ ~req'[s].captured /\ req'[s].released /\ SameTerms(s)
Refunds(s) ==
    /\ ReleaseCall(s)
    /\ req[s].phase = "releasing" /\ req'[s].phase # "releasing"
    /\ req[s].rsv /\ req[s].released
    /\ req'[s].rsv /\ ~req'[s].captured /\ req'[s].released /\ SameTerms(s)

Acts(s) ==
    /\ now' = now
    /\ \A t \in Streams : t # s => req'[t] = req[t]
    /\ Keeps(s) \/ Accepts(s) \/ Captures(s) \/ Forgives(s) \/ Refunds(s)

\* Every way in which stream s moves, with any balance.
Moving(s) ==
    \/ \E route \in Routes \cup {NoRoute}, hdr \in Headers : RequestHeaders(s, route, hdr)
    \/ \E v \in Nat : BalanceRead(s, v)
    \/ \E d \in {"deadline", "dependency_unavailable"} : BalanceFailed(s, d)
    \/ ReserveReply(s) \/ ReserveLate(s) \/ CaptureReply(s) \/ ReleaseReply(s)
    \/ \E giveUp \in BOOLEAN :
          ReserveLost(s, giveUp) \/ CaptureLost(s, giveUp) \/ ReleaseLost(s, giveUp)
    \/ Envoy(s)

\* The request phase up to the script, with any balance.
LEMMA RequestActs ==
  ASSUME LifeInv, NEW s \in Streams,
         \/ \E route \in Routes \cup {NoRoute}, hdr \in Headers : RequestHeaders(s, route, hdr)
         \/ \E v \in Nat : BalanceRead(s, v)
  PROVE  Acts(s) /\ Lived(req[s])'
  <1>1. /\ req \in [Streams -> Request] /\ req[s] \in Request /\ now \in Nat
        /\ Lived(req[s])
    BY DEF LifeInv, FilterInv, TypeOK, LedgerTypeOK
  <1>2. /\ now' = now /\ UNCHANGED ledger /\ req[s].phase \in {"idle", "balance"}
        /\ req[s].rsv = FALSE
    BY <1>1 DEF RequestHeaders, BalanceRead, LifeInv, FilterInv, PhaseInv, Request
  <1>3. req[s].captured = FALSE /\ req[s].released = FALSE
    BY <1>1, <1>2 DEF Lived, Request
  <1>4. \A t \in Streams : t # s => req'[t] = req[t]
    BY <1>1 DEF RequestHeaders, BalanceRead, Becomes
  <1> DEFINE q == req'[s]
  <1>5. CASE \E route \in Routes \cup {NoRoute}, hdr \in Headers : RequestHeaders(s, route, hdr)
    <2> PICK route \in Routes \cup {NoRoute}, hdr \in Headers : RequestHeaders(s, route, hdr)
        BY <1>5
    <2> DEFINE d == Screen(s, route, hdr)
               price == table[ReplicaOf[s]][route]
    <2>1. /\ q.phase = IF d = "none" THEN "balance"
                       ELSE IF d = "unpriced" THEN "open" ELSE "closed"
          /\ q.price = IF d = "none" THEN price ELSE req[s].price
          /\ q.t0 = now /\ q.rsv = req[s].rsv
          /\ q.captured = req[s].captured /\ q.released = req[s].released
      BY <1>1 DEF RequestHeaders, Becomes, Request
    <2>2. d = "none" => price > 0
      <3> SUFFICES ASSUME d = "none" PROVE price > 0
          OBVIOUS
      <3>1. route # NoRoute /\ table[ReplicaOf[s]] # NoTable /\ price # 0
        BY DEF Screen
      <3>2. table[ReplicaOf[s]] \in Tables
        BY <3>1, FilterAssumption DEF LifeInv, FilterInv, TypeOK
      <3>3. price \in 0..MaxExact
        BY <3>1, <3>2, FilterAssumption
      <3> QED BY <3>1, <3>3
    <2> HIDE DEF q, d, price
    <2>3. Lived(q)
      BY <1>1, <1>2, <1>3, <2>1, <2>2 DEF Lived
    <2>4. Keeps(s)
      BY <1>2, <2>1 DEF Keeps, q
    <2> QED BY <1>2, <1>4, <2>3, <2>4 DEF Acts, Lived, q
  <1>6. CASE \E v \in Nat : BalanceRead(s, v)
    <2> PICK v \in Nat : BalanceRead(s, v)
        BY <1>6
    <2>1. /\ q.phase = "reserving" /\ q.price = req[s].price /\ q.t0 = req[s].t0
          /\ q.rsv = req[s].rsv
          /\ q.captured = req[s].captured /\ q.released = req[s].released
      BY <1>1 DEF BalanceRead, Becomes, Request
    <2>2. req[s].price > 0 /\ req[s].t0 <= now
      BY <1>1 DEF BalanceRead, Lived
    <2> HIDE DEF q
    <2>3. Lived(q)
      BY <1>2, <1>3, <2>1, <2>2 DEF Lived
    <2>4. Keeps(s)
      BY <1>2, <2>1 DEF Keeps, q
    <2> QED BY <1>2, <1>4, <2>3, <2>4 DEF Acts, Lived, q
  <1> QED BY <1>5, <1>6

\* The steps that leave Redis alone.
LEMMA IdleActs ==
  ASSUME LifeInv, NEW s \in Streams, now' = now, UNCHANGED ledger,
         \/ req[s].phase \in {"balance", "reserving"} /\ \E d \in Decisions : Refuse(s, d)
         \/ Again(s)
         \/ req[s].phase \in {"open", "capturing"} /\ req[s].rsv
              /\ \E d \in Decisions : StartRelease(s, d)
         \/ req[s].phase = "releasing" /\ AfterRelease(s)
         \/ req[s].phase = "open" /\ ~req[s].rsv
              /\ Becomes(s, [req[s] EXCEPT !.phase = "answered"])
         \/ req[s].phase = "open" /\ Becomes(s, [req[s] EXCEPT !.phase = "capturing"])
         \/ req[s].phase # "releasing" /\ Becomes(s, [req[s] EXCEPT !.phase = "closed"])
  PROVE  Acts(s) /\ Lived(req[s])'
  <1>1. req \in [Streams -> Request] /\ req[s] \in Request /\ Lived(req[s])
    BY DEF LifeInv, FilterInv, TypeOK
  <1>2. \A t \in Streams : t # s => req'[t] = req[t]
    BY <1>1 DEF Refuse, Again, StartRelease, AfterRelease, Becomes
  <1> DEFINE q == req'[s]
             Same == /\ q.rsv = req[s].rsv /\ q.captured = req[s].captured
                     /\ q.pay = req[s].pay /\ q.price = req[s].price /\ q.t0 = req[s].t0
             Kept == /\ q.released = req[s].released
                     /\ \/ q.phase = req[s].phase
                        \/ q.phase = "closed" /\ req[s].phase # "releasing"
                        \/ q.phase \in {"answered", "closed"} /\ req[s].phase = "releasing"
                        \/ q.phase = "answered" /\ ~req[s].rsv /\ req[s].phase = "open"
                        \/ q.phase = "capturing" /\ req[s].phase = "open"
             Begun == /\ q.released /\ q.phase = "releasing" /\ req[s].rsv
                      /\ req[s].phase \in {"open", "capturing"}
  <1>3. Same /\ (Kept \/ Begun)
    <2>1. CASE req[s].phase \in {"balance", "reserving"} /\ \E d \in Decisions : Refuse(s, d)
      <3> PICK d \in Decisions : Refuse(s, d)
          BY <2>1
      <3>1. q = [req[s] EXCEPT !.phase = "closed", !.decision = d]
        BY <1>1 DEF Refuse, Becomes
      <3> QED BY <1>1, <2>1, <3>1 DEF Request
    <2>2. CASE Again(s)
      BY <1>1, <2>2 DEF Again, Becomes, Request
    <2>3. CASE /\ req[s].phase \in {"open", "capturing"} /\ req[s].rsv
             /\ \E d \in Decisions : StartRelease(s, d)
      <3> PICK d \in Decisions : StartRelease(s, d)
          BY <2>3
      <3>1. q = [req[s] EXCEPT !.phase = "releasing", !.decision = d, !.released = TRUE,
                               !.tries = 0]
        BY <1>1 DEF StartRelease, Becomes
      <3>2. q.phase = "releasing" /\ Same
        BY <1>1, <3>1 DEF Request
      <3>3. q.released = TRUE
        BY <1>1, <3>1, Zenon DEF Request
      <3> HIDE DEF q, Same
      <3> QED BY <2>3, <3>2, <3>3
    <2>4. CASE req[s].phase = "releasing" /\ AfterRelease(s)
      BY <1>1, <2>4 DEF AfterRelease, Becomes, Request
    <2>5. CASE /\ req[s].phase = "open" /\ ~req[s].rsv
             /\ Becomes(s, [req[s] EXCEPT !.phase = "answered"])
      BY <1>1, <2>5 DEF Becomes, Request
    <2>6. CASE req[s].phase = "open" /\ Becomes(s, [req[s] EXCEPT !.phase = "capturing"])
      BY <1>1, <2>6 DEF Becomes, Request
    <2>7. CASE /\ req[s].phase # "releasing"
             /\ Becomes(s, [req[s] EXCEPT !.phase = "closed"])
      BY <1>1, <2>7 DEF Becomes, Request
    <2> QED BY <2>1, <2>2, <2>3, <2>4, <2>5, <2>6, <2>7
  <1> HIDE DEF q
  <1>4. Lived(q)
    BY <1>1, <1>3 DEF Lived
  <1>5. Kept => Keeps(s)
    BY <1>3 DEF Keeps, SameTerms, q
  <1>6. Begun => Forgives(s)
    BY <1>1, <1>3 DEF Forgives, SameTerms, Lived, q
  <1> QED BY <1>2, <1>3, <1>4, <1>5, <1>6 DEF Acts, Lived, q

\* The steps whose call on Redis runs and answers.
LEMMA CallActs ==
  ASSUME LifeInv, NEW s \in Streams,
         \/ ReserveReply(s) /\ ReserveOutcome(req[s].pay, req[s].price, req[s].bal) = "ok"
         \/ CaptureReply(s) \/ ReleaseReply(s)
  PROVE  Acts(s) /\ Lived(req[s])'
  <1>1. /\ req \in [Streams -> Request] /\ req[s] \in Request /\ Lived(req[s])
        /\ now \in Nat /\ req[s].t0 \in Nat
    BY DEF LifeInv, FilterInv, TypeOK, LedgerTypeOK, Request
  <1>2. now' = now /\ \A t \in Streams : t # s => req'[t] = req[t]
    BY <1>1 DEF ReserveReply, CaptureReply, ReleaseReply, AfterRelease, Becomes
  <1> DEFINE q == req'[s]
  <1>3. CASE ReserveReply(s) /\ ReserveOutcome(req[s].pay, req[s].price, req[s].bal) = "ok"
    <2>1. /\ req[s].phase = "reserving" /\ now <= req[s].t0 + Deadline /\ ReserveCall(s)
          /\ q = [req[s] EXCEPT !.phase = "open", !.decision = "payment_accepted",
                                !.rsv = TRUE, !.tries = 0]
      BY <1>1, <1>3 DEF ReserveReply, Becomes
    <2>2. req[s].rsv = FALSE /\ req[s].captured = FALSE /\ req[s].released = FALSE
      BY <1>1, <2>1 DEF LifeInv, FilterInv, PhaseInv, Lived, Request
    <2>3. /\ q.phase = "open" /\ q.rsv = TRUE /\ q.captured = FALSE /\ q.released = FALSE
          /\ q.pay = req[s].pay /\ q.price = req[s].price /\ q.t0 = req[s].t0
      BY <1>1, <2>1, <2>2 DEF Request
    <2> HIDE DEF q
    <2>4. HoldsOutliveServing => now < req[s].t0 + InflightTTL
      BY <1>1, <2>1, FilterAssumption, LedgerAssumption DEF HoldsOutliveServing
    <2>5. req[s].price > 0 /\ req[s].t0 <= now
      BY <1>1, <2>1 DEF Lived
    <2>6. Lived(q)
      BY <2>3, <2>4, <2>5 DEF Lived
    <2>7. Accepts(s)
      BY <1>3, <2>1, <2>2, <2>3 DEF Accepts, SameTerms, q
    <2> QED BY <1>2, <2>6, <2>7 DEF Acts, Lived, q
  <1>4. CASE CaptureReply(s)
    <2>1. /\ req[s].phase = "capturing" /\ CaptureCall(s)
          /\ q = [req[s] EXCEPT !.phase = "answered", !.decision = "paid", !.captured = TRUE]
      BY <1>1, <1>4 DEF CaptureReply, Becomes
    <2>2. req[s].rsv = TRUE /\ req[s].captured = FALSE /\ req[s].released = FALSE
      BY <1>1, <2>1 DEF LifeInv, FilterInv, PhaseInv, Lived, Request
    <2>3. /\ q.phase = "answered" /\ q.rsv = TRUE /\ q.captured = TRUE /\ q.released = FALSE
          /\ q.pay = req[s].pay /\ q.price = req[s].price /\ q.t0 = req[s].t0
      BY <1>1, <2>1, <2>2 DEF Request
    <2> HIDE DEF q
    <2>4. Lived(q)
      BY <1>1, <2>2, <2>3 DEF Lived
    <2>5. Captures(s)
      BY <2>1, <2>2, <2>3 DEF Captures, SameTerms, q
    <2> QED BY <1>2, <2>4, <2>5 DEF Acts, Lived, q
  <1>5. CASE ReleaseReply(s)
    <2>1. /\ req[s].phase = "releasing" /\ ReleaseCall(s)
          /\ q = [req[s] EXCEPT !.phase =
                     IF req[s].decision = "released_stream_end" THEN "closed" ELSE "answered"]
      BY <1>1, <1>5 DEF ReleaseReply, AfterRelease, Becomes
    <2>2. req[s].rsv = TRUE /\ req[s].captured = FALSE /\ req[s].released = TRUE
      BY <1>1, <2>1 DEF LifeInv, FilterInv, PhaseInv, Lived, Request
    <2>3. /\ q.phase \in {"answered", "closed"} /\ q.rsv = TRUE /\ q.captured = FALSE
          /\ q.released = TRUE
          /\ q.pay = req[s].pay /\ q.price = req[s].price /\ q.t0 = req[s].t0
      BY <1>1, <2>1, <2>2 DEF Request
    <2> HIDE DEF q
    <2>4. Lived(q)
      BY <1>1, <2>2, <2>3 DEF Lived
    <2>5. Refunds(s)
      BY <2>1, <2>2, <2>3 DEF Refunds, SameTerms, q
    <2> QED BY <1>2, <2>4, <2>5 DEF Acts, Lived, q
  <1> QED BY <1>3, <1>4, <1>5

\* When every reply arrives, each step of a stream is one of the five.
LEMMA HandlerActs ==
  ASSUME RepliesArrive, LifeInv, NEW s \in Streams, Moving(s)
  PROVE  Acts(s) /\ Lived(req[s])'
  <1>1. CASE \/ \E route \in Routes \cup {NoRoute}, hdr \in Headers :
                   RequestHeaders(s, route, hdr)
             \/ \E v \in Nat : BalanceRead(s, v)
    BY <1>1, RequestActs
  <1>2. CASE \E d \in {"deadline", "dependency_unavailable"} : BalanceFailed(s, d)
    BY <1>2, IdleActs DEF BalanceFailed, Decisions
  <1>3. CASE ReserveReply(s)
    <2>1. CASE ReserveOutcome(req[s].pay, req[s].price, req[s].bal) = "ok"
      BY <1>3, <2>1, CallActs
    <2>2. CASE ReserveOutcome(req[s].pay, req[s].price, req[s].bal) # "ok"
      <3>1. ReserveOutcome(req[s].pay, req[s].price, req[s].bal) \in Decisions
        BY <2>2 DEF ReserveOutcome, Decisions
      <3>2. /\ req[s].phase = "reserving" /\ now' = now /\ UNCHANGED ledger
            /\ Refuse(s, ReserveOutcome(req[s].pay, req[s].price, req[s].bal))
        BY <1>3, <2>2 DEF ReserveReply, ReserveCall, ReserveScript
      <3> QED BY <3>1, <3>2, IdleActs
    <2> QED BY <2>1, <2>2
  <1>4. CASE ReserveLate(s)
    BY <1>4, IdleActs DEF ReserveLate, Decisions
  <1>5. CASE CaptureReply(s) \/ ReleaseReply(s)
    BY <1>5, CallActs
  <1>6. CASE \E giveUp \in BOOLEAN : ReserveLost(s, giveUp)
    <2> PICK giveUp \in BOOLEAN : ReserveLost(s, giveUp)
        BY <1>6
    <2>1. now' = now /\ UNCHANGED ledger
      BY DEF ReserveLost, Lost, Fault, RepliesArrive
    <2>2. Again(s) \/ (req[s].phase = "reserving" /\ \E d \in Decisions : Refuse(s, d))
      BY DEF ReserveLost, Decisions
    <2> QED BY <2>1, <2>2, IdleActs
  <1>7. CASE \E giveUp \in BOOLEAN : CaptureLost(s, giveUp)
    <2> PICK giveUp \in BOOLEAN : CaptureLost(s, giveUp)
        BY <1>7
    <2>1. now' = now /\ UNCHANGED ledger
      BY DEF CaptureLost, Lost, Fault, RepliesArrive
    <2>2. req[s].phase = "capturing" /\ req[s].rsv
      BY DEF CaptureLost, LifeInv, FilterInv, PhaseInv
    <2>3. Again(s) \/ \E d \in Decisions : StartRelease(s, d)
      BY DEF CaptureLost, Decisions
    <2> QED BY <2>1, <2>2, <2>3, IdleActs
  <1>8. CASE \E giveUp \in BOOLEAN : ReleaseLost(s, giveUp)
    <2> PICK giveUp \in BOOLEAN : ReleaseLost(s, giveUp)
        BY <1>8
    <2>1. now' = now /\ UNCHANGED ledger
      BY DEF ReleaseLost, Lost, Fault, RepliesArrive
    <2>2. Again(s) \/ (req[s].phase = "releasing" /\ AfterRelease(s))
      BY DEF ReleaseLost
    <2> QED BY <2>1, <2>2, IdleActs
  <1>9. CASE \E is2xx \in BOOLEAN : ResponseHeaders(s, is2xx)
    <2>1. now' = now /\ UNCHANGED ledger /\ req[s].phase = "open"
      BY <1>9 DEF ResponseHeaders
    <2>2. \/ ~req[s].rsv /\ Becomes(s, [req[s] EXCEPT !.phase = "answered"])
          \/ Becomes(s, [req[s] EXCEPT !.phase = "capturing"])
          \/ req[s].rsv /\ \E d \in Decisions : StartRelease(s, d)
      BY <1>9 DEF ResponseHeaders, Decisions
    <2> QED BY <2>1, <2>2, IdleActs
  <1>10. CASE StreamEnd(s)
    <2>1. now' = now /\ UNCHANGED ledger /\ req[s].phase \in {"open", "answered"}
      BY <1>10 DEF StreamEnd
    <2>2. \/ Becomes(s, [req[s] EXCEPT !.phase = "closed"])
          \/ /\ req[s].rsv /\ ~req[s].captured /\ ~req[s].released
             /\ \E d \in Decisions : StartRelease(s, d)
      BY <1>10 DEF StreamEnd, Decisions
    <2>3. req[s].phase = "answered" /\ req[s].rsv => req[s].captured \/ req[s].released
      BY DEF LifeInv, Lived
    <2> QED BY <2>1, <2>2, <2>3, IdleActs
  <1> QED BY <1>1, <1>2, <1>3, <1>4, <1>5, <1>6, <1>7, <1>8, <1>9, <1>10 DEF Moving, Envoy

\* A step of a stream keeps LifeInv.
LEMMA MovingLives ==
  ASSUME RepliesArrive, LifeInv, NEW s \in Streams, Moving(s)
  PROVE  LifeInv' /\ Acts(s)
  <1>1. Acts(s) /\ Lived(req[s])'
    BY HandlerActs
  <1>2. FilterInv'
    BY RequestHeadersStep, BalanceReadStep, AcceptStep, HandlerStep DEF LifeInv, Moving
  <1>3. ASSUME NEW t \in Streams PROVE Lived(req[t])'
    <2>1. CASE t = s
      BY <1>1, <2>1
    <2>2. CASE t # s
      BY <1>1, <2>2 DEF Acts, LifeInv, Lived
    <2> QED BY <2>1, <2>2
  <1>4. \A t \in Streams : req[t].captured => req[t].rsv
    BY DEF LifeInv, Lived
  <1>5. QueueInv'
    <2>1. CASE Captures(s)
      <3>1. req' = [req EXCEPT ![s] = req'[s]]
        BY <1>1, <1>2 DEF Acts, LifeInv, FilterInv, TypeOK
      <3>2. /\ Capture(req[s].pay, req[s].price) /\ req[s].rsv /\ ~req[s].captured
            /\ req'[s].captured /\ req'[s].pay = req[s].pay
        BY <2>1 DEF Captures, CaptureCall, SameTerms
      <3> QED BY <1>4, <3>1, <3>2, CaptureQueues DEF LifeInv
    <2>2. CASE ~Captures(s)
      <3>1. stream' = stream
        BY <1>1, <2>2 DEF Acts, Keeps, Accepts, Forgives, Refunds, ledger,
               ReserveCall, ReserveScript, ReleaseCall, ReleaseScript
      <3>2. ASSUME NEW t \in Streams
            PROVE  /\ req'[t].captured <=> req[t].captured
                   /\ req[t].captured => req'[t].pay = req[t].pay
        <4>1. Lived(req[t])
          BY DEF LifeInv
        <4> QED BY <1>1, <2>2, <4>1
                DEF Acts, Keeps, Accepts, Forgives, Refunds, SameTerms, Lived
      <3> QED BY <3>1, <3>2 DEF LifeInv, QueueInv, JobsOf
    <2> QED BY <2>1, <2>2
  <1> QED BY <1>1, <1>2, <1>3, <1>5 DEF LifeInv

\* A crash ends handlers and changes no reservation.
LEMMA CrashLives ==
  ASSUME LifeInv, NEW r \in Replicas, Crash(r)
  PROVE  /\ LifeInv' /\ now' = now /\ UNCHANGED ledger
         /\ \A t \in Streams :
               /\ req'[t].rsv = req[t].rsv /\ req'[t].captured = req[t].captured
               /\ req'[t].released = req[t].released /\ SameTerms(t)
               /\ req'[t].phase = req[t].phase \/ req'[t].phase = "closed"
  <1>1. now' = now /\ UNCHANGED ledger /\ stream' = stream
    BY DEF Crash, ledger
  <1>2. ASSUME NEW t \in Streams
        PROVE  /\ req'[t].rsv = req[t].rsv /\ req'[t].captured = req[t].captured
               /\ req'[t].released = req[t].released /\ SameTerms(t)
               /\ req'[t].phase = req[t].phase \/ req'[t].phase = "closed"
    <2>1. req[t] \in Request
      BY DEF LifeInv, FilterInv, TypeOK
    <2>2. req'[t] = req[t] \/ req'[t] = [req[t] EXCEPT !.phase = "closed"]
      BY DEF Crash
    <2> QED BY <2>1, <2>2 DEF Request, SameTerms
  <1>3. FilterInv'
    BY CrashStep DEF LifeInv
  <1>4. \A t \in Streams : Lived(req[t])'
    BY <1>1, <1>2 DEF LifeInv, Lived, SameTerms
  <1>5. QueueInv'
    BY <1>1, <1>2 DEF LifeInv, QueueInv, JobsOf, SameTerms
  <1> QED BY <1>1, <1>2, <1>3, <1>4, <1>5 DEF LifeInv

\* The clock passes.
LEMMA TickLives ==
  ASSUME LifeInv, Tick
  PROVE  LifeInv'
  <1>1. now' = now + 1 /\ stream' = stream /\ req' = req
    BY DEF Tick, Advance, ledger, filterVars
  <1>2. FilterInv'
    BY TickStep DEF LifeInv
  <1>3. ASSUME NEW s \in Streams PROVE Lived(req[s])'
    <2>1. req[s].t0 \in Nat /\ now \in Nat /\ Lived(req[s])
      BY DEF LifeInv, FilterInv, TypeOK, LedgerTypeOK, Request
    <2>2. /\ HoldsOutliveServing
          /\ req[s].phase \in {"open", "capturing", "releasing"}
          => now + 1 < req[s].t0 + InflightTTL
      <3> SUFFICES ASSUME HoldsOutliveServing,
                          req[s].phase \in {"open", "capturing", "releasing"}
                   PROVE  now + 1 < req[s].t0 + InflightTTL
          OBVIOUS
      <3>1. now < req[s].t0 + MaxServe
        BY DEF Tick
      <3>2. MaxServe \in Nat /\ InflightTTL \in Nat /\ MaxServe < InflightTTL
        BY FilterAssumption, LedgerAssumption DEF HoldsOutliveServing
      <3> QED BY <2>1, <3>1, <3>2
    <2>3. req[s].t0 <= now => req[s].t0 <= now + 1
      BY <2>1
    <2> QED BY <1>1, <2>1, <2>2, <2>3 DEF Lived
  <1>4. QueueInv'
    BY <1>1 DEF LifeInv, QueueInv, JobsOf
  <1> QED BY <1>2, <1>3, <1>4 DEF LifeInv

\* Nothing is reserved at the start.
LEMMA LivesAtFirst == Init => LifeInv
  <1> SUFFICES ASSUME Init PROVE LifeInv
      OBVIOUS
  <1>1. FilterInv
    BY InitHolds
  <1>2. stream = <<>> /\ \A s \in Streams : req[s] = NewRequest
    BY DEF Init, LedgerInit, FilterInit
  <1>3. QueueInv /\ \A s \in Streams : Lived(req[s])
    BY <1>2 DEF QueueInv, Lived, NewRequest
  <1> QED BY <1>1, <1>3 DEF LifeInv

\* A step of anyone else that leaves the requests, the claims and the queue alone.
LEMMA OthersLive ==
  ASSUME LifeInv, UNCHANGED <<now, nonceExp, stream, req, faults>>,
         table' \in [Replicas -> Tables \cup {NoTable}], LedgerTypeOK', InflightExact'
  PROVE  LifeInv'
  <1>1. now' = now /\ nonceExp' = nonceExp /\ stream' = stream /\ req' = req /\ faults' = faults
    OBVIOUS
  <1>2. FilterInv'
    BY <1>1 DEF LifeInv, FilterInv, TypeOK, PhaseInv, WindowInv, ClaimInv, ServedOnce, Window
  <1>3. QueueInv' /\ \A s \in Streams : Lived(req[s])'
    BY <1>1 DEF LifeInv, QueueInv, JobsOf, Lived
  <1> QED BY <1>2, <1>3 DEF LifeInv

==============================================================================
