----------------------------- MODULE GatewayProps ----------------------------
(***************************************************************************)
(* What only the whole gateway can get right or wrong: it implements the   *)
(* life cycle of a payment, and the in-flight sum covers a hold from the   *)
(* request to the end of its settlement.                                   *)
(***************************************************************************)
EXTENDS Gateway, FiniteSetsExt

Accepted(m) == {s \in Streams : req[s].rsv /\ req[s].pay = m}

\* Where a payment stands: the chain's word first, then the filter's.
Status(m) ==
    IF nonce[m] = "settled" THEN "charged"
    ELSE IF \E s \in Accepted(m) : req[s].released THEN "forgiven"
    ELSE IF \E s \in Accepted(m) : req[s].captured THEN "owed"
    ELSE IF Accepted(m) # {} THEN "held" ELSE "unused"

Abstract == INSTANCE Payment WITH status <- [m \in Payments |-> Status(m)]

\* The gateway implements the payment life cycle: a signature is accepted once, one that was
\* forgiven (released) is never charged, and only what was captured ever is, through retries,
\* redeliveries, late landings and crashes of filters and settlers.
LifeCycle == Abstract!Spec

\* The accepted amounts that are still out, within the in-flight key's lifetime: held by a
\* request, or captured and not given back by a settler.
Settling(m) == \E i \in DOMAIN stream : stream[i].pay = m /\ i \notin released
Alive(s) == now < req[s].t0 + InflightTTL
Out(p) ==
    {s \in Streams : /\ req[s].rsv /\ ~req[s].released /\ Alive(s)
                     /\ F!Payer(s) = p
                     /\ req[s].captured => Settling(req[s].pay)}

Prices == [s \in Streams |-> req[s].price]

\* From the request until its settlement is over, a payment is counted in flight, whichever
\* of the filter's and the settler's releases fail or run at once (reserve.go: "sum of
\* accepted-but-unsettled amounts").
CountedUntilSettled ==
    \A p \in Payers : SumFunctionOnSet(Prices, Out(p)) <= F!Inflight(p)

------------------------------------------------------------------------------
(* Why it implements the life cycle: what links the chain to the filter *)

\* Nothing is sent to the chain, and nothing settles, but what was captured.
ChainInv ==
    \A m \in Payments :
        mempool[m] > 0 \/ nonce[m] = "settled" => \E i \in DOMAIN stream : stream[i].pay = m

------------------------------------------------------------------------------
(* When and why a payment is counted until it is settled *)

\* A settler gives an amount back for the first time, and while the amount is still counted.
ReleasesAreFirst ==
    \A c \in Settlers : S!At(c, "releasing") => S!Current(c) \notin released
ReleasesAreInTime ==
    \A c \in Settlers : S!At(c, "releasing") => \A s \in Accepted(S!Pay(c)) : Alive(s)
ReleasesAreDue == ReleasesAreFirst /\ ReleasesAreInTime

\* What is in the sum: the amounts still out, and those of releases the filter has decided
\* on and that have not reached Redis.
InSum(s) ==
    /\ req[s].rsv /\ Alive(s)
    /\ \/ req[s].phase = "releasing"
       \/ ~req[s].released /\ (req[s].captured => Settling(req[s].pay))

InSumOf(p) == {s \in Streams : InSum(s) /\ F!Payer(s) = p}

\* The sum covers it, and the key outlives it.
SumsCover ==
    \A p \in Payers :
        /\ SumFunctionOnSet(Prices, InSumOf(p)) <= F!Inflight(p)
        /\ \A s \in InSumOf(p) : req[s].t0 + InflightTTL <= inflightExp[p]

\* A job says what its request reserved.
JobsSay ==
    \A s \in Streams : req[s].captured =>
        \E i \in DOMAIN stream : stream[i] = [pay |-> req[s].pay, amount |-> req[s].price]

CountInv == SumsCover /\ JobsSay

==============================================================================
