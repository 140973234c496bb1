---------------------------- MODULE CheckoutProps ----------------------------
(***************************************************************************)
(* What a buyer may count on while tables change, replicas disagree and    *)
(* die, and connections break.                                             *)
(***************************************************************************)
EXTENDS Checkout

\* Every variable has its type.
TypeOK == now \in 0..MaxTime /\ BuyerTypeOK /\ SellerTypeOK

\* How far the buyer's clock is ahead of the replica's.
Ahead(b, r) == wallet[b].skew - Skew[r]

RefusalHasReason(b, r) ==
    Refuse(b, r) /\ pay'[b].result = "refused" =>
        \/ table[r] # pay[b].offer
        \/ now - pay[b].signedAt >= Life(wallet[b], pay[b].offer) + Ahead(b, r)
        \/ Ahead(b, r) > SkewAllowance

\* A claim that was not there when the request came is the request's own.
OwnClaim(b) == b \notin claimed /\ b \in claimed'

ReplayHasReason(b) ==
    pay[b].result # "replay" /\ pay'[b].result = "replay" => pay[b].resent \/ OwnClaim(b)

\* A payment that the repository's buyer signed for our own 402 is turned down for one of five
\* reasons only.  As invalid: the replica asks for other terms than the one that quoted, the
\* signature's life is over, or the buyer's clock runs ahead by more than the allowance (Sign:
\* "capped at the requirement's maxTimeoutSeconds"; SkewAllowance: "how far ahead of ours a
\* buyer's clock may run").  As a replay: net/http had sent it before, or this request's own
\* reserve script made the claim that its retry meets (rdb.RequestPath: MaxRetries 1).
HonestPaymentHonoured ==
    [][\A b \in Buyers : ReplayHasReason(b) /\ \A r \in Replicas : RefusalHasReason(b, r)]_vars

\* What Verify compares of a payment's offer with a route's.
SameTerms(x, y) == x.network = y.network /\ x.amount = y.amount /\ x.payTo = y.payTo

\* The job that settles a payment asks for what the buyer agreed to, to the same payee, on its
\* network and within its limit, whatever tables the replicas have loaded since; only the
\* window a signature may live can differ, which is no part of the charge (st.entry, Capture).
ChargedAsQuoted ==
    \A b \in Buyers : job[b] # NoOffer =>
        /\ SameTerms(job[b], pay[b].offer)
        /\ job[b].amount <= wallet[b].limit
        /\ job[b].network = wallet[b].network

\* A buyer whose one request was answered with an error is not charged, except when the
\* replica died between the capture and the answer: otherwise there is a job only if it got
\* its 2xx, stopped waiting, or lost the connection (responseHeaders: "nothing was served
\* ...: nobody is charged").
ErrorMeansUncharged ==
    \A b \in Buyers : pay[b].at = "ended" /\ job[b] # NoOffer =>
        pay[b].resent \/ pay[b].result \in {"ok", "lost", "killed", "timed_out"}

------------------------------------------------------------------------------
(* What makes them inductive *)

\* The seller has nothing of this buyer.
NothingHeld(b) == ~Open(b) /\ b \notin claimed /\ job[b] = NoOffer

\* The buyer has signed an offer that it may pay, with Sign's validBefore.
Signed(b) ==
    /\ pay[b].offer \in Prices
    /\ pay[b].offer.network = wallet[b].network
    /\ pay[b].offer.amount <= wallet[b].limit
    /\ pay[b].signedAt <= now
    /\ pay[b].before = pay[b].signedAt + wallet[b].skew + Life(wallet[b], pay[b].offer)

\* Before it has signed there is nothing of it at the seller's.
SignedInv(b) ==
    /\ pay[b].at \in {"idle", "asking", "quoted"} => NothingHeld(b)
    /\ pay[b].at = "quoted" => pay[b].offer \in Prices
    /\ pay[b].at \in {"paying", "waiting", "answering"} => Signed(b)
    /\ pay[b].at = "ended" => NothingHeld(b) \/ Signed(b)

\* Its stream was accepted, and its job made, on the terms of its offer.
TermsInv(b) ==
    /\ Open(b) => SameTerms(stream[b].entry, pay[b].offer)
    /\ job[b] # NoOffer => SameTerms(job[b], pay[b].offer)

\* How a Pay may end that the seller can still charge for.
Chargeable == {"ok", "lost", "killed", "timed_out"}

\* If it sent its signature once, the seller has no claim and no stream of it while it is on
\* its way, no job until the answer, and stream or job only while it waits or if it ended
\* chargeable.
OnceInv(b) ==
    ~pay[b].resent =>
        /\ pay[b].at = "paying" => ~Open(b) /\ b \notin claimed
        /\ pay[b].at \in {"paying", "waiting"} => job[b] = NoOffer
        /\ pay[b].at = "ended" /\ (Open(b) \/ job[b] # NoOffer) => pay[b].result \in Chargeable

BuyerInv(b) == SignedInv(b) /\ TermsInv(b) /\ OnceInv(b)

CheckoutInv == TypeOK /\ \A b \in Buyers : BuyerInv(b)

------------------------------------------------------------------------------

\* Every Pay returns, whatever filter and backend do (Pay, -timeout).
PayEnds == \A b \in Buyers : (pay[b].at = "asking") ~> (pay[b].at = "ended")

==============================================================================
