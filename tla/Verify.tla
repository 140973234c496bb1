------------------------------- MODULE Verify --------------------------------
(***************************************************************************)
(* What a payment is and when it is good (packages x402 and verify).       *)
(*                                                                         *)
(* An offer is what a 402 asks for and what a payment echoes: network,     *)
(* amount, payee and the seconds a signature may live.  A payment echoes   *)
(* an offer and carries an authorization signed for one chain.  Scheme,    *)
(* transfer method and asset are those every table entry has; a payload    *)
(* that does not decode is refused before this (Filter's Malformed).       *)
(***************************************************************************)
EXTENDS Integers

CONSTANTS
    Networks, Payees,
    SkewAllowance     \* how far ahead of ours a buyer's clock may run

ASSUME VerifyAssumption == SkewAllowance \in Nat

\* pricing.Parse takes no table with a price or a timeout of zero.
Offer == [network : Networks, amount : Nat \ {0}, payTo : Payees, timeout : Nat \ {0}]

\* paywall.Render: the 402 offers the terms of the table's entry and nothing else.
Accepts(entry) == <<entry>>

\* Sign's payload: the offer echoed, and the authorization, with the chain of the domain it
\* was signed under.
PaymentOf(offer, chain, before) ==
    [accepted |-> offer, chain |-> chain, to |-> offer.payTo, value |-> offer.amount,
     validAfter |-> 0, validBefore |-> before]

Reasons == {"ok", "invalid_network", "recipient_mismatch", "value_mismatch",
            "valid_after", "valid_before", "signature"}

\* Verify: the first check that fails names the reason.  The echo has to be the route's
\* terms, which alone count; the signed value has the price as its floor; the window holds
\* our clock and ends at most timeout and the allowance from now; the signature is last.
Verify(clock, route, pp) ==
    LET acc == pp.accepted IN
    IF acc.network # route.network THEN "invalid_network"
    ELSE IF acc.payTo # route.payTo THEN "recipient_mismatch"
    ELSE IF acc.amount # route.amount THEN "value_mismatch"
    ELSE IF pp.to # route.payTo THEN "recipient_mismatch"
    ELSE IF pp.value < route.amount THEN "value_mismatch"
    ELSE IF pp.validAfter > clock THEN "valid_after"
    ELSE IF pp.validBefore <= clock THEN "valid_before"
    ELSE IF pp.validBefore > clock + route.timeout + SkewAllowance THEN "valid_before"
    ELSE IF pp.chain # route.network THEN "signature"
    ELSE "ok"

==============================================================================
