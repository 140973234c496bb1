-------------------------------- MODULE Buyer --------------------------------
(***************************************************************************)
(* The paying client (package buyer, x402-buyer pay): one Pay asks for a   *)
(* URL, reads the 402, signs the offer it chooses and asks again with the  *)
(* signature.  It signs once; what the second answer is, it returns.       *)
(* The seller's side of the two requests is in Checkout.                   *)
(***************************************************************************)
EXTENDS Verify, Time, Sequences

CONSTANTS
    Buyers,
    Wallets,       \* wallets and options a buyer may have: see Wallet
    Patience,      \* -timeout: the limit for the whole command, in ticks
    MaxLosses,     \* bound: connections that break under a second request
    NoOffer

VARIABLES
    wallet,     \* by buyer: its wallet and options
    pay,        \* by buyer: where its Pay stands
    losses      \* how many connections broke

buyerVars == <<wallet, pay, losses>>

\* limit is -max, validFor is -valid-for (0: the offer's own), skew the buyer's clock
\* minus true time.
Wallet == [network : Networks, limit : Nat, validFor : Nat, skew : Int]

ASSUME BuyerAssumption ==
    /\ Wallets \subseteq Wallet
    /\ {Patience, MaxLosses, MaxTime} \subseteq Nat
    /\ NoOffer \notin Offer

Places == {"idle", "asking", "quoted", "paying", "waiting", "answering", "ended"}

\* free: the route has no price; refused, replay, insufficient: a 402 for the payment;
\* unavailable: a 5xx of the filter or of Envoy; killed: Envoy's 5xx when the replica died
\* under the request; lost: no answer came, or not all of it.
Results == {"none", "free", "no_offer", "above_limit", "ok", "backend_error", "refused",
            "replay", "insufficient", "unavailable", "killed", "lost", "timed_out"}

\* offer is the one being paid, start and signedAt are times, before the signed validBefore;
\* resent says whether the second request went out twice.
NewPay == [at |-> "idle", offer |-> NoOffer, start |-> 0, signedAt |-> 0, before |-> 0,
           resent |-> FALSE, result |-> "none"]

BuyerTypeOK ==
    /\ wallet \in [Buyers -> Wallets]
    /\ pay \in [Buyers -> [at : Places, offer : Offer \cup {NoOffer}, start : Nat,
                            signedAt : Nat, before : Int, resent : BOOLEAN,
                            result : Results]]
    /\ losses \in 0..MaxLosses

BuyerInit ==
    /\ wallet \in [Buyers -> Wallets]
    /\ pay = [b \in Buyers |-> NewPay]
    /\ losses = 0

Moves(b, p) == pay' = [pay EXCEPT ![b] = p]

Ends(b, result) == Moves(b, [pay[b] EXCEPT !.at = "ended", !.result = result])

------------------------------------------------------------------------------
(* Choose and Sign *)

\* Choose: the first offer on the wallet's network; one that is too dear ends the search.
Choose(w, accepts) ==
    LET payable == {i \in DOMAIN accepts : accepts[i].network = w.network}
        first == accepts[CHOOSE i \in payable : \A j \in payable : i <= j]
    IN
    IF payable = {} THEN [offer |-> NoOffer, why |-> "no_offer"]
    ELSE IF first.amount > w.limit THEN [offer |-> NoOffer, why |-> "above_limit"]
    ELSE [offer |-> first, why |-> "none"]

\* Mutant: validFor is taken as given.
LifeUncapped(w, offer) == IF w.validFor = 0 THEN offer.timeout ELSE w.validFor

\* Sign: how long the signature lives: validFor, and never more than the offer's window.
Life(w, offer) ==
    IF w.validFor = 0 \/ w.validFor > offer.timeout THEN offer.timeout ELSE w.validFor

Clock(b) == now + wallet[b].skew

\* What the signature header of the second request carries.
SignedPayment(b) == PaymentOf(pay[b].offer, wallet[b].network, pay[b].before)

------------------------------------------------------------------------------
(* Pay *)

\* The first request goes out.  No Pay starts that the clock could not see to its limit.
Ask(b) ==
    /\ pay[b].at = "idle"
    /\ now + Patience <= MaxTime
    /\ Moves(b, [pay[b] EXCEPT !.at = "asking", !.start = now])
    /\ UNCHANGED <<wallet, losses>>

\* The 402 is in hand: an offer is chosen and signed under a new nonce, or Pay ends.
SignOffer(b) ==
    LET c == Choose(wallet[b], Accepts(pay[b].offer)) IN
    /\ pay[b].at = "quoted"
    /\ IF c.offer = NoOffer THEN Ends(b, c.why)
       ELSE Moves(b, [pay[b] EXCEPT !.at = "paying", !.offer = c.offer, !.signedAt = now,
                        !.before = Clock(b) + Life(wallet[b], c.offer)])
    /\ UNCHANGED <<wallet, losses>>

\* Mutant: the second request goes out without the command's context.
ExpireFirst(b) ==
    /\ pay[b].at \in {"asking", "quoted"}
    /\ now >= pay[b].start + Patience
    /\ Ends(b, "timed_out")
    /\ UNCHANGED <<wallet, losses>>

\* The command's context ends: whatever Pay was doing, it returns an error.
Expire(b) ==
    /\ pay[b].at \notin {"idle", "ended"}
    /\ now >= pay[b].start + Patience
    /\ Ends(b, "timed_out")
    /\ UNCHANGED <<wallet, losses>>

\* The second answer arrives.
TakeAnswer(b) ==
    /\ pay[b].at = "answering"
    /\ Ends(b, "ok")
    /\ UNCHANGED <<wallet, losses>>

\* The connection breaks under the second request.  Pay returns the error; or net/http, on a
\* connection it had used before, sends the same request once more, signature and all.
LoseAnswer(b, again) ==
    /\ pay[b].at \in {"paying", "waiting", "answering"}
    /\ losses < MaxLosses
    /\ losses' = losses + 1
    /\ IF again THEN Moves(b, [pay[b] EXCEPT !.at = "paying", !.resent = TRUE])
       ELSE Ends(b, "lost")
    /\ UNCHANGED wallet

BuyerStep(b) ==
    \/ Ask(b) \/ SignOffer(b) \/ Expire(b) \/ TakeAnswer(b)
    \/ \E again \in BOOLEAN : LoseAnswer(b, again)

==============================================================================
