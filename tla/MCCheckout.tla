----------------------------- MODULE MCCheckout ------------------------------
(* A small instance of buyers and replicas for TLC. *)
EXTENDS CheckoutProps, TLC

CONSTANTS r1, r2, b1, seller

cheap == [network |-> "testnet", amount |-> 1, payTo |-> seller, timeout |-> 2]
dear == [cheap EXCEPT !.amount = 2]
mcPrices == {cheap, dear, [cheap EXCEPT !.network = "mainnet"], [cheap EXCEPT !.timeout = 3]}

mcSkew == r1 :> 0 @@ r2 :> 1
patient == [network |-> "testnet", limit |-> 2, validFor |-> 0, skew |-> 1]
mcWallets == {patient, [patient EXCEPT !.limit = 1, !.validFor = 1, !.skew = 0],
              [patient EXCEPT !.validFor = 3, !.skew = 2]}

==============================================================================
