-------------------------------- MODULE Chain --------------------------------
(***************************************************************************)
(* The chain and the token contract, as the settler uses them through the  *)
(* facilitator (/settle) and the RPC (authorizationState, balanceOf).      *)
(* External: modelled from that use.  The contract spends an authorization *)
(* at most once, inside its validity window and out of the payer's funds;  *)
(* a payer may also cancel it.                                             *)
(***************************************************************************)
EXTENDS Reserve

CONSTANTS
    InitialFunds,   \* the payers' balances at the start
    LandWithin,     \* a transaction lands within this many ticks, or never
    MayCancel       \* whether payers cancel authorizations

ASSUME ChainAssumption ==
    /\ InitialFunds \in [Payers -> Nat]
    /\ LandWithin \in Nat
    /\ MayCancel \in BOOLEAN

VARIABLES
    nonce,      \* by payment: "fresh", "settled" or "cancelled"
    funds,      \* balanceOf, by payer
    mempool     \* by payment: until when its transaction may land (0: none is out)

chainVars == <<nonce, funds, mempool>>

ChainTypeOK ==
    /\ nonce \in [Payments -> {"fresh", "settled", "cancelled"}]
    /\ funds \in [Payers -> Nat]
    /\ mempool \in [Payments -> Nat]

ChainInit ==
    /\ nonce = [m \in Payments |-> "fresh"]
    /\ funds = InitialFunds
    /\ mempool = [m \in Payments |-> 0]

\* authorizationState: true once the authorization was settled or cancelled.
AuthorizationState(m) == nonce[m] # "fresh"

\* The facilitator sends the transfer out.
Submit(m) ==
    /\ mempool' = [mempool EXCEPT ![m] = now + LandWithin + 1]
    /\ UNCHANGED <<nonce, funds>>

\* The transfer is mined.
Land(m) ==
    /\ now < mempool[m]
    /\ nonce[m] = "fresh"
    /\ Auth[m].validAfter <= now /\ now < Auth[m].validBefore
    /\ funds[Auth[m].payer] >= Auth[m].value
    /\ nonce' = [nonce EXCEPT ![m] = "settled"]
    /\ funds' = [funds EXCEPT ![Auth[m].payer] = @ - Auth[m].value]
    /\ UNCHANGED mempool

\* The transaction is dropped or reverts.
Drop(m) ==
    /\ mempool' = [mempool EXCEPT ![m] = 0]
    /\ UNCHANGED <<nonce, funds>>

Cancel(m) ==
    /\ MayCancel
    /\ nonce[m] = "fresh"
    /\ nonce' = [nonce EXCEPT ![m] = "cancelled"]
    /\ UNCHANGED <<funds, mempool>>

==============================================================================
