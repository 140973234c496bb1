------------------------------ MODULE MCSettle -------------------------------
(* A small instance of the settlers for TLC. *)
EXTENDS SettleProps, TLC

CONSTANTS c1, c2, m1, m2, p1

mcAlike == [m \in {m1, m2} |->
    [payer |-> p1, accepted |-> 1, value |-> 1, validAfter |-> 0, validBefore |-> 2]]
mcFunds == p1 :> 2

==============================================================================
