------------------------------ MODULE MCGateway ------------------------------
(* Small instances of the whole gateway for TLC. *)
EXTENDS GatewayProps, TLC

CONSTANTS s1, s2, r1, r2, c1, m1, m2, p1, rt

mcReplicaOf == s1 :> r1 @@ s2 :> r2
mcOneReplica == s1 :> r1 @@ s2 :> r1
mcSkew == [r \in Replicas |-> 0]

\* Payments that cost all the payer has.
mcAuth == [m \in {m1, m2} |->
    [payer |-> p1, accepted |-> 1, value |-> 1, validAfter |-> 0, validBefore |-> 2]]

mcAuthOne == [m \in {m1} |-> mcAuth[m]]

mcTables == {rt :> 1}
mcFunds == p1 :> 1
mcFundsTwo == p1 :> 2

\* The streams of one replica are alike, and so are the payments.
mcSymmetry == Permutations({s1, s2}) \cup Permutations({m1, m2})

==============================================================================
