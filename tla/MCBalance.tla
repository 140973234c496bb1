------------------------------ MODULE MCBalance ------------------------------
(* A small instance of the balance cache for TLC. *)
EXTENDS BalanceProps, TLC

CONSTANTS s1, s2, r1, r2, p1

mcReplicaOf == s1 :> r1 @@ s2 :> r2
mcSkew == r1 :> 1 @@ r2 :> 0


==============================================================================
