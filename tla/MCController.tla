---------------------------- MODULE MCController -----------------------------
(* Small instances of the controller for TLC. *)
EXTENDS ControllerProps, TLC

CONSTANTS a, b, x, y, n1, n2, f1

mcTarget == a :> x @@ b :> y
mcOne == a :> x
mcSameRoute == a :> x @@ b :> x
mcNamespaceOf == x :> n1 @@ y :> n2
mcOneNamespace == x :> n1

==============================================================================
