------------------------------ MODULE MCProcess ------------------------------
(* A small instance of the filter's process for TLC. *)
EXTENDS ProcessProps, TLC

CONSTANTS r1, q1, q2

==============================================================================
