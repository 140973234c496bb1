------------------------------- MODULE Payment -------------------------------
(***************************************************************************)
(* What the gateway promises about a signed payment, whoever handles it:   *)
(* it is accepted at most once; an accepted payment is then owed or        *)
(* forgiven, never both; and only what is owed is ever charged.            *)
(***************************************************************************)
CONSTANT Payments

VARIABLE status    \* by payment

Statuses == {"unused", "held", "owed", "forgiven", "charged"}

\* The steps a payment may take.
Allowed == {<<"unused", "held">>, <<"held", "owed">>, <<"held", "forgiven">>,
            <<"owed", "charged">>}

Init == status = [m \in Payments |-> "unused"]

Move(m, next) ==
    /\ <<status[m], next>> \in Allowed
    /\ status' = [status EXCEPT ![m] = next]

Next == \E m \in Payments, next \in Statuses : Move(m, next)

Spec == Init /\ [][Next]_status

==============================================================================
