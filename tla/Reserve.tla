------------------------------- MODULE Reserve -------------------------------
(***************************************************************************)
(* The ledger that filters and settlers share in Redis (package reserve):  *)
(* the replay guard nonce:{payer}:<nonce>, the in-flight sum               *)
(* inflight:{payer} and the capture stream "settle".                       *)
(*                                                                         *)
(* reserve and release are Lua scripts and capture is one XADD, so each is *)
(* one atomic change of the ledger.  What a caller learns of it (a reply   *)
(* may be lost) is the caller's module's business.  Key expiry is modelled *)
(* by the absolute time at which the key stops to exist.                   *)
(***************************************************************************)
EXTENDS Integers, Sequences

CONSTANTS
    Payments,      \* signed authorizations; a payment stands for its (payer, nonce)
    Payers,
    Auth,          \* what each payment says, a record per payment
    InflightTTL,   \* Store.InflightTTL, in ticks
    NonceMargin,   \* Store.NonceMargin, in ticks
    MaxExact       \* the largest integer Lua compares exactly

\* accepted: the amount echoed in pp.Accepted; value: the amount the payer signed.
Authorization ==
    [payer : Payers, accepted : Nat, value : Nat, validAfter : Nat, validBefore : Nat]

ASSUME AuthAssumption == Auth \in [Payments -> Authorization]
ASSUME LedgerAssumption ==
    /\ InflightTTL \in Nat \ {0}
    /\ NonceMargin \in Nat \ {0}
    /\ MaxExact \in Nat \ {0}

VARIABLES
    now,           \* Redis' clock
    nonceExp,      \* nonce:{payer}:<nonce>: when the claim expires (0: never claimed)
    inflight,      \* inflight:{payer}: the sum stored there
    inflightExp,   \* inflight:{payer}: when the key expires (0: no key)
    stream         \* the capture stream: jobs in the order they were added

ledger == <<nonceExp, inflight, inflightExp, stream>>

\* A settlement job: the payment it settles and the amount reserved for it.
Job == [pay : Payments, amount : Nat]

LedgerTypeOK ==
    /\ now \in Nat
    /\ nonceExp \in [Payments -> Nat]
    /\ inflight \in [Payers -> Nat]
    /\ inflightExp \in [Payers -> Nat]
    /\ stream \in Seq(Job)

LedgerInit ==
    /\ now = 0
    /\ nonceExp = [m \in Payments |-> 0]
    /\ inflight = [p \in Payers |-> 0]
    /\ inflightExp = [p \in Payers |-> 0]
    /\ stream = <<>>

------------------------------------------------------------------------------

Claimed(m) == now < nonceExp[m]

\* GET inflight:{payer}, or 0 when the key does not exist.
Inflight(p) == IF now < inflightExp[p] THEN inflight[p] ELSE 0

\* Mutant: the balance is passed to Lua as it is.
ClampNot(balance) == balance

Clamp(balance) == IF balance > MaxExact THEN MaxExact ELSE balance

\* Mutant: the claim ends with the signature's window.
NonceTTLNoMargin(m, clock) ==
    LET left == Auth[m].validBefore - clock
    IN  IF left > 1 THEN left ELSE 1

\* The PX argument of the claim, computed from the caller's clock before the call.
NonceTTL(m, clock) ==
    LET left == Auth[m].validBefore - clock + NonceMargin
    IN  IF left > 1 THEN left ELSE 1

\* Mutant: the balance alone is compared with the price.
ReserveOutcomeNoInflight(m, price, balance) ==
    IF Claimed(m) THEN "replay"
    ELSE IF Clamp(balance) < price THEN "insufficient_funds"
    ELSE "ok"

\* What the reserve script answers: the replay check first, the balance check next.
ReserveOutcome(m, price, balance) ==
    IF Claimed(m) THEN "replay"
    ELSE IF Clamp(balance) - Inflight(Auth[m].payer) < price THEN "insufficient_funds"
    ELSE "ok"

\* Mutant: the nonce is claimed before the balance is checked.
ReserveScriptClaimsFirst(m, price, balance, ttl) ==
    LET o == ReserveOutcome(m, price, balance)
        p == Auth[m].payer
    IN
    /\ nonceExp' = IF o = "replay" THEN nonceExp ELSE [nonceExp EXCEPT ![m] = now + ttl]
    /\ inflight' = IF o = "ok" THEN [inflight EXCEPT ![p] = Inflight(p) + price] ELSE inflight
    /\ inflightExp' = IF o = "ok" THEN [inflightExp EXCEPT ![p] = now + InflightTTL]
                      ELSE inflightExp
    /\ UNCHANGED stream

\* Mutant: INCRBY without PEXPIRE; the key's end is far beyond the run.
ReserveScriptNoExpiry(m, price, balance, ttl) ==
    IF ReserveOutcome(m, price, balance) = "ok"
    THEN LET p == Auth[m].payer IN
         /\ nonceExp' = [nonceExp EXCEPT ![m] = now + ttl]
         /\ inflight' = [inflight EXCEPT ![p] = Inflight(p) + price]
         /\ inflightExp' = [inflightExp EXCEPT ![p] = now + InflightTTL + 1000]
         /\ UNCHANGED stream
    ELSE UNCHANGED ledger

\* What the reserve script does: claim the nonce, count the amount, and restart the
\* in-flight key's TTL.  A refusal changes nothing.
ReserveScript(m, price, balance, ttl) ==
    IF ReserveOutcome(m, price, balance) = "ok"
    THEN LET p == Auth[m].payer IN
         /\ nonceExp' = [nonceExp EXCEPT ![m] = now + ttl]
         /\ inflight' = [inflight EXCEPT ![p] = Inflight(p) + price]
         /\ inflightExp' = [inflightExp EXCEPT ![p] = now + InflightTTL]
         /\ UNCHANGED stream
    ELSE UNCHANGED ledger

\* Mutant: DECRBY without the delete at zero.
ReleaseScriptNoFloor(p, amount) ==
    /\ inflight' = [inflight EXCEPT ![p] = Inflight(p) - amount]
    /\ UNCHANGED <<nonceExp, inflightExp, stream>>

\* What the release script does: DECRBY keeps the key's TTL; at zero or below the key
\* is deleted, so a release of more than is counted never goes negative.
ReleaseScript(p, amount) ==
    LET after == Inflight(p) - amount IN
    /\ inflight' = [inflight EXCEPT ![p] = IF after <= 0 THEN 0 ELSE after]
    /\ inflightExp' = [inflightExp EXCEPT ![p] = IF after <= 0 THEN 0 ELSE @]
    /\ UNCHANGED <<nonceExp, stream>>

\* What Capture's XADD does.
Capture(m, amount) ==
    /\ stream' = Append(stream, [pay |-> m, amount |-> amount])
    /\ UNCHANGED <<nonceExp, inflight, inflightExp>>

\* Redis' clock advances; expired keys are gone from then on.
Advance == now' = now + 1 /\ UNCHANGED ledger

==============================================================================
