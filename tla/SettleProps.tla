----------------------------- MODULE SettleProps -----------------------------
(***************************************************************************)
(* What the settlers must get right: no job is lost or misfiled, and every *)
(* job ends.                                                               *)
(***************************************************************************)
EXTENDS Settle

\* Every variable has its type; a consumer's batch only holds entries of the stream.
TypeOK ==
    /\ LedgerTypeOK
    /\ ChainTypeOK
    /\ SettleTypeOK
    /\ cursor <= Len(stream)
    /\ \A c \in Settlers : \A k \in DOMAIN batch[c] : batch[c][k] <= cursor

DeadLettered(i) == \E o \in Outcomes : <<i, o>> \in dead

\* No payment is lost: a job leaves the pending list only when its authorization is used
\* on chain, the facilitator refused it for good, or it is in the dead-letter stream
\* (settle.go: "a job is acknowledged only once its outcome is known").
AckedIsKnown ==
    \A i \in acked :
        \/ AuthorizationState(stream[i].pay)
        \/ i \in refused
        \/ DeadLettered(i)

\* A job logged as settled was paid, however often it was delivered and whoever else was
\* handling it; one logged as settled on chain was paid too, unless its payer cancelled the
\* authorization, which authorizationState does not tell apart (handle, done).
FiledPaidIsPaid ==
    \A i \in JobIds :
        /\ <<i, "settled">> \in filed => nonce[stream[i].pay] = "settled"
        /\ <<i, "settled_on_chain">> \in filed => nonce[stream[i].pay] # "fresh"

\* A job dead-lettered as expired was not paid and never will be: the chain is asked after
\* validBefore, when nothing can land any more (settle.go, handle).
ExpiredNeverPaid ==
    \A i \in JobIds : <<i, "expired_unsettled">> \in dead => nonce[stream[i].pay] # "settled"

\* Every captured job is acknowledged in the end, whatever the facilitator answers, and
\* however the consumers die and calls get lost (claim, MaxDeliveries).
EveryJobEnds == \A i \in JobIds : (i \in DOMAIN stream) ~> (i \in acked)

------------------------------------------------------------------------------
(* Why no job is lost or misfiled: the parts of the inductive invariant *)

\* What an outcome says of an entry is true, and stays true.
Justified(i, o) ==
    LET m == stream[i].pay IN
    /\ o = "settled" => nonce[m] = "settled"
    /\ o = "settled_on_chain" => AuthorizationState(m)
    /\ o = "settle_failed" => i \in refused
    /\ o = "expired_unsettled" => now >= Auth[m].validBefore /\ nonce[m] # "settled"

\* What is acknowledged, filed or dead-lettered was delivered, and its outcome is true.
RecordInv ==
    /\ Len(stream) <= MaxJobs
    /\ acked \subseteq 1..cursor
    /\ \A r \in dead \cup filed : r[1] <= cursor /\ Justified(r[1], r[2])

\* What a consumer knows of the entry it handles, by where its work stands.
Told(i, w) ==
    /\ w.step = "asking" /\ w.definite => i \in refused
    /\ w.step = "askExpired" => now >= Auth[stream[i].pay].validBefore
    /\ w.step = "deadletter" => w.outcome \in {"expired_unsettled", "dead_lettered"}
    /\ w.step \in {"releasing", "acking"} =>
          /\ w.outcome # "none"
          /\ w.outcome \in {"expired_unsettled", "dead_lettered"} => <<i, w.outcome>> \in dead
    /\ w.step \in {"deadletter", "releasing", "acking"} => Justified(i, w.outcome)

WorkInv(c) == IF Free(c) THEN work[c] = Idle ELSE Told(Current(c), work[c])

SettleInv == TypeOK /\ RecordInv /\ AckedIsKnown /\ \A c \in Settlers : WorkInv(c)

------------------------------------------------------------------------------
(* When a job's amount is given back only once *)

\* One consumer, as deployed, whose calls on Redis are answered and which is not killed
\* between two of them.
Undisturbed == (\A c, d \in Settlers : c = d) /\ SettleFaults \subseteq {"rpc"}

\* Nobody is about to give back an amount that was given back already.
ReleasedOnce == \A c \in Settlers : At(c, "releasing") => Current(c) \notin released

\* What was given back is acknowledged, or about to be, and so is not handed out again.
OnceInv ==
    \A c \in Settlers :
        /\ \A i \in released : i \in acked \/ (At(c, "acking") /\ i = Current(c))
        /\ \A j, k \in DOMAIN batch[c] :
             batch[c][j] \notin acked /\ (j # k => batch[c][j] # batch[c][k])

==============================================================================
