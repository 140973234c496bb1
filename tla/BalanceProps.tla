----------------------------- MODULE BalanceProps ----------------------------
(***************************************************************************)
(* What a reader of the balance cache may rely on: how old the number it   *)
(* is given can be, and that it never waits for a read nobody makes.       *)
(***************************************************************************)
EXTENDS Balance

\* Every variable has its type: what Redis holds, what a read brings and what a request is
\* decided on is a number, also when balanceOf fails (fetch, Get).
TypeOK ==
    /\ now \in Nat
    /\ funds \in [Payers -> Nat]
    /\ CacheTypeOK

\* How far the clocks of two replicas are apart.
Disagreement(d) == \A r, q \in Replicas : Skew[r] - Skew[q] <= d

\* The balance a request is decided on was on chain at most one cache window and one read
\* ago, although the stamp is the time of the write, by another replica's clock, a read may
\* be overtaken by a later one and then overwrite it, and a request may join a read that
\* has already seen the chain (balance.go: "the risk is bounded by one cache window per
\* payer").
BoundedStaleness ==
    \A s \in Readers :
        /\ get[s].st = "fresh" =>
              \A d \in 0..LastKnown :
                  Disagreement(d) => get[s].age <= Fresh + d + FetchTimeout
        /\ get[s].st = "last_known" => get[s].age < LastKnown + FetchTimeout
        /\ get[s].st = "fetched" => get[s].age <= FetchTimeout

\* A request that waits, waits for a read that its replica has under way, also when the
\* request that started it gave up and when an earlier read of the payer failed (fetch: the
\* read is detached from ctx; singleflight forgets a key when its read returns).
WaitersHaveARead ==
    \A s \in Readers :
        get[s].st = "waiting" => fetch[ReplicaOf[s]][get[s].payer].st # "none"

------------------------------------------------------------------------------
(* Why they may: the parts of the inductive invariant *)

\* A read under way has not outlived its own timeout, and saw the chain since it started.
ReadInv ==
    \A r \in Replicas, p \in Payers :
        LET f == fetch[r][p] IN
        /\ f.st # "none" => f.start <= now /\ now <= f.start + FetchTimeout
        /\ f.st = "read" => f.start <= f.readAt /\ f.readAt <= now

\* When the entry of p was written, by Redis' clock.
WrittenAt(p) == cached[p].exp - LastKnown

\* An entry was written within one read's timeout of what it saw on chain, and stamped by
\* the clock of some replica.
EntryInv ==
    \A p \in Payers :
        cached[p].exp > 0 =>
            /\ cached[p].readAt <= WrittenAt(p) /\ WrittenAt(p) <= cached[p].readAt + FetchTimeout
            /\ WrittenAt(p) <= now
            /\ \E r \in Replicas : cached[p].at = WrittenAt(p) + Skew[r]

BalanceInv == TypeOK /\ ReadInv /\ EntryInv /\ BoundedStaleness /\ WaitersHaveARead

==============================================================================
