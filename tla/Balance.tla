------------------------------- MODULE Balance -------------------------------
(***************************************************************************)
(* The balance cache (package balance): bal:{payer} in Redis in front of   *)
(* one balanceOf read, shared by the replicas.  A read is detached from    *)
(* the request that started it, and each replica has at most one under way *)
(* per payer (singleflight).                                               *)
(*                                                                         *)
(* As a history, every entry and read carries the time at which the chain  *)
(* was read, and every answer how long ago that was (age).                 *)
(***************************************************************************)
EXTENDS Integers

CONSTANTS
    Payers, Replicas, Readers,
    ReplicaOf,       \* the replica a reader (a request) runs on
    Skew,            \* a replica's clock minus Redis' clock
    Fresh, LastKnown, FetchTimeout,   \* in ticks
    Balances,        \* what balanceOf may return
    MaxTime          \* bound: the clock stops here

ASSUME BalanceAssumption ==
    /\ Payers # {}
    /\ ReplicaOf \in [Readers -> Replicas]
    /\ Skew \in [Replicas -> Int]
    /\ Fresh \in Nat /\ LastKnown \in Nat \ {0} /\ FetchTimeout \in Nat
    /\ Fresh <= LastKnown
    /\ Balances \subseteq Nat /\ MaxTime \in Nat

VARIABLES
    now,
    funds,     \* balanceOf, by payer (Chain)
    cached,    \* bal:{payer}: value, stamp, expiry, and when the chain was read
    fetch,     \* by replica and payer: the read under way
    get        \* by reader: its call of Get

cacheVars == <<cached, fetch, get>>

Entry == [v : Nat, at : Int, exp : Nat, readAt : Nat]
Fetch == [st : {"none", "started", "read"}, v : Nat, start : Nat, readAt : Nat]
Get == [st : {"idle", "waiting", "fresh", "last_known", "fetched", "failed", "overran"},
        payer : Payers, v : Nat, age : Nat]

CacheTypeOK ==
    /\ cached \in [Payers -> Entry]
    /\ fetch \in [Replicas -> [Payers -> Fetch]]
    /\ get \in [Readers -> Get]

NoFetch == [st |-> "none", v |-> 0, start |-> 0, readAt |-> 0]

BalanceInit ==
    /\ cached = [p \in Payers |-> [v |-> 0, at |-> 0, exp |-> 0, readAt |-> 0]]
    /\ fetch = [r \in Replicas |-> [p \in Payers |-> NoFetch]]
    /\ get = [s \in Readers |-> [st |-> "idle", payer |-> CHOOSE p \in Payers : TRUE,
                                 v |-> 0, age |-> 0]]

------------------------------------------------------------------------------

\* Mutant: HSET without PEXPIRE.
InCacheForever(p) == cached[p].exp > 0

\* bal:{payer} exists.
InCache(p) == now < cached[p].exp

\* How old the entry is by its stamp and the reader's clock.
Age(s, p) == now + Skew[ReplicaOf[s]] - cached[p].at

\* fetch: start the one read of the replica for the payer, or join it.
StartFetch(r, p) ==
    fetch' = IF fetch[r][p].st = "none"
             THEN [fetch EXCEPT ![r][p] = [NoFetch EXCEPT !.st = "started", !.start = now]]
             ELSE fetch

\* A reader stands for one request after another: the next may come once this one has
\* its answer.
Calls(s) == get[s].st # "waiting"

\* The cached value is the answer.  Its age is the history's, since the chain was read; the
\* Age the code returns with it is by the stamp, as above, and may be negative.
FromCache(s, p, source) ==
    get' = [get EXCEPT ![s] = [st |-> source, payer |-> p, v |-> cached[p].v,
                               age |-> now - cached[p].readAt]]

\* A fresh entry is served as it is.
GetFresh(s, p) ==
    /\ Calls(s)
    /\ InCache(p) /\ Age(s, p) <= Fresh
    /\ FromCache(s, p, "fresh")
    /\ UNCHANGED <<cached, fetch>>

\* The last known value is served at once and a refresh starts in the background.
GetLastKnown(s, p) ==
    /\ Calls(s)
    /\ InCache(p) /\ Age(s, p) > Fresh /\ Age(s, p) <= LastKnown
    /\ FromCache(s, p, "last_known")
    /\ StartFetch(ReplicaOf[s], p)
    /\ UNCHANGED cached

\* Older, or never seen: the request waits for the read.
GetMiss(s, p) ==
    /\ Calls(s)
    /\ InCache(p) => Age(s, p) > LastKnown
    /\ get' = [get EXCEPT ![s] = [@ EXCEPT !.st = "waiting", !.payer = p]]
    /\ StartFetch(ReplicaOf[s], p)
    /\ UNCHANGED cached

\* Redis does not answer the HMGET.
GetFails(s) ==
    /\ Calls(s)
    /\ get' = [get EXCEPT ![s].st = "failed"]
    /\ UNCHANGED <<cached, fetch>>

\* The reader's deadline passes while it waits; the read goes on without it.
Overrun(s) ==
    /\ get[s].st = "waiting"
    /\ get' = [get EXCEPT ![s].st = "overran"]
    /\ UNCHANGED <<cached, fetch>>

\* The RPC answers balanceOf within the read's own timeout.
FetchRead(r, p) ==
    /\ fetch[r][p].st = "started"
    /\ now <= fetch[r][p].start + FetchTimeout
    /\ fetch' = [fetch EXCEPT ![r][p] = [@ EXCEPT !.st = "read", !.v = funds[p], !.readAt = now]]
    /\ UNCHANGED <<cached, get>>

Waiters(r, p) == {s \in Readers : ReplicaOf[s] = r /\ get[s].st = "waiting" /\ get[s].payer = p}

\* HSET + PEXPIRE, stamped with the replica's clock at the time of the write; a write that
\* fails is logged.  Either way every waiter of this read gets the value.
FetchWrite(r, p, written) ==
    LET f == fetch[r][p] IN
    /\ f.st = "read"
    /\ written => now <= f.start + FetchTimeout
    /\ cached' = IF written
                 THEN [cached EXCEPT ![p] = [v |-> f.v, at |-> now + Skew[r],
                                             exp |-> now + LastKnown, readAt |-> f.readAt]]
                 ELSE cached
    /\ get' = [s \in Readers |->
                 IF s \in Waiters(r, p)
                 THEN [get[s] EXCEPT !.st = "fetched", !.v = f.v, !.age = now - f.readAt]
                 ELSE get[s]]
    /\ fetch' = [fetch EXCEPT ![r][p] = NoFetch]

\* Mutant: a failed read answers nobody.
FetchFailsQuietly(r, p) ==
    /\ fetch[r][p].st = "started"
    /\ fetch' = [fetch EXCEPT ![r][p] = NoFetch]
    /\ UNCHANGED <<cached, get>>

\* Mutant: balanceOf's error is not looked at, and no number (-1) counts as read.
FetchFailsUnseen(r, p) ==
    /\ fetch[r][p].st = "started"
    /\ fetch' = [fetch EXCEPT ![r][p] = [@ EXCEPT !.st = "read", !.v = -1, !.readAt = now]]
    /\ UNCHANGED <<cached, get>>

\* The RPC fails or the read times out: every waiter fails.
FetchFails(r, p) ==
    /\ fetch[r][p].st = "started"
    /\ get' = [s \in Readers |->
                 IF s \in Waiters(r, p) THEN [get[s] EXCEPT !.st = "failed"] ELSE get[s]]
    /\ fetch' = [fetch EXCEPT ![r][p] = NoFetch]
    /\ UNCHANGED cached

GetNext(s, p) == GetFresh(s, p) \/ GetLastKnown(s, p) \/ GetMiss(s, p)

FetchNext(r, p) ==
    \/ FetchRead(r, p)
    \/ \E written \in BOOLEAN : FetchWrite(r, p, written)
    \/ FetchFails(r, p)

\* The read's own timeout has not passed.
InTime(r, p) == fetch[r][p].st # "none" => now < fetch[r][p].start + FetchTimeout

------------------------------------------------------------------------------
(* The cache on its own: the payers' balances change at any time *)

vars == <<now, funds, cacheVars>>

Spend(p, v) ==
    /\ funds[p] # v
    /\ funds' = [funds EXCEPT ![p] = v]
    /\ UNCHANGED <<now, cacheVars>>

\* The context of a read ends it at FetchTimeout at the latest.
Tick ==
    /\ now < MaxTime
    /\ \A r \in Replicas, p \in Payers : InTime(r, p)
    /\ now' = now + 1
    /\ UNCHANGED <<funds, cacheVars>>

Init == now = 0 /\ funds \in [Payers -> Balances] /\ BalanceInit

Next ==
    \/ \E s \in Readers :
         \/ \E p \in Payers : GetNext(s, p) /\ UNCHANGED <<now, funds>>
         \/ (GetFails(s) \/ Overrun(s)) /\ UNCHANGED <<now, funds>>
    \/ \E r \in Replicas, p \in Payers : FetchNext(r, p) /\ UNCHANGED <<now, funds>>
    \/ \E p \in Payers, v \in Balances : Spend(p, v)
    \/ Tick

Spec == Init /\ [][Next]_vars

==============================================================================
