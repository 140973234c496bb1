---------------------------- MODULE BalanceProofs ----------------------------
(***************************************************************************)
(* Proofs about the balance cache, for any number of replicas, requests    *)
(* and payers, whatever the replicas' clocks say.                          *)
(***************************************************************************)
EXTENDS BalanceProps, TLAPS

\* The cache is empty and nobody waits when the replicas start.
LEMMA InitHolds == Init => BalanceInv
  <1> SUFFICES ASSUME Init PROVE BalanceInv
      OBVIOUS
  <1>1. /\ now = 0 /\ funds \in [Payers -> Balances]
        /\ \A p \in Payers : cached[p] = [v |-> 0, at |-> 0, exp |-> 0, readAt |-> 0]
        /\ \A r \in Replicas, p \in Payers : fetch[r][p] = NoFetch
        /\ \A s \in Readers : get[s].st = "idle"
    BY DEF Init, BalanceInit
  <1>2. CacheTypeOK
    <2>1. (CHOOSE p \in Payers : TRUE) \in Payers
      BY BalanceAssumption
    <2>2. NoFetch \in Fetch /\ fetch \in [Replicas -> [Payers -> Fetch]]
      BY DEF Init, BalanceInit, Fetch, NoFetch
    <2>3. cached \in [Payers -> Entry]
      BY DEF Init, BalanceInit, Entry
    <2>4. get \in [Readers -> Get]
      BY <2>1 DEF Init, BalanceInit, Get
    <2> QED BY <2>2, <2>3, <2>4 DEF CacheTypeOK
  <1>3. TypeOK
    BY <1>1, <1>2, BalanceAssumption DEF TypeOK
  <1>4. ReadInv /\ EntryInv
    BY <1>1 DEF ReadInv, EntryInv, NoFetch
  <1>5. BoundedStaleness /\ WaitersHaveARead
    BY <1>1 DEF BoundedStaleness, WaitersHaveARead
  <1> QED BY <1>3, <1>4, <1>5 DEF BalanceInv

\* What one request may have been told: BoundedStaleness, request by request.
Bounded(q) ==
    /\ q.st = "fresh" =>
          \A d \in 0..LastKnown : Disagreement(d) => q.age <= Fresh + d + FetchTimeout
    /\ q.st = "last_known" => q.age < LastKnown + FetchTimeout
    /\ q.st = "fetched" => q.age <= FetchTimeout

\* What holds of a read that is under way at time t.
Timely(f, t) ==
    /\ f.st # "none" => f.start <= t /\ t <= f.start + FetchTimeout
    /\ f.st = "read" => f.start <= f.readAt /\ f.readAt <= t

\* A change of one replica's read for one payer leaves the other reads alone.
LEMMA SetFetch ==
  ASSUME BalanceInv, now' = now, NEW r \in Replicas, NEW p \in Payers, NEW f \in Fetch,
         Timely(f, now), fetch' = [fetch EXCEPT ![r][p] = f]
  PROVE  /\ fetch' \in [Replicas -> [Payers -> Fetch]] /\ ReadInv'
         /\ fetch'[r][p] = f
         /\ \A q \in Replicas, o \in Payers :
               ~(q = r /\ o = p) => fetch'[q][o] = fetch[q][o]
  <1>1. fetch \in [Replicas -> [Payers -> Fetch]]
    BY DEF BalanceInv, TypeOK, CacheTypeOK
  <1>2. fetch' \in [Replicas -> [Payers -> Fetch]] /\ fetch'[r][p] = f
    BY <1>1
  <1>3. \A q \in Replicas, o \in Payers : ~(q = r /\ o = p) => fetch'[q][o] = fetch[q][o]
    BY <1>1
  <1>4. \A q \in Replicas, o \in Payers : Timely(fetch[q][o], now)
    BY DEF BalanceInv, ReadInv, Timely
  <1>5. \A q \in Replicas, o \in Payers : Timely(fetch'[q][o], now)
    BY <1>2, <1>3, <1>4
  <1>6. ReadInv'
    BY <1>5 DEF ReadInv, Timely
  <1> QED BY <1>2, <1>3, <1>6

\* Starting or joining a read leaves one under way.
LEMMA StartHolds ==
  ASSUME BalanceInv, now' = now, NEW r \in Replicas, NEW p \in Payers, StartFetch(r, p)
  PROVE  /\ fetch' \in [Replicas -> [Payers -> Fetch]] /\ ReadInv'
         /\ fetch'[r][p].st # "none"
         /\ \A q \in Replicas, o \in Payers : fetch[q][o].st # "none" => fetch'[q][o].st # "none"
  <1> DEFINE f == [NoFetch EXCEPT !.st = "started", !.start = now]
  <1>1. now \in Nat /\ FetchTimeout \in Nat /\ fetch \in [Replicas -> [Payers -> Fetch]]
    BY BalanceAssumption DEF BalanceInv, TypeOK, CacheTypeOK
  <1>2. f \in Fetch /\ f.st = "started" /\ f.start = now
    BY <1>1 DEF Fetch, NoFetch
  <1>3. Timely(f, now)
    BY <1>1, <1>2 DEF Timely
  <1> HIDE DEF f
  <1>4. \/ (fetch[r][p].st # "none" /\ fetch' = fetch)
        \/ fetch' = [fetch EXCEPT ![r][p] = f]
    BY DEF StartFetch, f
  <1>5. CASE fetch[r][p].st # "none" /\ fetch' = fetch
    BY <1>1, <1>5 DEF BalanceInv, ReadInv
  <1>6. CASE fetch' = [fetch EXCEPT ![r][p] = f]
    <2>1. /\ fetch' \in [Replicas -> [Payers -> Fetch]] /\ ReadInv'
          /\ fetch'[r][p] = f
          /\ \A q \in Replicas, o \in Payers :
                ~(q = r /\ o = p) => fetch'[q][o] = fetch[q][o]
      BY <1>2, <1>3, <1>6, SetFetch
    <2>2. \A q \in Replicas, o \in Payers : fetch[q][o].st # "none" => fetch'[q][o].st # "none"
      BY <1>2, <2>1
    <2> QED BY <1>2, <2>1, <2>2
  <1> QED BY <1>4, <1>5, <1>6

\* The entry of p is younger on chain than its expiry says plus one read.
LEMMA EntryAge ==
  ASSUME BalanceInv, NEW p \in Payers, InCache(p)
  PROVE  /\ cached[p].v \in Nat
         /\ now - cached[p].readAt \in Nat
         /\ now - cached[p].readAt < LastKnown + FetchTimeout
  <1>1. now \in Nat /\ cached[p] \in Entry /\ LastKnown \in Nat /\ FetchTimeout \in Nat
    BY BalanceAssumption DEF BalanceInv, TypeOK, CacheTypeOK
  <1>2. cached[p].v \in Nat /\ cached[p].exp \in Nat /\ cached[p].readAt \in Nat
    BY <1>1 DEF Entry
  <1>3. now < cached[p].exp
    BY DEF InCache
  <1>4. /\ cached[p].readAt <= WrittenAt(p) /\ WrittenAt(p) <= cached[p].readAt + FetchTimeout
        /\ WrittenAt(p) <= now
    BY <1>1, <1>2, <1>3 DEF BalanceInv, EntryInv
  <1> QED BY <1>1, <1>2, <1>3, <1>4 DEF WrittenAt

\* An entry that its reader's clock calls fresh was written at most the freshness window
\* and the difference of the two clocks ago.
LEMMA FreshAge ==
  ASSUME BalanceInv, NEW s \in Readers, NEW p \in Payers, InCache(p), Age(s, p) <= Fresh,
         NEW d \in 0..LastKnown, Disagreement(d)
  PROVE  now - cached[p].readAt <= Fresh + d + FetchTimeout
  <1>1. /\ now \in Nat /\ cached[p] \in Entry /\ ReplicaOf[s] \in Replicas
        /\ LastKnown \in Nat /\ FetchTimeout \in Nat /\ Fresh \in Nat /\ d \in Nat
    BY BalanceAssumption DEF BalanceInv, TypeOK, CacheTypeOK
  <1>2. cached[p].at \in Int /\ cached[p].exp \in Nat /\ cached[p].readAt \in Nat
    BY <1>1 DEF Entry
  <1>3. now < cached[p].exp
    BY DEF InCache
  <1>4. WrittenAt(p) <= cached[p].readAt + FetchTimeout
    BY <1>1, <1>2, <1>3 DEF BalanceInv, EntryInv
  <1>5. PICK r \in Replicas : cached[p].at = WrittenAt(p) + Skew[r]
    BY <1>1, <1>2, <1>3 DEF BalanceInv, EntryInv
  <1>6. /\ Skew[r] \in Int /\ Skew[ReplicaOf[s]] \in Int
        /\ Skew[r] - Skew[ReplicaOf[s]] <= d
    BY <1>1, BalanceAssumption DEF Disagreement
  <1>7. WrittenAt(p) \in Int
    BY <1>1, <1>2 DEF WrittenAt
  <1>8. now + Skew[ReplicaOf[s]] - (WrittenAt(p) + Skew[r]) <= Fresh
    BY <1>5 DEF Age
  <1> QED BY <1>1, <1>2, <1>4, <1>6, <1>7, <1>8

\* A step that changes the answer of one request keeps the invariant, when what it is told
\* is bounded, and it waits only for a read that is under way.
LEMMA SetGet ==
  ASSUME BalanceInv, NEW s \in Readers, NEW q \in Get, Bounded(q),
         get' = [get EXCEPT ![s] = q], UNCHANGED <<now, funds, cached>>,
         fetch' \in [Replicas -> [Payers -> Fetch]], ReadInv',
         \A r \in Replicas, o \in Payers : fetch[r][o].st # "none" => fetch'[r][o].st # "none",
         q.st = "waiting" => fetch'[ReplicaOf[s]][q.payer].st # "none"
  PROVE  BalanceInv'
  <1>1. TypeOK /\ EntryInv /\ BoundedStaleness /\ WaitersHaveARead
    BY DEF BalanceInv
  <1>2. get \in [Readers -> Get] /\ get' \in [Readers -> Get]
    BY <1>1 DEF TypeOK, CacheTypeOK
  <1>3. TypeOK'
    BY <1>1, <1>2 DEF TypeOK, CacheTypeOK
  <1>4. EntryInv'
    BY <1>1 DEF EntryInv, WrittenAt
  <1>5. \A t \in Readers : get'[t] = IF t = s THEN q ELSE get[t]
    BY <1>2
  <1>6. \A t \in Readers : Bounded(get[t])
    BY <1>1 DEF BoundedStaleness, Bounded
  <1>7. \A t \in Readers : Bounded(get'[t])
    BY <1>5, <1>6
  <1>8. BoundedStaleness'
    BY <1>7 DEF BoundedStaleness, Bounded
  <1>9. WaitersHaveARead'
    <2> SUFFICES ASSUME NEW t \in Readers, get'[t].st = "waiting"
                 PROVE  fetch'[ReplicaOf[t]][get'[t].payer].st # "none"
        BY DEF WaitersHaveARead
    <2>1. CASE t = s
      BY <1>5, <2>1
    <2>2. CASE t # s
      <3>1. get'[t] = get[t] /\ get[t] \in Get /\ ReplicaOf[t] \in Replicas
        BY <1>2, <1>5, <2>2, BalanceAssumption
      <3>2. get[t].payer \in Payers /\ fetch[ReplicaOf[t]][get[t].payer].st # "none"
        BY <1>1, <3>1 DEF Get, WaitersHaveARead
      <3> QED BY <3>1, <3>2
    <2> QED BY <2>1, <2>2
  <1> QED BY <1>3, <1>4, <1>8, <1>9 DEF BalanceInv

\* A call answered from the cache, with or without a refresh.
LEMMA GetHolds ==
  ASSUME BalanceInv, NEW s \in Readers, NEW p \in Payers, GetNext(s, p),
         UNCHANGED <<now, funds>>
  PROVE  BalanceInv'
  <1>1. /\ fetch \in [Replicas -> [Payers -> Fetch]] /\ get[s] \in Get /\ ReadInv
        /\ ReplicaOf[s] \in Replicas
    BY BalanceAssumption DEF BalanceInv, TypeOK, CacheTypeOK
  <1>2. CASE GetFresh(s, p)
    <2> DEFINE q == [st |-> "fresh", payer |-> p, v |-> cached[p].v,
                     age |-> now - cached[p].readAt]
    <2>1. InCache(p) /\ Age(s, p) <= Fresh /\ get' = [get EXCEPT ![s] = q]
      BY <1>2 DEF GetFresh, FromCache
    <2>2. q \in Get
      BY <2>1, EntryAge DEF Get
    <2>3. Bounded(q)
      BY <2>1, FreshAge DEF Bounded
    <2>4. q.st # "waiting"
      OBVIOUS
    <2>5. UNCHANGED <<cached, fetch>>
      BY <1>2 DEF GetFresh
    <2>6. ReadInv'
      BY <1>1, <2>5 DEF ReadInv
    <2> HIDE DEF q
    <2> QED BY <1>1, <2>1, <2>2, <2>3, <2>4, <2>5, <2>6, SetGet
  <1>3. CASE GetLastKnown(s, p)
    <2> DEFINE q == [st |-> "last_known", payer |-> p, v |-> cached[p].v,
                     age |-> now - cached[p].readAt]
    <2>1. InCache(p) /\ get' = [get EXCEPT ![s] = q] /\ StartFetch(ReplicaOf[s], p)
      BY <1>3 DEF GetLastKnown, FromCache
    <2>2. q \in Get
      BY <2>1, EntryAge DEF Get
    <2>3. Bounded(q)
      BY <2>1, EntryAge DEF Bounded
    <2>4. q.st # "waiting"
      OBVIOUS
    <2>5. UNCHANGED cached
      BY <1>3 DEF GetLastKnown
    <2> HIDE DEF q
    <2>6. /\ fetch' \in [Replicas -> [Payers -> Fetch]] /\ ReadInv'
          /\ \A r \in Replicas, o \in Payers : fetch[r][o].st # "none" => fetch'[r][o].st # "none"
      BY <1>1, <2>1, StartHolds
    <2> QED BY <2>1, <2>2, <2>3, <2>4, <2>5, <2>6, SetGet
  <1>4. CASE GetMiss(s, p)
    <2> DEFINE q == [get[s] EXCEPT !.st = "waiting", !.payer = p]
    <2>1. get' = [get EXCEPT ![s] = q] /\ StartFetch(ReplicaOf[s], p) /\ UNCHANGED cached
      BY <1>1, <1>4 DEF GetMiss
    <2>2. q \in Get /\ q.st = "waiting" /\ q.payer = p
      BY <1>1 DEF Get
    <2> HIDE DEF q
    <2>3. Bounded(q)
      BY <2>2 DEF Bounded
    <2>4. /\ fetch' \in [Replicas -> [Payers -> Fetch]] /\ ReadInv'
          /\ fetch'[ReplicaOf[s]][p].st # "none"
          /\ \A r \in Replicas, o \in Payers : fetch[r][o].st # "none" => fetch'[r][o].st # "none"
      BY <1>1, <2>1, StartHolds
    <2> QED BY <2>1, <2>2, <2>3, <2>4, SetGet
  <1> QED BY <1>2, <1>3, <1>4 DEF GetNext

\* A call that ends without an answer: Redis is silent, or the request gave up waiting.
LEMMA EndHolds ==
  ASSUME BalanceInv, NEW s \in Readers, GetFails(s) \/ Overrun(s), UNCHANGED <<now, funds>>
  PROVE  BalanceInv'
  <1>1. /\ fetch \in [Replicas -> [Payers -> Fetch]] /\ get[s] \in Get /\ ReadInv
        /\ UNCHANGED <<cached, fetch>>
    BY DEF BalanceInv, TypeOK, CacheTypeOK, GetFails, Overrun
  <1>2. ReadInv'
    BY <1>1 DEF ReadInv
  <1>3. PICK st \in {"failed", "overran"} : get' = [get EXCEPT ![s].st = st]
    BY DEF GetFails, Overrun
  <1> DEFINE q == [get[s] EXCEPT !.st = st]
  <1>4. get' = [get EXCEPT ![s] = q]
    BY <1>1, <1>3
  <1>5. q \in Get /\ q.st \in {"failed", "overran"}
    BY <1>1 DEF Get
  <1> HIDE DEF q
  <1>6. Bounded(q)
    BY <1>5 DEF Bounded
  <1> QED BY <1>1, <1>2, <1>4, <1>5, <1>6, SetGet

\* A read that ends, ends the wait of exactly those who wait for it.
LEMMA FetchEnds ==
  ASSUME BalanceInv, NEW r \in Replicas, NEW p \in Payers, UNCHANGED <<now, funds>>,
         cached' \in [Payers -> Entry], EntryInv',
         fetch' = [fetch EXCEPT ![r][p] = NoFetch],
         get' \in [Readers -> Get],
         \A s \in Waiters(r, p) : get'[s].st # "waiting" /\ Bounded(get'[s]),
         \A s \in Readers \ Waiters(r, p) : get'[s] = get[s]
  PROVE  BalanceInv'
  <1>1. NoFetch \in Fetch /\ Timely(NoFetch, now)
    BY DEF NoFetch, Fetch, Timely
  <1>2. /\ fetch' \in [Replicas -> [Payers -> Fetch]] /\ ReadInv'
        /\ \A q \in Replicas, o \in Payers : ~(q = r /\ o = p) => fetch'[q][o] = fetch[q][o]
    BY <1>1, SetFetch
  <1>3. TypeOK /\ BoundedStaleness /\ WaitersHaveARead /\ get \in [Readers -> Get]
    BY DEF BalanceInv, TypeOK, CacheTypeOK
  <1>4. TypeOK'
    BY <1>2, <1>3 DEF TypeOK, CacheTypeOK
  <1>5. \A s \in Readers : Bounded(get[s])
    BY <1>3 DEF BoundedStaleness, Bounded
  <1>6. \A s \in Readers : Bounded(get'[s])
    BY <1>5
  <1>7. BoundedStaleness'
    BY <1>6 DEF BoundedStaleness, Bounded
  <1>8. WaitersHaveARead'
    <2> SUFFICES ASSUME NEW s \in Readers, get'[s].st = "waiting"
                 PROVE  fetch'[ReplicaOf[s]][get'[s].payer].st # "none"
        BY DEF WaitersHaveARead
    <2>1. s \notin Waiters(r, p) /\ get'[s] = get[s]
      OBVIOUS
    <2>2. ~(ReplicaOf[s] = r /\ get[s].payer = p)
      BY <2>1 DEF Waiters
    <2>3. ReplicaOf[s] \in Replicas /\ get[s].payer \in Payers
      BY <1>3, BalanceAssumption DEF Get
    <2>4. fetch[ReplicaOf[s]][get[s].payer].st # "none"
      BY <1>3, <2>1 DEF WaitersHaveARead
    <2> QED BY <1>2, <2>1, <2>2, <2>3, <2>4
  <1> QED BY <1>2, <1>4, <1>7, <1>8 DEF BalanceInv

\* The chain answers.
LEMMA ReadHolds ==
  ASSUME BalanceInv, NEW r \in Replicas, NEW p \in Payers, FetchRead(r, p),
         UNCHANGED <<now, funds>>
  PROVE  BalanceInv'
  <1> DEFINE f == [fetch[r][p] EXCEPT !.st = "read", !.v = funds[p], !.readAt = now]
  <1>1. /\ now \in Nat /\ funds[p] \in Nat /\ fetch[r][p] \in Fetch
        /\ fetch \in [Replicas -> [Payers -> Fetch]]
    BY DEF BalanceInv, TypeOK, CacheTypeOK
  <1>2. f \in Fetch /\ f.st = "read" /\ f.readAt = now /\ f.start = fetch[r][p].start
    BY <1>1 DEF Fetch
  <1>3. fetch[r][p].start <= now /\ now <= fetch[r][p].start + FetchTimeout
    BY DEF BalanceInv, ReadInv, FetchRead
  <1>4. fetch' = [fetch EXCEPT ![r][p] = f] /\ UNCHANGED <<cached, get>>
    BY <1>1 DEF FetchRead
  <1>5. Timely(f, now)
    BY <1>1, <1>2, <1>3 DEF Timely
  <1> HIDE DEF f
  <1>6. /\ fetch' \in [Replicas -> [Payers -> Fetch]] /\ ReadInv' /\ fetch'[r][p] = f
        /\ \A q \in Replicas, o \in Payers : ~(q = r /\ o = p) => fetch'[q][o] = fetch[q][o]
    BY <1>2, <1>4, <1>5, SetFetch
  <1>7. TypeOK' /\ EntryInv' /\ BoundedStaleness'
    BY <1>4, <1>6 DEF BalanceInv, TypeOK, CacheTypeOK, EntryInv, WrittenAt, BoundedStaleness
  <1>8. WaitersHaveARead'
    <2> SUFFICES ASSUME NEW s \in Readers, get[s].st = "waiting"
                 PROVE  fetch'[ReplicaOf[s]][get[s].payer].st # "none"
        BY <1>4 DEF WaitersHaveARead
    <2>1. ReplicaOf[s] \in Replicas /\ get[s] \in Get
      BY BalanceAssumption DEF BalanceInv, TypeOK, CacheTypeOK
    <2>2. get[s].payer \in Payers /\ fetch[ReplicaOf[s]][get[s].payer].st # "none"
      BY <2>1 DEF BalanceInv, WaitersHaveARead, Get
    <2> QED BY <1>2, <1>6, <2>1, <2>2
  <1> QED BY <1>6, <1>7, <1>8 DEF BalanceInv

\* The value is written, or the write fails, and the waiters are given it.
LEMMA WriteHolds ==
  ASSUME BalanceInv, NEW r \in Replicas, NEW p \in Payers, NEW written \in BOOLEAN,
         FetchWrite(r, p, written), UNCHANGED <<now, funds>>
  PROVE  BalanceInv'
  <1> DEFINE f == fetch[r][p]
             e == [v |-> f.v, at |-> now + Skew[r], exp |-> now + LastKnown, readAt |-> f.readAt]
  <1>1. /\ now \in Nat /\ f \in Fetch /\ cached \in [Payers -> Entry] /\ get \in [Readers -> Get]
        /\ Skew[r] \in Int /\ LastKnown \in Nat \ {0} /\ FetchTimeout \in Nat
    BY BalanceAssumption DEF BalanceInv, TypeOK, CacheTypeOK
  <1>2. f.v \in Nat /\ f.start \in Nat /\ f.readAt \in Nat
    BY <1>1 DEF Fetch
  <1>3. f.start <= f.readAt /\ f.readAt <= now /\ now <= f.start + FetchTimeout
    BY DEF FetchWrite, BalanceInv, ReadInv
  <1>4. e \in Entry
    BY <1>1, <1>2 DEF Entry
  <1>5. /\ cached' = IF written THEN [cached EXCEPT ![p] = e] ELSE cached
        /\ fetch' = [fetch EXCEPT ![r][p] = NoFetch]
        /\ get' = [s \in Readers |->
                     IF s \in Waiters(r, p)
                     THEN [get[s] EXCEPT !.st = "fetched", !.v = f.v, !.age = now - f.readAt]
                     ELSE get[s]]
    BY DEF FetchWrite
  <1>6. cached' \in [Payers -> Entry]
    BY <1>1, <1>4, <1>5
  <1>7. EntryInv'
    <2> SUFFICES ASSUME NEW o \in Payers, cached'[o].exp > 0
                 PROVE  LET w == cached'[o].exp - LastKnown IN
                        /\ cached'[o].readAt <= w /\ w <= cached'[o].readAt + FetchTimeout
                        /\ w <= now
                        /\ \E q \in Replicas : cached'[o].at = w + Skew[q]
        BY DEF EntryInv, WrittenAt
    <2>1. CASE written /\ o = p
      <3>1. cached'[o] = e
        BY <1>1, <1>5, <2>1
      <3>2. /\ cached'[o].readAt = f.readAt /\ cached'[o].at = now + Skew[r]
            /\ cached'[o].exp = now + LastKnown
        BY <3>1
      <3>3. cached'[o].exp - LastKnown = now
        BY <1>1, <3>2
      <3>4. f.readAt <= now /\ now <= f.readAt + FetchTimeout /\ now <= now
        BY <1>1, <1>2, <1>3
      <3> HIDE DEF f, e
      <3> QED BY <3>2, <3>3, <3>4
    <2>2. CASE ~(written /\ o = p)
      <3>1. cached'[o] = cached[o]
        BY <1>1, <1>5, <2>2
      <3> QED BY <3>1 DEF BalanceInv, EntryInv, WrittenAt
    <2> QED BY <2>1, <2>2
  <1>8. now - f.readAt \in Nat /\ now - f.readAt <= FetchTimeout
    BY <1>1, <1>2, <1>3
  <1>9. \A s \in Readers : Waiters(r, p) \subseteq Readers /\ get[s] \in Get
    BY <1>1 DEF Waiters
  <1>10. \A s \in Waiters(r, p) :
            get'[s] \in Get /\ get'[s].st = "fetched" /\ get'[s].age = now - f.readAt
    <2> SUFFICES ASSUME NEW s \in Waiters(r, p)
                 PROVE get'[s] \in Get /\ get'[s].st = "fetched" /\ get'[s].age = now - f.readAt
        OBVIOUS
    <2>1. s \in Readers /\ get[s] \in Get
      BY <1>1 DEF Waiters
    <2>2. get'[s] = [get[s] EXCEPT !.st = "fetched", !.v = f.v, !.age = now - f.readAt]
      BY <1>5, <2>1
    <2> HIDE DEF f
    <2> QED BY <1>2, <1>8, <2>1, <2>2 DEF Get
  <1>11. \A s \in Readers \ Waiters(r, p) : get'[s] = get[s]
    BY <1>5
  <1>12. get' \in [Readers -> Get]
    <2>1. \A s \in Readers : get'[s] \in Get
      BY <1>9, <1>10, <1>11
    <2> QED BY <1>5, <2>1
  <1>13. \A s \in Waiters(r, p) : get'[s].st # "waiting" /\ Bounded(get'[s])
    BY <1>8, <1>10 DEF Bounded
  <1> HIDE DEF f, e
  <1> QED BY <1>5, <1>6, <1>7, <1>11, <1>12, <1>13, FetchEnds

\* The chain does not answer, or not in time.
LEMMA FailHolds ==
  ASSUME BalanceInv, NEW r \in Replicas, NEW p \in Payers, FetchFails(r, p),
         UNCHANGED <<now, funds>>
  PROVE  BalanceInv'
  <1>1. cached \in [Payers -> Entry] /\ get \in [Readers -> Get] /\ EntryInv
    BY DEF BalanceInv, TypeOK, CacheTypeOK
  <1>2. /\ UNCHANGED cached
        /\ fetch' = [fetch EXCEPT ![r][p] = NoFetch]
        /\ get' = [s \in Readers |->
                     IF s \in Waiters(r, p) THEN [get[s] EXCEPT !.st = "failed"] ELSE get[s]]
    BY DEF FetchFails
  <1>3. EntryInv'
    BY <1>1, <1>2 DEF EntryInv, WrittenAt
  <1>4. \A s \in Waiters(r, p) : s \in Readers
    BY DEF Waiters
  <1>5. \A s \in Waiters(r, p) : get'[s] \in Get /\ get'[s].st = "failed"
    BY <1>1, <1>2, <1>4 DEF Get
  <1>6. \A s \in Readers \ Waiters(r, p) : get'[s] = get[s]
    BY <1>2
  <1>7. get' \in [Readers -> Get]
    <2>1. \A s \in Readers : get'[s] \in Get
      BY <1>1, <1>5, <1>6
    <2> QED BY <1>2, <2>1
  <1>8. \A s \in Waiters(r, p) : get'[s].st # "waiting" /\ Bounded(get'[s])
    BY <1>5 DEF Bounded
  <1> QED BY <1>1, <1>2, <1>3, <1>6, <1>7, <1>8, FetchEnds

\* Time passes only while every read is within its timeout, and the payers spend.
LEMMA OutsideHolds ==
  ASSUME BalanceInv,
         Tick \/ (\E p \in Payers, v \in Balances : Spend(p, v)) \/ UNCHANGED vars
  PROVE  BalanceInv'
  <1>1. BoundedStaleness /\ WaitersHaveARead /\ UNCHANGED cacheVars
    BY DEF BalanceInv, Tick, Spend, vars
  <1>2. BoundedStaleness' /\ WaitersHaveARead'
    BY <1>1 DEF BoundedStaleness, WaitersHaveARead, cacheVars
  <1>3. now \in Nat /\ now' \in Nat /\ now <= now'
    BY DEF BalanceInv, TypeOK, Tick, Spend, vars
  <1>4. funds' \in [Payers -> Nat]
    BY BalanceAssumption DEF BalanceInv, TypeOK, Tick, Spend, vars
  <1>5. TypeOK'
    BY <1>1, <1>3, <1>4 DEF BalanceInv, TypeOK, CacheTypeOK, cacheVars
  <1>6. EntryInv'
    <2> SUFFICES ASSUME NEW p \in Payers, cached[p].exp > 0
                 PROVE  /\ cached[p].readAt <= WrittenAt(p)
                        /\ WrittenAt(p) <= cached[p].readAt + FetchTimeout
                        /\ WrittenAt(p) <= now'
                        /\ \E r \in Replicas : cached[p].at = WrittenAt(p) + Skew[r]
        BY <1>1 DEF EntryInv, WrittenAt, cacheVars
    <2>1. WrittenAt(p) \in Int
      BY BalanceAssumption DEF BalanceInv, TypeOK, CacheTypeOK, Entry, WrittenAt
    <2>2. WrittenAt(p) <= now'
      BY <1>3, <2>1 DEF BalanceInv, EntryInv
    <2> QED BY <2>2 DEF BalanceInv, EntryInv
  <1>7. ReadInv'
    <2>1. CASE Tick
      <3> SUFFICES ASSUME NEW r \in Replicas, NEW p \in Payers
                   PROVE  Timely(fetch[r][p], now')
          BY <1>1 DEF ReadInv, Timely, cacheVars
      <3>1. fetch[r][p].start \in Nat /\ fetch[r][p].readAt \in Nat /\ FetchTimeout \in Nat
        BY BalanceAssumption DEF BalanceInv, TypeOK, CacheTypeOK, Fetch
      <3>2. fetch[r][p].st # "none" => now < fetch[r][p].start + FetchTimeout
        BY <2>1 DEF Tick, InTime
      <3>3. now' = now + 1 /\ Timely(fetch[r][p], now)
        BY <2>1 DEF Tick, BalanceInv, ReadInv, Timely
      <3> QED BY <1>3, <3>1, <3>2, <3>3 DEF Timely
    <2>2. CASE ~Tick
      <3>1. now' = now
        BY <2>2 DEF Spend, vars
      <3> QED BY <1>1, <3>1 DEF BalanceInv, ReadInv, cacheVars
    <2> QED BY <2>1, <2>2
  <1> QED BY <1>2, <1>5, <1>6, <1>7 DEF BalanceInv

\* Every step of the cache keeps the invariant.
LEMMA StepHolds ==
  ASSUME BalanceInv, [Next]_vars
  PROVE  BalanceInv'
  <1>1. CASE \E s \in Readers, p \in Payers : GetNext(s, p) /\ UNCHANGED <<now, funds>>
    BY <1>1, GetHolds
  <1>2. CASE \E s \in Readers : (GetFails(s) \/ Overrun(s)) /\ UNCHANGED <<now, funds>>
    BY <1>2, EndHolds
  <1>3. CASE \E r \in Replicas, p \in Payers : FetchNext(r, p) /\ UNCHANGED <<now, funds>>
    BY <1>3, ReadHolds, WriteHolds, FailHolds DEF FetchNext
  <1>4. CASE Tick \/ (\E p \in Payers, v \in Balances : Spend(p, v)) \/ UNCHANGED vars
    BY <1>4, OutsideHolds
  <1> QED BY <1>1, <1>2, <1>3, <1>4 DEF Next

\* The inductive invariant: an entry says when it was written and that is within one read's
\* timeout of what it saw; a read under way has not outlived its timeout.
THEOREM Invariance == Spec => []BalanceInv
  <1>1. BalanceInv /\ [Next]_vars => BalanceInv'
    BY StepHolds
  <1> QED BY InitHolds, <1>1, PTL DEF Spec

\* The cache's state keeps its type.
THEOREM TypeCorrect == Spec => []TypeOK
  <1>1. BalanceInv => TypeOK
    BY DEF BalanceInv
  <1> QED BY Invariance, <1>1, PTL

\* However many replicas write the entry, and however far their clocks are apart, the
\* number a request is decided on is at most one window, one read and that difference old.
THEOREM StalenessIsBounded == Spec => []BoundedStaleness
  <1>1. BalanceInv => BoundedStaleness
    BY DEF BalanceInv
  <1> QED BY Invariance, <1>1, PTL

\* A request that waits, waits for a read that is under way.
THEOREM NobodyWaitsInVain == Spec => []WaitersHaveARead
  <1>1. BalanceInv => WaitersHaveARead
    BY DEF BalanceInv
  <1> QED BY Invariance, <1>1, PTL

==============================================================================
