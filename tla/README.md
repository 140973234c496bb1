# x402 gateway: TLA+ models, checks and proofs

The x402 gateway puts a price on HTTP routes. An Envoy ext_proc **filter** answers an
unpaid request with 402, checks a signed payment (an EIP-3009 authorization), reserves its
amount in Redis, lets the request through and, on a 2xx, queues a settlement job. A
**settler** drains the queue and has the transfer made on chain, after the response. A
**controller** turns `PaymentPolicy` objects into the filter's price table and into
`EnvoyExtensionPolicy` objects (EEPs) that attach the filter to routes.

The money is safe when several things hold together that no single function decides: a
signature is accepted once although replicas' clocks differ and replies get lost; the sum of
what is in flight never falls below what has been accepted; a job is neither lost nor filed
wrongly whatever the facilitator answers and whenever a consumer dies; a priced route stays
priced through any order of events; a buyer who is quoted a price pays that or nothing. This
project models those parts, checks them with TLC on small instances and proves the safety
properties of each part, and of the gateway that they make up, with TLAPS for every instance.

## 1. The system

| Component | State it keeps | Operations | Hard behaviour |
|---|---|---|---|
| `internal/reserve` ledger in Redis | `nonce:{payer}:<nonce>`, `inflight:{payer}`, stream `settle`, all with TTLs | reserve and release scripts, capture (XADD) | keys that expire; scripts run twice; amounts beyond 2^53 |
| `internal/extproc` filter | one `request` per stream, the price table | request headers, response headers, stream end | deadline, lost replies, crash with an open hold, order of response and stream end |
| `internal/x402/verify` | none | Verify | window and cap against a local clock |
| `internal/balance` cache | `bal:{payer}`, reads under way per replica | Get, detached read and write | stamps by other clocks, overtaken writes, waiters |
| `internal/rdb` clients | none | every call, retried | a retry runs a command again that had run |
| `internal/settle` settler | consumer group with its pending list, dead-letter stream | step, claim, handle, done, dead | redelivery, two consumers on a job, late transactions, deaths between calls |
| `internal/facilitator`, `internal/radius` | the chain (external) | /settle, authorizationState, balanceOf | answers that are late, lost, wrong about the outcome |
| `internal/controller` | work queue, caches; EEPs, status, ConfigMap, ReferenceGrant | Reconcile, project, the watches | lagging caches, failing writes, restarts, two policies on one route |
| `internal/pricing` | the table in force | Parse, Watcher, Store | a table that arrives late, does not parse, or is deleted |
| `cmd/x402-filter` process | health status, context, open streams | readiness, SIGTERM, drain, exit | readiness against shutdown, streams that outlast the drain |
| `internal/buyer`, `internal/paywall` | one Pay | Render, Choose, Sign, Pay | two requests at replicas that differ, a connection that breaks after the capture |

How they interact. Filters and settlers never call each other: they meet in the ledger (both
release from `inflight:{payer}`, filters append to the stream that settlers read) and in the
payer's balance, which settlements change while the cache remembers an older one. The
controller and the filters meet in the price-table ConfigMap, the controller and Envoy
Gateway in the EEPs. Deployed are two filter replicas, one settler, one controller and one
Redis (`deploy/k8s/x402-system`); the settler's code allows for several consumers, and a
rolling update has two for a while, so the model has two.

What makes each part correct:

* ledger and filter: a signature is accepted once; the in-flight sum never undercounts, is
  exact in Lua and keeps concurrent requests within the balance; a refused or put-off request
  costs no signature; one job per captured request and none for a released one; holds end;
* cache: how stale a number may be when a request is decided on it; no waiter without a read;
* settler: a job is acknowledged only when its outcome is known; filed as paid only when paid;
  called expired only when it can never be paid; every job ends;
* the whole: a payment's life cycle; an amount is counted until its settlement is over;
* controller: what was handled is enforced, and everything converges;
* process: a priced route never becomes free by accident, ready means able, a drain cuts off
  nobody and ends;
* buyer: an honest payment is honoured, charged as quoted, not charged on an error, and Pay
  returns.

`PROJECT.json` lists the hazards behind these properties, each at its line. A hazard that no
property catches, or only in part, has a note there; section 7 says more about them.

## 2. The modules

| Module | Models | Uses |
|---|---|---|
| `Reserve` | `reserve.go`: the ledger, each script an atomic change | |
| `Filter` | `extproc/server.go`, `verify.go`, `rdb.go`: streams on replicas | extends `Reserve` |
| `FilterProps` | the filter's properties and the parts of its inductive invariant | extends `Filter` |
| `SumProofs` | laws of finite sums, for the in-flight sum | |
| `FilterProofs` | theorems and proofs | extends `FilterProps`, `SumProofs` |
| `Chain` | the token contract and the facilitator's transactions (external) | extends `Reserve` |
| `Settle`, `SettleProps` | `settle.go`: consumers of one group | extends `Chain` |
| `Balance`, `BalanceProps` | `balance.go` | |
| `Gateway`, `GatewayProps` | filter, cache, ledger, settlers and chain together | instances of `Filter`, `Settle`, `Balance` over shared variables |
| `Payment` | abstract specification: the life cycle of a payment | instantiated by `GatewayProps` |
| `Controller`, `ControllerProps` | `reconciler.go`, `project.go`, `pricing/watch.go` | |
| `Time` | true time, its horizon | |
| `Process`, `ProcessProps` | `cmd/x402-filter/main.go`, `pricing/watch.go`, `Store`: the life of a replica | extends `Time` |
| `Verify` | `verify.go`, `x402/types.go`: offers, payments and when one is good | |
| `Buyer` | `buyer.go`, `x402-buyer pay` | extends `Verify`, `Time` |
| `Checkout`, `CheckoutProps` | buyers at replicas whose tables and clocks differ | extends `Buyer` |
| `GatewayProofs` | theorems and proofs | extends `GatewayProps`, `SumProofs`; instances of `FilterProofs`, `SettleProofs`, `BalanceProofs` |
| `SettleProofs`, `BalanceProofs`, `ControllerProofs`, `ProcessProofs`, `CheckoutProofs` | theorems and proofs | each extends its `*Props` module |
| `MC*` | constants, and symmetry sets, for TLC | extend the `*Props` modules |

Definitions whose comment begins with "Mutant:" are plausible bugs of the definition after
them. No specification uses them; they show that each property can fail.

**Reserve.** A key with a TTL is the absolute time at which it stops to exist (`nonceExp`,
`inflightExp`); `Inflight(p)` is what `GET` would return. `ReserveScript` checks for a replay,
then the clamped balance less what is in flight, and only then claims, counts and restarts
the in-flight TTL, as the Lua does. `ReleaseScript` deletes the key at zero or below. The TTL
of a claim is computed from the caller's clock before the call (`NonceTTL`) and counted from
Redis' clock (`now`).

**Filter.** `req[s]` is the `request` struct of one stream with the place its handler has
reached: `idle`, `balance` (in `cache.Get`), `reserving`, `open` (at the backend),
`capturing`, `releasing`, `answered`, `closed`. `Screen` is `requestHeaders` up to the first
call, with the code's order of checks. Every call on Redis is a step: it succeeds
(`...Reply`), or is lost (`...Lost`): either it never ran or it ran and its reply was lost,
and the client runs it again while `tries < MaxRetries`, or gives up. `StartRelease` sets
`released` before the call, as `release` does. `Crash(r)` closes the replica's streams
without `finish` and forgets its table. A replica's clock is `now + Skew[r]`.

**Settle.** `cursor`, `count`, `since` and `acked` are the consumer group; `batch[c]` and
`work[c]` a consumer's loop and the place `handle` has reached. Each call is a step; `Die`
may come between any two. /settle is sent or not; once sent the transaction may land within
`LandWithin`, also after the answer was lost, or never. `Ask` is the code after a failure:
ask the chain, and when it cannot be asked believe a definite refusal and retry anything
else. `filed` and `dead` record what was logged and dead-lettered. On its own the module
feeds itself with `Serve`, which stands for an accepted and captured request; in `Gateway`
the filter does that.

**Balance.** `cached[p]` is `bal:{payer}`, `fetch[r][p]` the one read a replica has under way
for a payer (singleflight), `get[s]` a request's `Get`. As a history variable every value
carries the time at which the chain was read, so that staleness can be stated.

**Gateway.** The three components over one ledger and one balance: a filter's balance step is
answered by the cache, which reads the chain that settlements change.

**Controller.** Teams edit policies and routes; `seen` and `seenRoutes` are the controller's
caches, which take one object's change at a time, in any order between objects; `worker` is
where the single `Reconcile` stands, with the object it read. Every write is a step that may
fail (`CallFails`), after which the policy is queued again. A policy's `uid` tells a
re-created object from its predecessor, whose EEP Kubernetes collects in its own time.
`Projections` is the set of tables `project` may compute: with two policies on a route the
last listed wins, and the list has no order.

**Process.** main, the watcher and the readiness goroutine of a replica interleave; SIGTERM
moves `main` to `told` and each sees the cancelled context in its own time. The readiness
goroutine's `check` is two steps, the ping and the report, because `hs.Shutdown` may come
between them; `latched` is the health server's own flag that makes a late report harmless.
`Apply` is the watcher: a ConfigMap that does not parse, lacks the key or is deleted leaves the
last good table, and a new process starts without one. A request is a stream with the decision
its table led to; `Untimed` requests are on routes without an Envoy timeout. `Start` is
Kubernetes, `CloseStream` Envoy.

**Buyer and Verify.** `pay[b]` is where a `Pay` stands: `asking` (first request out),
`quoted`, `paying` (second request out), `waiting` (accepted, at the backend), `answering`,
`ended` with a result. `Accepts` is what `paywall.Render` offers, `Life` and `Clock` give the
signed `validBefore`, `Verify` has the checks of the code in their order. `LoseAnswer` is a
connection that breaks: Pay returns the error, or net/http, on a connection it had used
before, sends the same request again.

**Checkout.** Each of the two requests meets any replica. `Quote` is the answer to the first,
`Admit`, `Refuse` and `PutOff` are `accept` with its outcomes, `Respond` the response phase.
`ReserveLost` is the outcome of `accept` when the reserve script ran and its reply was lost: the
client's one retry (`rdb.go:26`) meets the request's own claim and the answer is a 402 for a
replay, or there is no try left and it is a 503; the claim stays. The seller's `stream` outlives a client that has gone, so a capture may come after the buyer
gave up. What `Filter` has in single calls is one step here, and what it shows (a signature is
claimed once) is taken over as `claimed`.

## 3. The runs

Each run has one cfg of its name. All bounds are constants named in the modules.

| Run | Instance | Checks |
|---|---|---|
| `FilterFaults` | one signature, two replicas a tick apart, two streams, two faults of any kind, liveness | `TypeOK`, `ServedOnce`, `HoldsEnd`, `BackstopClears` |
| `FilterLedger` | three payments of one payer who can afford two, two replicas, one crash or lost call | `NeverUndercounts`, `NoOverdraft`, `InflightExact`, `ClaimMeansAccepted`, `QueueMatchesDecisions` |
| `SettleJobs` | one job, parsable or not, two consumers, two faults of any kind, cancellation, liveness | `TypeOK`, `AckedIsKnown`, `FiledPaidIsPaid`, `ExpiredNeverPaid`, `EveryJobEnds` |
| `BalanceCache` | one payer, two replicas a tick apart, each with one request after another | `TypeOK`, `BoundedStaleness`, `WaitersHaveARead` |
| `GatewayLifeCycle` | one signature at two replicas, lost calls and crashes on both sides | `LifeCycle`: implements `Payment` |
| `GatewayCounts` | two payments of one payer on one replica, one settler, a lost call or a failing RPC | `CountedUntilSettled` |
| `ControllerSettled` | two policies on two routes, three edits, one failing call or restart | `TypeOK`, `SettledIsEnforced` |
| `ControllerConverges` | two policies on one route, two edits, one failing call, one filter, liveness | `Converges` |
| `ProcessRollout` | one replica, one request with and one without a route timeout, three events out of table writes, turns of Redis, SIGTERM and kill, liveness | `TypeOK`, `FreeOnlyIfUnpriced`, `ReadyMeansAble`, `DrainCutsNobody`, `ProcessesExit`, `ReadinessFollows` |
| `CheckoutPays` | one buyer with one of three wallets, two replicas a tick apart, four offers, two table changes or kills, one broken connection, liveness | `TypeOK`, `ChargedAsQuoted`, `ErrorMeansUncharged`, `HonestPaymentHonoured`, `PayEnds` |
| `GatewayReleaseTwice`, `ControllerTypo` | | one statement each that the code does not keep: section 6 |

Why these bounds. The hard cases need two actors on one thing: two streams with one
signature, two streams of one payer, two consumers on one job, two policies on one route;
and one or two faults, the second to hit the retry. Time runs to the point where everything
that can expire has: the claim plus margin, the in-flight TTL after the last arrival, the
signature's window. In `FilterFaults` the window closes while requests still arrive, so the
claim's end races the last verifier, which is where `ServedOnce` is decided; removing
`NonceMargin` breaks it there. In `FilterLedger` the payer's balance (6) is above `MaxExact`
(4), so that the clamp matters, and covers two of three payments. `SettleJobs` has
`MaxDeliveries = 2` so that the delivery limit is reached within the faults. `ProcessRollout`
needs one replica only: replicas share nothing but the ConfigMap and Redis, and three events
are a broken table, a restart and a stop. Events end early enough (`LastEvent`) for the drain
limit to fall inside the horizon. `CheckoutPays` has one buyer, since buyers share nothing
that matters here; its wallets are a tick ahead, level with a short `-valid-for`, and two ticks
ahead, which with replicas at 0 and 1 gives every side of the allowance of 1; a signature lives
1 or 2 ticks of the 4. Its offers differ in price, network and timeout; the one that differs
only in its timeout is for `ChargedAsQuoted`, since `Verify` does not compare it.

What the instances leave out on purpose:

* `FilterLedger` and `GatewayCounts` have no fault "ran, but the reply was lost", and
  `GatewayCounts` no death of a settler: the sum then undercounts, which
  `GatewayReleaseTwice` shows. In `GatewayCounts` the in-flight key also outlives the run
  (`MaxTime < InflightTTL`); when it does not, a late release undercounts (section 7). What
  the two runs show is that nothing else makes it
  undercount, and section 5 proves that.
* `FilterLedger` has `MaxServe < InflightTTL`: Envoy ends a stream (its default route timeout
  is 15 s) before the 30 s of the in-flight key. A route whose timeout is longer is outside
  this.
* `MaxSettleFaults` is at most the settler client's `MaxRetries` (3), so "tried again" is
  always possible.
* `ProcessRollout` has `MaxServe < Drain`, as deployed: Envoy's 15 s against `-drain` 20 s.
* At the horizon of `Settle` the clock stands for any later time: every signature has
  expired and every pending job is idle.

Symmetry is used only in runs without liveness, over streams of one replica and over
payments that are alike.

## 4. Fairness

* Filter: weak fairness of each stream's handler, of Envoy for each stream, and of time.
  Handlers run under contexts with deadlines, so every call returns; Envoy ends every stream
  by its route timeout. Arrivals, tables, faults and crashes are owed by nobody.
* Settle: weak fairness of each consumer and of time. `Run` loops for ever and every call has
  a timeout. The chain owes nothing: a transaction need not land.
* Controller: weak fairness of the watches, of Kubernetes' collector and Envoy Gateway for
  each policy, and of the worker; strong fairness of `Reconcile(p)`, since the worker serves
  the queue in order and so reaches each policy, although it is busy again and again. Edits
  and faults are bounded, which is "once they stop".
* Process: weak fairness of each goroutine of a replica, of Kubernetes' replacement of what has
  exited, of time, and of the end of streams on routes with a timeout. Nobody owes the end of
  an untimed stream, which is what `ProcessesExit` is about.
* Checkout: weak fairness of a Pay that has begun, of time and of Envoy's route timeout, and of
  nothing else: `PayEnds` does not rest on the filter or the backend.

## 5. The proofs

Every invariant that a run checks is proved with TLAPS, for any sets of replicas, streams,
payments, payers, consumers, jobs, policies, routes, buyers and tables, and any number of
faults, and so is the refinement of `Payment` by `Gateway`. Each `*Proofs` module extends the `*Props` module that has the inductive
invariant; TLC checked each invariant on the component's run before it was proved.

| Module | Theorems, each `Spec => []...` | Inductive invariant |
|---|---|---|
| `FilterProofs` | `TypeCorrect` (`TypeOK`), `SignatureServedOnce` (`ServedOnce`), `SumsExact` (`InflightExact`) | `FilterInv` |
| `FilterProofs`, if replies arrive and holds outlive serving | `SumsNeverUndercount` (`NeverUndercounts`), `BalancesCoverHolds` (`NoOverdraft`), `ClaimsWereAccepted` (`ClaimMeansAccepted`), `QueueIsRight` (`QueueMatchesDecisions`) | `HoldsInv` |
| `SettleProofs` | `TypeCorrect`, `NoJobIsLost` (`AckedIsKnown`), `PaidIsPaid` (`FiledPaidIsPaid`), `ExpiredStaysUnpaid` (`ExpiredNeverPaid`) | `SettleInv` |
| `SettleProofs`, one consumer that is not disturbed | `AmountsReturnOnce` (`ReleasedOnce`) | `SettleInv`, `OnceInv` |
| `GatewayProofs`, if replies arrive | `GatewayInvariance`, `PartsHoldTogether`, `ImplementsLifeCycle` (`LifeCycle`, the refinement) | `GatewayInv` |
| `GatewayProofs`, if also holds outlive serving | `CountedWhileReleasesAreDue`, `CountedWhenInTime`, `CountedInTheFirstLife` (`CountedUntilSettled`, under three conditions: below) | `GatewayInv`, `CountInv`, `DueInv` |
| `BalanceProofs` | `TypeCorrect`, `StalenessIsBounded` (`BoundedStaleness`), `NobodyWaitsInVain` (`WaitersHaveARead`) | `BalanceInv` |
| `ControllerProofs` | `TypeCorrect`, `HandledIsEnforced` (`SettledIsEnforced`) | `ControllerInv` |
| `ProcessProofs` | `TypeCorrect`, `PricedStaysPriced` (`FreeOnlyIfUnpriced`), `ReadyReplicaIsAble` (`ReadyMeansAble`), `TimedRequestsSurviveDrain` (`DrainCutsNobody`) | `ProcessInv` |
| `CheckoutProofs` | `TypeCorrect`, `ChargeIsTheQuote` (`ChargedAsQuoted`), `ErrorsAreFree` (`ErrorMeansUncharged`); the action property `HonestBuyersAreServed` (`HonestPaymentHonoured`) | `CheckoutInv` |
| `SumProofs` | laws of finite sums: `SumType`, `SumRemove`, `SumMonotone`, `SumSame` | |

### Assumptions

All are named, in the module that declares the constants, and evaluated by TLC in every run of
the component. Most are types. Those that say more:

* `SkewAssumption` (filter): for any two replicas, the difference of their clocks plus one
  request deadline is at most `NonceMargin`. The defaults give it room: 60 s against 250 ms,
  so clocks may differ by almost a minute.
* `FilterAssumption`: prices are within `MaxExact`, which `pricing.MaxPrice` enforces; the set
  of streams is finite, so that there is a sum over it.
* `HoldsOutliveServing`, a hypothesis of the theorems that name it: the request deadline
  and the route timeout are below the in-flight TTL (250 ms and 15 s against 30 s). Without it
  a key expires under a request that is still being served.
* `RepliesArrive`, a hypothesis of the same theorems and of all about the gateway: no command
  of a filter runs whose reply is lost (replies to settlers may be). They are false without
  it: a release that ran and is retried gives back twice (finding 1),
  a reserve script whose reply is lost leaves a claim without a request, an XADD is queued
  twice (section 7). Calls that never reach Redis and crashes are not excluded.
* `DrainAssumption` (process): `MaxServe < Drain`, 15 s against 20 s as deployed.
* `CheckoutAssumption`: true time is that of the slowest replica, so that skews are natural
  numbers; that loses no generality.
* `GatewayAssumption`: what the parts assume, for the whole. Where a part has a bound of its own
  the whole gives it a value: a settler's queue is as long as there are streams, which is
  proved to be enough (`QueueFits`), and a balance is any natural number.
* `Undisturbed`, a hypothesis of `AmountsReturnOnce`, `CountedWhenInTime` and
  `CountedInTheFirstLife`: one settler, as deployed, whose calls on Redis are answered and which
  is not killed between two of them. Any failure of the facilitator and of the chain is allowed.
* `BalanceAssumption`: at least one payer; `Fresh <= LastKnown`.

### Arguments

**A signature is served once.** `ServedOnce` is not inductive: nothing in it says that an old
claim is still there. `FilterInv` adds `PhaseInv` (a stream that has not reached the script has
no reservation), `WindowInv` (a stream that may still reserve was verified before
`validBefore` on its own clock, and the TTL it is about to use reaches beyond it by the margin,
although it was computed earlier than it is used) and `ClaimInv` (an accepted payment's claim
lasts to `validBefore`, on the accepting replica's clock, plus the margin). Lemma
`ClaimStillAlive` is the heart: a stream that runs the script within its deadline was verified
inside the window, so by `SkewAssumption` it finds the claim of every earlier acceptance alive,
and the script answers "replay". That covers the retry after a lost reply (it meets its own
claim) and a crash (the claim outlives the replica).

**The sum never undercounts.** `NeverUndercounts` speaks of what is held; the sum also has what
a release under way is about to give back. `Counted` is that larger set, and `SumInv` says that
its sum is within the key, that the key lives as long as anything counted, and that the key is
within the clamped balance; `StageInv` gives for each phase how far its reservation got, and
`QueueInv` matches jobs with captured requests. A step moves one stream in or out of `Counted`,
so the proof needs to take one element out of a sum: `SumRemove`. The library defines the sum by
a fold that picks elements in an unknown order, and its induction theorems cannot be used by the
provers here; `SumProofs` does induction by a least counterexample, over the set of the
cardinalities for which a law holds.

**No job is lost or misfiled.** `AckedIsKnown` says nothing of what a consumer is about to do.
`Told` says, for each step of `handle`, what the consumer knows of its job; `Justified`, what an
outcome says of the chain. The point is that these stay true while other consumers act and
transactions land: a used nonce stays used, a refusal stays a refusal, and after `validBefore`
no transaction lands, so that "expired and not settled" cannot be overtaken.

**A balance is as old as the window says.** `EntryInv` says that an entry was written, by
Redis' clock, within one read timeout of what it saw on chain, and stamped by the clock of some
replica; `ReadInv` that a read under way has not outlived its timeout. The age by the reader's
clock then differs from the true one by the difference of two clocks (`FreshAge`); the last
known value does not depend on any clock but Redis' (`EntryAge`).

**What was handled is enforced.** `PolicyInv` says of each policy that it is queued, or that
what the caches say of it has been acted upon, up to where the worker stands with it. The hard
part is another policy's reconcile, which writes a table that it listed earlier: `ListedInv`
says that such a table still agrees with the cache, or the policy is queued again, because the
watch that changed the cache has queued it. The proof needs no fairness and no order of events.

**Ready means able; a drain cuts off nobody.** `CheckInv`: a checker past its wait has a table,
which is never taken away, and a health server of a process that drains is latched, so a late
report changes nothing. `DrainInv`: the streams of a draining process began before the drain.

**Charged as quoted.** `TermsInv`: the accepted stream, and the job made from it, have the terms
of the buyer's offer, by what `Verify` compares; `SignedInv` and `OnceInv` say what the seller
may have of a buyer at each place of its `Pay`. For `HonestBuyersAreServed` the signed window is
computed (`Life`, `Clock`) and compared with each of the checks of `Verify`; and a "replay" can
only come from `Refuse`, where by `OnceInv` a claim of a payment that was sent once is not yet
there, or from `ReserveLost`, whose own step makes it (`ReplayStep`).

**The parts hold together.** `GatewayInv` is the parts' invariants side by side, with `ChainInv`:
what is in the mempool or settled has a job. The proof reuses the parts' lemmas, instantiated
over the shared variables: each step of the gateway is shown to be a step those lemmas speak of
(`FilterMoves`, `BalanceMoves`, `SettlerMoves`, `ChainMoves`, `CacheMoves`), and each part to
stand the steps of the others. `HoldsInv` cannot be taken over, because it says that requests
are decided on the true balance, and here they are decided on what the cache remembers;
`LifeInv` is what remains of it for any balance. Of a settler the filter sees only releases,
of the filter a settler sees only a queue that grows (`HandlerKeeps`), and neither sees more of
the cache than a number.

**The gateway implements the life cycle.** `Status` maps a payment to the abstract state, the
chain's word first. `Acts` says of a handler's step what it does to its reservation: it keeps it,
accepts, captures, forgives or refunds, and the middle three are moves of the life cycle. A
payment is accepted by one stream (`ServedOnce`), so the step of a stream moves one payment;
captured and forgiven exclude each other (`Lived`), and by `ChainInv` and `QueueInv` only a
captured payment can be charged (`OneHolder`), which leaves the chain one move: owed to charged.
Settlers, caches, crashes and time do not move a payment.

**A payment is counted until it is settled.** What is out is what a request holds and what is
captured and not yet given back, as long as the key of its reservation would live. `InSum` adds
the releases that a filter has decided on and that have not reached Redis, and `SumsCover` says
that the sum covers them and that the key outlives them; `JobsSay`, that a job has the amount
its request reserved, so that the settler gives back what the filter counted. Each step takes at
most one stream out of `InSum` with its price (`SumsRelease`), puts one in (`SumsAccept`) or only
narrows it (`SumsNarrow`). A settler's release takes its own payment out if, and only if, that
is still in: it must be the first for its job (`ReleasesAreFirst`), and not come after the key
expired (`ReleasesAreInTime`). The theorem `CountedWhileReleasesAreDue` has the two as its
hypothesis, `[]ReleasesAreDue`, for any number of settlers, deaths and lost calls of theirs.
Neither can be dropped: finding 1 is a second release, section 7 has a late one. `AmountsReturnOnce` and its invariant `OnceInv` (what was given back is acknowledged or
about to be, and nobody is handed what is acknowledged) discharge the first for an undisturbed
settler: `CountedWhenInTime`. The code does not guarantee the second, since a retry waits longer
than the key lives; it holds until the first key can expire: `CountedInTheFirstLife`, which is
what `GatewayCounts` checks, for any constants.

### What is only model-checked

* Liveness (`HoldsEnd`, `BackstopClears`, `EveryJobEnds`, `Converges`, `ProcessesExit`,
  `ReadinessFollows`, `PayEnds`): fairness and ENABLED are out of the prover's reach.

## 6. Findings

Statements of the repository that the code does not keep; each run ends with TLC's
counterexample.

1. `GatewayReleaseTwice`: `reserve.go:12-14` calls the in-flight sum the "sum of
   accepted-but-unsettled amounts" and overcounting the safe direction. `done` releases
   before it acknowledges; a settler that dies in between releases again on redelivery, and
   the payer's other payments are no longer covered. A lost XACK, and the client's retry of a
   release that had run (`rdb.go:26`), do the same.
2. `ControllerTypo`: `docs/architecture.md:181-182` says "a typo never makes a priced route
   free". The schema takes a price of 0, `validate` does not, and `reconcilePolicy` then
   removes the EEP.

## 7. Other disagreements met while modelling

The modules have these behaviours too; they are not runs of their own.

* `payment_test.go:334`: "a 503 must not reserve". When the reserve script ran and its reply was
  lost (`ReserveLost` after its last try), the answer is a 503, and the signature is claimed
  and the amount counted until its TTL; a retry with the signature is refused as a replay.
* `reserve.go:95-96`: "a refused request never burns a nonce". If the reply is lost and the client
  runs the script again, it meets its own claim: a payment that was sent once is answered 402 for
  a replay, nothing is served or charged, and the signature is used up and its amount counted
  until its TTL. `HonestPaymentHonoured` makes room for exactly that (`OwnClaim`).
* `reserve.go:12-13`: the sum is kept "so the cached balance is spent at most once". The settler
  releases once the transfer is known while the cache still has the balance from before it, and
  the same money is accepted again, for as long as `BoundedStaleness` allows.
  `docs/architecture.md:125` has it more exactly: "before the chain catches up".
* `server.go:332-333`: "nobody is charged" when nothing was served. A replica that dies between
  the capture and its answer makes Envoy answer 5xx for a request that is charged; a connection
  that breaks there may have net/http send the signature again, to be told 402 for a replay.
  `ErrorMeansUncharged` makes room for exactly these.
* `cmd/x402-buyer/main.go:403-405` prints "paid" whenever an offer was signed, also when the
  second answer refuses the payment (the command then fails with `HTTP 402`).
* `server.go:96` files a failed capture as "served unpaid". If the XADD ran and its reply was
  lost, the job is queued and will be charged, with the hold given back and no receipt.
* `server.go:391`: after a failed release "the payer is overcounted until then", the 30 s
  TTL. Each later reservation of the payer restarts that TTL, so a payer who keeps paying
  stays overcounted. `BackstopClears` therefore speaks of the time after requests stop.
* `reserve.go:39`: "reserve → capture or release takes well under this", the TTL of the in-flight
  key. The settler's release comes after the settlement, and for a retried job `DefaultMinIdle`
  (60 s) later at the least, when the key (`DefaultInflightTTL`, 30 s) has expired: if the payer
  has made a new key with another payment since, the release is taken off that, and no fault is
  needed. `GatewayCounts` with `InflightTTL = 1`, `MaxServe = 0`, `LastArrival = 1` and no faults
  ends in such a state.
* `settle.go:221`: "ask the chain before believing it". If the chain cannot be asked, a
  definite refusal is believed, also when an earlier attempt got through.
* `settle.go:284-285`: a dead-lettered job "is a served request the seller was not paid for".
  The delivery limit is checked before the chain is asked, so an earlier delivery may have
  been paid.
* `settle.go:221-222`: "a used nonce means the transfer happened". A cancelled authorization
  is used too, and its job is filed as `settled_on_chain`; `FiledPaidIsPaid` makes room for
  exactly that.
* `reconciler.go:199`: "the table never depends on a status write landing". `Reconcile`
  returns before `project` when `setAccepted` fails.
* `reconciler.go:198-199`: acceptance "is decided here the same way as in reconcilePolicy".
  `project` does not look at a conflict, so the price charged may be that of the policy
  reported as Conflicted; `InStep` therefore asks only for the price of one of them.
* `project.go:9-11`: "there is no state to drift". When the last policy is deleted while the
  controller is down no event starts a reconcile, and price and grant stay.

## 8. What is not modelled

* Stream trimming at `StreamMaxLen`, XAUTOCLAIM's paging (one step here) and the loss of up
  to a second of writes when Redis restarts.
* Signature recovery, EIP-712 hashing, JSON and header codecs: a payment parses and is signed
  by its payer for one chain, or is `Malformed`. Of the paywall's answer only the offer is
  modelled; `paywall_error` is one more way of refusing.
* The price table's field-by-field validation: a spec is valid or not. Of Envoy Gateway's
  verdicts only the conflict.
* The settler's clock is the chain's: `ExpiredNeverPaid` rests on it, as the code does when it
  compares `validBefore` with its own time.
* A table that the informer still stores between SIGTERM and the end of its watch: `WatchTable`
  stops with the signal.
* The dead-letter stream is a set, so a second copy of a job is not told apart.
* In `Gateway` a drained stream ends or is cut off, which are `StreamEnd` and `Crash`; `Process`
  has the drain itself. Flags, the settler's and the controller's health servers, KeepWarm.
* Of the buyer's tools: keygen, balance, the faucet's Drip, `sign` and the `settle` check, which
  are sequential and keep no state. `TransferMethod`, scheme and asset have one value here.
* Envoy's per-message timeout after a capture. The response phase is one Redis call with a
  deadline below it; if it struck, a captured request would be answered 504.
* The legacy gateway, deployment and tools.

## 9. Plan

Done first, because it is where the money is: ledger, filter, settler; then cache and the
composition with the abstract life cycle; then the controller; then the filter's process and
the buyer's side; then the proofs, component by component; then those about the composition.

Left: Redis restarts that lose the last second, stream trimming, and paged claims in `Settle`;
`GatewayInv` without `RepliesArrive`, which needs a queue that may hold a job twice.
