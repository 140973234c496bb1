------------------------------- MODULE Settle --------------------------------
(***************************************************************************)
(* The settler (package settle): consumers of one group on the capture     *)
(* stream.  A consumer reads new jobs, or claims jobs that were delivered  *)
(* and have sat idle for MinIdle, and takes them one by one to a known     *)
(* outcome, or leaves them pending for a later claim.                      *)
(*                                                                         *)
(* Each call on Redis, on the facilitator and on the chain is a step of    *)
(* its own; a consumer may die between any two of them.                    *)
(***************************************************************************)
EXTENDS Chain, FiniteSets

CONSTANTS
    Settlers,
    Count,           \* jobs per read
    MinIdle,         \* in ticks
    MaxDeliveries,
    Unparsable,      \* payments whose job ParseJob refuses
    Foreign,         \* payments the settlers cannot settle: no facilitator or RPC for
                     \* their network, or a payload that does not decode
    SettleFaults,    \* the faults that happen, of SettleFaultKinds
    MaxSettleFaults, \* bound: how many of them; at most go-redis' MaxRetries, so every
                     \* lost call may be tried again
    MaxJobs,         \* bound: entries of the stream
    Horizon          \* bound: the clock stops here, after every signature expired

SettleFaultKinds == {"unsent", "unacked", "rpc", "crash"}
JobIds == 1..MaxJobs

ASSUME SettleAssumption ==
    /\ {Count, MinIdle, MaxDeliveries} \subseteq Nat \ {0}
    /\ {MaxSettleFaults, MaxJobs, Horizon} \subseteq Nat
    /\ Unparsable \subseteq Payments /\ Foreign \subseteq Payments
    /\ SettleFaults \subseteq SettleFaultKinds
    /\ \A m \in Payments : Auth[m].validBefore <= Horizon

VARIABLES
    cursor,       \* the group's last-delivered entry
    count,        \* pending list: deliveries of each entry (0: never delivered)
    since,        \* pending list: when each entry was last delivered
    acked,        \* entries acknowledged, hence off the pending list
    dead,         \* the dead-letter stream: entry and outcome
    filed,        \* outcomes logged with an acknowledgement: entry and outcome
    batch,        \* by consumer: entries delivered to it and not handled yet
    work,         \* by consumer: where the handling of the first one stands
    released,     \* entries whose in-flight amount was given back
    refused,      \* entries the facilitator refused for good
    settleFaults

groupVars == <<cursor, count, since, acked, dead, filed>>
settleVars == <<groupVars, batch, work, released, refused, settleFaults>>

Steps == {"ready", "settling", "waiting", "asking", "askExpired", "deadletter",
          "releasing", "acking"}
Outcomes == {"none", "settled", "settled_on_chain", "settle_failed",
             "expired_unsettled", "dead_lettered"}

Idle == [step |-> "ready", outcome |-> "none", definite |-> FALSE]

SettleTypeOK ==
    /\ cursor \in Nat
    /\ count \in [JobIds -> 0..(MaxDeliveries + 1)]
    /\ since \in [JobIds -> Nat]
    /\ acked \subseteq JobIds /\ released \subseteq JobIds /\ refused \subseteq JobIds
    /\ dead \subseteq JobIds \X Outcomes
    /\ filed \subseteq JobIds \X Outcomes
    /\ batch \in [Settlers -> Seq(JobIds)]
    /\ work \in [Settlers -> [step : Steps, outcome : Outcomes, definite : BOOLEAN]]
    /\ settleFaults \in 0..MaxSettleFaults

SettleInit ==
    /\ cursor = 0
    /\ count = [i \in JobIds |-> 0]
    /\ since = [i \in JobIds |-> 0]
    /\ acked = {} /\ dead = {} /\ filed = {} /\ released = {} /\ refused = {}
    /\ batch = [c \in Settlers |-> <<>>]
    /\ work = [c \in Settlers |-> Idle]
    /\ settleFaults = 0

SettleFault(kind) ==
    /\ kind \in SettleFaults
    /\ settleFaults < MaxSettleFaults
    /\ settleFaults' = settleFaults + 1

------------------------------------------------------------------------------
(* Deliveries *)

Pending(i) == count[i] > 0 /\ i \notin acked

\* At the horizon the clock stands for any later time.
IsIdle(i) == now - since[i] >= MinIdle \/ now = Horizon

\* The group hands ids to consumer c: delivery count up, idle time reset.
Deliver(c, ids) ==
    /\ batch' = [batch EXCEPT ![c] = ids]
    /\ count' = [i \in JobIds |->
          IF \E k \in DOMAIN ids : ids[k] = i /\ count[i] <= MaxDeliveries
          THEN count[i] + 1 ELSE count[i]]
    /\ since' = [i \in JobIds |-> IF \E k \in DOMAIN ids : ids[k] = i THEN now ELSE since[i]]

Free(c) == batch[c] = <<>>

\* step: XREADGROUP hands out the next entries nobody was given.
Read(c) ==
    LET left == Len(stream) - cursor
        n == IF left < Count THEN left ELSE Count
    IN
    /\ Free(c)
    /\ n > 0
    /\ Deliver(c, [k \in 1..n |-> cursor + k])
    /\ cursor' = cursor + n
    /\ UNCHANGED <<now, ledger, chainVars, acked, dead, filed, work, released, refused,
                   settleFaults>>

\* claim: XAUTOCLAIM takes over every entry that has been pending for MinIdle, in order.
ClaimIdle(c) ==
    LET due == {i \in 1..cursor : Pending(i) /\ IsIdle(i)} IN
    /\ Free(c)
    /\ due # {}
    /\ \E ids \in [1..Cardinality(due) -> due] :
         /\ \A j, k \in DOMAIN ids : j < k => ids[j] < ids[k]
         /\ Deliver(c, ids)
    /\ UNCHANGED <<now, ledger, chainVars, cursor, acked, dead, filed, work, released,
                   refused, settleFaults>>

------------------------------------------------------------------------------
(* handle *)

Current(c) == Head(batch[c])
Pay(c) == stream[Current(c)].pay

At(c, step) == ~Free(c) /\ work[c].step = step

Goto(c, step, outcome) ==
    work' = [work EXCEPT ![c] = [@ EXCEPT !.step = step, !.outcome = outcome]]

\* handle returns; the job stays on the pending list unless it was acknowledged.
NextJob(c) ==
    /\ batch' = [batch EXCEPT ![c] = Tail(@)]
    /\ work' = [work EXCEPT ![c] = Idle]

\* deliveries: the count on the pending list; 1 when the job is not there.
Deliveries(c) == IF Pending(Current(c)) THEN count[Current(c)] ELSE 1

\* The checks before any money moves, in the code's order.
Dispatch(c, n) ==
    IF Pay(c) \in Unparsable \/ n > MaxDeliveries \/ Pay(c) \in Foreign
    THEN Goto(c, "deadletter", "dead_lettered")
    ELSE IF now >= Auth[Pay(c)].validBefore THEN Goto(c, "askExpired", "none")
    ELSE Goto(c, "settling", "none")

Begin(c) ==
    /\ At(c, "ready")
    /\ \/ Dispatch(c, Deliveries(c)) /\ UNCHANGED settleFaults
       \/ SettleFault("unsent") /\ Dispatch(c, 1)
    /\ UNCHANGED <<now, ledger, chainVars, groupVars, batch, released, refused>>

\* The answer to /settle: definite is a 4xx other than "No available wallets".
Answered(c, definite) ==
    /\ work' = [work EXCEPT ![c] = [@ EXCEPT !.step = "asking", !.definite = definite]]
    /\ refused' = IF definite THEN refused \cup {Current(c)} ELSE refused

\* The facilitator does not send the transaction: it refuses the payment, has no wallet
\* free, fails, or is never reached.
SettleNotSent(c, definite) ==
    /\ At(c, "settling")
    /\ Answered(c, definite)
    /\ UNCHANGED <<now, ledger, chainVars, groupVars, batch, released, settleFaults>>

SettleSent(c) ==
    /\ At(c, "settling")
    /\ Submit(Pay(c))
    /\ Goto(c, "waiting", "none")
    /\ UNCHANGED <<now, ledger, groupVars, batch, released, refused, settleFaults>>

\* success: the facilitator saw the transfer on chain.
SettleSucceeds(c) ==
    /\ At(c, "waiting")
    /\ nonce[Pay(c)] = "settled"
    /\ Goto(c, "releasing", "settled")
    /\ UNCHANGED <<now, ledger, chainVars, groupVars, batch, released, refused, settleFaults>>

\* The transaction reverts (no funds, cancelled, expired) and the facilitator says so.
SettleReverts(c) ==
    /\ At(c, "waiting")
    /\ nonce[Pay(c)] # "settled"
    /\ Drop(Pay(c))
    /\ Answered(c, TRUE)
    /\ UNCHANGED <<now, ledger, groupVars, batch, released, settleFaults>>

\* Mutant: a transaction that was sent is taken for paid.
SettleTimesOutBelieved(c) ==
    /\ At(c, "waiting")
    /\ Goto(c, "releasing", "settled")
    /\ UNCHANGED <<now, ledger, chainVars, groupVars, batch, released, refused, settleFaults>>

\* SettleTimeout passes, or the answer is a 5xx or lost: the transaction is still out.
SettleTimesOut(c) ==
    /\ At(c, "waiting")
    /\ Answered(c, FALSE)
    /\ UNCHANGED <<now, ledger, chainVars, groupVars, batch, released, settleFaults>>

\* Mutant: any failure the chain does not contradict is final.
AskBelieves(c) ==
    /\ At(c, "asking")
    /\ Goto(c, "releasing", IF AuthorizationState(Pay(c)) THEN "settled_on_chain"
                            ELSE "settle_failed")
    /\ UNCHANGED <<now, ledger, chainVars, groupVars, batch, released, refused, settleFaults>>

\* A failure of any kind asks the chain: used is paid; unused, or no answer from the
\* chain, is settle_failed after a definite refusal and a retry otherwise.
Ask(c) ==
    /\ At(c, "asking")
    /\ \E used \in BOOLEAN :
         /\ \/ used = AuthorizationState(Pay(c)) /\ UNCHANGED settleFaults
            \/ SettleFault("rpc") /\ ~used
         /\ IF used THEN Goto(c, "releasing", "settled_on_chain") /\ UNCHANGED batch
            ELSE IF work[c].definite
                 THEN Goto(c, "releasing", "settle_failed") /\ UNCHANGED batch
            ELSE NextJob(c)
    /\ UNCHANGED <<now, ledger, chainVars, groupVars, released, refused>>

\* Mutant: an expired job is called lost without asking.
AskExpiredNot(c) ==
    /\ At(c, "askExpired")
    /\ Goto(c, "deadletter", "expired_unsettled")
    /\ UNCHANGED <<now, ledger, chainVars, groupVars, batch, released, refused, settleFaults>>

\* An expired job may have been paid already: ask before it is called lost.
AskExpired(c) ==
    /\ At(c, "askExpired")
    /\ \/ /\ IF AuthorizationState(Pay(c)) THEN Goto(c, "releasing", "settled_on_chain")
             ELSE Goto(c, "deadletter", "expired_unsettled")
          /\ UNCHANGED <<batch, settleFaults>>
       \/ SettleFault("rpc") /\ NextJob(c)
    /\ UNCHANGED <<now, ledger, chainVars, groupVars, released, refused>>

------------------------------------------------------------------------------
(* done and dead *)

\* A lost call: never run, or run and not answered.  Given up, or tried again.
LostCall(effect, same, giveUp, retry) ==
    /\ (SettleFault("unsent") /\ same) \/ (SettleFault("unacked") /\ effect)
    /\ giveUp \/ retry

\* dead: the job is copied to the dead-letter stream; without that it stays pending.
Bury(c) == dead' = dead \cup {<<Current(c), work[c].outcome>>}

\* Mutant: a dead job is copied and never acknowledged.
DeadLetterNoAck(c) ==
    /\ At(c, "deadletter")
    /\ Bury(c)
    /\ NextJob(c)
    /\ UNCHANGED <<now, ledger, chainVars, cursor, count, since, acked, filed, released,
                   refused, settleFaults>>

\* A job that does not parse has no amount to give back.
DeadLetter(c) ==
    /\ At(c, "deadletter")
    /\ \/ /\ Bury(c)
          /\ Goto(c, IF Pay(c) \in Unparsable THEN "acking" ELSE "releasing", work[c].outcome)
          /\ UNCHANGED <<batch, settleFaults>>
       \/ LostCall(Bury(c), UNCHANGED dead, NextJob(c), UNCHANGED <<batch, work>>)
    /\ UNCHANGED <<now, ledger, chainVars, cursor, count, since, acked, filed, released, refused>>

\* The release script runs for the job's payer and amount.
GiveBack(c) ==
    /\ ReleaseScript(Auth[Pay(c)].payer, stream[Current(c)].amount)
    /\ released' = released \cup {Current(c)}

\* A release that fails is logged; the job is acknowledged all the same.
Release(c) ==
    LET ack == Goto(c, "acking", work[c].outcome) IN
    /\ At(c, "releasing")
    /\ \/ GiveBack(c) /\ ack /\ UNCHANGED settleFaults
       \/ LostCall(GiveBack(c), UNCHANGED <<ledger, released>>, ack, UNCHANGED work)
    /\ UNCHANGED <<now, chainVars, groupVars, batch, refused>>

\* XACK, and the outcome of a job that is not dead is logged.
Ack(c) ==
    LET i == Current(c)
        o == work[c].outcome
        Acknowledge == acked' = acked \cup {i}
    IN
    /\ At(c, "acking")
    /\ \/ /\ Acknowledge
          /\ filed' = IF <<i, o>> \in dead THEN filed ELSE filed \cup {<<i, o>>}
          /\ NextJob(c)
          /\ UNCHANGED settleFaults
       \/ /\ LostCall(Acknowledge, UNCHANGED acked, NextJob(c), UNCHANGED <<batch, work>>)
          /\ UNCHANGED filed
    /\ UNCHANGED <<now, ledger, chainVars, cursor, count, since, dead, released, refused>>

\* A consumer dies, or is told to stop: what it held stays on the pending list.
Die(c) ==
    /\ ~Free(c)
    /\ SettleFault("crash")
    /\ batch' = [batch EXCEPT ![c] = <<>>]
    /\ work' = [work EXCEPT ![c] = Idle]
    /\ UNCHANGED <<now, ledger, chainVars, groupVars, released, refused>>

Settler(c) ==
    \/ Read(c) \/ ClaimIdle(c) \/ Begin(c)
    \/ \E definite \in BOOLEAN : SettleNotSent(c, definite)
    \/ SettleSent(c) \/ SettleSucceeds(c) \/ SettleReverts(c) \/ SettleTimesOut(c)
    \/ Ask(c) \/ AskExpired(c) \/ DeadLetter(c) \/ Release(c) \/ Ack(c)

ChainNext ==
    /\ \E m \in Payments : Land(m) \/ Cancel(m)
    /\ UNCHANGED <<now, ledger, settleVars>>

------------------------------------------------------------------------------
(* The settlers on their own: requests are served and captured in one step *)

vars == <<now, ledger, chainVars, settleVars>>

\* A filter accepts and captures payment m (Filter has the steps this abstracts).
Serve(m) ==
    LET p == Auth[m].payer IN
    /\ nonceExp[m] = 0
    /\ now < Auth[m].validBefore
    /\ Len(stream) < MaxJobs
    /\ nonceExp' = [nonceExp EXCEPT ![m] = now + NonceTTL(m, now)]
    /\ inflight' = [inflight EXCEPT ![p] = Inflight(p) + Auth[m].accepted]
    /\ inflightExp' = [inflightExp EXCEPT ![p] = now + InflightTTL]
    /\ stream' = Append(stream, [pay |-> m, amount |-> Auth[m].accepted])
    /\ UNCHANGED <<now, chainVars, settleVars>>

Tick ==
    /\ now < Horizon
    /\ Advance
    /\ UNCHANGED <<chainVars, settleVars>>

\* Every job is acknowledged and the clock has stopped.
Finished ==
    /\ now = Horizon
    /\ acked = DOMAIN stream
    /\ \A c \in Settlers : Free(c)
    /\ UNCHANGED vars

Init == LedgerInit /\ ChainInit /\ SettleInit

Next ==
    \/ \E c \in Settlers : Settler(c) \/ Die(c)
    \/ \E m \in Payments : Serve(m)
    \/ ChainNext
    \/ Tick
    \/ Finished

Spec == Init /\ [][Next]_vars

\* Every call has a timeout and Run never stops, so a consumer always gets on, and time
\* passes.  The chain owes nothing: a transaction may never land.
Fairness ==
    /\ \A c \in Settlers : WF_vars(Settler(c))
    /\ WF_vars(Tick)

FairSpec == Spec /\ Fairness

==============================================================================
