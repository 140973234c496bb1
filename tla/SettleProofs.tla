---------------------------- MODULE SettleProofs -----------------------------
(***************************************************************************)
(* Proofs about the settlers, for any number of consumers, jobs,           *)
(* deliveries and faults, and for a chain that owes them nothing.          *)
(***************************************************************************)
EXTENDS SettleProps, FiniteSetTheorems, TLAPS

Work == [step : Steps, outcome : Outcomes, definite : BOOLEAN]

\* Nothing is queued, delivered or filed when the settlers start.
LEMMA InitHolds == Init => SettleInv
  <1> SUFFICES ASSUME Init PROVE SettleInv
      OBVIOUS
  <1> USE DEF Init, LedgerInit, ChainInit, SettleInit
  <1>1. LedgerTypeOK
    BY DEF LedgerTypeOK, Job
  <1>2. ChainTypeOK
    BY ChainAssumption DEF ChainTypeOK
  <1>3. SettleTypeOK
    <2>1. 0 \in 0..(MaxDeliveries + 1) /\ 0 \in 0..MaxSettleFaults
      BY SettleAssumption
    <2>2. Idle \in Work
      BY Zenon DEF Idle, Work, Steps, Outcomes
    <2> QED BY <2>1, <2>2 DEF SettleTypeOK, Work
  <1>4. TypeOK
    BY <1>1, <1>2, <1>3 DEF TypeOK
  <1>5. RecordInv /\ AckedIsKnown
    BY SettleAssumption DEF RecordInv, AckedIsKnown
  <1>6. \A c \in Settlers : WorkInv(c)
    BY DEF WorkInv, Free
  <1> QED BY <1>4, <1>5, <1>6 DEF SettleInv

\* The entry a consumer handles was delivered and is in the stream.
LEMMA InHand ==
  ASSUME TypeOK, RecordInv, NEW c \in Settlers, ~Free(c)
  PROVE  /\ Current(c) \in 1..cursor /\ Current(c) \in JobIds
         /\ Current(c) \in DOMAIN stream /\ Pay(c) \in Payments
         /\ stream[Current(c)] \in Job
         /\ Tail(batch[c]) \in Seq(JobIds)
         /\ \A k \in DOMAIN Tail(batch[c]) : Tail(batch[c])[k] <= cursor
  <1> DEFINE b == batch[c]
  <1>1. b \in Seq(JobIds) /\ b # <<>> /\ \A k \in DOMAIN b : b[k] <= cursor
    BY DEF TypeOK, SettleTypeOK, Free
  <1>2. /\ cursor \in Nat /\ cursor <= Len(stream) /\ stream \in Seq(Job) /\ MaxJobs \in Nat
        /\ Len(stream) \in Nat
    BY SettleAssumption DEF TypeOK, SettleTypeOK, LedgerTypeOK
  <1> HIDE DEF b
  <1>3. Head(b) = b[1] /\ 1 \in DOMAIN b /\ Head(b) \in JobIds
    BY <1>1
  <1>4. Tail(b) \in Seq(JobIds) /\ \A k \in DOMAIN Tail(b) : Tail(b)[k] <= cursor
    <2>1. Tail(b) \in Seq(JobIds) /\ Len(b) \in Nat \ {0} /\ Len(Tail(b)) = Len(b) - 1
      BY <1>1
    <2>2. ASSUME NEW k \in DOMAIN Tail(b) PROVE Tail(b)[k] <= cursor
      <3>1. k \in 1..(Len(b) - 1) /\ Tail(b)[k] = b[k + 1] /\ k + 1 \in DOMAIN b
        BY <1>1, <2>1
      <3> QED BY <1>1, <3>1
    <2> QED BY <2>1, <2>2
  <1>5. Head(b) \in 1..cursor
    BY <1>1, <1>2, <1>3 DEF JobIds
  <1>6. Head(b) \in DOMAIN stream
    BY <1>2, <1>5
  <1>7. stream[Head(b)] \in Job
    BY <1>2, <1>6
  <1>8. stream[Head(b)].pay \in Payments
    BY <1>7 DEF Job
  <1> QED BY <1>3, <1>4, <1>5, <1>6, <1>7, <1>8 DEF Current, Pay, b

------------------------------------------------------------------------------
(* What is known stays known *)

\* A step of any actor: the stream only grows, records are kept, the clock does not go back,
\* a used authorization stays used, and none is used after its window.
Forward ==
    /\ now <= now' /\ cursor <= cursor'
    /\ \A i \in 1..cursor : stream'[i] = stream[i]
    /\ refused \subseteq refused' /\ dead \subseteq dead'
    /\ \A m \in Payments :
         /\ nonce[m] # "fresh" => nonce'[m] = nonce[m]
         /\ nonce'[m] = "settled" /\ nonce[m] # "settled" => now < Auth[m].validBefore

\* An outcome that was true of an entry stays true.
LEMMA StaysTrue ==
  ASSUME TypeOK, now' \in Nat, Forward, NEW i \in 1..cursor, NEW o, Justified(i, o)
  PROVE  Justified(i, o)'
  <1> DEFINE m == stream[i].pay
  <1>1. now \in Nat /\ i \in DOMAIN stream /\ stream \in Seq(Job)
    <2>1. now \in Nat /\ cursor \in Nat /\ cursor <= Len(stream) /\ stream \in Seq(Job)
      BY DEF TypeOK, LedgerTypeOK, SettleTypeOK
    <2>2. i \in 1..Len(stream)
      BY <2>1
    <2> QED BY <2>1, <2>2
  <1>2. m \in Payments
    <2>1. stream[i] \in Job
      BY <1>1
    <2> QED BY <2>1 DEF Job
  <1>3. Auth[m].validBefore \in Nat
    BY <1>2, AuthAssumption DEF Authorization
  <1>4. stream'[i].pay = m
    BY DEF Forward
  <1>5. /\ now <= now' /\ (i \in refused => i \in refused')
        /\ nonce[m] # "fresh" => nonce'[m] = nonce[m]
        /\ nonce'[m] = "settled" /\ nonce[m] # "settled" => now < Auth[m].validBefore
    BY <1>2 DEF Forward
  <1> HIDE DEF m
  <1>6. /\ o = "settled" => nonce[m] = "settled"
        /\ o = "settled_on_chain" => nonce[m] # "fresh"
        /\ o = "settle_failed" => i \in refused
        /\ o = "expired_unsettled" => now >= Auth[m].validBefore /\ nonce[m] # "settled"
    BY DEF Justified, AuthorizationState, m
  <1>7. /\ o = "settled" => nonce'[m] = "settled"
        /\ o = "settled_on_chain" => nonce'[m] # "fresh"
        /\ o = "settle_failed" => i \in refused'
        /\ o = "expired_unsettled" => now' >= Auth[m].validBefore /\ nonce'[m] # "settled"
    BY <1>1, <1>3, <1>5, <1>6
  <1> QED BY <1>4, <1>7 DEF Justified, AuthorizationState

\* So does what a consumer knows, if the step is somebody else's.
LEMMA OthersKeep ==
  ASSUME TypeOK, RecordInv, now' \in Nat, Forward, NEW c \in Settlers, WorkInv(c),
         batch'[c] = batch[c], work'[c] = work[c]
  PROVE  WorkInv(c)'
  <1>1. CASE Free(c)
    BY <1>1 DEF WorkInv, Free
  <1>2. CASE ~Free(c)
    <2> DEFINE i == Current(c)
               w == work[c]
    <2>1. i \in 1..cursor /\ stream[i].pay \in Payments
      BY <1>2, InHand DEF Pay
    <2>2. Told(i, w) /\ ~Free(c)' /\ Current(c)' = i /\ work'[c] = w
      BY <1>2 DEF WorkInv, Free, Current
    <2>3. Justified(i, w.outcome) => Justified(Current(c), work[c].outcome)'
      <3>1. ASSUME NEW j, NEW o, j = i, o = w.outcome, Justified(j, o)
            PROVE  Justified(j, o)'
        BY <2>1, <3>1, StaysTrue
      <3> QED BY <2>2, <3>1 DEF Justified, AuthorizationState
    <2>4. stream'[i] = stream[i] /\ refused \subseteq refused' /\ dead \subseteq dead' /\ now <= now'
      BY <2>1 DEF Forward
    <2>5. now \in Nat /\ Auth[stream[i].pay].validBefore \in Nat
      BY <2>1, AuthAssumption DEF TypeOK, LedgerTypeOK, Authorization
    <2>6. now >= Auth[stream[i].pay].validBefore => now' >= Auth[stream[i].pay].validBefore
      BY <2>4, <2>5
    <2> HIDE DEF i, w
    <2>7. Told(Current(c), work[c])'
      BY <2>2, <2>3, <2>4, <2>6 DEF Told
    <2> QED BY <2>2, <2>7 DEF WorkInv
  <1> QED BY <1>1, <1>2

------------------------------------------------------------------------------
(* Steps of a consumer *)

\* What handling one entry may do: the consumer stays at it, with w for what it knows, tries
\* a call again, or is done with the entry or the whole batch.
Moved(c) ==
    \/ batch' = batch /\ \E w \in Work : work' = [work EXCEPT ![c] = w] /\ Told(Current(c), w)'
    \/ batch' = batch /\ work' = work
    \/ NextJob(c)
    \/ batch' = [batch EXCEPT ![c] = <<>>] /\ work' = [work EXCEPT ![c] = Idle]

\* What it may put on record.
Recorded(c) ==
    /\ refused' = refused \/ refused' = refused \cup {Current(c)}
    /\ dead' = dead \/ (At(c, "deadletter") /\ Bury(c))
    /\ acked' = acked \/ (At(c, "acking") /\ acked' = acked \cup {Current(c)})
    /\ \/ filed' = filed
       \/ At(c, "acking") /\ filed' = filed \cup {<<Current(c), work[c].outcome>>}
    /\ released' = released \/ released' = released \cup {Current(c)}

\* A step of a consumer at an entry keeps the invariant, whatever else its handler calls.
LEMMA ConsumerStep ==
  ASSUME SettleInv, NEW c \in Settlers, ~Free(c), Moved(c), Recorded(c),
         LedgerTypeOK', ChainTypeOK', settleFaults' \in 0..MaxSettleFaults,
         now' = now, stream' = stream, nonce' = nonce, UNCHANGED <<cursor, count, since>>
  PROVE  SettleInv'
  <1> DEFINE i == Current(c)
  <1>1. /\ TypeOK /\ RecordInv /\ AckedIsKnown /\ WorkInv(c)
        /\ LedgerTypeOK /\ ChainTypeOK /\ SettleTypeOK
        /\ cursor' = cursor /\ count' = count /\ since' = since
    BY DEF SettleInv, TypeOK
  <1>2. /\ i \in 1..cursor /\ i \in JobIds /\ Tail(batch[c]) \in Seq(JobIds)
        /\ \A k \in DOMAIN Tail(batch[c]) : Tail(batch[c])[k] <= cursor
    BY <1>1, InHand
  <1>3. Told(i, work[c]) /\ work[c] \in Work /\ Idle \in Work
    BY <1>1, Zenon DEF WorkInv, SettleTypeOK, Work, Idle, Steps, Outcomes
  <1>4. work' \in [Settlers -> Work] /\ \A d \in Settlers : d # c => work'[d] = work[d]
    BY <1>1, <1>3 DEF Moved, NextJob, SettleTypeOK, Work
  <1>5. /\ batch' \in [Settlers -> Seq(JobIds)]
        /\ \A d \in Settlers : d # c => batch'[d] = batch[d]
        /\ batch'[c] \in {batch[c], Tail(batch[c]), <<>>}
    <2>1. batch \in [Settlers -> Seq(JobIds)] /\ <<>> \in Seq(JobIds)
      BY <1>1 DEF SettleTypeOK
    <2>2. \/ batch' = batch
          \/ \E b \in {Tail(batch[c]), <<>>} : batch' = [batch EXCEPT ![c] = b]
      BY DEF Moved, NextJob
    <2>3. CASE batch' = batch
      BY <2>1, <2>3
    <2>4. CASE \E b \in {Tail(batch[c]), <<>>} : batch' = [batch EXCEPT ![c] = b]
      <3> PICK b \in {Tail(batch[c]), <<>>} : batch' = [batch EXCEPT ![c] = b]
          BY <2>4
      <3>1. b \in Seq(JobIds)
        BY <1>2, <2>1
      <3>2. batch'[c] = b
        BY <2>1
      <3> QED BY <2>1, <3>1, <3>2
    <2> QED BY <2>2, <2>3, <2>4
  <1>6. /\ refused' \subseteq JobIds /\ released' \subseteq JobIds /\ acked' \subseteq JobIds
        /\ dead' \subseteq JobIds \X Outcomes /\ filed' \subseteq JobIds \X Outcomes
    BY <1>1, <1>2, <1>3 DEF Recorded, Bury, SettleTypeOK, Work
  <1>7. TypeOK'
    <2>1. SettleTypeOK'
      BY <1>1, <1>4, <1>5, <1>6 DEF SettleTypeOK, Work
    <2>2. ASSUME NEW d \in Settlers
          PROVE  \A k \in DOMAIN batch'[d] : batch'[d][k] <= cursor'
      <3>1. /\ \A k \in DOMAIN batch[d] : batch[d][k] <= cursor
            /\ \A k \in DOMAIN batch[c] : batch[c][k] <= cursor
        BY <1>1 DEF TypeOK
      <3>2. CASE d # c
        BY <1>1, <1>5, <3>1, <3>2
      <3>3. CASE d = c
        <4>1. CASE batch'[c] = batch[c]
          BY <1>1, <3>1, <3>3, <4>1
        <4>2. CASE batch'[c] = Tail(batch[c])
          BY <1>1, <1>2, <3>3, <4>2
        <4>3. CASE batch'[c] = <<>>
          BY <3>3, <4>3
        <4> QED BY <1>5, <4>1, <4>2, <4>3
      <3> QED BY <3>2, <3>3
    <2> QED BY <1>1, <2>1, <2>2 DEF TypeOK
  <1>8. Forward /\ now' \in Nat
    BY <1>1 DEF Forward, Recorded, Bury, LedgerTypeOK, SettleTypeOK
  <1>9. \A j \in 1..cursor : \A o : Justified(j, o) => Justified(j, o)'
    BY <1>1, <1>8, StaysTrue
  <1>10. RecordInv'
    <2>1. acked' \subseteq 1..cursor
      BY <1>1, <1>2 DEF Recorded, RecordInv
    <2>2. \A r \in dead' \cup filed' : r[1] \in 1..cursor /\ Justified(r[1], r[2])
      <3> SUFFICES ASSUME NEW r \in dead' \cup filed'
                   PROVE  r[1] \in 1..cursor /\ Justified(r[1], r[2])
          OBVIOUS
      <3>1. r \in dead \cup filed \/ (r = <<i, work[c].outcome>> /\ Justified(i, work[c].outcome))
        BY <1>3 DEF Recorded, Bury, At, Told
      <3>2. CASE r \in dead \cup filed
        <4>1. r[1] <= cursor /\ Justified(r[1], r[2]) /\ r[1] \in JobIds /\ cursor \in Nat
          BY <1>1, <3>2 DEF RecordInv, SettleTypeOK
        <4> QED BY <4>1, SettleAssumption DEF JobIds
      <3>3. CASE r = <<i, work[c].outcome>> /\ Justified(i, work[c].outcome)
        BY <1>2, <3>3
      <3> QED BY <3>1, <3>2, <3>3
    <2>3. \A r \in dead' \cup filed' : r[1] <= cursor /\ Justified(r[1], r[2])'
      <3> SUFFICES ASSUME NEW r \in dead' \cup filed'
                   PROVE  r[1] <= cursor /\ Justified(r[1], r[2])'
          OBVIOUS
      <3>1. r[1] \in 1..cursor /\ Justified(r[1], r[2])
        BY <2>2
      <3>2. cursor \in Nat
        BY <1>1 DEF SettleTypeOK
      <3>3. PICK j, o : j \in 1..cursor /\ j = r[1] /\ o = r[2]
        BY <3>1
      <3>4. Justified(j, o)'
        BY <1>9, <3>1, <3>3
      <3> QED BY <3>1, <3>2, <3>3, <3>4
    <2> QED BY <1>1, <2>1, <2>3 DEF RecordInv
  <1>11. AckedIsKnown'
    <2> SUFFICES ASSUME NEW j \in acked'
                 PROVE  (AuthorizationState(stream[j].pay) \/ j \in refused \/ DeadLettered(j))'
        BY DEF AckedIsKnown
    <2>1. CASE j \in acked
      BY <1>1, <2>1 DEF AckedIsKnown, AuthorizationState, Recorded, Bury, DeadLettered
    <2>2. CASE j \notin acked
      <3>1. j = i /\ At(c, "acking")
        BY <2>2 DEF Recorded
      <3>2. /\ Justified(i, work[c].outcome) /\ work[c].outcome \in Outcomes
            /\ work[c].outcome # "none"
            /\ work[c].outcome \in {"expired_unsettled", "dead_lettered"}
                   => <<i, work[c].outcome>> \in dead
        BY <1>3, <3>1 DEF Told, At, Work
      <3>3. AuthorizationState(stream[i].pay) \/ i \in refused \/ DeadLettered(i)
        BY <3>2 DEF Justified, AuthorizationState, DeadLettered, Outcomes
      <3> HIDE DEF i
      <3> QED BY <3>1, <3>3 DEF AuthorizationState, Recorded, Bury, DeadLettered
    <2> QED BY <2>1, <2>2
  <1>12. ASSUME NEW d \in Settlers PROVE WorkInv(d)'
    <2>1. CASE d # c \/ (batch' = batch /\ work' = work)
      BY <1>1, <1>4, <1>5, <1>8, <2>1, OthersKeep DEF SettleInv
    <2>2. CASE d = c /\ batch' = batch /\ \E w \in Work :
                  work' = [work EXCEPT ![c] = w] /\ Told(Current(c), w)'
      <3> PICK w \in Work : work' = [work EXCEPT ![c] = w] /\ Told(Current(c), w)'
          BY <2>2
      <3>1. work'[c] = w
        BY <1>1 DEF SettleTypeOK
      <3> QED BY <2>2, <3>1 DEF WorkInv, Free, Told
    <2>3. CASE d = c /\ (NextJob(c) \/ /\ batch' = [batch EXCEPT ![c] = <<>>]
                                       /\ work' = [work EXCEPT ![c] = Idle])
      <3>1. work'[c] = Idle
        BY <1>1, <2>3 DEF NextJob, SettleTypeOK
      <3> QED BY <2>3, <3>1 DEF WorkInv, Told, Idle
    <2> QED BY <2>1, <2>2, <2>3 DEF Moved
  <1> QED BY <1>7, <1>10, <1>11, <1>12 DEF SettleInv

\* The consumer goes on to a step with an outcome, and knows what that step needs.
LEMMA GotoMoves ==
  ASSUME SettleInv, NEW c \in Settlers, NEW step \in Steps, NEW outcome \in Outcomes,
         step # "asking", Goto(c, step, outcome), batch' = batch,
         step = "askExpired" => (now >= Auth[Pay(c)].validBefore)',
         step = "deadletter" => outcome \in {"expired_unsettled", "dead_lettered"},
         step \in {"releasing", "acking"} =>
            /\ outcome # "none"
            /\ outcome \in {"expired_unsettled", "dead_lettered"}
                  => <<Current(c), outcome>> \in dead',
         step \in {"deadletter", "releasing", "acking"} => Justified(Current(c), outcome)'
  PROVE  Moved(c)
  <1>1. work[c] \in Work
    BY DEF SettleInv, TypeOK, SettleTypeOK, Work
  <1>2. PICK w \in Work : /\ work' = [work EXCEPT ![c] = w]
                          /\ w.step = step /\ w.outcome = outcome
    <2> DEFINE w == [work[c] EXCEPT !.step = step, !.outcome = outcome]
    <2>1. w \in Work /\ w.step = step /\ w.outcome = outcome
      BY <1>1 DEF Work
    <2>2. work' = [work EXCEPT ![c] = w]
      BY DEF Goto
    <2> HIDE DEF w
    <2> QED BY <2>1, <2>2
  <1>3. Current(c)' = Current(c)
    BY DEF Current
  <1>4. Told(Current(c), w)'
    BY <1>2, <1>3 DEF Told, Pay
  <1> QED BY <1>1, <1>2, <1>4 DEF Moved

\* The facilitator's answer: a definite refusal is on record before it is believed.
LEMMA AnsweredMoves ==
  ASSUME SettleInv, NEW c \in Settlers, NEW definite \in BOOLEAN, Answered(c, definite),
         batch' = batch
  PROVE  Moved(c)
  <1>1. work[c] \in Work
    BY DEF SettleInv, TypeOK, SettleTypeOK, Work
  <1>2. PICK w \in Work : /\ work' = [work EXCEPT ![c] = w]
                          /\ w.step = "asking" /\ w.definite = definite
    <2> DEFINE w == [work[c] EXCEPT !.step = "asking", !.definite = definite]
    <2>1. w \in Work /\ w.step = "asking" /\ w.definite = definite
      BY <1>1, Zenon DEF Work, Steps
    <2>2. work' = [work EXCEPT ![c] = w]
      BY DEF Answered
    <2> HIDE DEF w
    <2> QED BY <2>1, <2>2
  <1>3. Current(c)' = Current(c) /\ (definite => Current(c) \in refused')
    BY DEF Current, Answered
  <1>4. Told(Current(c), w)'
    BY <1>2, <1>3 DEF Told
  <1> QED BY <1>1, <1>2, <1>4 DEF Moved

\* Giving an amount back keeps the ledger's types.
LEMMA ReleaseScriptType ==
  ASSUME LedgerTypeOK, now' = now, NEW p \in Payers, NEW amount \in Nat,
         ReleaseScript(p, amount)
  PROVE  LedgerTypeOK' /\ stream' = stream
  <1> DEFINE kept == IF Inflight(p) - amount <= 0 THEN 0 ELSE Inflight(p) - amount
  <1>1. Inflight(p) \in Nat
    BY DEF Inflight, LedgerTypeOK
  <1>2. kept \in Nat
    BY <1>1
  <1> HIDE DEF kept
  <1>3. inflight' = [inflight EXCEPT ![p] = kept]
    BY DEF ReleaseScript, kept
  <1>4. inflightExp' \in [Payers -> Nat] /\ nonceExp' = nonceExp /\ stream' = stream
    BY DEF ReleaseScript, LedgerTypeOK
  <1> QED BY <1>2, <1>3, <1>4 DEF LedgerTypeOK

\* The count of faults stays within its bound.
LEMMA FaultType ==
  ASSUME SettleInv, NEW kind, SettleFault(kind)
  PROVE  settleFaults' \in 0..MaxSettleFaults
  BY SettleAssumption DEF SettleInv, TypeOK, SettleTypeOK, SettleFault

\* handle, up to the answer of the facilitator or of the chain.
LEMMA HandleStep ==
  ASSUME SettleInv, NEW c \in Settlers,
         \/ Begin(c)
         \/ \E definite \in BOOLEAN : SettleNotSent(c, definite)
         \/ SettleSent(c) \/ SettleSucceeds(c) \/ SettleReverts(c) \/ SettleTimesOut(c)
         \/ Ask(c) \/ AskExpired(c)
  PROVE  SettleInv'
  <1> DEFINE Still == /\ now' = now /\ stream' = stream /\ nonce' = nonce
                      /\ UNCHANGED <<cursor, count, since>>
                      /\ LedgerTypeOK' /\ ChainTypeOK'
                      /\ settleFaults' \in 0..MaxSettleFaults
  <1>0. SUFFICES ~Free(c) /\ Moved(c) /\ Recorded(c) /\ Still
    BY ConsumerStep
  <1>1. /\ LedgerTypeOK /\ ChainTypeOK /\ settleFaults \in 0..MaxSettleFaults /\ WorkInv(c)
        /\ work[c] \in Work
    BY DEF SettleInv, TypeOK, SettleTypeOK, Work
  <1>2. ~Free(c) => Pay(c) \in Payments /\ Told(Current(c), work[c])
    BY <1>1, InHand DEF SettleInv, WorkInv
  <1>3. UNCHANGED <<now, ledger, chainVars, groupVars>> /\ settleFaults' \in 0..MaxSettleFaults
          => Still
    BY <1>1 DEF ledger, chainVars, groupVars, LedgerTypeOK, ChainTypeOK
  <1>4. \A m \in Payments : UNCHANGED <<now, ledger, groupVars, settleFaults>>
                            /\ (Submit(m) \/ Drop(m)) => Still
    <2> SUFFICES ASSUME NEW m \in Payments, UNCHANGED <<now, ledger, groupVars, settleFaults>>,
                        Submit(m) \/ Drop(m)
                 PROVE  Still
        OBVIOUS
    <2>1. now + LandWithin + 1 \in Nat
      BY <1>1, ChainAssumption DEF LedgerTypeOK
    <2>2. ChainTypeOK' /\ nonce' = nonce
      BY <1>1, <2>1 DEF ChainTypeOK, Submit, Drop
    <2>3. LedgerTypeOK' /\ stream' = stream /\ UNCHANGED <<cursor, count, since>>
      BY <1>1 DEF ledger, groupVars, LedgerTypeOK
    <2> QED BY <1>1, <2>2, <2>3
  <1>5. UNCHANGED <<groupVars, released>> /\ (refused' = refused \/ refused' = refused \cup {Current(c)})
          => Recorded(c)
    BY DEF groupVars, Recorded
  <1> HIDE DEF Still
  <1>6. CASE Begin(c)
    <2>1. ~Free(c) /\ batch' = batch /\ UNCHANGED <<now, ledger, chainVars, groupVars, released, refused>>
      BY <1>6 DEF Begin, At
    <2>2. settleFaults' \in 0..MaxSettleFaults
      BY <1>1, <1>6, FaultType DEF Begin
    <2>3. \/ Goto(c, "deadletter", "dead_lettered") \/ Goto(c, "settling", "none")
          \/ now >= Auth[Pay(c)].validBefore /\ Goto(c, "askExpired", "none")
      BY <1>6 DEF Begin, Dispatch
    <2>4. Pay(c)' = Pay(c) /\ now' = now
      BY <2>1 DEF Pay, Current, ledger
    <2>5. Moved(c)
      <3>1. CASE Goto(c, "deadletter", "dead_lettered")
        <4>1. Justified(Current(c), "dead_lettered")'
          BY DEF Justified
        <4> QED BY <2>1, <3>1, <4>1, GotoMoves DEF Steps, Outcomes
      <3>2. CASE Goto(c, "settling", "none")
        BY <2>1, <3>2, GotoMoves DEF Steps, Outcomes
      <3>3. CASE now >= Auth[Pay(c)].validBefore /\ Goto(c, "askExpired", "none")
        BY <2>1, <2>4, <3>3, GotoMoves DEF Steps, Outcomes
      <3> QED BY <2>3, <3>1, <3>2, <3>3
    <2> QED BY <1>3, <1>5, <2>1, <2>2, <2>5
  <1>7. CASE \E definite \in BOOLEAN : SettleNotSent(c, definite)
    <2> PICK definite \in BOOLEAN : SettleNotSent(c, definite)
        BY <1>7
    <2>1. /\ ~Free(c) /\ batch' = batch /\ Answered(c, definite)
          /\ UNCHANGED <<now, ledger, chainVars, groupVars, released, settleFaults>>
      BY DEF SettleNotSent, At
    <2>2. refused' = refused \/ refused' = refused \cup {Current(c)}
      BY <2>1 DEF Answered
    <2> QED BY <1>1, <1>3, <1>5, <2>1, <2>2, AnsweredMoves
  <1>8. CASE SettleSent(c)
    <2>1. /\ ~Free(c) /\ batch' = batch /\ Submit(Pay(c)) /\ Goto(c, "waiting", "none")
          /\ UNCHANGED <<now, ledger, groupVars, released, refused, settleFaults>>
      BY <1>8 DEF SettleSent, At
    <2>2. Moved(c)
      BY <2>1, GotoMoves DEF Steps, Outcomes
    <2> QED BY <1>2, <1>4, <1>5, <2>1, <2>2
  <1>9. CASE SettleSucceeds(c)
    <2>1. /\ ~Free(c) /\ batch' = batch /\ Goto(c, "releasing", "settled")
          /\ nonce[Pay(c)] = "settled"
          /\ UNCHANGED <<now, ledger, chainVars, groupVars, released, refused, settleFaults>>
      BY <1>9 DEF SettleSucceeds, At
    <2>2. Justified(Current(c), "settled")'
      BY <2>1 DEF Justified, Pay, Current, chainVars, ledger
    <2>3. Moved(c)
      BY <2>1, <2>2, GotoMoves DEF Steps, Outcomes
    <2> QED BY <1>1, <1>3, <1>5, <2>1, <2>3
  <1>10. CASE SettleReverts(c)
    <2>1. /\ ~Free(c) /\ batch' = batch /\ Drop(Pay(c)) /\ Answered(c, TRUE)
          /\ UNCHANGED <<now, ledger, groupVars, released, settleFaults>>
      BY <1>10 DEF SettleReverts, At
    <2>2. refused' = refused \cup {Current(c)}
      BY <2>1 DEF Answered
    <2> QED BY <1>2, <1>4, <1>5, <2>1, <2>2, AnsweredMoves
  <1>11. CASE SettleTimesOut(c)
    <2>1. /\ ~Free(c) /\ batch' = batch /\ Answered(c, FALSE)
          /\ UNCHANGED <<now, ledger, chainVars, groupVars, released, settleFaults>>
      BY <1>11 DEF SettleTimesOut, At
    <2>2. refused' = refused
      BY <2>1 DEF Answered
    <2> QED BY <1>1, <1>3, <1>5, <2>1, <2>2, AnsweredMoves
  <1>12. CASE Ask(c)
    <2>1. /\ ~Free(c) /\ work[c].step = "asking"
          /\ UNCHANGED <<now, ledger, chainVars, groupVars, released, refused>>
      BY <1>12 DEF Ask, At
    <2>2. settleFaults' \in 0..MaxSettleFaults
      BY <1>1, <1>12, FaultType DEF Ask
    <2>3. \/ /\ AuthorizationState(Pay(c)) /\ batch' = batch
             /\ Goto(c, "releasing", "settled_on_chain")
          \/ work[c].definite /\ batch' = batch /\ Goto(c, "releasing", "settle_failed")
          \/ NextJob(c)
      BY <1>12 DEF Ask
    <2>4. CASE /\ AuthorizationState(Pay(c)) /\ batch' = batch
               /\ Goto(c, "releasing", "settled_on_chain")
      <3>1. Justified(Current(c), "settled_on_chain")'
        BY <2>1, <2>4 DEF Justified, AuthorizationState, Pay, Current, chainVars, ledger
      <3> QED BY <1>3, <1>5, <2>1, <2>2, <2>4, <3>1, GotoMoves DEF Steps, Outcomes
    <2>5. CASE work[c].definite /\ batch' = batch /\ Goto(c, "releasing", "settle_failed")
      <3>1. Current(c) \in refused
        BY <1>2, <2>1, <2>5 DEF Told
      <3>2. Justified(Current(c), "settle_failed")'
        BY <2>1, <2>5, <3>1 DEF Justified, Current
      <3> QED BY <1>3, <1>5, <2>1, <2>2, <2>5, <3>2, GotoMoves DEF Steps, Outcomes
    <2>6. CASE NextJob(c)
      BY <1>3, <1>5, <2>1, <2>2, <2>6 DEF Moved
    <2> QED BY <2>3, <2>4, <2>5, <2>6
  <1>13. CASE AskExpired(c)
    <2>1. /\ ~Free(c) /\ work[c].step = "askExpired"
          /\ UNCHANGED <<now, ledger, chainVars, groupVars, released, refused>>
      BY <1>13 DEF AskExpired, At
    <2>2. settleFaults' \in 0..MaxSettleFaults
      BY <1>1, <1>13, FaultType DEF AskExpired
    <2>3. \/ /\ AuthorizationState(Pay(c)) /\ batch' = batch
             /\ Goto(c, "releasing", "settled_on_chain")
          \/ /\ ~AuthorizationState(Pay(c)) /\ batch' = batch
             /\ Goto(c, "deadletter", "expired_unsettled")
          \/ NextJob(c)
      BY <1>13 DEF AskExpired
    <2>4. CASE /\ AuthorizationState(Pay(c)) /\ batch' = batch
               /\ Goto(c, "releasing", "settled_on_chain")
      <3>1. Justified(Current(c), "settled_on_chain")'
        BY <2>1, <2>4 DEF Justified, AuthorizationState, Pay, Current, chainVars, ledger
      <3> QED BY <1>3, <1>5, <2>1, <2>2, <2>4, <3>1, GotoMoves DEF Steps, Outcomes
    <2>5. CASE /\ ~AuthorizationState(Pay(c)) /\ batch' = batch
               /\ Goto(c, "deadletter", "expired_unsettled")
      <3>1. now >= Auth[Pay(c)].validBefore
        BY <1>2, <2>1 DEF Told, Pay
      <3>2. Justified(Current(c), "expired_unsettled")'
        BY <2>1, <2>5, <3>1 DEF Justified, AuthorizationState, Pay, Current, chainVars, ledger
      <3> QED BY <1>3, <1>5, <2>1, <2>2, <2>5, <3>2, GotoMoves DEF Steps, Outcomes
    <2>6. CASE NextJob(c)
      BY <1>3, <1>5, <2>1, <2>2, <2>6 DEF Moved
    <2> QED BY <2>3, <2>4, <2>5, <2>6
  <1> QED BY <1>6, <1>7, <1>8, <1>9, <1>10, <1>11, <1>12, <1>13

\* done and dead, and the death of a consumer.
LEMMA FinishStep ==
  ASSUME SettleInv, NEW c \in Settlers, DeadLetter(c) \/ Release(c) \/ Ack(c) \/ Die(c)
  PROVE  SettleInv'
  <1> DEFINE i == Current(c)
             o == work[c].outcome
             Still == /\ now' = now /\ stream' = stream /\ nonce' = nonce
                      /\ UNCHANGED <<cursor, count, since>>
                      /\ LedgerTypeOK' /\ ChainTypeOK'
                      /\ settleFaults' \in 0..MaxSettleFaults
  <1>0. SUFFICES Moved(c) /\ Recorded(c) /\ Still
    <2>1. ~Free(c)
      BY DEF DeadLetter, Release, Ack, Die, At
    <2> QED BY <2>1, ConsumerStep
  <1>1. /\ LedgerTypeOK /\ ChainTypeOK /\ settleFaults \in 0..MaxSettleFaults
        /\ work[c] \in Work /\ o \in Outcomes
    BY DEF SettleInv, TypeOK, SettleTypeOK, Work
  <1>2. ~Free(c) => /\ Pay(c) \in Payments /\ stream[i] \in Job /\ Told(i, work[c])
                    /\ Auth[Pay(c)].payer \in Payers /\ stream[i].amount \in Nat
    BY AuthAssumption, InHand DEF SettleInv, WorkInv, Job, Authorization
  <1>3. UNCHANGED <<now, ledger, chainVars, cursor, count, since>>
          /\ settleFaults' \in 0..MaxSettleFaults => Still
    BY <1>1 DEF ledger, chainVars, LedgerTypeOK, ChainTypeOK
  <1> HIDE DEF Still
  <1>4. CASE DeadLetter(c)
    <2>1. /\ ~Free(c) /\ work[c].step = "deadletter" /\ At(c, "deadletter")
          /\ UNCHANGED <<now, ledger, chainVars, cursor, count, since, acked, filed, released,
                         refused>>
      BY <1>4 DEF DeadLetter, At
    <2>2. settleFaults' \in 0..MaxSettleFaults
      BY <1>1, <1>4, FaultType DEF DeadLetter, LostCall
    <2>3. dead' = dead \/ Bury(c)
      BY <1>4 DEF DeadLetter, LostCall
    <2>4. Recorded(c)
      BY <2>1, <2>3 DEF Recorded
    <2>5. \/ /\ Bury(c) /\ batch' = batch
             /\ Goto(c, "acking", o) \/ Goto(c, "releasing", o)
          \/ NextJob(c)
          \/ batch' = batch /\ work' = work
      BY <1>4 DEF DeadLetter, LostCall
    <2>6. CASE /\ Bury(c) /\ batch' = batch
               /\ Goto(c, "acking", o) \/ Goto(c, "releasing", o)
      <3>1. Justified(i, o) /\ o \in {"expired_unsettled", "dead_lettered"} /\ o # "none"
        BY <1>2, <2>1 DEF Told
      <3>2. <<i, o>> \in dead'
        BY <2>6 DEF Bury
      <3>3. PICK x \in Outcomes : x = o
        BY <1>1
      <3>4. Current(c)' = i
        BY <2>6 DEF Current
      <3>5. Justified(Current(c), x)'
        BY <2>1, <3>1, <3>3, <3>4 DEF Justified, AuthorizationState, ledger, chainVars
      <3>6. Goto(c, "acking", x) \/ Goto(c, "releasing", x)
        BY <2>6, <3>3
      <3>7. batch' = batch /\ x # "none" /\ <<Current(c), x>> \in dead'
        BY <2>6, <3>1, <3>2, <3>3
      <3> HIDE DEF i, o
      <3>8. \A step \in {"acking", "releasing"} : Goto(c, step, x) => Moved(c)
        BY <3>5, <3>7, GotoMoves DEF Steps
      <3>9. Moved(c)
        BY <3>6, <3>8
      <3> QED BY <1>3, <2>1, <2>2, <2>4, <3>9
    <2>7. CASE NextJob(c) \/ (batch' = batch /\ work' = work)
      BY <1>3, <2>1, <2>2, <2>4, <2>7 DEF Moved
    <2> QED BY <2>5, <2>6, <2>7
  <1>5. CASE Release(c)
    <2>1. /\ ~Free(c) /\ work[c].step = "releasing" /\ batch' = batch
          /\ UNCHANGED <<now, chainVars, groupVars, refused>>
      BY <1>5 DEF Release, At
    <2>2. settleFaults' \in 0..MaxSettleFaults
      BY <1>1, <1>5, FaultType DEF Release, LostCall
    <2>3. GiveBack(c) \/ UNCHANGED <<ledger, released>>
      BY <1>5 DEF Release, LostCall
    <2>4. /\ LedgerTypeOK' /\ stream' = stream
          /\ released' = released \/ released' = released \cup {i}
      <3>1. CASE GiveBack(c)
        BY <1>1, <1>2, <2>1, <3>1, ReleaseScriptType DEF GiveBack
      <3>2. CASE UNCHANGED <<ledger, released>>
        BY <1>1, <2>1, <3>2 DEF ledger, LedgerTypeOK
      <3> QED BY <2>3, <3>1, <3>2
    <2>5. Still
      BY <1>1, <2>1, <2>2, <2>4 DEF Still, chainVars, groupVars, ChainTypeOK
    <2>6. Recorded(c)
      BY <2>1, <2>4 DEF Recorded, groupVars
    <2>7. Goto(c, "acking", o) \/ work' = work
      BY <1>5 DEF Release, LostCall
    <2>8. CASE Goto(c, "acking", o)
      <3>1. /\ Justified(i, o) /\ o # "none" /\ dead' = dead
            /\ o \in {"expired_unsettled", "dead_lettered"} => <<i, o>> \in dead
        BY <1>2, <2>1 DEF Told, groupVars
      <3>2. PICK x \in Outcomes : x = o
        BY <1>1
      <3>3. Current(c)' = i
        BY <2>1 DEF Current
      <3>4. Justified(Current(c), x)'
        BY <2>1, <2>4, <3>1, <3>2, <3>3 DEF Justified, AuthorizationState, chainVars
      <3> HIDE DEF i, o
      <3>5. Moved(c)
        BY <2>1, <2>8, <3>1, <3>2, <3>4, GotoMoves DEF Steps, i
      <3> QED BY <2>5, <2>6, <3>5
    <2>9. CASE work' = work
      BY <2>1, <2>5, <2>6, <2>9 DEF Moved
    <2> QED BY <2>7, <2>8, <2>9
  <1>6. CASE Ack(c)
    <2>1. /\ At(c, "acking")
          /\ UNCHANGED <<now, ledger, chainVars, cursor, count, since, dead, released, refused>>
      BY <1>6 DEF Ack
    <2>2. settleFaults' \in 0..MaxSettleFaults
      BY <1>1, <1>6, FaultType DEF Ack, LostCall
    <2>3. /\ acked' = acked \/ acked' = acked \cup {i}
          /\ filed' = filed \/ filed' = filed \cup {<<i, o>>}
          /\ NextJob(c) \/ (batch' = batch /\ work' = work)
      BY <1>6 DEF Ack, LostCall
    <2>4. Recorded(c)
      BY <2>1, <2>3 DEF Recorded
    <2> QED BY <1>3, <2>1, <2>2, <2>3, <2>4 DEF Moved
  <1>7. CASE Die(c)
    <2>1. /\ UNCHANGED <<now, ledger, chainVars, groupVars, released, refused>>
          /\ batch' = [batch EXCEPT ![c] = <<>>] /\ work' = [work EXCEPT ![c] = Idle]
          /\ settleFaults' \in 0..MaxSettleFaults
      BY <1>7, FaultType DEF Die
    <2>2. Recorded(c)
      BY <2>1 DEF Recorded, groupVars
    <2>3. UNCHANGED <<now, ledger, chainVars, cursor, count, since>>
      BY <2>1 DEF groupVars
    <2> QED BY <1>3, <2>1, <2>2, <2>3 DEF Moved
  <1> QED BY <1>4, <1>5, <1>6, <1>7

------------------------------------------------------------------------------
(* Deliveries, the chain, the filters and the clock *)

\* Entries of the stream are handed to a consumer that has none.
LEMMA DeliverStep ==
  ASSUME SettleInv, NEW c \in Settlers, Free(c), NEW ids \in Seq(JobIds), Deliver(c, ids),
         cursor' \in Nat, cursor <= cursor', cursor' <= Len(stream),
         \A k \in DOMAIN ids : ids[k] <= cursor',
         UNCHANGED <<now, ledger, chainVars, acked, dead, filed, work, released, refused,
                     settleFaults>>
  PROVE  SettleInv'
  <1>1. /\ TypeOK /\ RecordInv /\ AckedIsKnown /\ WorkInv(c)
        /\ LedgerTypeOK /\ ChainTypeOK /\ SettleTypeOK
        /\ now' = now /\ stream' = stream /\ nonce' = nonce /\ refused' = refused
        /\ acked' = acked /\ dead' = dead /\ filed' = filed /\ work' = work
        /\ batch' = [batch EXCEPT ![c] = ids] /\ batch \in [Settlers -> Seq(JobIds)]
    BY DEF SettleInv, TypeOK, SettleTypeOK, ledger, chainVars, Deliver
  <1>2. LedgerTypeOK' /\ ChainTypeOK'
    BY <1>1 DEF ledger, chainVars, LedgerTypeOK, ChainTypeOK
  <1>3. count' \in [JobIds -> 0..(MaxDeliveries + 1)]
    <2>1. MaxDeliveries \in Nat /\ count \in [JobIds -> 0..(MaxDeliveries + 1)]
      BY <1>1, SettleAssumption DEF SettleTypeOK
    <2>2. ASSUME NEW i \in JobIds
          PROVE  (IF \E k \in DOMAIN ids : ids[k] = i /\ count[i] <= MaxDeliveries
                  THEN count[i] + 1 ELSE count[i]) \in 0..(MaxDeliveries + 1)
      <3>1. count[i] \in 0..(MaxDeliveries + 1)
        BY <2>1
      <3> QED BY <2>1, <3>1
    <2> QED BY <2>2 DEF Deliver
  <1>4. since' \in [JobIds -> Nat]
    BY <1>1 DEF Deliver, SettleTypeOK, LedgerTypeOK
  <1>5. batch' \in [Settlers -> Seq(JobIds)]
    BY <1>1
  <1>6. SettleTypeOK'
    BY <1>1, <1>3, <1>4, <1>5 DEF SettleTypeOK
  <1>7. TypeOK'
    <2>1. ASSUME NEW d \in Settlers, NEW k \in DOMAIN batch'[d]
          PROVE  batch'[d][k] <= cursor'
      <3>1. CASE d = c
        BY <1>1, <2>1, <3>1
      <3>2. CASE d # c
        <4>1. batch'[d] = batch[d]
          BY <1>1, <3>2
        <4>2. batch[d][k] <= cursor /\ batch[d] \in Seq(JobIds) /\ k \in DOMAIN batch[d]
          BY <1>1, <2>1, <4>1 DEF TypeOK
        <4>3. batch[d][k] \in JobIds /\ cursor \in Nat
          BY <1>1, <4>2 DEF SettleTypeOK
        <4>4. batch[d][k] \in Nat
          BY <4>3, SettleAssumption DEF JobIds
        <4>5. batch[d][k] <= cursor'
          BY <4>2, <4>3, <4>4
        <4> QED BY <4>1, <4>5
      <3> QED BY <3>1, <3>2
    <2> QED BY <1>1, <1>2, <1>6, <2>1 DEF TypeOK
  <1>8. Forward /\ now' \in Nat
    BY <1>1 DEF Forward, LedgerTypeOK, SettleTypeOK
  <1>9. RecordInv' /\ AckedIsKnown'
    <2>1. cursor \in Nat /\ acked \subseteq 1..cursor
      BY <1>1 DEF SettleTypeOK, RecordInv
    <2>2. acked \subseteq 1..cursor'
      BY <2>1
    <2>3. ASSUME NEW r \in dead \cup filed PROVE r[1] <= cursor'
      <3>1. r[1] <= cursor /\ r[1] \in JobIds
        BY <1>1 DEF RecordInv, SettleTypeOK
      <3>2. r[1] \in Nat
        BY <3>1, SettleAssumption DEF JobIds
      <3> QED BY <2>1, <3>1, <3>2
    <2>4. RecordInv'
      BY <1>1, <2>2, <2>3 DEF RecordInv, Justified, AuthorizationState
    <2> QED BY <1>1, <2>4 DEF AckedIsKnown, AuthorizationState, DeadLettered
  <1>10. ASSUME NEW d \in Settlers PROVE WorkInv(d)'
    <2>1. CASE d = c
      <3>1. work'[c] = Idle
        BY <1>1 DEF WorkInv
      <3> QED BY <2>1, <3>1 DEF WorkInv, Told, Idle
    <2>2. CASE d # c
      <3>1. batch'[d] = batch[d] /\ work'[d] = work[d] /\ WorkInv(d)
        BY <1>1, <2>2 DEF SettleInv
      <3> QED BY <1>1, <1>8, <3>1, OthersKeep
    <2> QED BY <2>1, <2>2
  <1> QED BY <1>7, <1>9, <1>10 DEF SettleInv

\* New entries are read once, in order.
LEMMA ReadStep ==
  ASSUME SettleInv, NEW c \in Settlers, Read(c)
  PROVE  SettleInv'
  <1> DEFINE left == Len(stream) - cursor
             n == IF left < Count THEN left ELSE Count
             e == [k \in 1..n |-> cursor + k]
  <1>1. /\ Free(c) /\ n > 0 /\ Deliver(c, e) /\ cursor' = cursor + n
        /\ UNCHANGED <<now, ledger, chainVars, acked, dead, filed, work, released, refused,
                       settleFaults>>
    BY DEF Read
  <1>2. /\ cursor \in Nat /\ Len(stream) \in Nat /\ cursor <= Len(stream)
        /\ Len(stream) <= MaxJobs /\ MaxJobs \in Nat /\ Count \in Nat
    BY SettleAssumption
       DEF SettleInv, TypeOK, SettleTypeOK, LedgerTypeOK, RecordInv
  <1>3. n \in Nat /\ cursor + n <= Len(stream)
    BY <1>1, <1>2
  <1> HIDE DEF n
  <1>4. e \in [1..n -> JobIds]
    BY <1>2, <1>3 DEF JobIds
  <1>5. e \in Seq(JobIds) /\ DOMAIN e = 1..n
    BY <1>3, <1>4
  <1>6. \A k \in DOMAIN e : e[k] <= cursor'
    BY <1>1, <1>2, <1>3, <1>5
  <1> HIDE DEF e
  <1>7. PICK ids \in Seq(JobIds) : ids = e
    BY <1>5
  <1>8. cursor' \in Nat /\ cursor <= cursor' /\ cursor' <= Len(stream)
    BY <1>1, <1>2, <1>3
  <1> QED BY <1>1, <1>6, <1>7, <1>8, DeliverStep

\* Idle entries are taken over; they were delivered before.
LEMMA ClaimStep ==
  ASSUME SettleInv, NEW c \in Settlers, ClaimIdle(c)
  PROVE  SettleInv'
  <1> DEFINE due == {i \in 1..cursor : Pending(i) /\ IsIdle(i)}
             n == Cardinality(due)
  <1>1. PICK ids \in [1..n -> due] : Deliver(c, ids)
    BY DEF ClaimIdle
  <1>2. /\ Free(c) /\ cursor' = cursor
        /\ UNCHANGED <<now, ledger, chainVars, acked, dead, filed, work, released, refused,
                       settleFaults>>
    BY DEF ClaimIdle
  <1>3. /\ cursor \in Nat /\ Len(stream) \in Nat /\ cursor <= Len(stream)
        /\ Len(stream) <= MaxJobs /\ MaxJobs \in Nat
    BY SettleAssumption DEF SettleInv, TypeOK, SettleTypeOK, LedgerTypeOK, RecordInv
  <1>4. n \in Nat
    <2>1. IsFiniteSet(1..cursor)
      BY <1>3, FS_Interval
    <2>2. IsFiniteSet(due)
      BY <2>1, FS_Subset
    <2> QED BY <2>2, FS_CardinalityType
  <1>5. \A i \in due : i \in JobIds /\ i <= cursor
    BY <1>3 DEF JobIds
  <1> HIDE DEF due, n
  <1>6. ids \in Seq(JobIds) /\ \A k \in DOMAIN ids : ids[k] <= cursor'
    <2>1. ids \in [1..n -> JobIds] /\ \A k \in 1..n : ids[k] <= cursor
      BY <1>5
    <2> QED BY <1>2, <1>4, <2>1
  <1>7. cursor' \in Nat /\ cursor <= cursor' /\ cursor' <= Len(stream)
    BY <1>2, <1>3
  <1> QED BY <1>1, <1>2, <1>6, <1>7, DeliverStep

\* A step that leaves the group and the consumers alone keeps the invariant, if it goes
\* forward.
LEMMA OutsideStep ==
  ASSUME SettleInv, Forward, LedgerTypeOK', ChainTypeOK', UNCHANGED settleVars,
         Len(stream) <= Len(stream'), Len(stream') <= MaxJobs
  PROVE  SettleInv'
  <1>1. /\ TypeOK /\ RecordInv /\ AckedIsKnown /\ SettleTypeOK /\ LedgerTypeOK
        /\ now' \in Nat /\ cursor' = cursor /\ batch' = batch /\ work' = work
        /\ acked' = acked /\ dead' = dead /\ filed' = filed /\ refused' = refused
    BY DEF SettleInv, TypeOK, settleVars, groupVars, LedgerTypeOK
  <1>2. SettleTypeOK'
    BY <1>1 DEF SettleTypeOK, settleVars, groupVars
  <1>3. cursor \in Nat /\ cursor <= Len(stream) /\ Len(stream) \in Nat /\ Len(stream') \in Nat
    BY <1>1 DEF TypeOK, SettleTypeOK, LedgerTypeOK
  <1>4. cursor <= Len(stream')
    BY <1>3
  <1>5. TypeOK'
    BY <1>1, <1>2, <1>4 DEF TypeOK
  <1>6. RecordInv'
    <2> SUFFICES ASSUME NEW r \in dead \cup filed PROVE Justified(r[1], r[2])'
        BY <1>1 DEF RecordInv
    <2>1. r[1] <= cursor /\ Justified(r[1], r[2]) /\ r[1] \in JobIds
      BY <1>1 DEF RecordInv, SettleTypeOK
    <2>2. r[1] \in 1..cursor
      BY <1>3, <2>1, SettleAssumption DEF JobIds
    <2> QED BY <1>1, <2>1, <2>2, StaysTrue
  <1>7. AckedIsKnown'
    <2> SUFFICES ASSUME NEW j \in acked
                 PROVE  (AuthorizationState(stream[j].pay) \/ j \in refused \/ DeadLettered(j))'
        BY <1>1 DEF AckedIsKnown
    <2>1. j \in 1..cursor
      BY <1>1 DEF RecordInv
    <2>2. Justified(j, "settled_on_chain") => Justified(j, "settled_on_chain")'
      BY <1>1, <2>1, StaysTrue
    <2>3. AuthorizationState(stream[j].pay) => AuthorizationState(stream[j].pay)'
      BY <2>2 DEF Justified
    <2> QED BY <1>1, <2>3 DEF AckedIsKnown, DeadLettered
  <1>8. ASSUME NEW d \in Settlers PROVE WorkInv(d)'
    BY <1>1, OthersKeep DEF SettleInv
  <1> QED BY <1>5, <1>6, <1>7, <1>8 DEF SettleInv

\* A transfer lands inside its window, or an authorization is cancelled: once.
LEMMA ChainStep ==
  ASSUME SettleInv, ChainNext
  PROVE  SettleInv'
  <1>1. /\ LedgerTypeOK /\ ChainTypeOK /\ Len(stream) <= MaxJobs
        /\ UNCHANGED <<now, ledger, settleVars>> /\ stream' = stream /\ now' = now
        /\ cursor' = cursor /\ refused' = refused /\ dead' = dead
        /\ now \in Nat /\ cursor \in Nat /\ Len(stream) \in Nat
    BY DEF SettleInv, TypeOK, RecordInv, ChainNext, ledger, settleVars, groupVars,
           LedgerTypeOK, SettleTypeOK
  <1>2. LedgerTypeOK'
    BY <1>1 DEF ledger, LedgerTypeOK
  <1>3. PICK m \in Payments : Land(m) \/ Cancel(m)
    BY DEF ChainNext
  <1>4. Auth[m].payer \in Payers /\ Auth[m].value \in Nat
    BY AuthAssumption DEF Authorization
  <1>5. ChainTypeOK'
    <2>1. CASE Land(m)
      <3>1. funds[Auth[m].payer] - Auth[m].value \in Nat
        BY <1>1, <1>4, <2>1 DEF Land, ChainTypeOK
      <3> QED BY <1>1, <2>1, <3>1 DEF Land, ChainTypeOK
    <2>2. CASE Cancel(m)
      BY <1>1, <2>2 DEF Cancel, ChainTypeOK
    <2> QED BY <1>3, <2>1, <2>2
  <1>6. \A n \in Payments :
           /\ nonce[n] # "fresh" => nonce'[n] = nonce[n]
           /\ nonce'[n] = "settled" /\ nonce[n] # "settled" => now < Auth[n].validBefore
    BY <1>1, <1>3 DEF Land, Cancel, ChainTypeOK
  <1>7. Forward
    BY <1>1, <1>6 DEF Forward
  <1> QED BY <1>1, <1>2, <1>5, <1>7, OutsideStep

\* A filter queues a job behind the ones that are there.
LEMMA ServeStep ==
  ASSUME SettleInv, NEW m \in Payments, Serve(m)
  PROVE  SettleInv'
  <1> DEFINE p == Auth[m].payer
             j == [pay |-> m, amount |-> Auth[m].accepted]
             ttl == NonceTTL(m, now)
  <1>1. /\ LedgerTypeOK /\ ChainTypeOK /\ now \in Nat /\ cursor \in Nat
        /\ cursor <= Len(stream) /\ stream \in Seq(Job)
    BY DEF SettleInv, TypeOK, LedgerTypeOK, SettleTypeOK
  <1>2. /\ p \in Payers /\ Auth[m].accepted \in Nat /\ Auth[m].validBefore \in Nat
        /\ NonceMargin \in Nat /\ InflightTTL \in Nat /\ j \in Job
    BY AuthAssumption, LedgerAssumption DEF Authorization, Job
  <1>3. ttl \in Nat
    BY <1>1, <1>2 DEF NonceTTL
  <1>4. Inflight(p) + Auth[m].accepted \in Nat
    BY <1>1, <1>2 DEF Inflight, LedgerTypeOK
  <1>5. /\ now' = now /\ UNCHANGED <<chainVars, settleVars>> /\ Len(stream) < MaxJobs
        /\ nonceExp' = [nonceExp EXCEPT ![m] = now + ttl]
        /\ inflight' = [inflight EXCEPT ![p] = Inflight(p) + Auth[m].accepted]
        /\ inflightExp' = [inflightExp EXCEPT ![p] = now + InflightTTL]
        /\ stream' = Append(stream, j)
    BY DEF Serve
  <1>6. now + ttl \in Nat /\ now + InflightTTL \in Nat
    BY <1>1, <1>2, <1>3
  <1> HIDE DEF ttl, j
  <1>7. stream' \in Seq(Job) /\ Len(stream') = Len(stream) + 1 /\ Len(stream) \in Nat
    BY <1>1, <1>2, <1>5
  <1>8. LedgerTypeOK'
    BY <1>1, <1>2, <1>4, <1>5, <1>6, <1>7 DEF LedgerTypeOK
  <1>9. ChainTypeOK' /\ nonce' = nonce /\ cursor' = cursor /\ refused' = refused /\ dead' = dead
    BY <1>1, <1>5 DEF ChainTypeOK, chainVars, settleVars, groupVars
  <1>10. \A i \in 1..cursor : stream'[i] = stream[i]
    BY <1>1, <1>2, <1>5
  <1>11. Forward
    BY <1>1, <1>5, <1>9, <1>10 DEF Forward
  <1>12. Len(stream) <= Len(stream') /\ Len(stream') <= MaxJobs
    BY <1>5, <1>7, SettleAssumption
  <1> QED BY <1>5, <1>8, <1>9, <1>11, <1>12, OutsideStep

\* Time passes.
LEMMA TickStep ==
  ASSUME SettleInv, Tick
  PROVE  SettleInv'
  <1>1. /\ LedgerTypeOK /\ ChainTypeOK /\ Len(stream) <= MaxJobs /\ Len(stream) \in Nat
        /\ now' = now + 1 /\ now \in Nat /\ cursor \in Nat
        /\ UNCHANGED <<ledger, chainVars, settleVars>>
    BY DEF SettleInv, TypeOK, RecordInv, LedgerTypeOK, SettleTypeOK, Tick, Advance
  <1>2. /\ stream' = stream /\ nonce' = nonce /\ cursor' = cursor /\ refused' = refused
        /\ dead' = dead
    BY <1>1 DEF ledger, chainVars, settleVars, groupVars
  <1>3. LedgerTypeOK' /\ ChainTypeOK'
    BY <1>1 DEF ledger, chainVars, LedgerTypeOK, ChainTypeOK
  <1>4. Forward
    BY <1>1, <1>2 DEF Forward
  <1> QED BY <1>1, <1>2, <1>3, <1>4, OutsideStep

\* Every step of the settlers and around them keeps the invariant.
LEMMA NextHolds == SettleInv /\ [Next]_vars => SettleInv'
  <1> SUFFICES ASSUME SettleInv, [Next]_vars PROVE SettleInv'
      OBVIOUS
  <1>1. CASE \E c \in Settlers : Settler(c) \/ Die(c)
    BY <1>1, ReadStep, ClaimStep, HandleStep, FinishStep DEF Settler
  <1>2. CASE \E m \in Payments : Serve(m)
    BY <1>2, ServeStep
  <1>3. CASE ChainNext
    BY <1>3, ChainStep
  <1>4. CASE Tick
    BY <1>4, TickStep
  <1>5. CASE UNCHANGED vars
    <2>1. /\ LedgerTypeOK /\ ChainTypeOK /\ Len(stream) <= MaxJobs /\ Len(stream) \in Nat
          /\ now' = now /\ now \in Nat /\ cursor \in Nat
          /\ UNCHANGED <<ledger, chainVars, settleVars>>
      BY <1>5 DEF SettleInv, TypeOK, RecordInv, LedgerTypeOK, SettleTypeOK, vars
    <2>2. /\ stream' = stream /\ nonce' = nonce /\ cursor' = cursor /\ refused' = refused
          /\ dead' = dead
      BY <2>1 DEF ledger, chainVars, settleVars, groupVars
    <2>3. LedgerTypeOK' /\ ChainTypeOK'
      BY <2>1 DEF ledger, chainVars, LedgerTypeOK, ChainTypeOK
    <2>4. Forward
      BY <2>1, <2>2 DEF Forward
    <2> QED BY <2>1, <2>2, <2>3, <2>4, OutsideStep
  <1> QED BY <1>1, <1>2, <1>3, <1>4, <1>5 DEF Next, Finished

\* Every behaviour of the settlers keeps the inductive invariant.
THEOREM Invariance == Spec => []SettleInv
  BY InitHolds, NextHolds, PTL DEF Spec

\* The variables keep their types: no consumer is ever handed an entry that is not there.
THEOREM TypeCorrect == Spec => []TypeOK
  <1>1. SettleInv => TypeOK
    BY DEF SettleInv
  <1> QED BY <1>1, Invariance, PTL

\* No payment is lost: whatever two consumers do to one job, whichever calls are lost and
\* whoever dies in between, what is acknowledged is used, refused or dead-lettered.
THEOREM NoJobIsLost == Spec => []AckedIsKnown
  <1>1. SettleInv => AckedIsKnown
    BY DEF SettleInv
  <1> QED BY <1>1, Invariance, PTL

\* What is logged as paid was paid.
THEOREM PaidIsPaid == Spec => []FiledPaidIsPaid
  <1>1. SettleInv => FiledPaidIsPaid
    <2> SUFFICES ASSUME SettleInv, NEW i \in JobIds, NEW o, <<i, o>> \in filed
                 PROVE  Justified(i, o)
        BY DEF FiledPaidIsPaid, Justified, AuthorizationState
    <2> QED BY DEF SettleInv, RecordInv
  <1> QED BY <1>1, Invariance, PTL

\* What is dead-lettered as expired was not paid, and a transaction that is still out does
\* not change that.
THEOREM ExpiredStaysUnpaid == Spec => []ExpiredNeverPaid
  <1>1. SettleInv => ExpiredNeverPaid
    <2> SUFFICES ASSUME SettleInv, NEW i \in JobIds, <<i, "expired_unsettled">> \in dead
                 PROVE  nonce[stream[i].pay] # "settled"
        BY DEF ExpiredNeverPaid
    <2>1. Justified(i, "expired_unsettled")
      BY DEF SettleInv, RecordInv
    <2> QED BY <2>1 DEF Justified
  <1> QED BY <1>1, Invariance, PTL

------------------------------------------------------------------------------
(* One undisturbed consumer gives every amount back once *)

\* A handler's step keeps its entry at hand and gives nothing back, or drops it, or gives
\* it back, or acknowledges it.
Handled(c) ==
    \/ /\ ~At(c, "acking") /\ UNCHANGED <<released, acked>> /\ ~Free(c)
       /\ batch' = batch \/ batch' = [batch EXCEPT ![c] = Tail(@)]
    \/ /\ ~At(c, "acking") /\ released' = released \cup {Current(c)} /\ acked' = acked
       /\ batch' = batch /\ ~Free(c) /\ work'[c].step = "acking"
    \/ /\ acked' = acked \cup {Current(c)} /\ released' = released /\ ~Free(c)
       /\ batch' = [batch EXCEPT ![c] = Tail(@)]

\* When no call is lost, those are the steps of handle.
LEMMA HandlesOnce ==
  ASSUME SettleInv, Undisturbed, NEW c \in Settlers, Settler(c) \/ Die(c), ~Read(c), ~ClaimIdle(c)
  PROVE  Handled(c)
  <1>1. work \in [Settlers -> Work]
    BY DEF SettleInv, TypeOK, SettleTypeOK, Work
  <1>2. \A kind : SettleFault(kind) => kind = "rpc"
    BY DEF Undisturbed, SettleFault
  <1> USE DEF Handled, At, groupVars
  <1>3. CASE Begin(c) \/ \E definite \in BOOLEAN : SettleNotSent(c, definite)
    BY <1>3 DEF Begin, SettleNotSent
  <1>4. CASE SettleSent(c) \/ SettleSucceeds(c) \/ SettleReverts(c) \/ SettleTimesOut(c)
    BY <1>4 DEF SettleSent, SettleSucceeds, SettleReverts, SettleTimesOut
  <1>5. CASE Ask(c) \/ AskExpired(c)
    BY <1>5 DEF Ask, AskExpired, NextJob
  <1>6. CASE DeadLetter(c)
    BY <1>2, <1>6 DEF DeadLetter, LostCall
  <1>7. CASE Release(c)
    <2>1. GiveBack(c) /\ Goto(c, "acking", work[c].outcome) /\ At(c, "releasing")
      BY <1>2, <1>7 DEF Release, LostCall
    <2>2. work'[c].step = "acking"
      BY <1>1, <2>1 DEF Goto, Work
    <2> QED BY <1>7, <2>1, <2>2 DEF Release, GiveBack
  <1>8. CASE Ack(c)
    BY <1>2, <1>8 DEF Ack, LostCall, NextJob
  <1>9. CASE Die(c)
    BY <1>2, <1>9 DEF Die
  <1> QED BY <1>3, <1>4, <1>5, <1>6, <1>7, <1>8, <1>9 DEF Settler

\* A delivery to a consumer that has nothing at hand: new entries, or entries that are pending.
LEMMA DeliversOnce ==
  ASSUME SettleInv, NEW c \in Settlers, Read(c) \/ ClaimIdle(c)
  PROVE  /\ Free(c) /\ UNCHANGED <<released, acked>>
         /\ \A j, k \in DOMAIN batch'[c] :
              batch'[c][j] \notin acked /\ (j # k => batch'[c][j] # batch'[c][k])
  <1>1. /\ cursor \in Nat /\ acked \subseteq 1..cursor /\ Len(stream) \in Nat /\ Count \in Nat
        /\ batch \in [Settlers -> Seq(JobIds)] /\ cursor <= Len(stream)
    BY SettleAssumption DEF SettleInv, TypeOK, SettleTypeOK, RecordInv, LedgerTypeOK
  <1>2. CASE Read(c)
    <2> DEFINE left == Len(stream) - cursor
               n == IF left < Count THEN left ELSE Count
               e == [k \in 1..n |-> cursor + k]
    <2>1. Free(c) /\ UNCHANGED <<released, acked>> /\ batch'[c] = e
      BY <1>1, <1>2 DEF Read, Deliver
    <2>2. n \in Nat
      BY <1>1
    <2> HIDE DEF n
    <2>3. \A j, k \in 1..n : e[j] \notin acked /\ (j # k => e[j] # e[k])
      BY <1>1, <2>2
    <2> QED BY <2>1, <2>3
  <1>3. CASE ClaimIdle(c)
    <2> DEFINE due == {i \in 1..cursor : Pending(i) /\ IsIdle(i)}
               n == Cardinality(due)
    <2>1. PICK ids \in [1..n -> due] : /\ \A j, k \in DOMAIN ids : j < k => ids[j] < ids[k]
                                       /\ Deliver(c, ids)
      BY <1>3 DEF ClaimIdle
    <2>2. Free(c) /\ UNCHANGED <<released, acked>> /\ batch'[c] = ids
      BY <1>1, <1>3, <2>1 DEF ClaimIdle, Deliver
    <2>3. \A i \in due : i \notin acked /\ i \in Nat
      BY <1>1 DEF Pending
    <2>4. \A j, k \in 1..n : j \in Int /\ k \in Int /\ ids[j] \in due /\ ids[k] \in due
      OBVIOUS
    <2> HIDE DEF due, n
    <2>5. \A j, k \in 1..n : j < k => ids[j] < ids[k]
      BY <2>1
    <2>6. \A j, k \in 1..n : j # k => ids[j] # ids[k]
      BY <2>3, <2>4, <2>5
    <2> QED BY <2>2, <2>3, <2>4, <2>6
  <1> QED BY <1>2, <1>3

\* So what was given back is not at hand again.
LEMMA OnceStep ==
  ASSUME Undisturbed, SettleInv, OnceInv, NEW c \in Settlers, Settler(c) \/ Die(c)
  PROVE  OnceInv'
  <1>1. /\ batch \in [Settlers -> Seq(JobIds)] /\ \A d \in Settlers : d = c
        /\ \A i \in released : i \in acked \/ (At(c, "acking") /\ i = Current(c))
        /\ \A j, k \in DOMAIN batch[c] :
              batch[c][j] \notin acked /\ (j # k => batch[c][j] # batch[c][k])
    BY DEF SettleInv, TypeOK, SettleTypeOK, Undisturbed, OnceInv
  <1> SUFFICES /\ \A i \in released' : i \in acked' \/ (At(c, "acking")' /\ i = Current(c)')
               /\ \A j, k \in DOMAIN batch'[c] :
                    batch'[c][j] \notin acked' /\ (j # k => batch'[c][j] # batch'[c][k])
      BY <1>1 DEF OnceInv
  <1>2. CASE Read(c) \/ ClaimIdle(c)
    BY <1>1, <1>2, DeliversOnce DEF At
  <1>3. CASE ~Read(c) /\ ~ClaimIdle(c)
    <2> DEFINE b == batch[c]
    <2>1. Handled(c)
      BY <1>3, HandlesOnce
    <2>2. b \in Seq(JobIds) /\ b # <<>> /\ Current(c) = b[1] /\ 1 \in DOMAIN b
      BY <1>1, <2>1 DEF Handled, Free, Current
    <2>3. \A k \in DOMAIN Tail(b) : k \in Int /\ k + 1 \in DOMAIN b /\ k + 1 # 1 /\ Tail(b)[k] = b[k + 1]
      BY <2>2
    <2>4. \A j, k \in DOMAIN Tail(b) :
             /\ Tail(b)[j] \notin acked /\ Tail(b)[j] # Current(c)
             /\ j # k => Tail(b)[j] # Tail(b)[k]
      <3>1. \A j, k \in DOMAIN Tail(b) : j # k => j + 1 # k + 1
        BY <2>3
      <3> HIDE DEF b
      <3> QED BY <1>1, <2>2, <2>3, <3>1 DEF b
    <2>5. CASE batch' = batch
      BY <1>1, <2>1, <2>5 DEF Handled, At, Free, Current
    <2>6. CASE batch' # batch /\ batch' = [batch EXCEPT ![c] = Tail(@)]
      <3>1. batch'[c] = Tail(b)
        BY <1>1, <2>6
      <3>2. \/ ~At(c, "acking") /\ released' = released /\ acked' = acked
            \/ released' = released /\ acked' = acked \cup {Current(c)}
        BY <2>1, <2>6 DEF Handled
      <3>3. \A i \in released' : i \in acked'
        BY <1>1, <3>2
      <3>4. \A j, k \in DOMAIN Tail(b) :
               Tail(b)[j] \notin acked' /\ (j # k => Tail(b)[j] # Tail(b)[k])
        BY <2>4, <3>2
      <3> QED BY <3>1, <3>3, <3>4
    <2> QED BY <2>1, <2>5, <2>6 DEF Handled
  <1> QED BY <1>2, <1>3

\* Nothing is given back, and nothing at hand, when the consumer starts.
LEMMA OnceAtFirst == Init => OnceInv
  BY DEF Init, SettleInit, OnceInv

\* A consumer that gives an amount back has not given it back before.
LEMMA OnceMeans == SettleInv /\ OnceInv => ReleasedOnce
  <1> SUFFICES ASSUME SettleInv, OnceInv, NEW c \in Settlers, At(c, "releasing"),
                      Current(c) \in released
               PROVE  FALSE
      BY DEF ReleasedOnce
  <1>1. batch[c] \in Seq(JobIds) /\ batch[c] # <<>>
    BY DEF SettleInv, TypeOK, SettleTypeOK, At, Free
  <1>2. Current(c) = batch[c][1] /\ 1 \in DOMAIN batch[c]
    BY <1>1 DEF Current
  <1> QED BY <1>2 DEF OnceInv, At

\* Steps of anyone but the settlers leave it alone.
LEMMA OnceElsewhere ==
  ASSUME OnceInv, UNCHANGED settleVars
  PROVE  OnceInv'
  BY DEF OnceInv, settleVars, groupVars, At, Free, Current

\* One consumer whose calls are answered, and which nobody kills, gives every amount back
\* at most once, however often the facilitator and the chain fail it and its jobs come again.
THEOREM AmountsReturnOnce ==
  ASSUME Undisturbed
  PROVE  Spec => []ReleasedOnce
  <1>1. SettleInv /\ OnceInv /\ [Next]_vars => OnceInv'
    <2> SUFFICES ASSUME SettleInv, OnceInv, [Next]_vars PROVE OnceInv'
        OBVIOUS
    <2>1. CASE \E c \in Settlers : Settler(c) \/ Die(c)
      BY <2>1, OnceStep
    <2>2. CASE UNCHANGED settleVars
      BY <2>2, OnceElsewhere
    <2> QED BY <2>1, <2>2 DEF Next, Serve, ChainNext, Tick, Finished, vars
  <1>2. SettleInv /\ OnceInv => ReleasedOnce
    BY OnceMeans
  <1> QED BY <1>1, <1>2, OnceAtFirst, Invariance, PTL DEF Spec

==============================================================================
