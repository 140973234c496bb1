-------------------------- MODULE ControllerProofs ---------------------------
(***************************************************************************)
(* Proofs about the controller: whatever the order of the watches, failed  *)
(* calls and restarts, a policy whose events were handled is enforced, for *)
(* any number of policies, routes, namespaces and filters.                 *)
(***************************************************************************)
EXTENDS ControllerProps, TLAPS

\* The idle worker, field by field.
LEMMA IdleType ==
  /\ Idle \in Worker /\ Idle.at = "idle" /\ Idle.pol = NoPolicy
  BY DEF Idle, Worker, Steps, Policy, NoSpec, Specs, Conditions

\* Nothing binds and nothing is in hand when the controller starts.
LEMMA InitHolds == Init => ControllerInv
  <1> SUFFICES ASSUME Init PROVE ControllerInv
      OBVIOUS
  <1>1. NoSpec \in Policy /\ NoEEP \in EEP
    <2>1. NoSpec \in Policy
      BY DEF NoSpec, Policy, Specs, Conditions
    <2>2. NoEEP \in EEP
      BY Zenon DEF NoEEP, EEP, Verdicts
    <2> QED BY <2>1, <2>2
  <1>2. TypeOK
    <2>1. policy \in [Policies -> Policy] /\ seen \in [Policies -> Policy]
      BY <1>1 DEF Init
    <2>2. eep \in [Policies -> EEP]
      BY <1>1 DEF Init
    <2>3. edits \in 0..MaxEdits /\ apiFaults \in 0..MaxApiFaults
      BY ControllerAssumption DEF Init
    <2> QED BY <2>1, <2>2, <2>3, IdleType DEF TypeOK, Init
  <1>3. WorkerInv
    BY IdleType DEF WorkerInv, Init
  <1>4. \A p \in Policies : ~Valid(seen[p])
    BY ControllerAssumption DEF Init, NoSpec, Valid
  <1>5. \A p \in Policies : worker.pol # p
    BY IdleType, ControllerAssumption DEF Init
  <1>6. \A p \in Policies : PolicyInv(p)
    BY <1>4, <1>5 DEF PolicyInv, InHandInv, EEPInv, ListedInv, WrittenInv, SeenBinds
  <1> QED BY <1>2, <1>3, <1>6 DEF ControllerInv

\* Nothing is claimed of a policy that is queued.
LEMMA QueuedHolds ==
  ASSUME NEW p \in Policies, p \in queue'
  PROVE  PolicyInv(p)'
  BY DEF PolicyInv, InHandInv, EEPInv, ListedInv, WrittenInv

\* A step outside of the worker keeps what is claimed of a policy, when it queues the policy
\* or leaves what the caches say of it and reports a change of its EEP.
LEMMA OutsideHolds ==
  ASSUME ControllerInv, NEW p \in Policies, UNCHANGED <<worker, cm, grant>>,
         p \notin queue' =>
            /\ p \notin queue /\ seen'[p] = seen[p]
            /\ Valid(seen[p]) => (Target[p] \in seenRoutes' <=> Target[p] \in seenRoutes)
            /\ p \notin eepNews' => p \notin eepNews /\ eep'[p] = eep[p]
  PROVE  PolicyInv(p)'
  <1>1. CASE p \in queue'
    BY <1>1, QueuedHolds
  <1>2. CASE p \notin queue'
    <2>1. SeenBinds(p)' <=> SeenBinds(p)
      BY <1>2 DEF SeenBinds, Valid
    <2>2. p \notin queue /\ seen'[p] = seen[p] /\ PolicyInv(p)
      BY <1>2 DEF ControllerInv
    <2>3. InHandInv(p)'
      BY <2>1, <2>2 DEF PolicyInv, InHandInv
    <2>4. EEPInv(p)'
      BY <1>2, <2>1, <2>2 DEF PolicyInv, EEPInv, OwnEEP
    <2>5. ListedInv(p)' /\ WrittenInv(p)'
      BY <2>1, <2>2 DEF PolicyInv, ListedInv, WrittenInv, PriceIn, Sole
    <2> QED BY <2>3, <2>4, <2>5 DEF PolicyInv
  <1> QED BY <1>1, <1>2

\* A new EEP of one policy is news of that policy and leaves the others alone.
LEMMA SetEEPHolds ==
  ASSUME ControllerInv, NEW q \in Policies, NEW e \in EEP, SetEEP(q, e)
  PROVE  /\ eep' \in [Policies -> EEP] /\ eepNews' \subseteq Policies
         /\ eep'[q] = e /\ q \in eepNews'
         /\ \A p \in Policies \ {q} : eep'[p] = eep[p] /\ (p \in eepNews' <=> p \in eepNews)
  BY DEF SetEEP, ControllerInv, TypeOK

\* Counters stay below their bounds.
LEMMA CounterType ==
  ASSUME ControllerInv
  PROVE  /\ Edited => edits' \in 0..MaxEdits
         /\ \A kind : ApiFault(kind) => apiFaults' \in 0..MaxApiFaults
  BY ControllerAssumption DEF ControllerInv, TypeOK, Edited, ApiFault

\* Teams edit policies and routes: the caches know nothing of it yet.
LEMMA EditHolds ==
  ASSUME ControllerInv,
         \/ \E p \in Policies, spec \in Specs : EditPolicy(p, spec)
         \/ \E rt \in Routes : EditRoute(rt)
  PROVE  ControllerInv'
  <1>1. UNCHANGED <<caches, outputs, queue, worker, table, apiFaults>> /\ Edited
    BY DEF EditPolicy, EditRoute
  <1>2. \A p \in Policies : PolicyInv(p)'
    BY <1>1, OutsideHolds DEF caches, outputs
  <1>3. WorkerInv'
    BY <1>1 DEF ControllerInv, WorkerInv
  <1>4. policy' \in [Policies -> Policy] /\ routes' \subseteq Routes
    <2>1. CASE \E rt \in Routes : EditRoute(rt)
      BY <2>1 DEF ControllerInv, TypeOK, EditRoute
    <2>2. CASE \E p \in Policies, spec \in Specs : EditPolicy(p, spec)
      <3>1. PICK p \in Policies, spec \in Specs : EditPolicy(p, spec)
        BY <2>2
      <3>2. policy[p] \in Policy /\ policy \in [Policies -> Policy] /\ routes \subseteq Routes
        BY DEF ControllerInv, TypeOK
      <3>3. PICK uid \in Nat, cond \in Conditions, observed \in Nat :
               policy' = [policy EXCEPT ![p] = [spec |-> spec, gen |-> policy[p].gen + 1,
                                                 uid |-> uid, cond |-> cond, observed |-> observed]]
        <4> DEFINE created == policy[p].spec = "absent"
                   uid == IF created THEN policy[p].gen + 1 ELSE policy[p].uid
                   cond == IF created THEN "none" ELSE policy[p].cond
                   observed == IF created THEN 0 ELSE policy[p].observed
        <4>1. uid \in Nat /\ cond \in Conditions /\ observed \in Nat
          BY <3>2 DEF Policy, Conditions
        <4>2. policy' = [policy EXCEPT ![p] = [spec |-> spec, gen |-> policy[p].gen + 1,
                                                uid |-> uid, cond |-> cond, observed |-> observed]]
          BY <3>1 DEF EditPolicy
        <4> HIDE DEF uid, cond, observed
        <4> QED BY <4>1, <4>2
      <3>4. [spec |-> spec, gen |-> policy[p].gen + 1, uid |-> uid, cond |-> cond,
             observed |-> observed] \in Policy
        BY <3>2, <3>3 DEF Policy
      <3>5. UNCHANGED routes
        BY <3>1 DEF EditPolicy
      <3> QED BY <3>2, <3>3, <3>4, <3>5
    <2> QED BY <2>1, <2>2
  <1>5. TypeOK'
    BY <1>1, <1>4, CounterType DEF ControllerInv, TypeOK, caches, outputs
  <1> QED BY <1>2, <1>3, <1>5 DEF ControllerInv

\* An EEP is deleted by hand, collected or judged: the Owns watch will say so.
LEMMA ClusterHolds ==
  ASSUME ControllerInv, NEW q \in Policies, HandDelete(q) \/ Collect(q) \/ Judge(q)
  PROVE  ControllerInv'
  <1>1. NoEEP \in EEP /\ eep[q] \in EEP
    BY Zenon DEF NoEEP, EEP, Verdicts, ControllerInv, TypeOK
  <1>2. \A v \in {"conflicted", "accepted"} : [eep[q] EXCEPT !.verdict = v] \in EEP
    BY <1>1 DEF EEP, Verdicts
  <1>3. PICK e \in EEP : SetEEP(q, e)
    BY <1>1, <1>2 DEF HandDelete, Collect, Judge
  <1>4. UNCHANGED <<policy, routes, caches, queue, worker, cm, grant, table, apiFaults>>
    BY DEF HandDelete, Collect, Judge, teams
  <1>5. edits' \in 0..MaxEdits
    BY CounterType DEF HandDelete, Collect, Judge, teams, ControllerInv, TypeOK
  <1>6. \A p \in Policies : PolicyInv(p)'
    BY <1>3, <1>4, SetEEPHolds, OutsideHolds DEF caches
  <1>7. WorkerInv'
    BY <1>4 DEF ControllerInv, WorkerInv
  <1>8. TypeOK'
    BY <1>3, <1>4, <1>5, SetEEPHolds DEF ControllerInv, TypeOK, caches
  <1> QED BY <1>6, <1>7, <1>8 DEF ControllerInv

\* A watch queues the policies it concerns.
LEMMA WatchHolds ==
  ASSUME ControllerInv, Watching
  PROVE  ControllerInv'
  <1>1. UNCHANGED <<teams, worker, cm, grant, apiFaults, eep>>
    BY DEF Watching, WatchPolicy, WatchEEP, WatchRoute, LoadTable, outputs
  <1>2. WorkerInv'
    BY <1>1 DEF ControllerInv, WorkerInv
  <1>3. TypeOK /\ TypeOK'
    <2>1. TypeOK
      BY DEF ControllerInv
    <2>2. CASE \E p \in Policies : WatchPolicy(p) \/ WatchEEP(p)
      BY <1>1, <2>1, <2>2 DEF TypeOK, WatchPolicy, WatchEEP, teams, caches, outputs
    <2>3. CASE \E rt \in Routes : WatchRoute(rt)
      BY <1>1, <2>1, <2>3 DEF TypeOK, WatchRoute, PoliciesForRoute, teams, caches, outputs
    <2>4. CASE \E f \in Filters : LoadTable(f)
      BY <1>1, <2>1, <2>4 DEF TypeOK, LoadTable, teams, caches, outputs
    <2> QED BY <2>1, <2>2, <2>3, <2>4 DEF Watching
  <1>4. ASSUME NEW p \in Policies
        PROVE  PolicyInv(p)'
    <2>1. CASE \E q \in Policies : WatchPolicy(q)
      BY <1>1, <1>3, <2>1, OutsideHolds DEF WatchPolicy, TypeOK, outputs
    <2>2. CASE \E q \in Policies : WatchEEP(q)
      BY <1>1, <2>2, OutsideHolds DEF WatchEEP, caches
    <2>3. CASE \E rt \in Routes : WatchRoute(rt)
      <3>1. PICK rt \in Routes : WatchRoute(rt)
        BY <2>3
      <3>2. UNCHANGED <<seen, eep, eepNews>> /\ queue' = queue \cup PoliciesForRoute(rt)
        BY <3>1 DEF WatchRoute, outputs
      <3>3. Target[p] = rt /\ Valid(seen[p]) => p \in queue'
        BY <3>2, ControllerAssumption DEF PoliciesForRoute, Valid
      <3>4. Target[p] # rt => (Target[p] \in seenRoutes' <=> Target[p] \in seenRoutes)
        BY <3>1 DEF WatchRoute
      <3> QED BY <1>1, <3>2, <3>3, <3>4, OutsideHolds
    <2>4. CASE \E f \in Filters : LoadTable(f)
      BY <1>1, <2>4, OutsideHolds DEF LoadTable, caches, outputs
    <2> QED BY <2>1, <2>2, <2>3, <2>4 DEF Watching
  <1> QED BY <1>2, <1>3, <1>4 DEF ControllerInv

\* A step of the worker that keeps its policy and writes neither table nor grant.
LEMMA AdvanceHolds ==
  ASSUME ControllerInv, NEW step \in {"mirror", "status", "list"},
         NEW cond \in Conditions, worker.at \notin {"idle", "grant"},
         worker' = [worker EXCEPT !.at = step, !.cond = cond],
         UNCHANGED <<caches, queue, cm, grant>>
  PROVE  /\ worker' \in Worker /\ WorkerInv' /\ worker'.pol = worker.pol /\ worker'.at = step
         /\ \A p \in Policies : InHandInv(p)' /\ ListedInv(p)' /\ WrittenInv(p)'
  <1>1. worker \in Worker /\ worker.pol \in Policies
    BY DEF ControllerInv, TypeOK, WorkerInv
  <1>2. /\ worker' \in Worker
        /\ worker'.at = step /\ worker'.pol = worker.pol /\ worker'.pp = worker.pp
    BY <1>1 DEF Worker, Steps
  <1>3. WorkerInv'
    BY <1>1, <1>2 DEF WorkerInv
  <1>4. ASSUME NEW p \in Policies
        PROVE  InHandInv(p)' /\ ListedInv(p)' /\ WrittenInv(p)'
    <2>1. seen' = seen /\ (SeenBinds(p)' <=> SeenBinds(p)) /\ PolicyInv(p)
      BY DEF SeenBinds, caches, ControllerInv
    <2>2. InHandInv(p)'
      BY <1>2, <2>1 DEF PolicyInv, InHandInv
    <2>3. ListedInv(p)'
      BY <1>2 DEF ListedInv
    <2>4. WrittenInv(p)'
      BY <1>2, <2>1 DEF PolicyInv, WrittenInv, PriceIn, Sole
    <2> QED BY <2>2, <2>3, <2>4
  <1> QED BY <1>2, <1>3, <1>4

\* A reconcile that returns an error queues its policy again.
LEMMA GiveUpHolds ==
  ASSUME ControllerInv, worker.at # "idle", GiveUp, UNCHANGED <<caches, outputs>>
  PROVE  /\ queue' \subseteq Policies /\ worker' \in Worker /\ WorkerInv'
         /\ \A p \in Policies : PolicyInv(p)'
  <1>1. worker.pol \in Policies /\ queue \subseteq Policies
    BY DEF ControllerInv, TypeOK, WorkerInv
  <1>2. worker' \in Worker /\ worker'.at = "idle" /\ worker'.pol = NoPolicy
    BY IdleType DEF GiveUp
  <1>3. WorkerInv'
    BY <1>2 DEF WorkerInv
  <1>4. queue' = queue \cup {worker.pol}
    BY DEF GiveUp
  <1>5. ASSUME NEW p \in Policies
        PROVE  PolicyInv(p)'
    <2>1. CASE p \in queue'
      BY <2>1, QueuedHolds
    <2>2. CASE p \notin queue'
      <3>1. p \notin queue /\ worker.pol # p /\ worker'.pol # p
        BY <1>2, <1>4, <2>2, ControllerAssumption
      <3>2. seen' = seen /\ (SeenBinds(p)' <=> SeenBinds(p)) /\ PolicyInv(p)
        BY DEF SeenBinds, caches, ControllerInv
      <3>3. InHandInv(p)' /\ ListedInv(p)'
        BY <1>2, <3>1 DEF InHandInv, ListedInv
      <3>4. EEPInv(p)'
        BY <3>1, <3>2 DEF PolicyInv, EEPInv, OwnEEP, outputs
      <3>5. WrittenInv(p)'
        BY <3>1, <3>2 DEF PolicyInv, WrittenInv, PriceIn, Sole, outputs
      <3> QED BY <3>3, <3>4, <3>5 DEF PolicyInv
    <2> QED BY <2>1, <2>2
  <1> QED BY <1>1, <1>2, <1>3, <1>4, <1>5

\* A policy is taken off the queue: where it goes is decided by what the cache says now.
LEMMA ReconcileHolds ==
  ASSUME ControllerInv, NEW q \in Policies, Reconcile(q)
  PROVE  ControllerInv'
  <1>1. seen[q] \in Policy /\ worker.at = "idle" /\ worker.pol = NoPolicy
    BY DEF ControllerInv, TypeOK, WorkerInv, Reconcile
  <1>2. /\ worker'.pol = q /\ worker'.pp = seen[q] /\ worker' \in Worker
        /\ worker'.at \in {"list", "remove", "apply"}
        /\ worker'.at = "remove" => ~SeenBinds(q)
        /\ worker'.at = "list" => ~SeenBinds(q)
    <2>1. PICK step \in {"list", "remove", "apply"}, cond \in Conditions :
             /\ worker' = [Idle EXCEPT !.at = step, !.pol = q, !.pp = seen[q], !.cond = cond]
             /\ step \in {"list", "remove"} => ~SeenBinds(q)
      <3>1. "none" \in Conditions /\ "Invalid" \in Conditions /\ "TargetNotFound" \in Conditions
        BY DEF Conditions
      <3>2. CASE seen[q].spec = "absent"
        <4>1. ~SeenBinds(q)
          BY <3>2, ControllerAssumption DEF SeenBinds, Valid
        <4>2. worker' = [Idle EXCEPT !.at = "list", !.pol = q, !.pp = seen[q], !.cond = "none"]
          BY <3>2 DEF Reconcile
        <4> QED BY <3>1, <4>1, <4>2
      <3>3. CASE seen[q].spec # "absent" /\ ~Valid(seen[q])
        <4>1. worker' = [Idle EXCEPT !.at = "remove", !.pol = q, !.pp = seen[q],
                                     !.cond = "Invalid"]
          BY <3>3 DEF Reconcile
        <4> QED BY <3>1, <3>3, <4>1 DEF SeenBinds
      <3>4. CASE seen[q].spec # "absent" /\ Valid(seen[q]) /\ Target[q] \notin seenRoutes
        <4>1. worker' = [Idle EXCEPT !.at = "remove", !.pol = q, !.pp = seen[q],
                                     !.cond = "TargetNotFound"]
          BY <3>4 DEF Reconcile
        <4> QED BY <3>1, <3>4, <4>1 DEF SeenBinds
      <3>5. CASE seen[q].spec # "absent" /\ Valid(seen[q]) /\ Target[q] \in seenRoutes
        <4>1. worker' = [Idle EXCEPT !.at = "apply", !.pol = q, !.pp = seen[q], !.cond = "none"]
          BY <3>5 DEF Reconcile
        <4> QED BY <3>1, <4>1
      <3> QED BY <3>2, <3>3, <3>4, <3>5
    <2> QED BY <1>1, <2>1, IdleType DEF Worker, Steps
  <1>3. UNCHANGED <<teams, caches, outputs, table, apiFaults>> /\ queue' = queue \ {q}
    BY DEF Reconcile
  <1>4. WorkerInv'
    BY <1>2 DEF WorkerInv
  <1>5. TypeOK'
    BY <1>2, <1>3 DEF ControllerInv, TypeOK, teams, caches, outputs
  <1>6. ASSUME NEW p \in Policies
        PROVE  PolicyInv(p)'
    <2>1. seen' = seen /\ (SeenBinds(p)' <=> SeenBinds(p)) /\ PolicyInv(p)
      BY <1>3 DEF SeenBinds, caches, ControllerInv
    <2>2. ListedInv(p)'
      BY <1>2 DEF ListedInv
    <2>3. InHandInv(p)'
      BY <1>2, <2>1 DEF InHandInv
    <2>4. CASE p = q
      BY <1>2, <2>1, <2>2, <2>3, <2>4 DEF PolicyInv, EEPInv, WrittenInv
    <2>5. CASE p # q
      <3>1. worker.pol # p /\ worker'.pol # p /\ (p \in queue' <=> p \in queue)
        BY <1>1, <1>2, <1>3, <2>5, ControllerAssumption
      <3>2. EEPInv(p)'
        BY <1>3, <2>1, <3>1 DEF PolicyInv, EEPInv, OwnEEP, outputs
      <3>3. WrittenInv(p)'
        BY <1>3, <2>1, <3>1 DEF PolicyInv, WrittenInv, PriceIn, Sole, outputs
      <3> QED BY <2>2, <2>3, <3>2, <3>3 DEF PolicyInv
    <2> QED BY <2>4, <2>5
  <1> QED BY <1>4, <1>5, <1>6 DEF ControllerInv

\* The policy does not bind: its EEP is taken away.
LEMMA RemoveHolds ==
  ASSUME ControllerInv, RemoveEEP
  PROVE  ControllerInv'
  <1>1. /\ worker.at = "remove" /\ worker.pol \in Policies /\ worker \in Worker
        /\ NoEEP \in EEP
    <2>1. NoEEP \in EEP
      BY Zenon DEF NoEEP, EEP, Verdicts
    <2> QED BY <2>1 DEF ControllerInv, TypeOK, WorkerInv, RemoveEEP
  <1>2. PICK q \in Policies : q = worker.pol
    BY <1>1
  <1>3. /\ eep' \in [Policies -> EEP] /\ eepNews' \subseteq Policies
        /\ \A p \in Policies \ {q} : eep'[p] = eep[p] /\ (p \in eepNews' <=> p \in eepNews)
    <2>1. SetEEP(q, NoEEP) \/ UNCHANGED <<eep, eepNews>>
      BY <1>2 DEF RemoveEEP
    <2> QED BY <1>1, <2>1, SetEEPHolds DEF ControllerInv, TypeOK
  <1>4. UNCHANGED <<teams, caches, queue, cm, grant, table, apiFaults>>
    BY DEF RemoveEEP
  <1>5. worker' = [worker EXCEPT !.at = "status", !.cond = worker.cond] /\ worker.cond \in Conditions
    BY <1>1 DEF RemoveEEP, Then, Worker
  <1>6. /\ worker' \in Worker /\ WorkerInv' /\ worker'.pol = worker.pol
        /\ \A p \in Policies : InHandInv(p)' /\ ListedInv(p)' /\ WrittenInv(p)'
    BY <1>1, <1>4, <1>5, AdvanceHolds
  <1>7. ASSUME NEW p \in Policies
        PROVE  EEPInv(p)'
    <2>1. seen' = seen /\ (SeenBinds(p)' <=> SeenBinds(p)) /\ PolicyInv(p)
      BY <1>4 DEF SeenBinds, caches, ControllerInv
    <2>2. CASE p = q
      BY <1>1, <1>2, <1>4, <2>1, <2>2 DEF PolicyInv, InHandInv, EEPInv
    <2>3. CASE p # q
      BY <1>2, <1>3, <1>4, <2>1, <2>3 DEF PolicyInv, EEPInv, OwnEEP
    <2> QED BY <2>2, <2>3
  <1>8. TypeOK'
    BY <1>3, <1>4, <1>6 DEF ControllerInv, TypeOK, teams, caches
  <1> QED BY <1>6, <1>7, <1>8 DEF ControllerInv, PolicyInv

\* The policy binds: it has its own EEP from here on.
LEMMA ApplyHolds ==
  ASSUME ControllerInv, ApplyEEP
  PROVE  ControllerInv'
  <1>1. /\ worker.at = "apply" /\ worker.pol \in Policies /\ worker \in Worker
        /\ eep \in [Policies -> EEP] /\ seen \in [Policies -> Policy]
    BY DEF ControllerInv, TypeOK, WorkerInv, ApplyEEP
  <1>2. PICK q \in Policies : q = worker.pol
    BY <1>1
  <1> DEFINE e == [eep[q] EXCEPT !.exists = TRUE, !.owner = worker.pp.uid]
  <1>3. e \in EEP /\ e.exists /\ e.owner = worker.pp.uid
    <2>1. worker.pp.uid \in Nat
      BY <1>1 DEF Worker, Policy
    <2>2. eep[q] \in EEP
      BY <1>1
    <2>3. e \in EEP
      BY <2>1, <2>2 DEF EEP
    <2>4. e.exists /\ e.owner = worker.pp.uid
      BY <2>2 DEF EEP
    <2> QED BY <2>3, <2>4
  <1>4. SetEEP(q, e) \/ (eep[q] = e /\ UNCHANGED <<eep, eepNews>>)
    BY <1>2 DEF ApplyEEP
  <1> HIDE DEF e
  <1>5. /\ eep' \in [Policies -> EEP] /\ eepNews' \subseteq Policies /\ eep'[q] = e
        /\ \A p \in Policies \ {q} : eep'[p] = eep[p] /\ (p \in eepNews' <=> p \in eepNews)
    BY <1>1, <1>3, <1>4, SetEEPHolds DEF ControllerInv, TypeOK
  <1>6. UNCHANGED <<teams, caches, queue, cm, grant, table, apiFaults>>
    BY DEF ApplyEEP
  <1>7. worker' = [worker EXCEPT !.at = "mirror", !.cond = worker.cond] /\ worker.cond \in Conditions
    BY <1>1 DEF ApplyEEP, Then, Worker
  <1>8. /\ worker' \in Worker /\ WorkerInv' /\ worker'.pol = worker.pol
        /\ \A p \in Policies : InHandInv(p)' /\ ListedInv(p)' /\ WrittenInv(p)'
    BY <1>1, <1>6, <1>7, AdvanceHolds
  <1>9. ASSUME NEW p \in Policies
        PROVE  EEPInv(p)'
    <2>1. seen' = seen /\ (SeenBinds(p)' <=> SeenBinds(p)) /\ PolicyInv(p)
      BY <1>6 DEF SeenBinds, caches, ControllerInv
    <2>2. CASE p = q
      BY <1>2, <1>3, <1>5, <1>6, <2>1, <2>2 DEF PolicyInv, InHandInv, EEPInv, OwnEEP
    <2>3. CASE p # q
      BY <1>2, <1>5, <1>6, <2>1, <2>3 DEF PolicyInv, EEPInv, OwnEEP
    <2> QED BY <2>2, <2>3
  <1>10. TypeOK'
    BY <1>5, <1>6, <1>8 DEF ControllerInv, TypeOK, teams, caches
  <1> QED BY <1>8, <1>9, <1>10 DEF ControllerInv, PolicyInv

\* Mirroring and reporting leave the EEP as it is.
LEMMA ReportHolds ==
  ASSUME ControllerInv, MirrorEEP \/ SetAccepted
  PROVE  ControllerInv'
  <1>1. /\ worker.at \in {"mirror", "status"} /\ worker.pol \in Policies /\ worker \in Worker
        /\ policy \in [Policies -> Policy]
    BY DEF ControllerInv, TypeOK, WorkerInv, MirrorEEP, SetAccepted
  <1>2. UNCHANGED <<routes, edits, caches, outputs, table, apiFaults>>
    BY DEF MirrorEEP, SetAccepted, teams
  <1>3. policy' \in [Policies -> Policy]
    <2> DEFINE new == [worker.pp EXCEPT !.cond = worker.cond, !.observed = worker.pp.gen]
    <2>1. worker.pp \in Policy /\ worker.cond \in Conditions
      BY <1>1 DEF Worker
    <2>2. new \in Policy
      BY <2>1 DEF Policy
    <2>3. policy' = policy \/ policy' = [policy EXCEPT ![worker.pol] = new]
      BY DEF MirrorEEP, SetAccepted, teams
    <2> HIDE DEF new
    <2> QED BY <1>1, <2>2, <2>3
  <1>4. \/ GiveUp
        \/ \E step \in {"status", "list"}, cond \in Conditions :
              worker' = [worker EXCEPT !.at = step, !.cond = cond] /\ UNCHANGED queue
    <2>1. CASE MirrorEEP
      <3>1. "Conflicted" \in Conditions /\ "Accepted" \in Conditions
        BY DEF Conditions
      <3> QED BY <2>1, <3>1 DEF MirrorEEP
    <2>2. CASE SetAccepted
      <3>1. worker.cond \in Conditions
        BY <1>1 DEF Worker
      <3>2. Then("list") => worker' = [worker EXCEPT !.at = "list", !.cond = worker.cond]
        BY <1>1 DEF Then, Worker
      <3>3. GiveUp \/ (Then("list") /\ UNCHANGED queue)
        BY <2>2 DEF SetAccepted
      <3> QED BY <3>1, <3>2, <3>3
    <2> QED BY <2>1, <2>2
  <1>5. CASE GiveUp
    <2>1. /\ queue' \subseteq Policies /\ worker' \in Worker /\ WorkerInv'
          /\ \A p \in Policies : PolicyInv(p)'
      BY <1>1, <1>2, <1>5, GiveUpHolds
    <2>2. TypeOK'
      BY <1>2, <1>3, <2>1 DEF ControllerInv, TypeOK, caches, outputs
    <2> QED BY <2>1, <2>2 DEF ControllerInv
  <1>6. CASE \E step \in {"status", "list"}, cond \in Conditions :
                worker' = [worker EXCEPT !.at = step, !.cond = cond] /\ UNCHANGED queue
    <2>1. PICK step \in {"status", "list"}, cond \in Conditions :
                worker' = [worker EXCEPT !.at = step, !.cond = cond] /\ UNCHANGED queue
      BY <1>6
    <2>2. /\ worker' \in Worker /\ WorkerInv' /\ worker'.pol = worker.pol
          /\ \A p \in Policies : InHandInv(p)' /\ ListedInv(p)' /\ WrittenInv(p)'
      BY <1>1, <1>2, <2>1, AdvanceHolds DEF outputs
    <2>3. ASSUME NEW p \in Policies
          PROVE  EEPInv(p)'
      <3>1. seen' = seen /\ (SeenBinds(p)' <=> SeenBinds(p)) /\ PolicyInv(p)
        BY <1>2 DEF SeenBinds, caches, ControllerInv
      <3> QED BY <1>1, <1>2, <2>1, <3>1 DEF PolicyInv, EEPInv, OwnEEP, outputs
    <2>4. TypeOK'
      BY <1>2, <1>3, <2>1, <2>2 DEF ControllerInv, TypeOK, caches, outputs
    <2> QED BY <2>2, <2>3, <2>4 DEF ControllerInv, PolicyInv
  <1> QED BY <1>4, <1>5, <1>6

\* The list is taken from the cache: it has the price of every policy that is alone on its
\* route.
LEMMA ListHolds ==
  ASSUME ControllerInv, List
  PROVE  ControllerInv'
  <1>1. worker.at = "list" /\ worker.pol \in Policies /\ worker \in Worker
    BY DEF ControllerInv, TypeOK, WorkerInv, List
  <1>2. UNCHANGED <<teams, caches, outputs, queue, table, apiFaults>>
    BY DEF List
  <1> DEFINE from == {NamespaceOf[Target[p]] : p \in Projected}
  <1>3. PICK t \in Projections :
           worker' = [worker EXCEPT !.at = "table", !.want = t, !.from = from]
    BY DEF List
  <1>4. t \in Table /\ from \subseteq Namespaces
    BY ControllerAssumption DEF Projections, Projected
  <1>5. \A p \in Policies : Sole(p) /\ SeenBinds(p) =>
           t[Target[p]] = seen[p].spec /\ NamespaceOf[Target[p]] \in from
    <2> SUFFICES ASSUME NEW p \in Policies, Sole(p), SeenBinds(p)
                 PROVE  t[Target[p]] = seen[p].spec /\ NamespaceOf[Target[p]] \in from
        OBVIOUS
    <2>1. p \in Projected
      BY DEF Projected, SeenBinds
    <2> DEFINE on == {q \in Projected : Target[q] = Target[p]}
    <2>2. on = {p}
      BY <2>1 DEF Sole, Projected
    <2>3. Target[p] \in Routes
      BY ControllerAssumption
    <2>4. IF on = {} THEN t[Target[p]] = "none" ELSE \E q \in on : t[Target[p]] = seen[q].spec
      BY <2>3 DEF Projections
    <2> QED BY <2>1, <2>2, <2>4
  <1> HIDE DEF from
  <1>6. /\ worker' \in Worker /\ worker'.at = "table" /\ worker'.pol = worker.pol
        /\ worker'.pp = worker.pp /\ worker'.want = t /\ worker'.from = from
    BY <1>1, <1>3, <1>4 DEF Worker, Steps
  <1>7. WorkerInv'
    BY <1>1, <1>4, <1>6 DEF WorkerInv
  <1>8. TypeOK'
    BY <1>2, <1>6 DEF ControllerInv, TypeOK, teams, caches, outputs
  <1>9. ASSUME NEW p \in Policies
        PROVE  PolicyInv(p)'
    <2>1. seen' = seen /\ (SeenBinds(p)' <=> SeenBinds(p)) /\ PolicyInv(p)
      BY <1>2 DEF SeenBinds, caches, ControllerInv
    <2>2. InHandInv(p)' /\ EEPInv(p)'
      BY <1>1, <1>2, <1>6, <2>1 DEF PolicyInv, InHandInv, EEPInv, OwnEEP, outputs
    <2>3. ListedInv(p)'
      BY <1>5, <1>6, <2>1 DEF ListedInv, Sole
    <2>4. WrittenInv(p)'
      BY <1>1, <1>2, <1>6, <2>1 DEF PolicyInv, WrittenInv, PriceIn, Sole, outputs
    <2> QED BY <2>2, <2>3, <2>4 DEF PolicyInv
  <1> QED BY <1>7, <1>8, <1>9 DEF ControllerInv

\* The table is written: whoever is not queued again is in it.
LEMMA TableHolds ==
  ASSUME ControllerInv, ApplyTable
  PROVE  ControllerInv'
  <1>1. /\ worker.at = "table" /\ worker.pol \in Policies /\ worker \in Worker
        /\ worker.want \in Table
    BY DEF ControllerInv, TypeOK, WorkerInv, ApplyTable
  <1>2. /\ UNCHANGED <<teams, caches, eep, eepNews, grant, queue, table, apiFaults>>
        /\ cm' = worker.want
    BY DEF ApplyTable
  <1>3. /\ worker' \in Worker /\ worker'.at = "grant" /\ worker'.pol = worker.pol
        /\ worker'.pp = worker.pp /\ worker'.want = worker.want /\ worker'.from = worker.from
    BY <1>1 DEF ApplyTable, Then, Worker, Steps
  <1>4. WorkerInv'
    BY <1>1, <1>3 DEF WorkerInv
  <1>5. TypeOK'
    BY <1>1, <1>2, <1>3 DEF ControllerInv, TypeOK, teams, caches
  <1>6. ASSUME NEW p \in Policies
        PROVE  PolicyInv(p)'
    <2>1. seen' = seen /\ (SeenBinds(p)' <=> SeenBinds(p)) /\ PolicyInv(p)
      BY <1>2 DEF SeenBinds, caches, ControllerInv
    <2>2. InHandInv(p)' /\ EEPInv(p)'
      BY <1>1, <1>2, <1>3, <2>1 DEF PolicyInv, InHandInv, EEPInv, OwnEEP
    <2>3. ListedInv(p)'
      BY <1>1, <1>2, <1>3, <2>1 DEF PolicyInv, ListedInv, Sole
    <2>4. WrittenInv(p)'
      <3>1. cm' # NoTable
        BY <1>1, <1>2, ControllerAssumption DEF Table
      <3>2. PriceIn(cm, Target[p])' = worker.want[Target[p]]
        BY <1>2, <3>1 DEF PriceIn
      <3> QED BY <1>1, <1>2, <1>3, <2>1, <3>2 DEF PolicyInv, ListedInv, WrittenInv, Sole
    <2> QED BY <2>2, <2>3, <2>4 DEF PolicyInv
  <1> QED BY <1>4, <1>5, <1>6 DEF ControllerInv

\* The grant is written, and the reconcile is over.
LEMMA GrantHolds ==
  ASSUME ControllerInv, ApplyGrant
  PROVE  ControllerInv'
  <1>1. worker.at = "grant" /\ worker.pol \in Policies /\ worker.from \subseteq Namespaces
    BY DEF ControllerInv, TypeOK, WorkerInv, ApplyGrant, Worker
  <1>2. /\ UNCHANGED <<teams, caches, eep, eepNews, cm, queue, table, apiFaults>>
        /\ grant' = worker.from
    BY DEF ApplyGrant
  <1>3. worker' \in Worker /\ worker'.at = "idle" /\ worker'.pol = NoPolicy
    BY IdleType DEF ApplyGrant
  <1>4. WorkerInv'
    BY <1>3 DEF WorkerInv
  <1>5. TypeOK'
    BY <1>1, <1>2, <1>3 DEF ControllerInv, TypeOK, teams, caches
  <1>6. ASSUME NEW p \in Policies
        PROVE  PolicyInv(p)'
    <2>1. seen' = seen /\ (SeenBinds(p)' <=> SeenBinds(p)) /\ PolicyInv(p) /\ worker'.pol # p
      BY <1>2, <1>3, ControllerAssumption DEF SeenBinds, caches, ControllerInv
    <2>2. InHandInv(p)' /\ ListedInv(p)'
      BY <1>3, <2>1 DEF InHandInv, ListedInv
    <2>3. EEPInv(p)'
      BY <1>1, <1>2, <2>1 DEF PolicyInv, EEPInv, OwnEEP
    <2>4. WrittenInv(p)'
      BY <1>1, <1>2, <2>1 DEF PolicyInv, ListedInv, WrittenInv, PriceIn, Sole
    <2> QED BY <2>2, <2>3, <2>4 DEF PolicyInv
  <1> QED BY <1>4, <1>5, <1>6 DEF ControllerInv

\* A call fails, or the controller restarts and queues everything that there is.
LEMMA FaultHolds ==
  ASSUME ControllerInv, CallFails \/ Restart
  PROVE  ControllerInv'
  <1>1. apiFaults' \in 0..MaxApiFaults
    BY CounterType DEF CallFails, Restart
  <1>2. CASE CallFails
    <2>1. /\ queue' \subseteq Policies /\ worker' \in Worker /\ WorkerInv'
          /\ \A p \in Policies : PolicyInv(p)'
      BY <1>2, GiveUpHolds DEF CallFails
    <2>2. TypeOK'
      BY <1>1, <1>2, <2>1 DEF CallFails, ControllerInv, TypeOK, teams, caches, outputs
    <2> QED BY <2>1, <2>2 DEF ControllerInv
  <1>3. CASE Restart
    <2>1. worker' \in Worker /\ worker'.at = "idle" /\ worker'.pol = NoPolicy
      BY <1>3, IdleType DEF Restart
    <2>2. WorkerInv'
      BY <2>1 DEF WorkerInv
    <2>3. TypeOK'
      BY <1>1, <1>3, <2>1 DEF Restart, ControllerInv, TypeOK, teams
    <2>4. ASSUME NEW p \in Policies
          PROVE  PolicyInv(p)'
      <3>1. SeenBinds(p)' => p \in queue'
        BY <1>3, ControllerAssumption DEF Restart, SeenBinds, Valid
      <3>2. worker'.pol # p
        BY <2>1, ControllerAssumption
      <3> QED BY <3>1, <3>2 DEF PolicyInv, InHandInv, EEPInv, ListedInv, WrittenInv
    <2> QED BY <2>2, <2>3, <2>4 DEF ControllerInv
  <1> QED BY <1>2, <1>3

\* Every step of the system keeps the invariant.
LEMMA StepHolds ==
  ASSUME ControllerInv, [Next]_vars
  PROVE  ControllerInv'
  <1>1. CASE \/ \E p \in Policies, spec \in Specs : EditPolicy(p, spec)
             \/ \E rt \in Routes : EditRoute(rt)
    BY <1>1, EditHolds
  <1>2. CASE Cluster \/ \E p \in Policies : HandDelete(p)
    BY <1>2, ClusterHolds DEF Cluster
  <1>3. CASE Watching
    BY <1>3, WatchHolds
  <1>4. CASE Working
    BY <1>4, RemoveHolds, ApplyHolds, ReportHolds, ListHolds, TableHolds, GrantHolds
       DEF Working
  <1>5. CASE \E p \in Policies : Reconcile(p)
    BY <1>5, ReconcileHolds
  <1>6. CASE CallFails \/ Restart
    BY <1>6, FaultHolds
  <1>7. CASE UNCHANGED vars
    <2>1. \A p \in Policies : PolicyInv(p)'
      BY <1>7, OutsideHolds DEF vars, caches, outputs
    <2>2. TypeOK' /\ WorkerInv'
      BY <1>7 DEF ControllerInv, TypeOK, WorkerInv, vars, teams, caches, outputs
    <2> QED BY <2>1, <2>2 DEF ControllerInv
  <1> QED BY <1>1, <1>2, <1>3, <1>4, <1>5, <1>6, <1>7 DEF Next

\* The inductive invariant: what the caches say of a policy has been acted upon, or the
\* policy is queued or in hand; and a table under way knows everybody who is not queued.
THEOREM Invariance == Spec => []ControllerInv
  <1>1. ControllerInv /\ [Next]_vars => ControllerInv'
    BY StepHolds
  <1> QED BY InitHolds, <1>1, PTL DEF Spec

\* The controller's state keeps its type; every status is one of the Gateway API's reasons.
THEOREM TypeCorrect == Spec => []TypeOK
  <1>1. ControllerInv => TypeOK
    BY DEF ControllerInv
  <1> QED BY Invariance, <1>1, PTL

\* A policy that is alone on its route and whose events were handled is enforced.
THEOREM HandledIsEnforced == Spec => []SettledIsEnforced
  <1>1. ControllerInv => SettledIsEnforced
    <2> SUFFICES ASSUME ControllerInv, NEW p \in Policies, Sole(p), Binds(p), Settled(p)
                 PROVE  /\ eep[p].exists /\ eep[p].owner = policy[p].uid
                        /\ PriceIn(cm, Target[p]) = policy[p].spec
                        /\ NamespaceOf[Target[p]] \in grant
        BY DEF SettledIsEnforced
    <2>1. SeenBinds(p) /\ seen[p] = policy[p] /\ PolicyInv(p)
      BY DEF Binds, Settled, SeenBinds, ControllerInv
    <2>2. OwnEEP(p)
      BY <2>1 DEF PolicyInv, EEPInv, Settled
    <2> QED BY <2>1, <2>2 DEF PolicyInv, WrittenInv, OwnEEP, Settled
  <1> QED BY Invariance, <1>1, PTL

==============================================================================
