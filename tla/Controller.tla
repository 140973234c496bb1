----------------------------- MODULE Controller ------------------------------
(***************************************************************************)
(* The controller (package controller) and the filter's table watch        *)
(* (pricing.Watcher).  Teams edit PaymentPolicies and HTTPRoutes; caches   *)
(* follow them one event at a time, in any order between objects; one      *)
(* worker takes policies off a queue, writes or removes the policy's       *)
(* EnvoyExtensionPolicy (EEP), reports a status and recomputes the price   *)
(* table and the grant from the cache; the filters load the table.         *)
(*                                                                         *)
(* Every write is a step of its own and may fail; a failed reconcile is    *)
(* queued again.                                                           *)
(***************************************************************************)
EXTENDS Naturals, FiniteSets

CONSTANTS
    Policies, Routes, Namespaces, Filters,
    Target,           \* spec.targetRef: immutable, a route of the policy's namespace
    NamespaceOf,      \* by route
    Prices,           \* prices that pricing.Parse takes
    MaxEdits,         \* bound: edits by teams
    ApiFaults,        \* the faults that happen: "call" fails, "restart" of the controller
    MaxApiFaults,     \* bound: how many of them
    NoTable, NoPolicy

ASSUME ControllerAssumption ==
    /\ Target \in [Policies -> Routes]
    /\ NamespaceOf \in [Routes -> Namespaces]
    /\ ApiFaults \subseteq {"call", "restart"}
    /\ MaxEdits \in Nat /\ MaxApiFaults \in Nat
    /\ {"absent", "invalid", "none"} \cap Prices = {}
    /\ NoPolicy \notin Policies
    /\ NoTable \notin [Routes -> Prices \cup {"none"}]

VARIABLES
    policy,        \* the PaymentPolicies on the API server
    routes,        \* the HTTPRoutes that exist
    seen,          \* the controller's cache of the policies
    seenRoutes,    \* the controller's cache of the routes
    eep,           \* by policy: its EEP, with its owner and Envoy Gateway's verdict
    eepNews,       \* policies whose EEP changed: the Owns watch has yet to say so
    queue,         \* the controller's work queue
    worker,        \* where Reconcile stands, and what it has in hand
    cm,            \* the price-table ConfigMap
    grant,         \* the ReferenceGrant: namespaces that may name the filter
    table,         \* by filter: the table it serves from
    edits, apiFaults

teams == <<policy, routes, edits>>
caches == <<seen, seenRoutes>>
outputs == <<eep, eepNews, cm, grant>>
vars == <<teams, caches, outputs, queue, worker, table, apiFaults>>

\* "invalid": the schema takes it and validate does not (a price of 0, the zero address,
\* a network that is not configured).
Specs == Prices \cup {"absent", "invalid"}
Conditions == {"none", "Accepted", "Invalid", "TargetNotFound", "Conflicted"}

\* gen counts the edits of the spec; uid is the gen at which the object was created; cond
\* and observed are its status.
Policy == [spec : Specs, uid : Nat, gen : Nat, cond : Conditions, observed : Nat]
NoSpec == [spec |-> "absent", uid |-> 0, gen |-> 0, cond |-> "none", observed |-> 0]

Verdicts == {"none", "accepted", "conflicted"}
EEP == [exists : BOOLEAN, owner : Nat, verdict : Verdicts]
NoEEP == [exists |-> FALSE, owner |-> 0, verdict |-> "none"]

Table == [Routes -> Prices \cup {"none"}]

Steps == {"idle", "remove", "apply", "mirror", "status", "list", "table", "grant"}
Worker == [at : Steps, pol : Policies \cup {NoPolicy}, pp : Policy, cond : Conditions,
           want : Table \cup {NoTable}, from : SUBSET Namespaces]
Idle == [at |-> "idle", pol |-> NoPolicy, pp |-> NoSpec, cond |-> "none",
         want |-> NoTable, from |-> {}]

Init ==
    /\ policy = [p \in Policies |-> NoSpec] /\ seen = policy
    /\ routes \in SUBSET Routes /\ seenRoutes = routes
    /\ eep = [p \in Policies |-> NoEEP] /\ eepNews = {}
    /\ queue = {} /\ worker = Idle
    /\ cm = NoTable /\ grant = {} /\ table = [f \in Filters |-> NoTable]
    /\ edits = 0 /\ apiFaults = 0

------------------------------------------------------------------------------
(* Teams, the API server and Envoy Gateway *)

ApiFault(kind) ==
    /\ kind \in ApiFaults
    /\ apiFaults < MaxApiFaults
    /\ apiFaults' = apiFaults + 1

Edited == edits < MaxEdits /\ edits' = edits + 1

\* A team creates, edits or deletes its policy.
EditPolicy(p, spec) ==
    LET old == policy[p]
        created == old.spec = "absent"
    IN
    /\ Edited
    /\ spec # old.spec
    /\ policy' = [policy EXCEPT ![p] =
          [spec |-> spec, gen |-> old.gen + 1,
           uid |-> IF created THEN old.gen + 1 ELSE old.uid,
           cond |-> IF created THEN "none" ELSE old.cond,
           observed |-> IF created THEN 0 ELSE old.observed]]
    /\ UNCHANGED <<routes, caches, outputs, queue, worker, table, apiFaults>>

\* A route appears or disappears.
EditRoute(rt) ==
    /\ Edited
    /\ routes' = IF rt \in routes THEN routes \ {rt} ELSE routes \cup {rt}
    /\ UNCHANGED <<policy, caches, outputs, queue, worker, table, apiFaults>>

SetEEP(p, e) ==
    /\ eep' = [eep EXCEPT ![p] = e]
    /\ eepNews' = eepNews \cup {p}

\* Somebody deletes an EEP by hand.
HandDelete(p) ==
    /\ Edited
    /\ eep[p].exists
    /\ SetEEP(p, NoEEP)
    /\ UNCHANGED <<policy, routes, caches, queue, worker, cm, grant, table, apiFaults>>

\* Kubernetes collects an EEP whose owner is gone.
Collect(p) ==
    /\ eep[p].exists
    /\ policy[p].spec = "absent" \/ policy[p].uid # eep[p].owner
    /\ SetEEP(p, NoEEP)
    /\ UNCHANGED <<teams, caches, queue, worker, cm, grant, table, apiFaults>>

\* Envoy Gateway attaches one EEP to a route and reports any other one as a conflict.
Judge(p) ==
    LET v == IF \E q \in Policies \ {p} : Target[q] = Target[p] /\ eep[q].verdict = "accepted"
             THEN "conflicted" ELSE "accepted"
    IN
    /\ eep[p].exists
    /\ eep[p].verdict # v
    /\ SetEEP(p, [eep[p] EXCEPT !.verdict = v])
    /\ UNCHANGED <<teams, caches, queue, worker, cm, grant, table, apiFaults>>

------------------------------------------------------------------------------
(* The watches *)

WatchPolicy(p) ==
    /\ seen[p] # policy[p]
    /\ seen' = [seen EXCEPT ![p] = policy[p]]
    /\ queue' = queue \cup {p}
    /\ UNCHANGED <<teams, seenRoutes, outputs, worker, table, apiFaults>>

\* policiesForRoute: the policies on the route, as far as the cache knows them.
PoliciesForRoute(rt) == {p \in Policies : seen[p].spec # "absent" /\ Target[p] = rt}

\* Mutant: a route's appearance wakes nobody.
WatchRouteQuietly(rt) ==
    /\ (rt \in seenRoutes) # (rt \in routes)
    /\ seenRoutes' = IF rt \in routes THEN seenRoutes \cup {rt} ELSE seenRoutes \ {rt}
    /\ UNCHANGED <<teams, seen, outputs, queue, worker, table, apiFaults>>

WatchRoute(rt) ==
    /\ (rt \in seenRoutes) # (rt \in routes)
    /\ seenRoutes' = IF rt \in routes THEN seenRoutes \cup {rt} ELSE seenRoutes \ {rt}
    /\ queue' = queue \cup PoliciesForRoute(rt)
    /\ UNCHANGED <<teams, seen, outputs, worker, table, apiFaults>>

WatchEEP(p) ==
    /\ p \in eepNews
    /\ eepNews' = eepNews \ {p}
    /\ queue' = queue \cup {p}
    /\ UNCHANGED <<teams, caches, eep, worker, cm, grant, table, apiFaults>>

\* pricing.Watcher: a filter loads the table; every table the controller writes parses.
LoadTable(f) ==
    /\ cm # NoTable
    /\ table[f] # cm
    /\ table' = [table EXCEPT ![f] = cm]
    /\ UNCHANGED <<teams, caches, outputs, queue, worker, apiFaults>>

------------------------------------------------------------------------------
(* Reconcile *)

\* validate: the one-entry table of this policy parses.
Valid(pp) == pp.spec \in Prices

\* What the cache says of a policy decides where its reconcile goes, and on what condition.
Reconcile(p) ==
    LET pp == seen[p]
        go(step, cond) == [Idle EXCEPT !.at = step, !.pol = p, !.pp = pp, !.cond = cond]
    IN
    /\ worker.at = "idle"
    /\ p \in queue
    /\ queue' = queue \ {p}
    /\ worker' = IF pp.spec = "absent" THEN go("list", "none")
                 ELSE IF ~Valid(pp) THEN go("remove", "Invalid")
                 ELSE IF Target[p] \notin seenRoutes THEN go("remove", "TargetNotFound")
                 ELSE go("apply", "none")
    /\ UNCHANGED <<teams, caches, outputs, table, apiFaults>>

Then(step) == worker' = [worker EXCEPT !.at = step]

\* Reconcile returns an error: the policy is queued again.
GiveUp == worker' = Idle /\ queue' = queue \cup {worker.pol}

\* removeEEP: only an EEP that this object owns.
RemoveEEP ==
    LET p == worker.pol IN
    /\ worker.at = "remove"
    /\ IF eep[p].exists /\ eep[p].owner = worker.pp.uid THEN SetEEP(p, NoEEP)
       ELSE UNCHANGED <<eep, eepNews>>
    /\ Then("status")
    /\ UNCHANGED <<teams, caches, queue, cm, grant, table, apiFaults>>

\* The EEP is applied with the policy as owner; an EEP that is there keeps its verdict.
ApplyEEP ==
    LET p == worker.pol
        e == [eep[p] EXCEPT !.exists = TRUE, !.owner = worker.pp.uid]
    IN
    /\ worker.at = "apply"
    /\ IF eep[p] # e THEN SetEEP(p, e) ELSE UNCHANGED <<eep, eepNews>>
    /\ Then("mirror")
    /\ UNCHANGED <<teams, caches, queue, cm, grant, table, apiFaults>>

\* Mutant: the verdict is copied as Envoy Gateway spells it.
MirrorEEPRaw ==
    LET e == eep[worker.pol] IN
    /\ worker.at = "mirror"
    /\ IF ~e.exists THEN GiveUp
       ELSE worker' = [worker EXCEPT !.at = "status", !.cond = e.verdict] /\ UNCHANGED queue
    /\ UNCHANGED <<teams, caches, outputs, table, apiFaults>>

\* Envoy Gateway's verdict, read back: no verdict yet counts as accepted.
MirrorEEP ==
    LET e == eep[worker.pol] IN
    /\ worker.at = "mirror"
    /\ IF ~e.exists THEN GiveUp
       ELSE /\ worker' = [worker EXCEPT !.at = "status",
                 !.cond = IF e.verdict = "conflicted" THEN "Conflicted" ELSE "Accepted"]
            /\ UNCHANGED queue
    /\ UNCHANGED <<teams, caches, outputs, table, apiFaults>>

\* setAccepted: nothing is written when nothing changed; a write needs the object to be
\* as the cache had it, and its failure ends the reconcile before project.
SetAccepted ==
    LET p == worker.pol
        pp == worker.pp
        new == [pp EXCEPT !.cond = worker.cond, !.observed = pp.gen]
    IN
    /\ worker.at = "status"
    /\ IF new = pp THEN Then("list") /\ UNCHANGED <<queue, policy>>
       ELSE IF policy[p] = pp
       THEN policy' = [policy EXCEPT ![p] = new] /\ Then("list") /\ UNCHANGED queue
       ELSE GiveUp /\ UNCHANGED policy
    /\ UNCHANGED <<routes, edits, caches, outputs, table, apiFaults>>

\* The policies project puts into the table: valid, on a route that exists.
Projected == {p \in Policies : Valid(seen[p]) /\ Target[p] \in seenRoutes}

\* The tables project may come to.  Of two policies on one route the last of the list
\* wins, and the cache lists in no order.
Projections ==
    {t \in Table : \A rt \in Routes :
        LET on == {p \in Projected : Target[p] = rt} IN
        IF on = {} THEN t[rt] = "none" ELSE \E p \in on : t[rt] = seen[p].spec}

\* project: the list, from the cache.
List ==
    /\ worker.at = "list"
    /\ \E t \in Projections :
         worker' = [worker EXCEPT !.at = "table", !.want = t,
                                  !.from = {NamespaceOf[Target[p]] : p \in Projected}]
    /\ UNCHANGED <<teams, caches, outputs, queue, table, apiFaults>>

ApplyTable ==
    /\ worker.at = "table"
    /\ cm' = worker.want
    /\ Then("grant")
    /\ UNCHANGED <<teams, caches, eep, eepNews, grant, queue, table, apiFaults>>

\* The grant lists the namespaces, or is deleted when there are none.
ApplyGrant ==
    /\ worker.at = "grant"
    /\ grant' = worker.from
    /\ worker' = Idle
    /\ UNCHANGED <<teams, caches, eep, eepNews, cm, queue, table, apiFaults>>

\* Mutant: Reconcile logs the error of a call and returns nil.
CallFailsQuietly ==
    /\ worker.at \notin {"idle", "list"}
    /\ ApiFault("call")
    /\ worker' = Idle
    /\ UNCHANGED <<teams, caches, outputs, queue, table>>

\* A call on the API server fails, before it took effect.
CallFails ==
    /\ worker.at \notin {"idle", "list"}
    /\ ApiFault("call")
    /\ GiveUp
    /\ UNCHANGED <<teams, caches, outputs, table>>

\* The controller is restarted: the queue is lost, and the first lists of the watches queue
\* every policy, and every owner of an EEP, that there is.
Restart ==
    /\ ApiFault("restart")
    /\ seen' = policy /\ seenRoutes' = routes
    /\ queue' = {p \in Policies : policy[p].spec # "absent" \/ eep[p].exists}
    /\ eepNews' = {}
    /\ worker' = Idle
    /\ UNCHANGED <<teams, eep, cm, grant, table>>

Working ==
    \/ RemoveEEP \/ ApplyEEP \/ MirrorEEP \/ SetAccepted \/ List \/ ApplyTable \/ ApplyGrant

Watching ==
    \/ \E p \in Policies : WatchPolicy(p) \/ WatchEEP(p)
    \/ \E rt \in Routes : WatchRoute(rt)
    \/ \E f \in Filters : LoadTable(f)

Cluster == \E p \in Policies : Collect(p) \/ Judge(p)

Next ==
    \/ \E p \in Policies : HandDelete(p) \/ \E spec \in Specs : EditPolicy(p, spec)
    \/ \E rt \in Routes : EditRoute(rt)
    \/ Cluster \/ Watching \/ Working
    \/ \E p \in Policies : Reconcile(p)
    \/ CallFails \/ Restart

Spec == Init /\ [][Next]_vars

\* The watches deliver, Kubernetes and Envoy Gateway do their part, and the worker takes
\* every queued policy in turn.  Nobody owes an edit or a fault.
Fairness ==
    /\ WF_vars(Working)
    /\ \A p \in Policies : SF_vars(Reconcile(p)) /\ WF_vars(Collect(p) \/ Judge(p))
    /\ \A p \in Policies : WF_vars(WatchPolicy(p)) /\ WF_vars(WatchEEP(p))
    /\ \A rt \in Routes : WF_vars(WatchRoute(rt))
    /\ \A f \in Filters : WF_vars(LoadTable(f))

FairSpec == Spec /\ Fairness

==============================================================================
