--------------------------- MODULE ControllerProps ---------------------------
(***************************************************************************)
(* What the controller must get right: a policy whose events were handled  *)
(* is enforced, and the data plane ends up in step with what teams wrote.  *)
(***************************************************************************)
EXTENDS Controller

\* Every variable has its type; every status written is one of the Gateway API's reasons.
TypeOK ==
    /\ policy \in [Policies -> Policy] /\ seen \in [Policies -> Policy]
    /\ routes \subseteq Routes /\ seenRoutes \subseteq Routes
    /\ eep \in [Policies -> EEP] /\ eepNews \subseteq Policies
    /\ queue \subseteq Policies
    /\ worker \in Worker
    /\ cm \in Table \cup {NoTable} /\ grant \subseteq Namespaces
    /\ table \in [Filters -> Table \cup {NoTable}]
    /\ edits \in 0..MaxEdits /\ apiFaults \in 0..MaxApiFaults

\* No other policy is on the route.
Sole(p) == \A q \in Policies \ {p} : Target[q] # Target[p]

PriceIn(t, rt) == IF t = NoTable THEN "none" ELSE t[rt]

\* The policy prices its route: a valid spec on a route that exists.
Binds(p) == Valid(policy[p]) /\ Target[p] \in routes

\* Every event of the policy and its route was delivered and reconciled.
Settled(p) ==
    /\ seen[p] = policy[p]
    /\ Target[p] \in routes => Target[p] \in seenRoutes
    /\ p \notin queue \cup eepNews
    /\ worker.pol # p

\* A policy whose events were handled is enforced, and no reconcile of another policy,
\* failed call or late event of another object undoes that: its EEP exists and is its own,
\* the table has its price and the grant its namespace (Reconcile, project: "a full
\* recompute ... so there is no state to drift").
SettledIsEnforced ==
    \A p \in Policies : Sole(p) /\ Binds(p) /\ Settled(p) =>
        /\ eep[p].exists /\ eep[p].owner = policy[p].uid
        /\ PriceIn(cm, Target[p]) = policy[p].spec
        /\ NamespaceOf[Target[p]] \in grant

------------------------------------------------------------------------------
(* Why a handled policy is enforced: the parts of the inductive invariant *)

\* The policy prices its route as far as the caches know.
SeenBinds(p) == Valid(seen[p]) /\ Target[p] \in seenRoutes

\* The EEP is there and belongs to the object the cache knows.
OwnEEP(p) == eep[p].exists /\ eep[p].owner = seen[p].uid

\* The worker has one policy in hand, from Reconcile to the end, and a table from the list on.
WorkerInv ==
    /\ worker.at = "idle" => worker.pol = NoPolicy
    /\ worker.at # "idle" => worker.pol \in Policies
    /\ worker.at \in {"table", "grant"} => worker.want \in Table

\* What the worker read of its policy is what the cache has, or the policy is queued again.
InHandInv(p) ==
    worker.pol = p /\ p \notin queue =>
        /\ worker.pp = seen[p]
        /\ worker.at = "remove" => ~SeenBinds(p)

\* Unless it is queued or about to be applied, a policy that binds has its EEP.
EEPInv(p) ==
    SeenBinds(p) /\ p \notin queue \cup eepNews /\ ~(worker.pol = p /\ worker.at = "apply")
        => OwnEEP(p)

\* A table under way was listed from what the cache still has, or the policy is queued.
ListedInv(p) ==
    Sole(p) /\ SeenBinds(p) /\ p \notin queue /\ worker.at \in {"table", "grant"} =>
        /\ worker.want[Target[p]] = seen[p].spec
        /\ NamespaceOf[Target[p]] \in worker.from

\* Unless it is queued or in hand, a policy that binds is in the table and in the grant.
WrittenInv(p) ==
    Sole(p) /\ SeenBinds(p) /\ p \notin queue =>
        /\ (worker.pol = p => worker.at = "grant") => PriceIn(cm, Target[p]) = seen[p].spec
        /\ worker.pol # p => NamespaceOf[Target[p]] \in grant

PolicyInv(p) == InHandInv(p) /\ EEPInv(p) /\ ListedInv(p) /\ WrittenInv(p)

ControllerInv == TypeOK /\ WorkerInv /\ \A p \in Policies : PolicyInv(p)

------------------------------------------------------------------------------
(* That the data plane follows *)

\* The data plane is in step with what teams wrote.  Of several policies on a route one
\* is the price, and at least one is accepted.
InStep ==
    /\ \A p \in Policies :
         /\ eep[p].exists = Binds(p)
         /\ policy[p].spec # "absent" =>
              policy[p].cond \in IF ~Valid(policy[p]) THEN {"Invalid"}
                                 ELSE IF ~Binds(p) THEN {"TargetNotFound"}
                                 ELSE IF Sole(p) THEN {"Accepted"}
                                 ELSE {"Accepted", "Conflicted"}
    /\ \A rt \in Routes :
         LET on == {p \in Policies : Target[p] = rt /\ Binds(p)} IN
         /\ PriceIn(cm, rt) \in IF on = {} THEN {"none"} ELSE {policy[p].spec : p \in on}
         /\ on # {} => \E p \in on : policy[p].cond = "Accepted"
    /\ grant = {NamespaceOf[Target[p]] : p \in {q \in Policies : Binds(q)}}
    /\ \A f \in Filters : table[f] = cm

\* Once teams stop editing and calls stop failing, everything comes in step and stays so,
\* whatever order the watches delivered in (Reconcile, policiesForRoute, Watcher.apply).  It
\* is about a controller that is not restarted: what is deleted while it is down may stay in
\* the table, since no event starts a reconcile for it.
Converges == <>[]InStep

------------------------------------------------------------------------------
(* A claim of the docs that the code does not keep *)

\* architecture.md: "a typo never makes a priced route free".  While a policy and its route
\* exist, the controller does not take the policy's EEP away.
TypoNeverFree ==
    [][\A p \in Policies :
         eep[p].exists /\ ~eep'[p].exists /\ edits' = edits =>
            \/ policy[p].spec = "absent" \/ policy[p].uid # eep[p].owner
            \/ Target[p] \notin routes]_vars

==============================================================================
