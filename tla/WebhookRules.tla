---------------------------- MODULE WebhookRules ----------------------------
(***************************************************************************)
(* The reconciler of a webhook configuration                               *)
(* (controllers/webhook_controller.go) and the access checker it asks      *)
(* (rbac/cani.go).  It keeps the rules of one webhook equal to the         *)
(* resources that bindings refer to and the controller may access.         *)
(*                                                                         *)
(* The code has two such reconcilers, for the admission projector and for  *)
(* the trigger.  They share nothing, each has an access checker of its     *)
(* own, and a behaviour is one of either.                                  *)
(*                                                                         *)
(* Rules, grouped and sorted in the code, are the set of the resources in  *)
(* them.  Time passes in ticks, of which an access review is good for TTL. *)
(***************************************************************************)
EXTENDS Naturals, FiniteSets

CONSTANTS
  Bindings,    \* ServiceBindings
  Kinds,       \* kinds, with version, that they refer to
  Resources,   \* resources, with group
  Resource,    \* kind -> its resource, by the REST mapping
  SecretKind,  \* the kind of a direct reference
  NoReference, \* a binding that does not exist
  TTL,         \* how long an access review is kept
  MaxEdits,    \* bound on the number of user actions
  MaxFaults    \* bound on the number of restarts and errors

ASSUME KindsAssumption ==
  /\ Resource \in [Kinds -> Resources]
  /\ SecretKind \in Kinds

ASSUME BoundsAssumption == TTL \in Nat \ {0} /\ MaxEdits \in Nat /\ MaxFaults \in Nat

VARIABLES
  hook,        \* which of the two webhooks
  bindings,    \* binding -> the kinds it refers to, as the cache has it
  installed,   \* kinds the REST mapper knows
  allowed,     \* resources the controller has the webhook's verb for
  since,       \* resource -> ticks since it was allowed, at most TTL
  config,      \* the webhook configuration
  seen,        \* the same as the cache has it
  access,      \* resource -> the review that the access checker keeps
  queued,      \* a request is waiting
  pc,
  read,        \* the configuration that is being reconciled
  todo,        \* resources still to be checked
  kept,        \* resources found accessible
  edits, faults

clusterVars == <<bindings, installed, allowed, since>>
requestVars == <<pc, read, todo, kept>>
boundVars == <<edits, faults>>
vars == <<hook, clusterVars, config, seen, access, queued, requestVars, boundVars>>

Hooks == {"projector", "trigger"}
Reference == [service : Kinds, workload : Kinds]

\* A configuration that has not exactly one webhook is not as expected.
Config == [rules : SUBSET Resources, expected : BOOLEAN, rv : Nat]
Review == [allowed : BOOLEAN, age : 0 .. TTL]

\* No review, or one without a time of creation, counts as expired.
NoReview == [allowed |-> FALSE, age |-> TTL]

NotReading == [rules |-> {}, expected |-> FALSE, rv |-> 0]

----------------------------------------------------------------------------
(***************************************************************************)
(* The cluster.  The reconciler watches bindings and its configuration;    *)
(* installed kinds and permissions change without telling it.              *)
(***************************************************************************)
Edit ==
  /\ edits < MaxEdits
  /\ edits' = edits + 1
  /\ UNCHANGED <<hook, access, requestVars, faults>>

\* Mutant: bindings are not watched.
ChangeBindingUnwatched(b, reference) ==
  /\ Edit
  /\ bindings[b] # reference
  /\ bindings' = [bindings EXCEPT ![b] = reference]
  /\ UNCHANGED <<installed, allowed, since, config, seen, queued>>

\* A binding is created, updated or deleted, and the watch set up by
\* LoadServiceBindings enqueues the one request there is.
ChangeBinding(b, reference) ==
  /\ Edit
  /\ bindings[b] # reference
  /\ bindings' = [bindings EXCEPT ![b] = reference]
  /\ queued' = TRUE
  /\ UNCHANGED <<installed, allowed, since, config, seen>>

ChangeInstalled(k) ==
  /\ Edit
  /\ installed' = (installed \ {k}) \cup ({k} \ installed)
  /\ UNCHANGED <<bindings, allowed, since, config, seen, queued>>

ChangeAccess(r) ==
  /\ Edit
  /\ allowed' = (allowed \ {r}) \cup ({r} \ allowed)
  /\ since' = [since EXCEPT ![r] = 0]
  /\ UNCHANGED <<bindings, installed, config, seen, queued>>

\* The operator applies the manifest again, or another one.
ApplyConfig(expected) ==
  /\ Edit
  /\ config' = [rules |-> {}, expected |-> expected, rv |-> config.rv + 1]
  /\ UNCHANGED <<clusterVars, seen, queued>>

SyncConfig ==
  /\ seen # config
  /\ seen' = config
  /\ queued' = TRUE
  /\ UNCHANGED <<hook, clusterVars, config, access, requestVars, boundVars>>

Resync ==
  /\ ~queued
  /\ queued' = TRUE
  /\ UNCHANGED <<hook, clusterVars, config, seen, access, requestVars, boundVars>>

Later(ticks) == IF ticks < TTL THEN ticks + 1 ELSE TTL

Tick ==
  /\ since' = [r \in Resources |-> IF r \in allowed THEN 0 ELSE Later(since[r])]
  /\ access' = [r \in Resources |-> [access[r] EXCEPT !.age = Later(@)]]
  /\ <<since, access>>' # <<since, access>>
  /\ UNCHANGED <<hook, bindings, installed, allowed, config, seen, queued, requestVars, boundVars>>

Rest == pc' = "idle" /\ read' = NotReading /\ todo' = {} /\ kept' = {}

Fault == faults < MaxFaults /\ faults' = faults + 1 /\ UNCHANGED edits

\* The process dies and starts again.
Crash ==
  /\ Fault
  /\ seen' = config
  /\ access' = [r \in Resources |-> NoReview]
  /\ queued' = TRUE
  /\ Rest
  /\ UNCHANGED <<hook, clusterVars, config>>

----------------------------------------------------------------------------
(***************************************************************************)
(* One reconciliation.                                                     *)
(***************************************************************************)
Existing == {b \in Bindings : bindings[b] # NoReference}

InterceptGVKs == {bindings[b].workload : b \in Existing}
TriggerGVKs == {bindings[b].service : b \in Existing} \ {SecretKind}
Observed == IF hook = "trigger" THEN TriggerGVKs \cup InterceptGVKs ELSE InterceptGVKs

\* LoadServiceBindings, the kinds, and the first loop of WebhookRules: one kind
\* without a REST mapping fails the request.
Load ==
  /\ pc = "idle"
  /\ queued
  /\ IF Observed \subseteq installed
       THEN /\ queued' = FALSE
            /\ pc' = "check"
            /\ read' = seen
            /\ todo' = {Resource[k] : k \in Observed}
            /\ kept' = {}
       ELSE UNCHANGED <<queued, requestVars>>
  /\ UNCHANGED <<hook, clusterVars, config, seen, access, boundVars>>

\* Mutant: a review is kept for good.
FreshForever(r) == access[r] # NoReview

\* CanI: the review is recent enough to be used again.
Fresh(r) == access[r].age < TTL

Answered(r, answer) ==
  /\ todo' = todo \ {r}
  /\ kept' = IF answer THEN kept \cup {r} ELSE kept
  /\ UNCHANGED <<hook, clusterVars, config, seen, queued, pc, read>>

\* CanI answers from its cache.
CanICached(r) ==
  /\ r \in todo
  /\ Fresh(r)
  /\ Answered(r, access[r].allowed)
  /\ UNCHANGED <<access, boundVars>>

\* CanI asks.  The server may or may not stamp its answer, and an answer without
\* a stamp is asked for again the next time.
CanI(r, age) ==
  /\ r \in todo
  /\ ~Fresh(r)
  /\ access' = [access EXCEPT ![r] = [allowed |-> r \in allowed, age |-> age]]
  /\ Answered(r, r \in allowed)
  /\ UNCHANGED boundVars

\* An error is taken for a denial, and kept.
CanIFails(r) ==
  /\ Fault
  /\ r \in todo
  /\ ~Fresh(r)
  /\ access' = [access EXCEPT ![r] = [allowed |-> FALSE, age |-> 0]]
  /\ Answered(r, FALSE)

\* Mutant: rules that are there already are good enough.
SemanticEqualsCovered(rules) == rules \subseteq read.rules

\* An unexpected configuration is never different from the desired one.
SemanticEquals(rules) == ~read.expected \/ rules = read.rules

\* DesiredResource, MergeBeforeUpdate and the update, under the resource version
\* that was read.
Update ==
  /\ pc = "check"
  /\ todo = {}
  /\ config' = IF SemanticEquals(kept) \/ config.rv # read.rv
                 THEN config
                 ELSE [config EXCEPT !.rules = kept, !.rv = @ + 1]
  /\ queued' = (queued \/ (~SemanticEquals(kept) /\ config.rv # read.rv))
  /\ Rest
  /\ UNCHANGED <<hook, clusterVars, seen, access, boundVars>>

\* Any other error of the update.
UpdateFails ==
  /\ Fault
  /\ pc = "check"
  /\ todo = {}
  /\ ~SemanticEquals(kept)
  /\ queued' = TRUE
  /\ Rest
  /\ UNCHANGED <<hook, clusterVars, config, seen, access>>

Step ==
  \/ Load
  \/ \E r \in Resources : CanICached(r)
  \/ \E r \in Resources, age \in {0, TTL} : CanI(r, age)
  \/ Update

----------------------------------------------------------------------------
\* At most one kind is not installed yet.
Init ==
  /\ hook \in Hooks
  /\ bindings = [b \in Bindings |-> NoReference]
  /\ installed \in {Kinds} \cup {Kinds \ {k} : k \in Kinds}
  /\ allowed \in SUBSET Resources
  /\ since = [r \in Resources |-> IF r \in allowed THEN 0 ELSE TTL]
  /\ config = [rules |-> {}, expected |-> TRUE, rv |-> 0]
  /\ seen = config
  /\ access = [r \in Resources |-> NoReview]
  /\ queued = TRUE
  /\ pc = "idle" /\ read = NotReading /\ todo = {} /\ kept = {}
  /\ edits = 0 /\ faults = 0

Next ==
  \/ \E b \in Bindings, ref \in Reference \cup {NoReference} : ChangeBinding(b, ref)
  \/ \E k \in Kinds : ChangeInstalled(k)
  \/ \E r \in Resources : ChangeAccess(r)
  \/ \E expected \in BOOLEAN : ApplyConfig(expected)
  \/ SyncConfig
  \/ Resync
  \/ Tick
  \/ Crash
  \/ Step
  \/ \E r \in Resources : CanIFails(r)
  \/ UpdateFails

Spec == Init /\ [][Next]_vars

\* The watch delivers, the resync comes, time passes and the worker works.
Fairness ==
  /\ WF_vars(SyncConfig)
  /\ WF_vars(Resync)
  /\ WF_vars(Tick)
  /\ WF_vars(Step)

FairSpec == Spec /\ Fairness

----------------------------------------------------------------------------
\* The resources that bindings refer to.
Referred ==
  UNION {{Resource[bindings[b].workload]}
           \cup {Resource[k] : k \in IF hook = "trigger" THEN {bindings[b].service} \ {SecretKind}
                                                         ELSE {}} : b \in Existing}

\* When nothing is left to do, the rules are those of the bindings there are, less
\* the resources the access checker was last denied: no change of a binding or of
\* the configuration during a reconciliation is lost (the watches, the conflict).
RestingRulesAreComplete ==
  pc = "idle" /\ ~queued /\ seen = config /\ config.expected =>
    config.rules = {r \in Referred : access[r].allowed}

\* The access checker answers yes only if the controller had the permission less
\* than TTL ago (CanI).
AnswerIsRecent ==
  \A r \in Resources : Fresh(r) /\ access[r].allowed => r \in allowed \/ since[r] < TTL

\* Once the cluster rests, and if every kind is installed, the rules become the
\* resources that bindings refer to and the controller may access, although
\* neither a permission nor a kind announces its change and errors were kept as
\* denials (the resync, the access checker's time to live).
RulesSettle ==
  <>[](Observed \subseteq installed /\ config.expected => config.rules = Referred \cap allowed)
=============================================================================
