# A TLA+ model of servicebinding-runtime

The repository implements the Service Binding Specification for Kubernetes: a
`ServiceBinding` names a service and a workload, and the runtime makes the
service's secret available in the workload's pods. This directory models the
runtime in TLA+, checks it with TLC on small instances and proves the central
properties of the projector, the reconciler, the webhooks and the mapping with
TLAPS.

## 1. The system

| Component | State it keeps | Operations | Talks to |
|---|---|---|---|
| Projector (`projector/binding.go`) | none; rewrites a pod template: annotations, volumes, and variables and mounts of each container | `Project`, `Unproject` | called by the reconciler and the admission webhook |
| MetaPodTemplate (`projector/metapodtemplate.go`) | none; reads the pod template out of a workload by a mapping's paths and writes it back | `NewMetaPodTemplate`, `WriteToWorkload` | called by the projector |
| Workload mapping (`apis/v1beta1/clusterworkloadresourcemapping_*.go`) | the stored `ClusterWorkloadResourceMapping` | `Default`, `ValidateCreate/Update/Delete` | API server |
| Resolver (`resolver/cluster.go`) | none | `LookupMapping`, `LookupBindingSecret`, `LookupWorkloads` | API server |
| ServiceBinding reconciler (`controllers/servicebinding_controller.go`) | per reconciliation: the binding, the stashed workloads, before and after projection | finalizer, `ResolveBindingSecret`, `ResolveWorkloads`, `ProjectBinding`, `PatchWorkloads`, status update | API server, cache, work queue |
| Conditions (`servicebinding_lifecycle.go`) | `ServiceAvailable`, `WorkloadProjected`, `Ready` | `InitializeConditions`, `Mark*` | the reconciler |
| ServiceBinding type and webhook (`servicebinding_types.go`, `servicebinding_webhook.go`) | the stored `ServiceBinding` | `Default`, `Validate*` | API server |
| Admission projector (`controllers/webhook_controller.go`) | none; reads cached bindings | projects every active binding into a workload that is created or updated | API server calls it, in the reconciler's process |
| Trigger (`controllers/webhook_controller.go`) | the tracker that the resolver fills, the reconciler's queue | enqueues the bindings for which a written object is tracked | API server calls it |
| Webhook configuration reconcilers (`controllers/webhook_controller.go`) | the rules of two webhook configurations | `LoadServiceBindings`, `TriggerGVKs`, `InterceptGVKs`, `WebhookRules` | API server, access checker |
| Access checker (`rbac/cani.go`) | a cache of access reviews with a time to live | `CanI`, `WithVerb` | API server |
| Manager (`main.go`) | — | wiring, resync period | all of them |

What is hard:

- **Concurrency.** The reconciler reads bindings from a cache that lags and
  workloads some steps before it writes them; users, other bindings and the
  admission webhook write the same objects meanwhile. The webhook sees the
  reconciler's own writes.
- **Failure.** A restart or an error between any two calls; several workloads of
  which one write fails; permissions that are revoked, during a deletion too.
- **Ordering.** A request is admitted in one moment and stored in another. Two
  bindings are projected in one order by the controller, in another by the
  webhook.
- **History.** A binding is projected over an older version of itself, of which
  all that is left is what the workload shows. The mapping that says where to
  look may have changed as well, and nothing is reconciled because of that.
- **Missed events.** The trigger is told of a write before it is stored, and a
  call that fails is not repeated.

What makes each part correct: the projector replaces exactly what belongs to a
binding (idempotent, independent of order, nothing dangling, nothing of the
user's lost); the mapping gives a complete and validated template for every
version, and reading and writing by its paths is faithful, settles and leaves
the rest of the workload alone; the ServiceBinding webhook admits only bindings
that can be projected as they are; the reconciler stores the finalizer first, overwrites nobody, leaves
nothing behind, reports what is there, is reachable by the triggers it relies
on, converges and lets deletions complete;
the webhook revives nothing and projects only what is referred to; the rules
cover what bindings refer to and nothing else.

The hazards of `PROJECT.json` list these at the lines where they bite.

## 2. Modules

| Module | Models |
|---|---|
| `Projector` | `projector/binding.go`: one operator per function, named as in the code |
| `Projection` | abstract: what projecting bindings into one workload promises |
| `ProjectedWorkload` | one workload over time: `Project`, `Unproject`, a user's writes; refines `Projection` |
| `ServiceBindingWebhook` | defaulting and validation of a ServiceBinding, and how its workload reference is read; one theorem |
| `WorkloadMapping` | the mapping webhook and `LookupMapping` |
| `MetaPodTemplate` | `projector/metapodtemplate.go`: the pod template in a workload of any shape |
| `MappedWorkload` | one workload of a custom type, its mapping and a binding over time: composes `WorkloadMapping`, `MetaPodTemplate` and `Projector` |
| `ServiceBindingController` | the reconciler, its cache, queue and tracker, the trigger webhook, the API server, users, restarts and errors |
| `AdmissionProjector` | extends it by the admission webhook |
| `WebhookRules` | the reconcilers of the two webhook configurations, and the access checker |
| `ProjectedWorkloadProofs` | the projector leaves well-formed templates in which every reference resolves and the user's content stays, implements `Projection`, is idempotent and independent of the order |
| `ServiceBindingControllerProofs` | type correctness, finalizer first, no lost update, true reports |
| `ServiceBindingOrphanProofs` | nothing left behind |
| `ServiceBindingTrackerProofs` | a binding at rest is found by its triggers |
| `AdmissionProjectorProofs` | the admission webhook projects after the finalizer, and nothing that is gone |
| `WebhookRulesProofs` | recent answers of the access checker, complete rules at rest |
| `WorkloadMappingProofs` | every template the resolver hands out is valid and complete |
| `MC...` | instances for TLC |

### Projector, ProjectedWorkload, Projection

A template is a record of annotations, containers and volumes, all lists kept as
sequences since their order is what restarts pods. Names that the code builds
from a prefix and a uid are pairs, so `HasPrefix` is a test of the head.
Uids and variable names are numbers in the role of Go's string order. A
conversion that decides something is kept: a `SERVICE_BINDING_ROOT` without a
literal value reads as the empty string.

The loops that keep some items of a list (`Kept`) and `sort.SliceStable` are both
`Arrange`: an item stands behind as many items as come before it, in the order
of the list or in the order of the sort. There is no recursion in it, which is
what makes the projector provable.

`ProjectedWorkload` remembers in `base` what the user wrote and in `last` which
version of each binding was projected last. `Project` may be called with any
version of any binding, and `Unproject` with any version as well: the secret may
have rotated or the spec changed since the binding was projected. The
refinement mapping reads from the template, for each uid, the facts a reader
would find; the abstract `Project(b)` replaces the facts of one uid by the
footprint of `b`.

The versions are not given but made: a user submits a ServiceBinding, the
validating webhook accepts or refuses it (`Accepted`), and the default it was
validated with is filled in again before it is projected (`Loaded`), since only
a validating webhook is deployed and what is stored lacks the default.
`ServiceBindingWebhook` also has the two readings of a workload reference: the
resolver's, by name if there is one and else by selector, and the admission
projector's, by name or by selector.

### WorkloadMapping

A JSONPath is malformed, general, or a plain sequence of fields, which is what
the two validators tell apart. The deployment has no defaulting webhook:
`ValidateCreate` and `ValidateUpdate` fill the defaults into a copy that is
thrown away. `LookupMapping` models `&v` in a range loop of go 1.18: all
iterations share one variable.

### MetaPodTemplate, MappedWorkload

A workload is a tree: a function from the places it has, sequences of keys, to
maps, lists, strings and null. Annotations and lists of variables, volumes and
mounts are leaves with the projector's own records in them. `getAt` and `setAt`
follow a path through maps; `setAt` makes the maps that are missing and writes
empty values too. A list on the way is an error; a string on the way and a
container that is null make reflection panic, which nothing recovers in the
reconciler, so that the process is restarted. Either way the workload is left as
it was (`Readable`, `Writable`). The typed round trip through JSON drops the
fields the Go types do not have (`Typed`).

`MappedWorkload` runs `Project` and `Unproject` from the lookup of the mapping
to the workload they leave, while users write the mapping (`Apply` and `Delete`
of `WorkloadMapping`) and the workload. `via` remembers the templates a binding
went through since the workload was last without it.

What it shows of the code, beyond the properties: after a mapping has moved the
annotations, the first projection does not recognise its own variables and a
second one is needed to settle; unprojecting through a mapping that shares the
containers but not the annotations leaves variables that no later projection
removes. `PathsApart` leaves out mappings whose paths lead into one another,
which the webhook lets through.

### ServiceBindingController

Each call to the API server is one action; `pc` says which comes next:

| `pc` | Action | Code |
|---|---|---|
| `idle` | `Take` | `ResourceReconciler` reads the binding from the cache and initializes its conditions |
| `finalizer` | `AddFinalizer` | `WithFinalizer` |
| `secret` | `ResolveBindingSecret` | lines 65-108 |
| `workloads` | `ResolveWorkloads` | lines 110-151 |
| `project` | `ProjectBinding` | lines 155-190 |
| `patch` | `Manage(w)` for each stashed workload, `PatchDone` | lines 192-246 |
| `unfinalize` | `ClearFinalizer` | `WithFinalizer`, for a terminating binding |
| `status` | `UpdateStatus` | `ResourceReconciler` |

`tracked` is what the resolver has asked the tracker to remember for each
binding: its service, unless it is a direct reference to a secret, and the
workload it names, also when they cannot be read; nothing for a selector. It is
kept in memory and lost in a restart. Its leases last two sync periods and every
reconciliation renews them, so they do not run out in the model. `Trigger`
enqueues what is tracked for one object. It is tied to no write: the API server
calls it before it stores the object, another webhook may still refuse the
write, and dry runs, a queue that is not there yet and calls that fail
(`failurePolicy: Ignore`) leave it without effect.

`CallFails` is any other error of a call, `Crash` a restart. Objects carry a
resource version that every write moves; writes under an old one conflict. What
a workload shows of a binding is the secret projected into it (`proj`), and
everything its user writes is one revision number (`rev`): `Projector` is the
detail of `proj`. `Events` says which of the less common events an instance
allows, so that each property is stated with exactly the events it withstands.

The behaviour of reconciler-runtime and controller-runtime is modelled from how
this code uses them and marked external in the map: a request whose object is
gone is dropped; the finalizer is added before, and cleared after, the sub
reconcilers; the status is saved if it differs, also after an error, and not for
a terminating binding; an error or a requested requeue brings the binding back.
reconciler-runtime's memory of mutations made by admission webhooks is left out.
It may delay by its expiry time the retry of an update that the webhook undid,
so `Converges` says nothing about how long that takes.

One worker serves the queue (the default) and there is one replica without
leader election, so two processes overlapping during a rollout are not
modelled. A restart lists the bindings anew and so begins with a current cache.

### AdmissionProjector

A user's create or update is admitted in one step (`Admit`), against the cache,
and stored in a later one (`Finish`) unless the workload has changed. The
reconciler's update is intercepted in its own step (`ManageIntercepted`). The
writes of `ServiceBindingController` remain possible: whether the webhook's
rules already cover a kind is left open. The properties and theorems of
`ServiceBindingController` are therefore about the reconciler as such; `liveness` and
`admission_undone` say which survive the webhook.

### WebhookRules

The two configuration reconcilers differ in the kinds they observe and in the
verb they ask the access checker for. They share no state, so a behaviour is one
of either (`hook`). `Load` is the list of the bindings and the loop over REST
mappings, which fails as a whole; `CanI`, `CanICached` and `CanIFails` are the
access checker for one resource; `Update` is the write of the rules, under the
resource version that was read from a cache. Bindings and the configuration are
watched. Kinds and permissions change silently. Whether the API server stamps
an access review with its time of creation is left open: the code takes a review
without a stamp for one that has expired.

## 3. Runs

| Run | Checks | Result |
|---|---|---|
| `projected_workload` | `RefinesProjection`, `Idempotent`, `OrderIndependent`, `NoDanglingReference`, `UserContentPreserved`, `ProjectedIsWellFormed`, `OtherBindingsPreserved`, `TypeOK` | hold |
| `shared_secret` | `OtherBindingsPreserved` with one secret for two bindings | violated |
| `controller_faults` | `NoOrphan`, `ReportedProjectionIsThere`, `RestingIsTracked`, `NoLostUpdate`, `TypeOK`: restarts, errors, triggers, conflicts, replaced workloads | hold |
| `controller_hostile` | `FinalizerGuardsProjection`, `ReportedProjectionIsThere`, `RestingIsTracked`, `NoLostUpdate`: two bindings, permissions, references and labels that change | hold |
| `controller_revoked` | `NoOrphan` when permissions may be revoked | violated |
| `controller_no_secret` | `ProjectedMeansSecret` | violated |
| `mapping` | `WildcardServesTheRest`, `LookupIsUsable` of the mapping; `ReadsBack`, `Settles`, `RestUntouched`, `ResidueNeedsRemapping` of projections through it | hold |
| `mapping_version` | `ExactVersionIsMatched` | violated |
| `liveness` | `GoneIsNotAdmitted`, `FinalizerGuardsProjection`, `Converges`, `DeletionCompletes`, with the webhook and changing permissions | hold |
| `webhook_rules` | `RestingRulesAreComplete`, `AnswerIsRecent`, `RulesSettle` | hold |
| `admission_undone` | `ReportedProjectionIsThere` with the webhook | violated |
| `admission_generate_name` | `AdmittedIsReferenced` | violated |

Each violated property states what a comment or a test of the repository says;
`findings` in `PROJECT.json` quotes it. In short:

- `LookupMapping` returns the last template of a mapping instead of the one for
  the workload's version.
- `unprojectEnv` recognises a binding's variables by the secret they read, and so
  removes those of another binding that read the same secret.
- A binding deleted while the controller may not touch its workloads is released
  with its projection in place.
- The webhook undoes the reconciler's first projection, since the status it reads
  has no secret yet, and success is reported nevertheless. `liveness` shows that
  later reconciliations repair it.
- `WorkloadProjected` is set also when the service is missing or publishes no
  secret, so that nothing was projected. Its comment says that it means a
  projected secret. `Ready` says the same and is right, since it also waits for
  `ServiceAvailable`.
- A workload with `generateName` is given bindings that do not select it.

One more disagreement needs no run: the comment on `Env` in
`clusterworkloadresourcemapping_types.go` gives `.envs` as the default path,
`Default` and the model have `.env`, which is what a container has.

`ReportedProjectionIsThere` is about the moment before the status is saved, and
has two parts. `SuccessIsEarned`: `WorkloadProjected` is not reported by a
reconciliation that failed, asks for another attempt or has not resolved the
workload the binding names, and `Ready` not without a secret.
`ResolvedShowsBinding`: every workload that was resolved shows what will be
reported as `status.binding`, unless its user has changed it since. The mutants
lose one each of what the code does for this: conditions are not reset, success
is set whatever an earlier step said, the secret projected is the one the status
had before.

`NoOrphan` is not checked with the webhook: a request admitted before a
finalization and stored after it brings back the projection of a binding that is
gone, since the API server does not hold the deletion for it.

### Bounds

`MaxEdits` bounds users' actions, `MaxFaults` restarts and errors; nothing else
is bounded, and reconciliations, cache events and resyncs are not counted. With
services and workloads chosen freely at the start, an interesting run needs the
creation of a binding, one change and one deletion, so three edits reach a
change at every moment of a projection followed by a deletion at every moment of
what follows, or a second binding and a change, or a permission revoked and
granted. Two workloads show a write that fails after another
went well. Two secrets show
rotation. Workloads and secrets are interchangeable in the safety runs and
declared symmetric there, and not in the liveness runs. Deadlock is not checked
in the runs of the reconciler: with no binding left and the edits used up, the
system rests.

`projected_workload` is not bounded in steps: its states are finite. The
versions differ in everything `Project` reads, and the variables of the two
bindings interleave in the sort order. Two bindings that ask for a variable of
the same name are not among them (`DifferentVariables`): the sort is stable and
compares names only, so the variable that was projected first stays ahead.

`mapping` enumerates every mapping of up to two of seven templates: complete
ones, ones that move annotations or containers, ones the webhook refuses, the
wildcard. `mapping_version` goes up to three, which lets the exact version stand
before, between or after others. The workloads have the pod template in the
usual place, a container that is no element of a list, both, a list on the way,
and a container that is null. The variables left behind by mappings that change
can pile up without end, so `MaxRemaps` bounds the changes of the mapping while
a binding is in the workload: with two, a binding is projected through one
mapping, then another, and unprojected through a third.

`webhook_rules` has one binding, whose service and workload may be two versions
of one kind or a secret, two resources, two ticks for a review to expire, two
edits and one fault. Rules mention resources one by one, and more bindings only
make more of the same sets.

### Fairness

`Fairness` assumes that the watch delivers (`SyncCache`), that the resync comes
(`Resync`, every `syncPeriod`), that a started reconciliation goes on (`Step`)
and that a queued binding is taken in its turn (`Take`; strong, since the worker
is busy in between, and the queue is first in first out). `AdmissionFairness`
adds that the API server finishes a request. In `WebhookRules` the watch
delivers, the resync comes, time passes and the worker works. Users, errors and
restarts owe nothing, and are bounded, so `Converges` speaks of the time after
they stop. Triggers owe nothing either, since they may come too early or not at
all: that bindings converge is owed to the resync, requeues and the watch, and
triggers only make it sooner.

`liveness` has the webhook, permissions and labels that change, one workload, and
neither errors nor restarts (with them the instance is out of TLC's reach). So
`Converges` does not show that a workload is reached after an error on another;
`controller_faults` shows of that case that a deletion forgets no workload and
that success is not reported. An error that lasts is in no run: `CallFails` is
transient. A `Project` or `Unproject` that fails each time, for a kind without
REST mapping or a path that leads through a list, keeps a workload from being
projected and a deleted binding from going away. The two invariants of the
webhook are proved with every event (`GoneStaysOut`, `AdmittedAfterFinalizer`).

## 4. Proofs

The theorems hold for every value of the constants that the named assumptions
allow: any sets of bindings, workloads, secrets, kinds, templates, any `Events`
and any bounds. TLC evaluates every assumption in the runs.

### The reconciler

From `ConstantsAssumption` alone (the model values are distinct):

- `TypeCorrect`: `Spec => []TypeOK`.
- `FinalizerFirst`: `Spec => []FinalizerGuardsProjection`. The property is not
  inductive: the worker acts on copies. `GuardInv` adds that the cache
  (`CacheIsOlder`) and the worker's copy (`CopyIsOlder`) are older versions of
  the stored binding, equal if the resource versions are, that a finalizer
  either of them shows is stored until the binding is gone, that the worker's
  copy has it past the first step, and that stashed workloads are older versions
  of the stored ones (`StashIsOlder`), changed only by the projection of the
  binding at hand (`StashIsProjected`). A write that succeeds thus changes one
  workload's projection of a binding whose finalizer is stored.
- `UpdatesSurvive`: `Spec => NoLostUpdate`, from the same invariant: a write
  succeeds only under the version that was read, and then the stash equals what
  is stored.
- `NothingLeftBehind`: `Spec => []NoOrphan` assuming `Steady`, that no
  permission, workload reference or label changes. `OrphanInv` adds to
  `GuardInv` that a binding's life goes one way in every copy of it
  (`LifeGoesForward`), that references agree, that only referenced workloads
  are projected into, and how far a finalization has come
  (`FinalizationProgress`): what is still projected is among the workloads found,
  then among those yet to be written, and nothing is when the finalizer is
  cleared. `controller_revoked` shows that the assumption on permissions is
  needed; the code has TODOs for the other two.
- `RestingFound`: `Spec => []RestingIsTracked`. `TrackInv` follows the binding
  through a reconciliation: until a watch event enqueues it again the worker's
  copy is the cached one, in reference and in being live; what the worker has
  gone past is tracked, unless it failed; and who failed is enqueued at the end.
  A restart forgets the tracker and enqueues every binding.
- `ReportIsTrue`: `Spec => []ReportedProjectionIsThere`. `ReportInv` adds to
  `GuardInv` that nothing is stashed before the workloads are resolved and
  success is set last (`ReportComesLast`), and what a workload shows of the
  binding as long as its user leaves it alone: what was read until the worker
  has managed it, the secret to be reported from then on (`StashIsKept`).
  `EarnedInv` is for the other half: before the status is saved no step has
  failed, and as long as the condition is "Initializing" past the resolution of
  the workloads, no other attempt was asked for and the workload that is named
  has been found (`FailureIsMarked`).

### The admission webhook

- `AdmittedAfterFinalizer`: `AdmissionSpec => []FinalizerGuardsProjection`, and
  `GoneStaysOut`: `AdmissionSpec => []GoneIsNotAdmitted`, with every event
  allowed. The webhook knows nothing of finalizers. `AdmissionInv` adds to
  `GuardInv` what keeps it in order: a version of a binding with a secret in its
  status has the finalizer, be it stored, cached or in the worker's hands
  (`SecretIsGuarded`), and so has what a request on its way to be stored shows
  (`AdmittedIsGuarded`); a binding's life goes one way (`LifeGoesForward`).
- `ReadingsAgree` (in `ServiceBindingWebhook`): for a reference the webhook
  accepts and a workload that has a name, the admission projector and the
  resolver select the same workloads, so what one projects the other finds. The
  exception it leaves, a workload without a name, is the finding of
  `admission_generate_name`.

### Webhook rules and access checker

- `AnswersAreRecent`: `Spec => []AnswerIsRecent`. `ReviewsInv`: a cached "yes" is
  at least as old as the loss of the permission. Needs `BoundsAssumption` (a time
  to live of at least one tick).
- `RulesAreComplete`: `Spec => []RestingRulesAreComplete`. `RulesInv` says of each
  moment of a reconciliation that is not queued again already that it works on
  the configuration as the cache has it, and has kept, of the resources it asked
  about, those it was granted.

### The mapping

- `MappedIsUsable` and `MappedWildcardServes`: `LookupIsUsable` and
  `WildcardServesTheRest` in every state, for every set of templates. The
  invariant `StoredIsValid` says only that what is stored passed the validation
  with its defaults filled in; that the resolver, which fills them in again,
  hands out a valid and complete template is then a fact about `LookupMapping`.
  `DefaultsAssumption` says that the default paths are valid ones, as they are
  in the code. Both hold of the lookup as it is, which returns the last template
  (`mapping_version`): it is the wrong one, but a usable one.

### The projector

Assumptions, named in `ProjectedWorkload`: submissions have the fields of the
API type (`SubmissionsAssumption`), uids are finitely many numbers
(`UidsAssumption`), and users write what the API server accepts and leave the
projector's own annotation and volume names to it (`UserTemplatesAssumption`,
`UserEnvAssumption`). The last is not enforced by anything, but the names carry
the projector's prefix and a uid.

`RankIsOnto` and `ArrangedItems` carry the lists: when the places before each
item form a strict linear order, their numbers are different and fill 0..n-1, so
`Arrange` leaves out nothing it was given and repeats nothing. Finiteness and
cardinality are all it takes. With them each operation of the projector is
described by what it does to sets of items (`UnprojectedContainer`,
`ProjectedContainer`, `UnprojectedTemplate`, `ProjectedTemplate`).

- `ProjectionIsTyped`, `ProjectionIsWellFormed`, `ReferencesResolve`: `TypeOK`,
  `ProjectedIsWellFormed` and `NoDanglingReference` in every state. `WorkloadInv`
  says that the containers are the user's, that every projected volume is that
  of one version of a binding whose annotations are all there, that mounts have
  their volume, and that variables refer to annotations that are there. It is
  needed since an annotation alone does not say what refers to it: unprojecting
  a binding removes three annotations, and nothing else may have needed them.
- `ProjectionRefined`: `Spec => RefinesProjection` assuming `Apart`: no secret is
  published for two bindings or read by a variable of the user's own, containers
  have different names, and the user does not add a root variable to a container
  that is there. `FactsInv` adds to `WorkloadInv` that each projector annotation
  has the value some version of its binding gave it (`AnnotationsOwned`), that
  the secret a projected variable reads is the one its binding's annotation names
  (`SecretsKnown`), so that the binding can be unprojected although its secret
  has rotated since, and that every container keeps the root it has in the user's
  template, in front of all others (`RootsKept`), so that a mount's path does not
  depend on what was projected before. The facts are then followed kind by kind
  through `unproject` (`UnprojectFacts`) and `project` (`ProjectFacts`).
- `OthersKeepTheirVariables`: `Spec => []OtherBindingsPreserved`, assuming
  `Apart`. `SuppliedInv` says that the containers a projected binding selects have
  its variables.

Three more are about the order of the lists, which sets of items do not tell.
They rest on an algebra of lists. `Filtered`, `Sorted` (stable, by a rank that is
0 for what is not projected) and concatenation are all arrangements of places,
and two arrangements are the same list when their places correspond in order and
item by item (`SameArrangement`, by counting the places ahead of each).
From it follow the laws: filters compose and commute with sorting and
concatenation (`FilteredTwice`, `FilteredSorted`, `FilteredConcatenation`), items
of one rank stay as they are (`SortedLevel`), sorting again with something added
is sorting once (`SortedAgain`), and blocks whose ranks differ may be added in
either order (`SortedSwapped`). Every list of the template is then *rebuilt* by
`Project`: the binding's items are filtered out, its new ones added behind, and
the whole sorted (`Rebuilt`; `VolumesRebuilt`, `ContainersRebuilt`,
`AnnotationsRebuilt`).

- `UserContentStays`: `Spec => []UserContentPreserved`, without `Apart`: a secret
  shared by bindings costs a binding its variables, and the user only variables
  of their own that read a binding's secret, which the property leaves out. A root
  may be added to a container. The user's items have rank 0 and pass every filter,
  so the sort leaves them in place (`RebuiltBesides`). `ContentInv` is the
  property with `AnnotationsOwned`: that the annotations name no secret but those
  of bindings.
- `ProjectionIsIdempotent`: `Spec => []Idempotent`, assuming `Apart`. What the
  second projection takes out is exactly what the first one added
  (`RebuiltAgain`), since the annotation names the binding's secret by then, and
  the root, once added, stays. Without `Apart` a variable of another binding on
  the new secret stays in the first projection and goes in the second.
- `ProjectionsCommute`: `Spec => []OrderIndependent`, assuming `Apart` and
  `DifferentVariables`. Either order comes to one sort of what stays of both, the
  root if there was none, and the items of both (`RebuiltTwice`,
  `VariablesTwice`): the second projection takes out nothing the first one added
  (`OthersStay`) and does not change what counts as projected (`KnownAlike`).
  The ranks of the two bindings' items differ, by uid or by name.

`Apart` is a hypothesis of these theorems and no assumption of the module,
because nothing in the code or the cluster ensures it: `shared_secret` has two
bindings on one secret and loses a variable. A user's own variable on a
binding's secret is lost in the same way. Different names are what Kubernetes
asks of the containers of a pod; a mapping without name expression leaves several
containers unnamed, and the refinement mapping, which tells containers apart by
name, then says nothing. A root added later only moves the mounts of later
projections. `MCProjectedWorkload` has TLC evaluate that the instance of
`projected_workload` is apart and that its variables are different.

### Model-checked only

- Liveness (`Converges`, `DeletionCompletes`, `RulesSettle`), which is outside of
  what the prover supports.
- `ReadsBack`, `Settles`, `RestUntouched` and `ResidueNeedsRemapping` of
  `MappedWorkload`. `WriteToWorkload` is a fold over the paths with a fold over
  the containers of each in it, and `NewMetaPodTemplate` flattens a list of
  lists: what a fold computes for lists of any length takes induction over data.
  They also need more of the mapping than `PathsApart` says: a write that makes
  the maps on the way to one part must not make a place that a container path
  then finds.

## 5. Not modelled

- `projector/mapping.go`, a constant mapping source: only tests construct it.
- Mappings whose paths lead into one another: what they do depends on the order
  of writes, and no source says what it should be.
- The lease of a tracked object running out: two sync periods, renewed in each.
- reconciler-runtime's memory of admission mutations; overlapping processes; a
  webhook configuration that is deleted.
- Generated code, builders for tests, manifests, flags and health checks: no
  state to check.

## 6. Plan

The order of work was by how much depends on a part: the projector, the
reconciler and its proofs, the mapping, the webhook composed with the
reconciler, the webhook rules, then the trigger with its tracker, the pod
template in workloads of any shape, and the validation of bindings. Every
component with state of its own is modelled. The proofs followed: the reconciler,
the webhook, the rules, the mapping, the projector, its refinement and the order
of its lists. Every safety property that a passing run checks is proved, but for
those of `MappedWorkload` (section 4 says why), which stay with TLC as liveness
does. A proof of `RestUntouched` would begin with a condition on
container paths, in the manner of `PathsApart`, under which the containers found
are the same before and after each write.
