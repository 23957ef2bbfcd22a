---------------------- MODULE ServiceBindingController ----------------------
(***************************************************************************)
(* The ServiceBinding reconciler: controllers/servicebinding_controller.go *)
(* run by reconciler-runtime's ResourceReconciler and WithFinalizer, next  *)
(* to the API server it reads and writes and to the users of the cluster.  *)
(*                                                                         *)
(* Every call to the API server is a step of its own; users, the informer  *)
(* that fills the cache, resyncs, transient errors and restarts of the     *)
(* process come in between.  ServiceBindings are read from the informer's  *)
(* cache; services and workloads, which are unstructured, are read from    *)
(* the API server.  One worker serves the queue (MaxConcurrentReconciles   *)
(* is 1, the deployment has one replica).                                  *)
(*                                                                         *)
(* Data.  What a workload shows of a binding is the secret projected into  *)
(* it (Projector models the template itself); everything a user writes in  *)
(* a workload is its revision.  A binding is identified by its uid, so a   *)
(* binding deleted and created again is another element of Bindings.       *)
(***************************************************************************)
EXTENDS Naturals, FiniteSets

CONSTANTS
  Bindings,   \* ServiceBindings, by uid
  Workloads,  \* workloads, by name
  Secrets,    \* names of binding secrets
  NoSecret,   \* no secret: status.binding is nil, nothing is projected
  Absent,     \* the referenced service does not exist
  Selector,   \* a workload reference by label selector instead of by name
  NoBinding,  \* the worker is idle
  Direct,     \* bindings whose service reference is itself a v1 Secret
  Events,     \* what may happen besides creations, deletions, edits and resyncs
  MaxEdits,   \* bound on the number of user actions
  MaxFaults   \* bound on the number of restarts and transient errors

\* The service of a binding, next to the names of the workloads.
Service == "service"

ASSUME ConstantsAssumption ==
  /\ NoSecret \notin Secrets
  /\ Absent \notin Secrets \cup {NoSecret}
  /\ Selector \notin Workloads
  /\ Service \notin Workloads
  /\ NoBinding \notin Bindings
  /\ Direct \subseteq Bindings
  /\ MaxEdits \in Nat
  /\ MaxFaults \in Nat

ASSUME EventsAssumption ==
  Events \subseteq {"crash", "error", "rbac", "retarget", "relabel", "replace", "generateName"}

VARIABLES
  \* The API server.
  sb,         \* binding -> its ServiceBinding object
  workload,   \* workload name -> the workload object
  service,    \* binding -> the secret its service publishes, or Absent
  allowed,    \* the permissions the controller has
  \* The controller process.
  cache,      \* binding -> the ServiceBinding as the informer last saw it
  queue,      \* bindings waiting to be reconciled
  tracked,    \* binding -> what a trigger for it enqueues the binding
  pc,         \* the next step of the worker
  cur,        \* the binding being reconciled
  orig,       \* that binding as read from the cache
  obj,        \* the worker's copy of it
  found,      \* the workloads stashed by ResolveWorkloads
  read,       \* workload name -> the stashed object
  projected,  \* workload name -> the object stashed by ProjectBinding
  todo,       \* stashed workloads that PatchWorkloads has not managed yet
  requeue,    \* reconcile.Result.Requeue
  failed,     \* the reconciliation returned an error
  \* Bounds.
  edits, faults

apiVars == <<sb, workload, service, allowed>>
stashVars == <<found, read, projected, todo>>
workerVars == <<pc, cur, orig, obj, stashVars, requeue, failed>>
boundVars == <<edits, faults>>
vars == <<apiVars, cache, queue, tracked, workerVars, boundVars>>

MaybeSecret == Secrets \cup {NoSecret}
\* A binding is created and deleted once.  A workload that does not exist is in
\* phase none and keeps its resource version, which is never used again.
Phases == {"none", "live", "deleting", "gone"}
Finalizer == "servicebinding.io/finalizer"
Label == "selected"
\* "Initializing" and "Unknown" are status Unknown with the reason Initializing
\* and with any other reason.
Conditions == {"Unset", "Initializing", "Unknown", "True", "False"}
Permissions == {"getService", "readWorkload", "updateWorkload"}
\* What can be tracked for a binding.
Keys == Workloads \cup {Service}

ServiceBinding ==
  [phase : Phases, finalizers : SUBSET {Finalizer}, rv : Nat, gen : Nat,
   ref : Workloads \cup {Selector}, observed : Nat, binding : MaybeSecret, available : Conditions, projected : Conditions]

Workload ==
  [phase : Phases, rv : Nat, rev : Nat, labels : SUBSET {Label}, proj : [Bindings -> MaybeSecret]]

NeverCreated ==
  [phase |-> "none", finalizers |-> {}, rv |-> 0, gen |-> 0, ref |-> Selector,
   observed |-> 0, binding |-> NoSecret, available |-> "Unset", projected |-> "Unset"]

NoProjection == [b \in Bindings |-> NoSecret]

NotStashed ==
  [phase |-> "none", rv |-> 0, rev |-> 0, labels |-> {}, proj |-> NoProjection]

Exists(o) == o.phase \in {"live", "deleting"}
HasFinalizer(o) == Finalizer \in o.finalizers

\* Whether a workload reference means the workload w, of which o is a version.
Refers(ref, w, o) == Exists(o) /\ (IF ref = Selector THEN Label \in o.labels ELSE w = ref)
Matches(w, ref) == Refers(ref, w, workload[w])

----------------------------------------------------------------------------
(***************************************************************************)
(* What the API server does to an object: every write moves its resource   *)
(* version, a deletion with a finalizer only marks it, and an object goes  *)
(* with its last finalizer.                                                *)
(***************************************************************************)
Created(ref) == [NeverCreated EXCEPT !.phase = "live", !.rv = 1, !.gen = 1, !.ref = ref]
Deleted(o) == [o EXCEPT !.phase = IF HasFinalizer(o) THEN "deleting" ELSE "gone", !.rv = @ + 1]
Retargeted(o, ref) == [o EXCEPT !.ref = ref, !.gen = @ + 1, !.rv = @ + 1]
Finalized(o) == [o EXCEPT !.finalizers = {Finalizer}, !.rv = @ + 1]
Released(o) == [o EXCEPT !.finalizers = {}, !.phase = "gone", !.rv = @ + 1]
Saved(o) == [o EXCEPT !.rv = @ + 1]

Recreated(o, labels) ==
  [phase |-> "live", rv |-> o.rv + 1, rev |-> o.rev + 1, labels |-> labels,
   proj |-> NoProjection]
Removed(o) == [o EXCEPT !.phase = "none", !.rv = @ + 1, !.proj = NoProjection]
Edited(o) == [o EXCEPT !.rv = @ + 1, !.rev = @ + 1]
Replaced(o) == [o EXCEPT !.rv = @ + 1, !.rev = @ + 1, !.proj = NoProjection]
Relabelled(o) == [o EXCEPT !.rv = @ + 1, !.labels = {Label} \ @]
Written(o, rv) == [o EXCEPT !.rv = rv + 1]

\* Project and Unproject of the projector, seen from the controller.
WithProjection(o, b, secret) == [o EXCEPT !.proj[b] = secret]

----------------------------------------------------------------------------
(***************************************************************************)
(* Users of the cluster.                                                   *)
(***************************************************************************)
UserStep ==
  /\ edits < MaxEdits
  /\ edits' = edits + 1
  /\ UNCHANGED <<cache, queue, tracked, workerVars, faults>>

CreateBinding(b, ref) ==
  /\ UserStep
  /\ sb[b].phase = "none"
  /\ sb' = [sb EXCEPT ![b] = Created(ref)]
  /\ UNCHANGED <<workload, service, allowed>>

DeleteBinding(b) ==
  /\ UserStep
  /\ sb[b].phase = "live"
  /\ sb' = [sb EXCEPT ![b] = Deleted(sb[b])]
  /\ UNCHANGED <<workload, service, allowed>>

\* No field of a ServiceBinding is immutable.
RetargetBinding(b, ref) ==
  /\ UserStep
  /\ "retarget" \in Events
  /\ sb[b].phase = "live"
  /\ sb[b].ref # ref
  /\ sb' = [sb EXCEPT ![b] = Retargeted(sb[b], ref)]
  /\ UNCHANGED <<workload, service, allowed>>

CreateWorkload(w, labels) ==
  /\ UserStep
  /\ ~Exists(workload[w])
  /\ workload' = [workload EXCEPT ![w] = Recreated(workload[w], labels)]
  /\ UNCHANGED <<sb, service, allowed>>

DeleteWorkload(w) ==
  /\ UserStep
  /\ Exists(workload[w])
  /\ workload' = [workload EXCEPT ![w] = Removed(workload[w])]
  /\ UNCHANGED <<sb, service, allowed>>

\* An edit that keeps what was projected.
EditWorkload(w) ==
  /\ UserStep
  /\ Exists(workload[w])
  /\ workload' = [workload EXCEPT ![w] = Edited(workload[w])]
  /\ UNCHANGED <<sb, service, allowed>>

\* A full replace, which drops it.
ReplaceWorkload(w) ==
  /\ UserStep
  /\ "replace" \in Events
  /\ Exists(workload[w])
  /\ workload' = [workload EXCEPT ![w] = Replaced(workload[w])]
  /\ UNCHANGED <<sb, service, allowed>>

RelabelWorkload(w) ==
  /\ UserStep
  /\ "relabel" \in Events
  /\ Exists(workload[w])
  /\ workload' = [workload EXCEPT ![w] = Relabelled(workload[w])]
  /\ UNCHANGED <<sb, service, allowed>>

\* The service is created, publishes or rotates its secret, or is deleted.
ChangeService(b, s) ==
  /\ UserStep
  /\ b \notin Direct
  /\ service[b] # s
  /\ service' = [service EXCEPT ![b] = s]
  /\ UNCHANGED <<sb, workload, allowed>>

\* The operator grants or revokes a permission of the controller.
ChangeAccess(p) ==
  /\ UserStep
  /\ "rbac" \in Events
  /\ allowed' = (allowed \ {p}) \cup ({p} \ allowed)
  /\ UNCHANGED <<sb, workload, service>>

User ==
  \/ \E b \in Bindings, ref \in Workloads \cup {Selector} : CreateBinding(b, ref)
  \/ \E b \in Bindings : DeleteBinding(b)
  \/ \E b \in Bindings, ref \in Workloads \cup {Selector} : RetargetBinding(b, ref)
  \/ \E w \in Workloads, labels \in SUBSET {Label} : CreateWorkload(w, labels)
  \/ \E w \in Workloads : DeleteWorkload(w)
  \/ \E w \in Workloads : EditWorkload(w)
  \/ \E w \in Workloads : ReplaceWorkload(w)
  \/ \E w \in Workloads : RelabelWorkload(w)
  \/ \E b \in Bindings, s \in MaybeSecret \cup {Absent} : ChangeService(b, s)
  \/ \E p \in Permissions : ChangeAccess(p)

----------------------------------------------------------------------------
(***************************************************************************)
(* The informer, the queue and the process.                                *)
(***************************************************************************)
\* A watch event brings the cache up to date and enqueues the binding.
SyncCache(b) ==
  /\ cache[b] # sb[b]
  /\ cache' = [cache EXCEPT ![b] = sb[b]]
  /\ queue' = queue \cup {b}
  /\ UNCHANGED <<apiVars, tracked, workerVars, boundVars>>

\* The informer's resync, every syncPeriod.
Resync(b) ==
  /\ Exists(cache[b])
  /\ b \notin queue
  /\ queue' = queue \cup {b}
  /\ UNCHANGED <<apiVars, cache, tracked, workerVars, boundVars>>

\* TriggerWebhook, called about a write to a service or a workload.  The write
\* comes later or is refused by another webhook; a call can fail unnoticed, is
\* ignored for a dry run and before the queue is there.  So nothing ties a call
\* to a write.
Trigger(triggered) ==
  /\ ~(triggered \subseteq queue)
  /\ queue' = queue \cup triggered
  /\ UNCHANGED <<apiVars, cache, tracked, workerVars, boundVars>>

\* Tracker.Lookup for the service of a binding and for a workload.
TriggeredByService(b) == IF Service \in tracked[b] THEN {b} ELSE {}
TriggeredByWorkload(w) == {b \in Bindings : w \in tracked[b]}

ForgetStash ==
  /\ found' = {}
  /\ read' = [w \in Workloads |-> NotStashed]
  /\ projected' = [w \in Workloads |-> NotStashed]
  /\ todo' = {}

ForgetRequest ==
  /\ pc' = "idle"
  /\ cur' = NoBinding
  /\ orig' = NeverCreated
  /\ obj' = NeverCreated
  /\ ForgetStash
  /\ requeue' = FALSE
  /\ failed' = FALSE

\* The process dies and starts again: it lists all the bindings and enqueues
\* each of them.
Crash ==
  /\ "crash" \in Events
  /\ faults < MaxFaults
  /\ faults' = faults + 1
  /\ cache' = sb
  /\ queue' = {b \in Bindings : Exists(sb[b])}
  /\ tracked' = [b \in Bindings |-> {}]
  /\ ForgetRequest
  /\ UNCHANGED <<apiVars, edits>>

----------------------------------------------------------------------------
(***************************************************************************)
(* One reconciliation.  Goto(step) ends a step that went well, Abort one   *)
(* that returned an error: the ResourceReconciler then still saves the     *)
(* status.                                                                 *)
(***************************************************************************)
Goto(step) == pc' = step /\ UNCHANGED <<cur, orig, failed>>
Abort == pc' = "status" /\ failed' = TRUE /\ UNCHANGED <<cur, orig>>

IsDeleting == obj.phase = "deleting"

\* Mutant: the conditions of the last reconciliation are not reset.
InitializeConditionsOnce(o) ==
  [o EXCEPT !.available = IF @ = "Unset" THEN "Initializing" ELSE @,
            !.projected = IF @ = "Unset" THEN "Initializing" ELSE @]

\* The conditions, through the binding's condition manager.
InitializeConditions(o) == [o EXCEPT !.available = "Initializing", !.projected = "Initializing"]
MarkAvailable(o, condition) == [o EXCEPT !.available = condition]
MarkProjected(o, condition) == [o EXCEPT !.projected = condition]
Resolved(o, condition, secret) == [o EXCEPT !.available = condition, !.binding = secret]
\* The condition manager derives Ready from the two.
Ready(o) == o.available = "True" /\ o.projected = "True"

\* Mutant: the sub reconcilers run without the finalizer.
FirstStepUnguarded(o) == IF o.phase = "deleting" THEN "workloads" ELSE "secret"

\* The first step for a binding: WithFinalizer has nothing to add to a binding
\* that is being deleted or has the finalizer, and ResolveBindingSecret is not
\* run during finalization.
FirstStep(o) ==
  CASE o.phase = "deleting" -> "workloads"
    [] o.phase # "deleting" /\ HasFinalizer(o) -> "secret"
    [] OTHER -> "finalizer"

\* ResourceReconciler.Reconcile: read the binding from the cache, drop the
\* request if there is nothing to reconcile.
Take(b) ==
  LET o == cache[b]
      nothing == ~Exists(o) \/ (o.phase = "deleting" /\ ~HasFinalizer(o))
  IN  /\ pc = "idle"
      /\ b \in queue
      /\ queue' = queue \ {b}
      /\ IF nothing
           THEN UNCHANGED workerVars
           ELSE /\ cur' = b
                /\ orig' = o
                /\ obj' = InitializeConditions(o)
                /\ pc' = FirstStep(o)
                /\ UNCHANGED <<stashVars, requeue, failed>>
      /\ UNCHANGED <<apiVars, cache, tracked, boundVars>>

\* A write to the binding under the resource version that was read.
Current == Exists(sb[cur]) /\ sb[cur].rv = obj.rv

\* WithFinalizer before the sub reconcilers.
AddFinalizer ==
  /\ pc = "finalizer"
  /\ IF Current
       THEN /\ sb' = [sb EXCEPT ![cur] = Finalized(sb[cur])]
            /\ obj' = Finalized(obj)
            /\ Goto("secret")
       ELSE Abort /\ UNCHANGED <<sb, obj>>
  /\ UNCHANGED <<workload, service, allowed, cache, queue, tracked, stashVars, requeue, boundVars>>

\* TrackAndGet remembers what is about to be read.  A lease ends it after two
\* sync periods; a resync has renewed it by then.
Track(keys) == tracked' = [tracked EXCEPT ![cur] = @ \cup keys]

\* Mutant: a service is tracked once it is found.
ServiceKeysFound == IF cur \in Direct \/ service[cur] = Absent THEN {} ELSE {Service}

\* A service is tracked, a direct reference is not looked at.
ServiceKeys == IF cur \in Direct THEN {} ELSE {Service}

\* Mutant: the error of the lookup is not looked at.
ResolveBindingSecretUnchecked ==
  /\ pc = "secret"
  /\ obj' = Resolved(obj, "True", service[cur])
  /\ Track(ServiceKeys)
  /\ Goto("workloads")
  /\ UNCHANGED <<apiVars, cache, queue, stashVars, requeue, boundVars>>

\* resolver.LookupBindingSecret, which does not look at a direct reference.
LookupForbidden == cur \notin Direct /\ "getService" \notin allowed

ResolveBindingSecret ==
  /\ pc = "secret"
  /\ \/ LookupForbidden /\ obj' = MarkAvailable(obj, "False")
     \/ ~LookupForbidden /\ service[cur] = Absent /\ obj' = MarkAvailable(obj, "Unknown")
     \/ ~LookupForbidden /\ service[cur] = NoSecret /\ obj' = Resolved(obj, "Unknown", NoSecret)
     \/ ~LookupForbidden /\ service[cur] \in Secrets /\ obj' = Resolved(obj, "True", service[cur])
  /\ Track(ServiceKeys)
  /\ Goto("workloads")
  /\ UNCHANGED <<apiVars, cache, queue, stashVars, requeue, boundVars>>

\* A workload given by name is tracked, whether or not it can be read; what a
\* selector selects is not (lookupWorkloads, "TODO").
WorkloadKeys == {w \in Workloads : w = obj.ref}

\* resolver.LookupWorkloads: a workload given by name must exist, a selector may
\* select nothing.
ResolveWorkloads ==
  LET matching == {w \in Workloads : Matches(w, obj.ref)}
      forbidden == "readWorkload" \notin allowed
      notFound == obj.ref # Selector /\ matching = {}
  IN  /\ pc = "workloads"
      /\ IF forbidden \/ notFound
           THEN /\ obj' = MarkProjected(obj, IF forbidden THEN "False" ELSE "Unknown")
                /\ requeue' = TRUE
                /\ UNCHANGED <<found, read>>
           ELSE /\ found' = matching
                /\ read' = [w \in Workloads |-> IF w \in matching THEN workload[w] ELSE NotStashed]
                /\ UNCHANGED <<obj, requeue>>
      /\ Track(WorkloadKeys)
      /\ Goto("project")
      /\ UNCHANGED <<apiVars, cache, queue, projected, todo, boundVars>>

\* Mutant: the secret that is projected is the one the status had before.
DesiredOriginal(w) ==
  WithProjection(read[w], cur, IF IsDeleting THEN NoSecret ELSE orig.binding)

\* A copy of the workload after projector.Unproject or projector.Project.
Desired(w) == WithProjection(read[w], cur, IF IsDeleting THEN NoSecret ELSE obj.binding)

ProjectBinding ==
  /\ pc = "project"
  /\ projected' = [w \in Workloads |-> IF w \in found THEN Desired(w) ELSE NotStashed]
  /\ todo' = found
  /\ Goto("patch")
  /\ UNCHANGED <<apiVars, cache, queue, tracked, obj, found, read, requeue, boundVars>>

\* Mutant: a deletion waits until its workloads can be resolved.
AfterSequenceWaits == IF IsDeleting /\ ~requeue THEN "unfinalize" ELSE "status"

\* Where the sub reconcilers end without an error.
AfterSequence == IF IsDeleting THEN "unfinalize" ELSE "status"

\* Mutant: the write does not carry the resource version that was read.
OutcomeUnlocked(w) ==
  IF projected[w] = read[w] THEN "equal"
  ELSE IF "updateWorkload" \notin allowed THEN "forbidden"
  ELSE IF ~Exists(workload[w]) THEN "notFound"
  ELSE "updated"

\* Mutant: a conflict is passed over like a workload that was not found.
OutcomeConflictSkipped(w) ==
  IF projected[w] = read[w] THEN "equal"
  ELSE IF "updateWorkload" \notin allowed THEN "forbidden"
  ELSE IF ~Exists(workload[w]) \/ workload[w].rv # read[w].rv THEN "notFound"
  ELSE "updated"

\* ResourceManager.Manage for one workload: nothing to write, a write, or one
\* of the errors PatchWorkloads tells apart.
Outcome(w) ==
  IF projected[w] = read[w] THEN "equal"
  ELSE IF "updateWorkload" \notin allowed THEN "forbidden"
  ELSE IF ~Exists(workload[w]) THEN "notFound"
  ELSE IF workload[w].rv # read[w].rv THEN "conflict"
  ELSE "updated"

Manage(w) ==
  /\ pc = "patch"
  /\ w \in todo
  /\ \/ /\ Outcome(w) \in {"equal", "notFound"}
        /\ todo' = todo \ {w}
        /\ UNCHANGED <<workload, obj, pc, failed>>
     \/ /\ Outcome(w) = "updated"
        /\ workload' = [workload EXCEPT ![w] = Written(projected[w], workload[w].rv)]
        /\ todo' = todo \ {w}
        /\ UNCHANGED <<obj, pc, failed>>
     \/ /\ Outcome(w) = "forbidden"
        /\ obj' = MarkProjected(obj, "False")
        /\ pc' = AfterSequence
        /\ UNCHANGED <<workload, todo, failed>>
     \/ /\ Outcome(w) = "conflict"
        /\ pc' = "status"
        /\ failed' = TRUE
        /\ UNCHANGED <<workload, obj, todo>>
  /\ UNCHANGED <<sb, service, allowed, cache, queue, tracked, cur, orig, found, read, projected,
                 requeue, boundVars>>

\* Mutant: success, whatever an earlier step said.
PatchDoneRegardless ==
  /\ pc = "patch"
  /\ todo = {}
  /\ obj' = MarkProjected(obj, "True")
  /\ Goto(AfterSequence)
  /\ UNCHANGED <<apiVars, cache, queue, tracked, stashVars, requeue, boundVars>>

\* PatchWorkloads after its loop: success, unless an earlier step said otherwise.
PatchDone ==
  /\ pc = "patch"
  /\ todo = {}
  /\ obj' = MarkProjected(obj, IF obj.projected = "Initializing" THEN "True" ELSE obj.projected)
  /\ Goto(AfterSequence)
  /\ UNCHANGED <<apiVars, cache, queue, tracked, stashVars, requeue, boundVars>>

\* WithFinalizer after the sub reconcilers of a deletion.
ClearFinalizer ==
  /\ pc = "unfinalize"
  /\ IF Current
       THEN /\ sb' = [sb EXCEPT ![cur] = Released(sb[cur])]
            /\ Goto("status")
       ELSE Abort /\ UNCHANGED sb
  /\ UNCHANGED <<workload, service, allowed, cache, queue, tracked, obj, stashVars, requeue,
                 boundVars>>

\* The status the reconciliation leaves; the generation counts as observed only
\* without an error.
FinalStatus(o) == [o EXCEPT !.observed = IF failed THEN @ ELSE o.gen]

SameStatus(o, p) ==
  /\ o.observed = p.observed
  /\ o.binding = p.binding
  /\ o.available = p.available
  /\ o.projected = p.projected

StatusChanged == ~IsDeleting /\ ~SameStatus(FinalStatus(obj), orig)

\* ResourceReconciler after its sub reconciler: save the status if it differs
\* from the one read, under the resource version that was read.  An error or a
\* requested requeue brings the binding back.
UpdateStatus ==
  /\ pc = "status"
  /\ sb' = IF StatusChanged /\ Current
             THEN [sb EXCEPT ![cur] = Saved(FinalStatus(obj))]
             ELSE sb
  /\ queue' = IF failed \/ requeue \/ (StatusChanged /\ ~Current)
                THEN queue \cup {cur}
                ELSE queue
  /\ ForgetRequest
  /\ UNCHANGED <<workload, service, allowed, cache, tracked, boundVars>>

\* The steps in which a call is about to be made.
Calling ==
  \/ pc \in {"finalizer", "workloads", "unfinalize"}
  \/ pc = "secret" /\ cur \notin Direct
  \/ pc = "project" /\ found # {}
  \/ pc = "patch" /\ \E w \in todo : projected[w] # read[w]

\* What the call was tracked for.
CalledKeys ==
  CASE pc = "secret" -> ServiceKeys
    [] pc = "workloads" -> WorkloadKeys
    [] OTHER -> {}

\* Any call may fail for a reason the code does not tell apart.
CallFails ==
  /\ "error" \in Events
  /\ faults < MaxFaults
  /\ faults' = faults + 1
  /\ \/ /\ Calling
        /\ Abort
        /\ Track(CalledKeys)
        /\ UNCHANGED <<queue, obj, stashVars, requeue>>
     \/ /\ pc = "status"
        /\ StatusChanged
        /\ queue' = queue \cup {cur}
        /\ ForgetRequest
        /\ UNCHANGED tracked
  /\ UNCHANGED <<apiVars, cache, edits>>

Step ==
  \/ AddFinalizer
  \/ ResolveBindingSecret
  \/ ResolveWorkloads
  \/ ProjectBinding
  \/ \E w \in Workloads : Manage(w)
  \/ PatchDone
  \/ ClearFinalizer
  \/ UpdateStatus

----------------------------------------------------------------------------
Init ==
  /\ sb = [b \in Bindings |-> NeverCreated]
  /\ workload \in [Workloads -> {NotStashed, [NotStashed EXCEPT !.phase = "live", !.rv = 1,
                                                                !.labels = {Label}]}]
  /\ service \in [Bindings -> MaybeSecret \cup {Absent}]
  /\ \A b \in Direct : service[b] \in Secrets
  /\ allowed = Permissions
  /\ cache = sb
  /\ queue = {}
  /\ tracked = [b \in Bindings |-> {}]
  /\ pc = "idle"
  /\ cur = NoBinding
  /\ orig = NeverCreated
  /\ obj = NeverCreated
  /\ found = {}
  /\ read = [w \in Workloads |-> NotStashed]
  /\ projected = [w \in Workloads |-> NotStashed]
  /\ todo = {}
  /\ requeue = FALSE
  /\ failed = FALSE
  /\ edits = 0
  /\ faults = 0

Next ==
  \/ User
  \/ \E b \in Bindings : SyncCache(b)
  \/ \E b \in Bindings : Resync(b)
  \/ \E b \in Bindings : Trigger(TriggeredByService(b))
  \/ \E w \in Workloads : Trigger(TriggeredByWorkload(w))
  \/ Crash
  \/ CallFails
  \/ \E b \in Bindings : Take(b)
  \/ Step

Spec == Init /\ [][Next]_vars

\* The watch delivers, the resync comes, the worker works and the queue is first
\* in first out.  Users, triggers, errors and restarts owe nothing.
Fairness ==
  /\ \A b \in Bindings : WF_vars(SyncCache(b)) /\ WF_vars(Resync(b)) /\ SF_vars(Take(b))
  /\ WF_vars(Step)

FairSpec == Spec /\ Fairness

----------------------------------------------------------------------------
(***************************************************************************)
(* Properties.                                                             *)
(***************************************************************************)
TypeOK ==
  /\ sb \in [Bindings -> ServiceBinding]
  /\ workload \in [Workloads -> Workload]
  /\ service \in [Bindings -> MaybeSecret \cup {Absent}]
  /\ allowed \subseteq Permissions
  /\ cache \in [Bindings -> ServiceBinding]
  /\ queue \subseteq Bindings
  /\ tracked \in [Bindings -> SUBSET Keys]
  /\ pc \in {"idle", "finalizer", "secret", "workloads", "project", "patch", "unfinalize",
            "status"}
  /\ cur \in Bindings \cup {NoBinding}
  /\ (pc = "idle") <=> (cur = NoBinding)
  /\ orig \in ServiceBinding
  /\ obj \in ServiceBinding
  /\ found \subseteq Workloads
  /\ read \in [Workloads -> Workload]
  /\ projected \in [Workloads -> Workload]
  /\ todo \subseteq Workloads
  /\ requeue \in BOOLEAN
  /\ failed \in BOOLEAN
  /\ edits \in 0 .. MaxEdits
  /\ faults \in 0 .. MaxFaults

\* A workload never carries a projection of a binding that the API server would
\* let go of without telling the controller: the finalizer is stored before the
\* first workload is written, whatever the cache showed (WithFinalizer around
\* the sequence of ServiceBindingReconciler).
FinalizerGuardsProjection ==
  \A b \in Bindings, w \in Workloads :
    workload[w].proj[b] # NoSecret => HasFinalizer(sb[b]) \/ sb[b].phase = "gone"

\* When a binding is gone no workload is left with its projection, with stale
\* caches, conflicts, errors and restarts in between (finalization runs
\* ResolveWorkloads, ProjectBinding and PatchWorkloads before the finalizer is
\* cleared).
NoOrphan ==
  \A b \in Bindings, w \in Workloads :
    sb[b].phase = "gone" => workload[w].proj[b] = NoSecret

\* Writing a workload that was read some steps ago takes back neither a user's
\* edit nor the projection of another binding (PatchWorkloads, Manage).
NoLostUpdate ==
  [][\A w \in Workloads : edits' = edits =>
       /\ workload'[w].rev = workload[w].rev
       /\ \A b \in Bindings \ {cur} : workload'[w].proj[b] = workload[w].proj[b]]_vars

\* A reconciliation about to report WorkloadProjected went well: no step of it
\* failed or asked for another attempt, and the workload the binding names is
\* among the ones it resolved.  About to report Ready, it has a secret.
SuccessIsEarned ==
  pc = "status" /\ obj.projected = "True" /\ ~IsDeleting =>
    /\ ~failed /\ ~requeue
    /\ \A w \in Workloads : w = obj.ref => w \in found
    /\ Ready(obj) => obj.binding \in Secrets

\* Every workload it resolved shows what it will report as status.binding, unless
\* the user has changed or deleted that workload since it was read.
ResolvedShowsBinding ==
  pc = "status" /\ obj.projected = "True" /\ ~IsDeleting =>
    \A w \in found :
      Exists(workload[w]) /\ workload[w].rev = read[w].rev =>
        workload[w].proj[cur] = obj.binding

\* What the reconciler reports is there: success is never reported over a failure
\* to resolve, read or write the workloads, and where Ready is reported the secret
\* is in every workload that was resolved (ResolveWorkloads to PatchWorkloads and
\* the conditions).  That WorkloadProjected alone means a secret is not promised
\* here: see ProjectedMeansSecret.
ReportedProjectionIsThere == SuccessIsEarned /\ ResolvedShowsBinding

\* A binding whose status says WorkloadProjected has a secret to project, as the
\* comment on that condition has it.  The code does not keep this: PatchWorkloads
\* sets the condition whether or not ResolveBindingSecret found a secret.
ProjectedMeansSecret ==
  \A b \in Bindings :
    Exists(sb[b]) /\ sb[b].projected = "True" => sb[b].binding \in Secrets

\* No trigger is lost on a binding at rest: one that is neither being reconciled
\* nor waiting to be is found by the trigger for its service and for the workload
\* it names, also while those do not exist or may not be read, through retargets,
\* errors and restarts (TrackAndGet in the resolver).
RestingIsTracked ==
  \A b \in Bindings :
    sb[b].phase = "live" /\ cache[b] = sb[b] /\ b \notin queue \cup {cur} =>
      /\ b \notin Direct => Service \in tracked[b]
      /\ \A w \in Workloads : w = sb[b].ref => w \in tracked[b]

\* The binding is in the state its service and workloads call for, unless the
\* controller lacks a permission.
Synced(b) ==
  sb[b].phase = "live" /\ allowed = Permissions =>
    /\ HasFinalizer(sb[b])
    /\ service[b] # Absent => sb[b].binding = service[b]
    /\ (sb[b].available = "True") <=> (service[b] \in Secrets)
    /\ \A w \in Workloads : Matches(w, sb[b].ref) => workload[w].proj[b] = sb[b].binding

\* Once users stop and errors cease, every binding ends up projected into every
\* workload it refers to, with the secret its service publishes by then, also
\* after a permission was revoked and granted again (the whole reconciler:
\* requeues, watch events and resyncs; triggers may come too early or not at all).
Converges == \A b \in Bindings : <>[]Synced(b)

\* A deleted binding is not stuck: it goes away, once errors cease (WithFinalizer;
\* an Unproject that fails for good does hold it).
DeletionCompletes == \A b \in Bindings : sb[b].phase = "deleting" ~> sb[b].phase = "gone"

----------------------------------------------------------------------------
(***************************************************************************)
(* Inductive invariants, for the proofs of these properties.               *)
(***************************************************************************)
\* The cache is an older version of the stored binding, or the stored one; a
\* finalizer it shows is stored until the binding is gone.
CacheIsOlder ==
  \A b \in Bindings :
    /\ cache[b].rv <= sb[b].rv
    /\ cache[b].rv = sb[b].rv => cache[b] = sb[b]
    /\ HasFinalizer(cache[b]) => HasFinalizer(sb[b]) \/ sb[b].phase = "gone"
    /\ sb[b].phase = "none" => sb[b] = NeverCreated /\ cache[b] = NeverCreated /\ cur # b

\* The same of the worker's copy.  Past the first step it has the finalizer.
CopyIsOlder ==
  pc # "idle" =>
    /\ Exists(obj)
    /\ obj.rv <= sb[cur].rv
    /\ obj.rv = sb[cur].rv => obj.phase = sb[cur].phase /\ obj.finalizers = sb[cur].finalizers
    /\ HasFinalizer(obj) => HasFinalizer(sb[cur]) \/ sb[cur].phase = "gone"
    /\ pc \in {"secret", "workloads", "project", "patch", "unfinalize"} => HasFinalizer(obj)
    /\ pc = "unfinalize" => IsDeleting

\* A stashed workload is an older version of the stored one, or the stored one.
StashIsOlder ==
  \A w \in found :
    /\ read[w].rv <= workload[w].rv
    /\ read[w].rv = workload[w].rv => read[w] = workload[w]

\* What PatchWorkloads is about to write.
StashIsProjected ==
  pc = "patch" => todo \subseteq found /\ \A w \in found : projected[w] = Desired(w)

GuardInv ==
  /\ TypeOK
  /\ CacheIsOlder
  /\ CopyIsOlder
  /\ StashIsOlder
  /\ StashIsProjected
  /\ FinalizerGuardsProjection

\* The life of a binding goes one way, and the cache and the worker's copy follow:
\* a version that may still be projected is never held of a binding that is gone.
LifeGoesForward ==
  /\ \A b \in Bindings :
       /\ cache[b].phase = "live" /\ HasFinalizer(cache[b]) => sb[b].phase # "gone"
       /\ cache[b].phase = "deleting" => sb[b].phase \in {"deleting", "gone"}
       /\ cache[b].phase = "gone" => sb[b].phase = "gone"
  /\ pc # "idle" =>
       /\ obj.phase = "live" /\ HasFinalizer(obj) => sb[cur].phase # "gone"
       /\ IsDeleting => cache[cur].phase \in {"deleting", "gone"}

\* Workload references do not change, so the worker's copy has the stored one.
ReferencesAgree ==
  /\ \A b \in Bindings : cache[b].phase # "none" => cache[b].ref = sb[b].ref
  /\ pc # "idle" => obj.ref = sb[cur].ref

\* Only a workload that a binding refers to shows it.
ProjectedIsReferenced ==
  \A b \in Bindings, w \in Workloads :
    workload[w].proj[b] # NoSecret => Matches(w, sb[b].ref)

\* The stash is empty until ResolveWorkloads fills it with what is referred to.
StashIsReferenced ==
  /\ pc \in {"idle", "finalizer", "secret", "workloads"} => found = {}
  /\ \A w \in found : Refers(obj.ref, w, read[w])

\* How far a finalization has come: what is still projected is stashed, then
\* waits to be written, then is no more.
FinalizationProgress ==
  IsDeleting =>
    \A w \in Workloads : workload[w].proj[cur] # NoSecret =>
      /\ pc # "unfinalize"
      /\ pc = "project" => w \in found /\ read[w].proj[cur] # NoSecret
      /\ pc = "patch" => w \in todo /\ read[w].proj[cur] # NoSecret

OrphanInv ==
  /\ GuardInv
  /\ allowed = Permissions
  /\ LifeGoesForward
  /\ ReferencesAgree
  /\ ProjectedIsReferenced
  /\ StashIsReferenced
  /\ FinalizationProgress
  /\ NoOrphan
=============================================================================
