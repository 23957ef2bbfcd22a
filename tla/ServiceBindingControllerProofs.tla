------------------- MODULE ServiceBindingControllerProofs -------------------
(***************************************************************************)
(* Proofs about the ServiceBinding reconciler, for any number of bindings, *)
(* workloads and secrets and any bounds.                                   *)
(***************************************************************************)
EXTENDS ServiceBindingController, TLAPS

\* The records of the model are of their types.
LEMMA RecordTypes ==
  /\ NoProjection \in [Bindings -> MaybeSecret]
  /\ NotStashed \in Workload
  /\ NeverCreated \in ServiceBinding
PROOF BY DEF NoProjection, NotStashed, NeverCreated, MaybeSecret, Workload, ServiceBinding,
             Phases, Conditions

\* What each write of the API server leaves of a binding.
LEMMA BindingWrites ==
  ASSUME NEW o \in ServiceBinding
  PROVE  /\ Deleted(o) \in ServiceBinding
         /\ Deleted(o).phase = IF HasFinalizer(o) THEN "deleting" ELSE "gone"
         /\ Deleted(o).finalizers = o.finalizers
         /\ Deleted(o).rv = o.rv + 1
         /\ Deleted(o).ref = o.ref
         /\ Finalized(o) \in ServiceBinding
         /\ Finalized(o).phase = o.phase
         /\ Finalized(o).finalizers = {Finalizer}
         /\ Finalized(o).rv = o.rv + 1
         /\ Finalized(o).ref = o.ref
         /\ Released(o) \in ServiceBinding
         /\ Released(o).phase = "gone"
         /\ Released(o).finalizers = {}
         /\ Released(o).rv = o.rv + 1
         /\ Released(o).ref = o.ref
         /\ Saved(o) \in ServiceBinding
         /\ Saved(o).phase = o.phase
         /\ Saved(o).finalizers = o.finalizers
         /\ Saved(o).rv = o.rv + 1
         /\ Saved(o).ref = o.ref
<1>1a. o.rv + 1 \in Nat
  BY DEF ServiceBinding
<1>1b. \A x \in {"deleting", "gone"}, n \in Nat : [o EXCEPT !.phase = x, !.rv = n] \in ServiceBinding
  BY RecordTypes DEF ServiceBinding, Phases
<1>1c. Deleted(o) \in ServiceBinding
  BY <1>1a, <1>1b, RecordTypes DEF Deleted
<1>1. /\ Deleted(o).phase = IF HasFinalizer(o) THEN "deleting" ELSE "gone"
      /\ Deleted(o).finalizers = o.finalizers
      /\ Deleted(o).rv = o.rv + 1
      /\ Deleted(o).ref = o.ref
  BY RecordTypes DEF ServiceBinding, Phases, Deleted
<1>2a. o.rv + 1 \in Nat
  BY DEF ServiceBinding
<1>2b. \A n \in Nat : [o EXCEPT !.finalizers = {Finalizer}, !.rv = n] \in ServiceBinding
  BY RecordTypes DEF ServiceBinding, Phases
<1>2c. Finalized(o) \in ServiceBinding
  BY <1>2a, <1>2b, RecordTypes DEF Finalized
<1>2. /\ Finalized(o).phase = o.phase
      /\ Finalized(o).finalizers = {Finalizer}
      /\ Finalized(o).rv = o.rv + 1
      /\ Finalized(o).ref = o.ref
  BY RecordTypes DEF ServiceBinding, Phases, Finalized
<1>3a. o.rv + 1 \in Nat
  BY DEF ServiceBinding
<1>3b. \A n \in Nat :
         [o EXCEPT !.finalizers = {}, !.phase = "gone", !.rv = n] \in ServiceBinding
  BY RecordTypes DEF ServiceBinding, Phases
<1>3c. Released(o) \in ServiceBinding
  BY <1>3a, <1>3b, RecordTypes DEF Released
<1>3. /\ Released(o).phase = "gone"
      /\ Released(o).finalizers = {}
      /\ Released(o).rv = o.rv + 1
      /\ Released(o).ref = o.ref
  BY RecordTypes DEF ServiceBinding, Phases, Released
<1>4. /\ Saved(o) \in ServiceBinding
      /\ Saved(o).phase = o.phase
      /\ Saved(o).finalizers = o.finalizers
      /\ Saved(o).rv = o.rv + 1
      /\ Saved(o).ref = o.ref
  BY RecordTypes DEF ServiceBinding, Phases, Saved
<1>. QED
  BY <1>1c, <1>1, <1>2c, <1>2, <1>3c, <1>3, <1>4

\* What a binding may refer to, and how a new one looks, is typed.
LEMMA BindingSpecs ==
  ASSUME NEW o \in ServiceBinding, NEW ref \in Workloads \cup {Selector}
  PROVE  /\ Created(ref) \in ServiceBinding
         /\ Created(ref).phase = "live"
         /\ Created(ref).finalizers = {}
         /\ Created(ref).rv = 1
         /\ Created(ref).ref = ref
         /\ Retargeted(o, ref) \in ServiceBinding
         /\ Retargeted(o, ref).phase = o.phase
         /\ Retargeted(o, ref).finalizers = o.finalizers
         /\ Retargeted(o, ref).rv = o.rv + 1
<1>1. /\ Created(ref) \in ServiceBinding
      /\ Created(ref).phase = "live"
      /\ Created(ref).finalizers = {}
      /\ Created(ref).rv = 1
      /\ Created(ref).ref = ref
  BY RecordTypes DEF ServiceBinding, Phases, NeverCreated, Created
<1>2a. o.gen + 1 \in Nat /\ o.rv + 1 \in Nat
  BY DEF ServiceBinding
<1>2b. \A m, n \in Nat : [o EXCEPT !.ref = ref, !.gen = m, !.rv = n] \in ServiceBinding
  BY RecordTypes DEF ServiceBinding, Phases, NeverCreated
<1>2c. Retargeted(o, ref) \in ServiceBinding
  BY <1>2a, <1>2b, RecordTypes DEF Retargeted
<1>2. /\ Retargeted(o, ref).phase = o.phase
      /\ Retargeted(o, ref).finalizers = o.finalizers
      /\ Retargeted(o, ref).rv = o.rv + 1
  BY RecordTypes DEF ServiceBinding, Phases, NeverCreated, Retargeted
<1>. QED
  BY <1>1, <1>2c, <1>2

\* What each write of the API server leaves of a workload.
LEMMA WorkloadWrites ==
  ASSUME NEW o \in Workload, NEW l \in SUBSET {Label}
  PROVE  /\ Recreated(o, l) \in Workload
         /\ Recreated(o, l).rv = o.rv + 1
         /\ Recreated(o, l).rev = o.rev + 1
         /\ Recreated(o, l).proj = NoProjection
         /\ Removed(o) \in Workload
         /\ Removed(o).rv = o.rv + 1
         /\ Removed(o).rev = o.rev
         /\ Removed(o).phase = "none"
         /\ Removed(o).proj = NoProjection
         /\ Edited(o) \in Workload
         /\ Edited(o).rv = o.rv + 1
         /\ Edited(o).rev = o.rev + 1
         /\ Edited(o).proj = o.proj
         /\ Edited(o).phase = o.phase
         /\ Edited(o).labels = o.labels
         /\ Replaced(o) \in Workload
         /\ Replaced(o).rv = o.rv + 1
         /\ Replaced(o).rev = o.rev + 1
         /\ Replaced(o).proj = NoProjection
         /\ Relabelled(o) \in Workload
         /\ Relabelled(o).rv = o.rv + 1
         /\ Relabelled(o).rev = o.rev
         /\ Relabelled(o).proj = o.proj
<1>1. /\ Recreated(o, l) \in Workload
      /\ Recreated(o, l).rv = o.rv + 1
      /\ Recreated(o, l).rev = o.rev + 1
      /\ Recreated(o, l).proj = NoProjection
  BY RecordTypes DEF Workload, Phases, Recreated
<1>2a. o.rv + 1 \in Nat
  BY DEF Workload
<1>2b. \A n \in Nat :
         [o EXCEPT !.phase = "none", !.rv = n, !.proj = NoProjection] \in Workload
  BY RecordTypes DEF Workload, Phases
<1>2c. Removed(o) \in Workload
  BY <1>2a, <1>2b, RecordTypes DEF Removed
<1>2. /\ Removed(o).rv = o.rv + 1
      /\ Removed(o).rev = o.rev
      /\ Removed(o).phase = "none"
      /\ Removed(o).proj = NoProjection
  BY RecordTypes DEF Workload, Phases, Removed
<1>3a. o.rv + 1 \in Nat /\ o.rev + 1 \in Nat
  BY DEF Workload
<1>3b. \A m, n \in Nat : [o EXCEPT !.rv = m, !.rev = n] \in Workload
  BY RecordTypes DEF Workload, Phases
<1>3c. Edited(o) \in Workload
  BY <1>3a, <1>3b, RecordTypes DEF Edited
<1>3. /\ Edited(o).rv = o.rv + 1
      /\ Edited(o).rev = o.rev + 1
      /\ Edited(o).proj = o.proj
      /\ Edited(o).phase = o.phase
      /\ Edited(o).labels = o.labels
  BY RecordTypes DEF Workload, Phases, Edited
<1>4a. o.rv + 1 \in Nat /\ o.rev + 1 \in Nat
  BY DEF Workload
<1>4b. \A m, n \in Nat :
         [o EXCEPT !.rv = m, !.rev = n, !.proj = NoProjection] \in Workload
  BY RecordTypes DEF Workload, Phases
<1>4c. Replaced(o) \in Workload
  BY <1>4a, <1>4b, RecordTypes DEF Replaced
<1>4. /\ Replaced(o).rv = o.rv + 1
      /\ Replaced(o).rev = o.rev + 1
      /\ Replaced(o).proj = NoProjection
  BY RecordTypes DEF Workload, Phases, Replaced
<1>5a. o.rv + 1 \in Nat
  BY DEF Workload
<1>5b. \A n \in Nat, x \in SUBSET {Label} : [o EXCEPT !.rv = n, !.labels = x] \in Workload
  BY RecordTypes DEF Workload, Phases
<1>5c. Relabelled(o) \in Workload
  BY <1>5a, <1>5b, RecordTypes DEF Relabelled
<1>5. /\ Relabelled(o).rv = o.rv + 1
      /\ Relabelled(o).rev = o.rev
      /\ Relabelled(o).proj = o.proj
  BY RecordTypes DEF Workload, Phases, Relabelled
<1>. QED
  BY <1>1, <1>2c, <1>2, <1>3c, <1>3, <1>4c, <1>4, <1>5c, <1>5

\* What the projector and the controller's own write leave of one.
LEMMA ProjectionWrites ==
  ASSUME NEW o \in Workload, NEW b \in Bindings, NEW s \in MaybeSecret, NEW rv \in Nat
  PROVE  /\ WithProjection(o, b, s) \in Workload
         /\ WithProjection(o, b, s).rv = o.rv
         /\ WithProjection(o, b, s).rev = o.rev
         /\ WithProjection(o, b, s).phase = o.phase
         /\ WithProjection(o, b, s).labels = o.labels
         /\ WithProjection(o, b, s).proj = [o.proj EXCEPT ![b] = s]
         /\ Written(o, rv) \in Workload
         /\ Written(o, rv).rv = rv + 1
         /\ Written(o, rv).rev = o.rev
         /\ Written(o, rv).phase = o.phase
         /\ Written(o, rv).labels = o.labels
         /\ Written(o, rv).proj = o.proj
<1>1. /\ WithProjection(o, b, s) \in Workload
      /\ WithProjection(o, b, s).rv = o.rv
      /\ WithProjection(o, b, s).rev = o.rev
      /\ WithProjection(o, b, s).phase = o.phase
      /\ WithProjection(o, b, s).labels = o.labels
      /\ WithProjection(o, b, s).proj = [o.proj EXCEPT ![b] = s]
  BY RecordTypes DEF Workload, WithProjection
<1>2. /\ Written(o, rv) \in Workload
      /\ Written(o, rv).rv = rv + 1
      /\ Written(o, rv).rev = o.rev
      /\ Written(o, rv).phase = o.phase
      /\ Written(o, rv).labels = o.labels
      /\ Written(o, rv).proj = o.proj
  BY RecordTypes DEF Workload, Written
<1>. QED
  BY <1>1, <1>2

\* The parts of the type invariant.
ApiTypeOK ==
  /\ sb \in [Bindings -> ServiceBinding]
  /\ workload \in [Workloads -> Workload]
  /\ service \in [Bindings -> MaybeSecret \cup {Absent}]
  /\ allowed \subseteq Permissions

InformerTypeOK == cache \in [Bindings -> ServiceBinding] /\ queue \subseteq Bindings

TrackerTypeOK == tracked \in [Bindings -> SUBSET Keys]

RequestTypeOK ==
  /\ pc \in {"idle", "finalizer", "secret", "workloads", "project", "patch", "unfinalize",
            "status"}
  /\ cur \in Bindings \cup {NoBinding}
  /\ (pc = "idle") <=> (cur = NoBinding)
  /\ requeue \in BOOLEAN
  /\ failed \in BOOLEAN

CopyTypeOK == orig \in ServiceBinding /\ obj \in ServiceBinding

StashTypeOK ==
  /\ found \subseteq Workloads
  /\ read \in [Workloads -> Workload]
  /\ projected \in [Workloads -> Workload]
  /\ todo \subseteq Workloads

BoundTypeOK == edits \in 0 .. MaxEdits /\ faults \in 0 .. MaxFaults

TypeOKParts ==
  /\ ApiTypeOK
  /\ InformerTypeOK
  /\ TrackerTypeOK
  /\ RequestTypeOK
  /\ CopyTypeOK
  /\ StashTypeOK
  /\ BoundTypeOK

\* The type invariant is the conjunction of its parts, in both states.
LEMMA TypeParts == (TypeOK <=> TypeOKParts) /\ (TypeOK' <=> TypeOKParts')
PROOF BY DEF TypeOK, TypeOKParts, ApiTypeOK, InformerTypeOK, TrackerTypeOK, RequestTypeOK,
             CopyTypeOK, StashTypeOK, BoundTypeOK

\* What a step leaves alone keeps its type.
LEMMA InformerFrame == InformerTypeOK /\ UNCHANGED <<cache, queue>> => InformerTypeOK'
PROOF BY DEF InformerTypeOK

\* A part whose variables stay as they are stays typed.
LEMMA ApiFrame == ApiTypeOK /\ UNCHANGED apiVars => ApiTypeOK'
PROOF BY DEF ApiTypeOK, apiVars

\* The same of the request.
LEMMA RequestFrame == RequestTypeOK /\ UNCHANGED <<pc, cur, requeue, failed>> => RequestTypeOK'
PROOF BY DEF RequestTypeOK

\* The same of the worker's copy.
LEMMA CopyFrame == CopyTypeOK /\ UNCHANGED <<orig, obj>> => CopyTypeOK'
PROOF BY DEF CopyTypeOK

\* The same of the stash.
LEMMA StashFrame == StashTypeOK /\ UNCHANGED stashVars => StashTypeOK'
PROOF BY DEF StashTypeOK, stashVars

\* The same of the bounds.
LEMMA BoundFrame == BoundTypeOK /\ UNCHANGED boundVars => BoundTypeOK'
PROOF BY DEF BoundTypeOK, boundVars

\* The initial states are of the type.
LEMMA InitTypeOK == Init => TypeOK
<1>. SUFFICES ASSUME Init PROVE TypeOK
  OBVIOUS
<1>1. [NotStashed EXCEPT !.phase = "live", !.rv = 1, !.labels = {Label}] \in Workload
  BY RecordTypes DEF Workload, Phases
<1>2. workload \in [Workloads -> Workload]
  BY <1>1, RecordTypes DEF Init
<1>3. ApiTypeOK
  BY <1>2, RecordTypes DEF Init, ApiTypeOK
<1>4. InformerTypeOK /\ TrackerTypeOK
  BY RecordTypes DEF Init, InformerTypeOK, TrackerTypeOK
<1>5. RequestTypeOK
  BY DEF Init, RequestTypeOK
<1>6. CopyTypeOK /\ StashTypeOK
  BY RecordTypes DEF Init, CopyTypeOK, StashTypeOK
<1>7. BoundTypeOK
  BY ConstantsAssumption DEF Init, BoundTypeOK
<1>. QED
  BY <1>3, <1>4, <1>5, <1>6, <1>7, TypeParts DEF TypeOKParts

\* A step of the queue's sources, resyncs and triggers.
OnlyEnqueues ==
  /\ queue \subseteq queue'
  /\ queue' \subseteq queue \cup Bindings
  /\ UNCHANGED <<apiVars, cache, tracked, workerVars, boundVars>>

\* The kinds of steps there are.
LEMMA NextCases ==
  ASSUME Next
  PROVE  \/ User
         \/ \E b \in Bindings : SyncCache(b)
         \/ OnlyEnqueues
         \/ Crash
         \/ CallFails
         \/ \E b \in Bindings : Take(b)
         \/ Step
<1>1. ASSUME NEW b \in Bindings, Resync(b) \/ Trigger(TriggeredByService(b)) PROVE OnlyEnqueues
  BY <1>1 DEF Resync, Trigger, TriggeredByService, OnlyEnqueues
<1>2. ASSUME NEW w \in Workloads, Trigger(TriggeredByWorkload(w)) PROVE OnlyEnqueues
  BY <1>2 DEF Trigger, TriggeredByWorkload, OnlyEnqueues
<1>. QED
  BY <1>1, <1>2 DEF Next

\* What is tracked is of its type: a step adds what is about to be read, or
\* forgets it all.
LEMMA NextTrackerTypeOK == TypeOK /\ Next => TrackerTypeOK'
<1>. SUFFICES ASSUME TypeOK, Next PROVE TrackerTypeOK'
  OBVIOUS
<1>0. TrackerTypeOK
  BY TypeParts DEF TypeOKParts
<1>1. CASE UNCHANGED tracked
  BY <1>0, <1>1 DEF TrackerTypeOK
<1>2. ASSUME NEW keys \in SUBSET Keys, Track(keys), pc # "idle" PROVE TrackerTypeOK'
  <2>1. cur \in Bindings
    BY <1>2 DEF TypeOK
  <2>. QED
    BY <1>0, <1>2, <2>1 DEF TrackerTypeOK, Track
<1>3. /\ ServiceKeys \in SUBSET Keys
      /\ WorkloadKeys \in SUBSET Keys
      /\ CalledKeys \in SUBSET Keys
  BY DEF ServiceKeys, WorkloadKeys, CalledKeys, Keys
<1>4. CASE User
  BY <1>1, <1>4 DEF User, CreateBinding, DeleteBinding, RetargetBinding, CreateWorkload,
         DeleteWorkload, EditWorkload, ReplaceWorkload, RelabelWorkload, ChangeService,
         ChangeAccess, UserStep
<1>5. CASE OnlyEnqueues \/ \E b \in Bindings : SyncCache(b) \/ Take(b)
  BY <1>1, <1>5 DEF OnlyEnqueues, SyncCache, Take
<1>6. CASE Crash
  BY <1>6 DEF Crash, TrackerTypeOK
<1>7. CASE CallFails
  <2>1. UNCHANGED tracked \/ (Calling /\ Track(CalledKeys))
    BY <1>7 DEF CallFails
  <2>2. Calling => pc # "idle"
    BY DEF Calling
  <2>. QED
    BY <1>1, <1>2, <1>3, <2>1, <2>2
<1>8. CASE Step
  <2>1. CASE ResolveBindingSecret
    BY <1>2, <1>3, <2>1 DEF ResolveBindingSecret
  <2>2. CASE ResolveWorkloads
    BY <1>2, <1>3, <2>2 DEF ResolveWorkloads
  <2>3. CASE AddFinalizer \/ ProjectBinding \/ PatchDone \/ ClearFinalizer \/ UpdateStatus
    BY <1>1, <2>3 DEF AddFinalizer, ProjectBinding, PatchDone, ClearFinalizer, UpdateStatus
  <2>4. ASSUME NEW w \in Workloads, Manage(w) PROVE TrackerTypeOK'
    BY <1>1, <2>4 DEF Manage
  <2>. QED
    BY <1>8, <2>1, <2>2, <2>3, <2>4 DEF Step
<1>. QED
  BY <1>4, <1>5, <1>6, <1>7, <1>8, NextCases

\* A user's action keeps the type of what the API server stores.
LEMMA UserApiTypeOK == ApiTypeOK /\ User => ApiTypeOK'
<1>. SUFFICES ASSUME ApiTypeOK, User PROVE ApiTypeOK'
  OBVIOUS
<1>. USE DEF ApiTypeOK
<1>1. ASSUME NEW b \in Bindings, NEW ref \in Workloads \cup {Selector},
             CreateBinding(b, ref) \/ RetargetBinding(b, ref)
      PROVE  ApiTypeOK'
  BY <1>1, BindingSpecs DEF CreateBinding, RetargetBinding
<1>2. ASSUME NEW b \in Bindings, DeleteBinding(b) PROVE ApiTypeOK'
  BY <1>2, BindingWrites DEF DeleteBinding
<1>3. ASSUME NEW w \in Workloads, NEW l \in SUBSET {Label}, CreateWorkload(w, l) PROVE ApiTypeOK'
  BY <1>3, WorkloadWrites DEF CreateWorkload
<1>4. ASSUME NEW w \in Workloads,
             DeleteWorkload(w) \/ EditWorkload(w) \/ ReplaceWorkload(w) \/ RelabelWorkload(w)
      PROVE  ApiTypeOK'
  <2>1. ASSUME NEW o \in Workload, workload' = [workload EXCEPT ![w] = o],
               UNCHANGED <<sb, service, allowed>>
        PROVE  ApiTypeOK'
    BY <2>1
  <2>2. /\ Removed(workload[w]) \in Workload
        /\ Edited(workload[w]) \in Workload
        /\ Replaced(workload[w]) \in Workload
        /\ Relabelled(workload[w]) \in Workload
    BY WorkloadWrites
  <2>. QED
    BY <1>4, <2>1, <2>2 DEF DeleteWorkload, EditWorkload, ReplaceWorkload, RelabelWorkload
<1>5. ASSUME NEW b \in Bindings, NEW s \in MaybeSecret \cup {Absent}, ChangeService(b, s)
      PROVE  ApiTypeOK'
  BY <1>5 DEF ChangeService
<1>6. ASSUME NEW p \in Permissions, ChangeAccess(p) PROVE ApiTypeOK'
  BY <1>6 DEF ChangeAccess
<1>. QED
  BY <1>1, <1>2, <1>3, <1>4, <1>5, <1>6 DEF User
\* The worker's changes to its copy concern the status only.
SameObject(o, p) ==
  /\ p \in ServiceBinding
  /\ p.phase = o.phase
  /\ p.finalizers = o.finalizers
  /\ p.rv = o.rv
  /\ p.ref = o.ref

\* The writes to the worker's copy keep its identity: phase, finalizers and version.
LEMMA CopyWrites ==
  ASSUME NEW o \in ServiceBinding, NEW c \in Conditions, NEW s \in MaybeSecret
  PROVE  /\ SameObject(o, InitializeConditions(o))
         /\ SameObject(o, MarkAvailable(o, c))
         /\ SameObject(o, MarkProjected(o, c))
         /\ SameObject(o, Resolved(o, c, s))
         /\ SameObject(o, FinalStatus(o))
<1>1. SameObject(o, InitializeConditions(o))
  BY DEF SameObject, InitializeConditions, ServiceBinding, Conditions
<1>2. SameObject(o, MarkAvailable(o, c))
  BY DEF SameObject, MarkAvailable, ServiceBinding
<1>3. SameObject(o, MarkProjected(o, c))
  BY DEF SameObject, MarkProjected, ServiceBinding
<1>4. SameObject(o, Resolved(o, c, s))
  BY DEF SameObject, Resolved, ServiceBinding
<1>5. SameObject(o, FinalStatus(o))
  BY DEF SameObject, FinalStatus, ServiceBinding
<1>. QED
  BY <1>1, <1>2, <1>3, <1>4, <1>5

\* The effect of each step of the worker on its copy of the binding.
LEMMA StepCopy ==
  ASSUME TypeOK, Step
  PROVE  \/ SameObject(obj, obj')
         \/ pc = "finalizer" /\ Current /\ obj' = Finalized(obj)
         \/ pc = "status" /\ obj' = NeverCreated
<1>0. SameObject(obj, obj)
  BY DEF TypeOK, SameObject
<1>1. CASE AddFinalizer
  BY <1>0, <1>1 DEF AddFinalizer
<1>2. CASE ResolveBindingSecret
  <2>1. "False" \in Conditions /\ "Unknown" \in Conditions /\ "True" \in Conditions
    BY DEF Conditions
  <2>2. obj \in ServiceBinding /\ NoSecret \in MaybeSecret /\ Secrets \subseteq MaybeSecret
    BY DEF TypeOK, MaybeSecret
  <2>. QED
    BY <1>2, <2>1, <2>2, CopyWrites DEF ResolveBindingSecret
<1>3. CASE ResolveWorkloads
  <2>1. obj \in ServiceBinding /\ NoSecret \in MaybeSecret
    BY DEF TypeOK, MaybeSecret
  <2>2. "False" \in Conditions /\ "Unknown" \in Conditions
    BY DEF Conditions
  <2>. QED
    BY <1>0, <1>3, <2>1, <2>2, CopyWrites DEF ResolveWorkloads
<1>4. CASE ProjectBinding
  BY <1>0, <1>4 DEF ProjectBinding
<1>5. ASSUME NEW w \in Workloads, Manage(w) PROVE SameObject(obj, obj')
  <2>1. obj \in ServiceBinding /\ NoSecret \in MaybeSecret /\ "False" \in Conditions
    BY DEF TypeOK, MaybeSecret, Conditions
  <2>. QED
    BY <1>0, <1>5, <2>1, CopyWrites DEF Manage
<1>6. CASE PatchDone
  <2>1. obj \in ServiceBinding /\ NoSecret \in MaybeSecret
    BY DEF TypeOK, MaybeSecret
  <2>2. "True" \in Conditions /\ obj.projected \in Conditions
    BY <2>1 DEF Conditions, ServiceBinding
  <2>. QED
    BY <1>6, <2>1, <2>2, CopyWrites DEF PatchDone
<1>7. CASE ClearFinalizer
  BY <1>0, <1>7 DEF ClearFinalizer
<1>8. CASE UpdateStatus
  BY <1>8 DEF UpdateStatus, ForgetRequest
<1>. QED
  BY <1>1, <1>2, <1>3, <1>4, <1>5, <1>6, <1>7, <1>8 DEF Step
\* The parts of the type invariant under a step of the worker.
LEMMA StepApiTypeOK == TypeOK /\ Step => ApiTypeOK'
<1>. SUFFICES ASSUME TypeOK, Step PROVE ApiTypeOK'
  OBVIOUS
<1>0. ApiTypeOK
  BY TypeParts DEF TypeOKParts
<1>1. ASSUME pc # "idle", NEW o \in ServiceBinding, sb' = [sb EXCEPT ![cur] = o],
             UNCHANGED <<workload, service, allowed>>
      PROVE  ApiTypeOK'
  BY <1>0, <1>1 DEF TypeOK, ApiTypeOK
<1>2. CASE AddFinalizer \/ ClearFinalizer
  <2>1. cur \in Bindings
    BY <1>2 DEF TypeOK, AddFinalizer, ClearFinalizer
  <2>2. Finalized(sb[cur]) \in ServiceBinding /\ Released(sb[cur]) \in ServiceBinding
    BY <2>1, BindingWrites DEF TypeOK
  <2>. QED
    BY <1>0, <1>1, <1>2, <2>2, ApiFrame DEF AddFinalizer, ClearFinalizer, apiVars
<1>3. CASE ResolveBindingSecret \/ ResolveWorkloads \/ ProjectBinding \/ PatchDone
  BY <1>0, <1>3, ApiFrame DEF ResolveBindingSecret, ResolveWorkloads, ProjectBinding, PatchDone
<1>4. ASSUME NEW w \in Workloads, Manage(w) PROVE ApiTypeOK'
  <2>1. /\ workload[w].rv \in Nat
        /\ projected[w] \in Workload
        /\ cur \in Bindings
        /\ NoSecret \in MaybeSecret
    BY <1>4 DEF TypeOK, Workload, Manage, MaybeSecret
  <2>2. Written(projected[w], workload[w].rv) \in Workload
    BY <2>1, ProjectionWrites
  <2>3. \/ UNCHANGED apiVars
        \/ /\ workload' = [workload EXCEPT ![w] = Written(projected[w], workload[w].rv)]
           /\ UNCHANGED <<sb, service, allowed>>
    BY <1>4 DEF Manage, apiVars
  <2>. QED
    BY <1>0, <2>2, <2>3, ApiFrame DEF ApiTypeOK
<1>5. CASE UpdateStatus
  <2>1. obj \in ServiceBinding /\ NoSecret \in MaybeSecret /\ "True" \in Conditions
    BY DEF TypeOK, MaybeSecret, Conditions
  <2>2. FinalStatus(obj) \in ServiceBinding
    BY <2>1, CopyWrites DEF SameObject
  <2>3. Saved(FinalStatus(obj)) \in ServiceBinding
    BY <2>2, BindingWrites
  <2>. QED
    BY <1>0, <1>1, <1>5, <2>3, ApiFrame DEF UpdateStatus, apiVars
<1>. QED
  BY <1>2, <1>3, <1>4, <1>5 DEF Step

\* Every step of a reconciliation leaves the stash typed.
LEMMA StepStashTypeOK == TypeOK /\ Step => StashTypeOK'
<1>. SUFFICES ASSUME TypeOK, Step PROVE StashTypeOK'
  OBVIOUS
<1>0. StashTypeOK
  BY TypeParts DEF TypeOKParts
<1>1. CASE AddFinalizer \/ ResolveBindingSecret \/ PatchDone \/ ClearFinalizer
  BY <1>0, <1>1, StashFrame DEF AddFinalizer, ResolveBindingSecret, PatchDone, ClearFinalizer
<1>2. CASE ResolveWorkloads
  BY <1>0, <1>2, RecordTypes DEF ResolveWorkloads, StashTypeOK, TypeOK
<1>3. CASE ProjectBinding
  <2>1. cur \in Bindings /\ obj.binding \in MaybeSecret /\ NoSecret \in MaybeSecret /\ 0 \in Nat
    BY <1>3 DEF ProjectBinding, TypeOK, ServiceBinding, MaybeSecret
  <2>2. \A w \in Workloads : Desired(w) \in Workload
    BY <2>1, ProjectionWrites DEF Desired, TypeOK
  <2>. QED
    BY <1>0, <1>3, <2>2, RecordTypes DEF ProjectBinding, StashTypeOK
<1>4. ASSUME NEW w \in Workloads, Manage(w) PROVE StashTypeOK'
  BY <1>0, <1>4 DEF Manage, StashTypeOK
<1>5. CASE UpdateStatus
  BY <1>5, RecordTypes DEF UpdateStatus, ForgetRequest, ForgetStash, StashTypeOK
<1>. QED
  BY <1>1, <1>2, <1>3, <1>4, <1>5 DEF Step

\* Every step of a reconciliation leaves the request typed.
LEMMA StepRequestTypeOK == TypeOK /\ Step => RequestTypeOK'
<1>. SUFFICES ASSUME TypeOK, Step PROVE RequestTypeOK'
  OBVIOUS
<1>. USE DEF RequestTypeOK
<1>0. RequestTypeOK
  BY TypeParts DEF TypeOKParts
<1>1. CASE AddFinalizer
  BY <1>0, <1>1 DEF AddFinalizer, Goto, Abort
<1>2. CASE ResolveBindingSecret
  BY <1>0, <1>2 DEF ResolveBindingSecret, Goto
<1>3. CASE ResolveWorkloads
  BY <1>0, <1>3 DEF ResolveWorkloads, Goto
<1>4. CASE ProjectBinding
  BY <1>0, <1>4 DEF ProjectBinding, Goto
<1>5. ASSUME NEW w \in Workloads, Manage(w) PROVE RequestTypeOK'
  BY <1>0, <1>5 DEF Manage, AfterSequence
<1>6. CASE PatchDone
  BY <1>0, <1>6 DEF PatchDone, Goto, AfterSequence
<1>7. CASE ClearFinalizer
  BY <1>0, <1>7 DEF ClearFinalizer, Goto, Abort
<1>8. CASE UpdateStatus
  BY <1>8 DEF UpdateStatus, ForgetRequest
<1>. QED
  BY <1>1, <1>2, <1>3, <1>4, <1>5, <1>6, <1>7, <1>8 DEF Step

\* A step of the worker.
LEMMA StepTypeOK == TypeOK /\ Step /\ TrackerTypeOK' => TypeOK'
<1>. SUFFICES ASSUME TypeOK, Step, TrackerTypeOK' PROVE TypeOK'
  OBVIOUS
<1>1. CopyTypeOK'
  <2>1. obj' \in ServiceBinding
    <3>1. Finalized(obj) \in ServiceBinding
      BY BindingWrites DEF TypeOK
    <3>. QED
      BY <3>1, StepCopy, RecordTypes DEF SameObject
  <2>2. orig' = orig \/ orig' = NeverCreated
    BY DEF Step, AddFinalizer, ResolveBindingSecret, ResolveWorkloads, ProjectBinding, Manage,
           PatchDone, ClearFinalizer, UpdateStatus, ForgetRequest, Goto, Abort
  <2>. QED
    BY <2>1, <2>2, RecordTypes DEF CopyTypeOK, TypeOK
<1>2. cache' = cache /\ (queue' = queue \/ (pc = "status" /\ queue' = queue \cup {cur}))
  BY DEF Step, AddFinalizer, ResolveBindingSecret, ResolveWorkloads, ProjectBinding, Manage,
         PatchDone, ClearFinalizer, UpdateStatus
<1>3. InformerTypeOK'
  BY <1>2 DEF InformerTypeOK, TypeOK
<1>4. UNCHANGED boundVars
  BY DEF Step, AddFinalizer, ResolveBindingSecret, ResolveWorkloads, ProjectBinding, Manage,
         PatchDone, ClearFinalizer, UpdateStatus
<1>. QED
  BY <1>1, <1>3, <1>4, StepApiTypeOK, StepStashTypeOK, StepRequestTypeOK, BoundFrame, TypeParts DEF TypeOKParts

\* A step of the informer, of the queue or of the process.
LEMMA ProcessTypeOK ==
  ASSUME TypeOK,
         \/ \E b \in Bindings : SyncCache(b) \/ Take(b)
         \/ OnlyEnqueues
         \/ Crash
         \/ CallFails,
         TrackerTypeOK'
  PROVE  TypeOK'
<1>0. /\ ApiTypeOK
      /\ InformerTypeOK
      /\ RequestTypeOK
      /\ CopyTypeOK
      /\ StashTypeOK
      /\ BoundTypeOK
  BY TypeParts DEF TypeOKParts
<1>1. UNCHANGED workerVars => RequestTypeOK' /\ CopyTypeOK' /\ StashTypeOK'
  BY <1>0, RequestFrame, CopyFrame, StashFrame DEF workerVars
<1>2. ForgetRequest => RequestTypeOK' /\ CopyTypeOK' /\ StashTypeOK'
  BY RecordTypes DEF ForgetRequest, ForgetStash, RequestTypeOK, CopyTypeOK, StashTypeOK
<1>3. CASE OnlyEnqueues \/ \E b \in Bindings : SyncCache(b)
  <2>1. InformerTypeOK'
    BY <1>0, <1>3 DEF SyncCache, OnlyEnqueues, InformerTypeOK, ApiTypeOK
  <2>. QED
    BY <1>0, <1>1, <1>3, <2>1, ApiFrame, BoundFrame, TypeParts
       DEF TypeOKParts, SyncCache, OnlyEnqueues
<1>4. ASSUME NEW b \in Bindings, Take(b) PROVE TypeOK'
  <2>1. InformerTypeOK'
    BY <1>0, <1>4 DEF Take, InformerTypeOK
  <2>2. RequestTypeOK' /\ CopyTypeOK' /\ StashTypeOK'
    <3>1. CASE UNCHANGED workerVars
      BY <1>1, <3>1
    <3>2. CASE /\ cur' = b
               /\ orig' = cache[b]
               /\ obj' = InitializeConditions(cache[b])
               /\ pc' = FirstStep(cache[b])
               /\ UNCHANGED <<stashVars, requeue, failed>>
      <4>1. cache[b] \in ServiceBinding /\ NoSecret \in MaybeSecret /\ "True" \in Conditions
        BY DEF TypeOK, MaybeSecret, Conditions
      <4>2. InitializeConditions(cache[b]) \in ServiceBinding
        BY <4>1, CopyWrites DEF SameObject
      <4>3. FirstStep(cache[b]) \in {"workloads", "secret", "finalizer"}
        BY DEF FirstStep
      <4>4. RequestTypeOK'
        BY <1>0, <3>2, <4>3, ConstantsAssumption DEF RequestTypeOK
      <4>. QED
        BY <1>0, <3>2, <4>1, <4>2, <4>4, StashFrame DEF CopyTypeOK
    <3>. QED
      BY <1>4, <3>1, <3>2 DEF Take
  <2>. QED
    BY <1>0, <1>4, <2>1, <2>2, ApiFrame, BoundFrame, TypeParts DEF TypeOKParts, Take
<1>5. CASE Crash
  <2>1. InformerTypeOK'
    BY <1>0, <1>5 DEF Crash, InformerTypeOK, ApiTypeOK
  <2>2. BoundTypeOK'
    BY <1>0, <1>5, ConstantsAssumption DEF Crash, BoundTypeOK
  <2>. QED
    BY <1>0, <1>2, <1>5, <2>1, <2>2, ApiFrame, TypeParts DEF TypeOKParts, Crash
<1>6. CASE CallFails
  <2>1. BoundTypeOK'
    BY <1>0, <1>6, ConstantsAssumption DEF CallFails, BoundTypeOK
  <2>2. CASE Calling /\ Abort /\ UNCHANGED <<queue, obj, stashVars, requeue>>
    <3>1. pc # "idle"
      BY <2>2 DEF Calling
    <3>2. RequestTypeOK'
      BY <1>0, <2>2, <3>1 DEF Abort, RequestTypeOK
    <3>. QED
      BY <1>0, <1>6, <2>1, <2>2, <3>2, ApiFrame, InformerFrame, CopyFrame, StashFrame, TypeParts
         DEF TypeOKParts, CallFails, Abort
  <2>3. CASE pc = "status" /\ queue' = queue \cup {cur} /\ ForgetRequest
    <3>1. InformerTypeOK'
      BY <1>0, <1>6, <2>3 DEF CallFails, InformerTypeOK, RequestTypeOK
    <3>. QED
      BY <1>0, <1>2, <1>6, <2>1, <2>3, <3>1, ApiFrame, TypeParts DEF TypeOKParts, CallFails
  <2>. QED
    BY <1>6, <2>2, <2>3 DEF CallFails
<1>. QED
  BY <1>3, <1>4, <1>5, <1>6

\* A user's action preserves the type invariant.
LEMMA UserTypeOK == TypeOK /\ User /\ TrackerTypeOK' => TypeOK'
<1>. SUFFICES ASSUME TypeOK, User, TrackerTypeOK' PROVE TypeOK'
  OBVIOUS
<1>1. UserStep
  BY DEF User, CreateBinding, DeleteBinding, RetargetBinding, CreateWorkload, DeleteWorkload,
         EditWorkload, ReplaceWorkload, RelabelWorkload, ChangeService, ChangeAccess
<1>2. BoundTypeOK'
  BY <1>1, TypeParts, ConstantsAssumption DEF TypeOKParts, UserStep, BoundTypeOK
<1>. QED
  BY <1>1, <1>2, UserApiTypeOK, InformerFrame, RequestFrame, CopyFrame, StashFrame, TypeParts
     DEF TypeOKParts, UserStep, workerVars

\* Every step preserves the type invariant.
LEMMA NextTypeOK == TypeOK /\ [Next]_vars => TypeOK'
<1>. SUFFICES ASSUME TypeOK, [Next]_vars PROVE TypeOK'
  OBVIOUS
<1>1. CASE UNCHANGED vars
  BY <1>1, ApiFrame, InformerFrame, RequestFrame, CopyFrame, StashFrame, BoundFrame, TypeParts
     DEF TypeOKParts, TrackerTypeOK, vars, workerVars
<1>2. CASE Next
  BY <1>2, NextCases, NextTrackerTypeOK, UserTypeOK, StepTypeOK, ProcessTypeOK
<1>. QED
  BY <1>1, <1>2

\* TypeOK is an invariant of the reconciler.
THEOREM TypeCorrect == Spec => []TypeOK
PROOF BY InitTypeOK, NextTypeOK, PTL DEF Spec

----------------------------------------------------------------------------
(***************************************************************************)
(* The finalizer is stored before a projection is written.                 *)
(***************************************************************************)

\* How a stored binding changes in one step: a new version, forward in its life,
\* that keeps the finalizer until it is gone.
Advance(o, p) ==
  /\ o.phase # "gone"
  /\ p.phase # "none"
  /\ p.rv = o.rv + 1
  /\ HasFinalizer(o) => HasFinalizer(p) \/ p.phase = "gone"
  /\ p.phase = "live" => o.phase \in {"none", "live"}
  /\ p.phase = "gone" => o.phase = "deleting" \/ ~HasFinalizer(o)

\* What one step can do to the stored version of a binding.
LEMMA BindingStep ==
  ASSUME GuardInv, Next, NEW b \in Bindings
  PROVE  sb'[b] = sb[b] \/ Advance(sb[b], sb'[b])
<1>. USE DEF Advance, HasFinalizer
<1>0. sb \in [Bindings -> ServiceBinding] /\ sb[b] \in ServiceBinding /\ obj \in ServiceBinding
  BY DEF GuardInv, TypeOK
<1>1. ASSUME NEW c \in Bindings, NEW ref \in Workloads \cup {Selector}, CreateBinding(c, ref)
      PROVE  sb'[b] = sb[b] \/ Advance(sb[b], sb'[b])
  <2>1. sb[c].phase = "none" /\ sb' = [sb EXCEPT ![c] = Created(ref)]
    BY <1>1 DEF CreateBinding
  <2>2. sb[c] = NeverCreated
    BY <2>1 DEF GuardInv, CacheIsOlder
  <2>3. sb[c].rv = 0 /\ sb[c].finalizers = {}
    BY <2>2 DEF NeverCreated
  <2>4. Created(ref).phase = "live" /\ Created(ref).rv = 1
    BY <1>0, BindingSpecs
  <2>. QED
    BY <1>0, <2>1, <2>3, <2>4
<1>2. ASSUME NEW c \in Bindings, NEW ref \in Workloads \cup {Selector}, RetargetBinding(c, ref)
      PROVE  sb'[b] = sb[b] \/ Advance(sb[b], sb'[b])
  <2>1. sb[c].phase = "live" /\ sb' = [sb EXCEPT ![c] = Retargeted(sb[c], ref)]
    BY <1>2 DEF RetargetBinding
  <2>2. /\ Retargeted(sb[c], ref).phase = sb[c].phase
        /\ Retargeted(sb[c], ref).finalizers = sb[c].finalizers
        /\ Retargeted(sb[c], ref).rv = sb[c].rv + 1
    BY <1>0, BindingSpecs
  <2>. QED
    BY <1>0, <2>1, <2>2
<1>3. ASSUME NEW c \in Bindings, DeleteBinding(c)
      PROVE  sb'[b] = sb[b] \/ Advance(sb[b], sb'[b])
  <2>1. sb[c].phase = "live" /\ sb' = [sb EXCEPT ![c] = Deleted(sb[c])]
    BY <1>3 DEF DeleteBinding
  <2>2. /\ Deleted(sb[c]).phase = IF HasFinalizer(sb[c]) THEN "deleting" ELSE "gone"
        /\ Deleted(sb[c]).finalizers = sb[c].finalizers
        /\ Deleted(sb[c]).rv = sb[c].rv + 1
    BY <1>0, BindingWrites
  <2>. QED
    BY <1>0, <2>1, <2>2
<1>4. CASE AddFinalizer
  <2>1. cur \in Bindings
    BY <1>4 DEF AddFinalizer, GuardInv, TypeOK
  <2>2. sb' = sb \/ (Exists(sb[cur]) /\ sb' = [sb EXCEPT ![cur] = Finalized(sb[cur])])
    BY <1>4 DEF AddFinalizer, Current
  <2>3. /\ Finalized(sb[cur]).phase = sb[cur].phase
        /\ Finalized(sb[cur]).finalizers = {Finalizer}
        /\ Finalized(sb[cur]).rv = sb[cur].rv + 1
    BY <1>0, <2>1, BindingWrites
  <2>. QED
    BY <1>0, <2>1, <2>2, <2>3 DEF Exists
<1>5. CASE ClearFinalizer
  <2>1. cur \in Bindings
    BY <1>5 DEF ClearFinalizer, GuardInv, TypeOK
  <2>2. sb' = sb \/ (Current /\ sb' = [sb EXCEPT ![cur] = Released(sb[cur])])
    BY <1>5 DEF ClearFinalizer
  <2>3. Current => sb[cur].phase = "deleting"
    BY <1>5 DEF ClearFinalizer, GuardInv, CopyIsOlder, Current, IsDeleting
  <2>4. Released(sb[cur]).phase = "gone" /\ Released(sb[cur]).rv = sb[cur].rv + 1
    BY <1>0, <2>1, BindingWrites
  <2>. QED
    BY <1>0, <2>1, <2>2, <2>3, <2>4
<1>6. CASE UpdateStatus
  <2>1. cur \in Bindings
    BY <1>6 DEF UpdateStatus, GuardInv, TypeOK
  <2>2. sb' = sb \/ (Current /\ sb' = [sb EXCEPT ![cur] = Saved(FinalStatus(obj))])
    BY <1>6 DEF UpdateStatus
  <2>3. SameObject(obj, FinalStatus(obj))
    BY <1>0, CopyWrites DEF MaybeSecret, Conditions
  <2>4. /\ Saved(FinalStatus(obj)).phase = obj.phase
        /\ Saved(FinalStatus(obj)).finalizers = obj.finalizers
        /\ Saved(FinalStatus(obj)).rv = obj.rv + 1
    BY <2>3, BindingWrites DEF SameObject
  <2>5. Current => /\ obj.phase = sb[cur].phase
                   /\ obj.finalizers = sb[cur].finalizers
                   /\ obj.rv = sb[cur].rv
                   /\ sb[cur].phase \in {"live", "deleting"}
    BY <1>6 DEF UpdateStatus, GuardInv, CopyIsOlder, Current, Exists
  <2>. QED
    BY <1>0, <2>1, <2>2, <2>4, <2>5
<1>7. CASE UNCHANGED sb
  BY <1>7
<1>8. User => \/ UNCHANGED sb
              \/ \E c \in Bindings, ref \in Workloads \cup {Selector} :
                   CreateBinding(c, ref) \/ RetargetBinding(c, ref)
              \/ \E c \in Bindings : DeleteBinding(c)
  BY DEF User, CreateWorkload, DeleteWorkload, EditWorkload, ReplaceWorkload, RelabelWorkload,
         ChangeService, ChangeAccess
<1>9. Step => UNCHANGED sb \/ AddFinalizer \/ ClearFinalizer \/ UpdateStatus
  BY DEF Step, ResolveBindingSecret, ResolveWorkloads, ProjectBinding, Manage, PatchDone, apiVars
<1>10. (\E c \in Bindings : SyncCache(c) \/ Take(c)) \/ OnlyEnqueues \/ Crash \/ CallFails
         => UNCHANGED sb
  BY DEF SyncCache, OnlyEnqueues, Take, Crash, CallFails, apiVars
<1>. QED
  BY <1>1, <1>2, <1>3, <1>4, <1>5, <1>6, <1>7, <1>8, <1>9, <1>10, NextCases

\* How a stored workload changes in one step: not, by a user, who gives it a new
\* version and projects nothing, or by PatchWorkloads, which then had read the
\* stored version.
LEMMA WorkloadStep ==
  ASSUME GuardInv, Next, NEW w \in Workloads
  PROVE  \/ workload'[w] = workload[w]
         \/ /\ edits' # edits
            /\ workload'[w].rv = workload[w].rv + 1
            /\ \A b \in Bindings : workload'[w].proj[b] \in {workload[w].proj[b], NoSecret}
         \/ /\ pc = "patch"
            /\ cur \in Bindings
            /\ workload[w] = read[w]
            /\ workload'[w] = Written(Desired(w), workload[w].rv)
<1>0. workload \in [Workloads -> Workload] /\ workload[w] \in Workload /\ edits \in Nat
  BY ConstantsAssumption DEF GuardInv, TypeOK
<1>1. \A b \in Bindings : NoProjection[b] = NoSecret
  BY DEF NoProjection
<1>2. CASE User
  <2>1. edits' # edits
    BY <1>0, <1>2 DEF User, CreateBinding, DeleteBinding, RetargetBinding, CreateWorkload,
           DeleteWorkload, EditWorkload, ReplaceWorkload, RelabelWorkload, ChangeService,
           ChangeAccess, UserStep
  <2>2. ASSUME NEW v \in Workloads, NEW l \in SUBSET {Label}, CreateWorkload(v, l)
        PROVE  \/ workload'[w] = workload[w]
               \/ /\ workload'[w].rv = workload[w].rv + 1
                  /\ workload'[w].proj = NoProjection
    BY <1>0, <2>2, WorkloadWrites DEF CreateWorkload
  <2>3. ASSUME NEW v \in Workloads,
               DeleteWorkload(v) \/ EditWorkload(v) \/ ReplaceWorkload(v) \/ RelabelWorkload(v)
        PROVE  \/ workload'[w] = workload[w]
               \/ /\ workload'[w].rv = workload[w].rv + 1
                  /\ workload'[w].proj \in {workload[w].proj, NoProjection}
    <3>1. \/ workload'[w] = workload[w]
          \/ workload'[w] \in {Removed(workload[w]), Edited(workload[w]),
                               Replaced(workload[w]), Relabelled(workload[w])}
      BY <1>0, <2>3 DEF DeleteWorkload, EditWorkload, ReplaceWorkload, RelabelWorkload
    <3>2. ASSUME NEW l \in SUBSET {Label}
          PROVE  /\ Removed(workload[w]).rv = workload[w].rv + 1
                 /\ Removed(workload[w]).proj = NoProjection
                 /\ Edited(workload[w]).rv = workload[w].rv + 1
                 /\ Edited(workload[w]).proj = workload[w].proj
                 /\ Replaced(workload[w]).rv = workload[w].rv + 1
                 /\ Replaced(workload[w]).proj = NoProjection
                 /\ Relabelled(workload[w]).rv = workload[w].rv + 1
                 /\ Relabelled(workload[w]).proj = workload[w].proj
      BY <1>0, <3>2, WorkloadWrites
    <3>3. {} \in SUBSET {Label}
      OBVIOUS
    <3>. QED
      BY <3>1, <3>2, <3>3
  <2>4. User => \/ UNCHANGED workload
                \/ \E v \in Workloads, l \in SUBSET {Label} : CreateWorkload(v, l)
                \/ \E v \in Workloads :
                     \/ DeleteWorkload(v)
                     \/ EditWorkload(v)
                     \/ ReplaceWorkload(v)
                     \/ RelabelWorkload(v)
    BY DEF User, CreateBinding, DeleteBinding, RetargetBinding, ChangeService, ChangeAccess
  <2>. QED
    BY <1>1, <1>2, <2>1, <2>2, <2>3, <2>4
<1>3. ASSUME NEW v \in Workloads, Manage(v)
      PROVE  \/ workload'[w] = workload[w]
             \/ /\ pc = "patch"
                /\ cur \in Bindings
                /\ workload[w] = read[w]
                /\ workload'[w] = Written(Desired(w), workload[w].rv)
  <2>1. \/ UNCHANGED workload
        \/ /\ pc = "patch"
           /\ v \in todo
           /\ Outcome(v) = "updated"
           /\ workload' = [workload EXCEPT ![v] = Written(projected[v], workload[v].rv)]
    BY <1>3 DEF Manage
  <2>2. ASSUME pc = "patch", v \in todo PROVE cur \in Bindings /\ v \in found /\ projected[v] = Desired(v)
    BY <2>2 DEF GuardInv, StashIsProjected, TypeOK
  <2>3. Outcome(v) = "updated" => workload[v].rv = read[v].rv
    BY DEF Outcome
  <2>4. v \in found /\ workload[v].rv = read[v].rv => workload[v] = read[v]
    BY DEF GuardInv, StashIsOlder
  <2>. QED
    BY <1>0, <2>1, <2>2, <2>3, <2>4
<1>4. Step => UNCHANGED workload \/ \E v \in Workloads : Manage(v)
  BY DEF Step, AddFinalizer, ResolveBindingSecret, ResolveWorkloads, ProjectBinding, PatchDone,
         ClearFinalizer, UpdateStatus, apiVars
<1>5. (\E c \in Bindings : SyncCache(c) \/ Take(c)) \/ OnlyEnqueues \/ Crash \/ CallFails
        => UNCHANGED workload
  BY DEF SyncCache, OnlyEnqueues, Take, Crash, CallFails, apiVars
<1>. QED
  BY <1>2, <1>3, <1>4, <1>5, NextCases

\* The versions of a workload go up, one at a time.
LEMMA WorkloadVersions ==
  ASSUME GuardInv, Next, NEW w \in Workloads
  PROVE  workload'[w] = workload[w] \/ workload'[w].rv = workload[w].rv + 1
<1>1. ASSUME pc = "patch", cur \in Bindings
      PROVE  Written(Desired(w), workload[w].rv).rv = workload[w].rv + 1
  <2>1. read[w] \in Workload /\ obj.binding \in MaybeSecret /\ NoSecret \in MaybeSecret
    BY DEF GuardInv, TypeOK, ServiceBinding, MaybeSecret
  <2>2. workload[w].rv \in Nat
    BY DEF GuardInv, TypeOK, Workload
  <2>3. Desired(w) \in Workload
    BY <1>1, <2>1, <2>2, ProjectionWrites DEF Desired
  <2>. QED
    BY <1>1, <2>1, <2>2, <2>3, ProjectionWrites
<1>. QED
  BY <1>1, WorkloadStep

\* A finalizer that a version of the binding had is stored until it is gone.
LEMMA FinalizerStays ==
  ASSUME GuardInv, Next, NEW b \in Bindings, HasFinalizer(sb[b]) \/ sb[b].phase = "gone"
  PROVE  HasFinalizer(sb'[b]) \/ sb'[b].phase = "gone"
PROOF BY BindingStep DEF Advance

\* The projections: only PatchWorkloads adds one, with the finalizer in hand.
LEMMA NextFinalizerGuards == GuardInv /\ Next => FinalizerGuardsProjection'
<1>. SUFFICES ASSUME GuardInv, Next, NEW b \in Bindings, NEW w \in Workloads,
                     workload'[w].proj[b] # NoSecret
              PROVE  HasFinalizer(sb'[b]) \/ sb'[b].phase = "gone"
  BY DEF FinalizerGuardsProjection, HasFinalizer
<1>1. CASE workload[w].proj[b] # NoSecret
  BY <1>1, FinalizerStays DEF GuardInv, FinalizerGuardsProjection
<1>2. CASE workload[w].proj[b] = NoSecret
  <2>1. /\ pc = "patch"
        /\ cur \in Bindings
        /\ workload[w] = read[w]
        /\ workload'[w] = Written(Desired(w), workload[w].rv)
    BY <1>2, WorkloadStep
  <2>2. /\ read[w] \in Workload
        /\ obj.binding \in MaybeSecret
        /\ NoSecret \in MaybeSecret
        /\ workload[w].rv \in Nat
    BY DEF GuardInv, TypeOK, ServiceBinding, MaybeSecret, Workload
  <2>3. \A s \in MaybeSecret : /\ WithProjection(read[w], cur, s) \in Workload
                               /\ WithProjection(read[w], cur, s).proj = [read[w].proj EXCEPT ![cur] = s]
    BY <2>1, <2>2, ProjectionWrites
  <2>4. \E s \in MaybeSecret : Desired(w) = WithProjection(read[w], cur, s)
    BY <2>2 DEF Desired
  <2>5. PICK s \in MaybeSecret : Desired(w) = WithProjection(read[w], cur, s)
    BY <2>4
  <2>6. Written(Desired(w), workload[w].rv).proj = Desired(w).proj
    BY <2>1, <2>2, <2>3, <2>5, ProjectionWrites
  <2>7. workload'[w].proj = [workload[w].proj EXCEPT ![cur] = s]
    BY <2>1, <2>3, <2>5, <2>6
  <2>8. workload[w].proj \in [Bindings -> MaybeSecret]
    BY DEF GuardInv, TypeOK, Workload
  <2>9. b = cur
    BY <1>2, <2>7, <2>8
  <2>10. HasFinalizer(sb[b]) \/ sb[b].phase = "gone"
    BY <2>1, <2>9 DEF GuardInv, CopyIsOlder
  <2>. QED
    BY <2>10, FinalizerStays
<1>. QED
  BY <1>1, <1>2

\* How the cache changes in one step: not, or to what is stored.
LEMMA CacheStep ==
  ASSUME TypeOK, Next, NEW b \in Bindings
  PROVE  cache'[b] = cache[b] \/ (cache'[b] = sb[b] /\ sb'[b] = sb[b])
<1>1. User => UNCHANGED cache
  BY DEF User, CreateBinding, DeleteBinding, RetargetBinding, CreateWorkload, DeleteWorkload,
         EditWorkload, ReplaceWorkload, RelabelWorkload, ChangeService, ChangeAccess, UserStep
<1>2. Step => UNCHANGED cache
  BY DEF Step, AddFinalizer, ResolveBindingSecret, ResolveWorkloads, ProjectBinding, Manage,
         PatchDone, ClearFinalizer, UpdateStatus
<1>3. (\E c \in Bindings : Take(c)) \/ OnlyEnqueues \/ CallFails => UNCHANGED cache
  BY DEF OnlyEnqueues, Take, CallFails
<1>4. ASSUME NEW c \in Bindings, SyncCache(c)
      PROVE  cache'[b] = cache[b] \/ (cache'[b] = sb[b] /\ sb'[b] = sb[b])
  BY <1>4 DEF SyncCache, apiVars, TypeOK
<1>5. Crash => cache' = sb /\ sb' = sb
  BY DEF Crash, apiVars
<1>. QED
  BY <1>1, <1>2, <1>3, <1>4, <1>5, NextCases

\* The informer.
LEMMA NextCacheIsOlder == GuardInv /\ Next => CacheIsOlder'
<1>. SUFFICES ASSUME GuardInv, Next, NEW b \in Bindings
              PROVE  /\ cache'[b].rv <= sb'[b].rv
                     /\ cache'[b].rv = sb'[b].rv => cache'[b] = sb'[b]
                     /\ HasFinalizer(cache'[b]) => HasFinalizer(sb'[b]) \/ sb'[b].phase = "gone"
                     /\ sb'[b].phase = "none" =>
                          sb'[b] = NeverCreated /\ cache'[b] = NeverCreated /\ cur' # b
  BY DEF CacheIsOlder, HasFinalizer
<1>1. cache'[b] = cache[b] \/ (cache'[b] = sb[b] /\ sb'[b] = sb[b])
  BY CacheStep DEF GuardInv
<1>2. sb[b].rv \in Nat /\ cache[b].rv \in Nat
  BY DEF GuardInv, TypeOK, ServiceBinding
<1>3. /\ cache[b].rv <= sb[b].rv
      /\ cache[b].rv = sb[b].rv => cache[b] = sb[b]
      /\ HasFinalizer(cache[b]) => HasFinalizer(sb[b]) \/ sb[b].phase = "gone"
      /\ sb[b].phase = "none" => sb[b] = NeverCreated /\ cache[b] = NeverCreated /\ cur # b
  BY DEF GuardInv, CacheIsOlder
<1>4. sb'[b] = sb[b] \/ sb'[b].rv = sb[b].rv + 1
  BY BindingStep DEF Advance
<1>5. /\ cache'[b].rv <= sb'[b].rv
      /\ cache'[b].rv = sb'[b].rv => cache'[b] = sb'[b]
  BY <1>1, <1>2, <1>3, <1>4
<1>6. HasFinalizer(cache'[b]) => HasFinalizer(sb'[b]) \/ sb'[b].phase = "gone"
  BY <1>1, <1>3, FinalizerStays
<1>7. ASSUME sb'[b].phase = "none"
      PROVE  sb'[b] = NeverCreated /\ cache'[b] = NeverCreated /\ cur' # b
  <2>1. sb'[b] = sb[b]
    BY <1>7, BindingStep DEF Advance
  <2>2. ~Exists(cache[b]) /\ cur # b
    BY <1>3, <1>7, <2>1 DEF Exists, NeverCreated
  <2>3. cur' \in {cur, NoBinding} \/ \E c \in Bindings : Exists(cache[c]) /\ cur' = c
    <3>1. User => UNCHANGED cur
      BY DEF User, CreateBinding, DeleteBinding, RetargetBinding, CreateWorkload, DeleteWorkload,
             EditWorkload, ReplaceWorkload, RelabelWorkload, ChangeService, ChangeAccess, UserStep,
             workerVars
    <3>2. Step => cur' \in {cur, NoBinding}
      BY DEF Step, AddFinalizer, ResolveBindingSecret, ResolveWorkloads, ProjectBinding, Manage,
             PatchDone, ClearFinalizer, UpdateStatus, Goto, Abort, ForgetRequest
    <3>3. (\E c \in Bindings : SyncCache(c)) \/ OnlyEnqueues \/ CallFails \/ Crash => cur' \in {cur, NoBinding}
      BY DEF SyncCache, OnlyEnqueues, Crash, CallFails, Abort, ForgetRequest, workerVars
    <3>4. ASSUME NEW c \in Bindings, Take(c) PROVE cur' = cur \/ (Exists(cache[c]) /\ cur' = c)
      BY <3>4 DEF Take, workerVars
    <3>. QED
      BY <3>1, <3>2, <3>3, <3>4, NextCases
  <2>4. cur' # b
    BY <2>2, <2>3, ConstantsAssumption
  <2>. QED
    BY <1>1, <1>3, <1>7, <2>1, <2>4
<1>. QED
  BY <1>5, <1>6, <1>7

\* What the worker may do next: nothing, forget its request, take one, or a step.
WorkerRests == UNCHANGED workerVars
WorkerAborts == pc # "idle" /\ Abort /\ UNCHANGED <<obj, stashVars, requeue>> /\ UNCHANGED apiVars
WorkerTakes(b) ==
  /\ Exists(cache[b])
  /\ cache[b].phase = "deleting" => HasFinalizer(cache[b])
  /\ pc = "idle"
  /\ cur' = b
  /\ orig' = cache[b]
  /\ obj' = InitializeConditions(cache[b])
  /\ pc' = FirstStep(cache[b])
  /\ UNCHANGED <<stashVars, requeue, failed>>
  /\ UNCHANGED apiVars

\* What one step can do to the worker.
LEMMA WorkerStep ==
  Next => \/ WorkerRests
          \/ ForgetRequest
          \/ WorkerAborts
          \/ \E b \in Bindings : WorkerTakes(b)
          \/ Step
<1>1. User => WorkerRests
  BY DEF WorkerRests, User, CreateBinding, DeleteBinding, RetargetBinding, CreateWorkload,
         DeleteWorkload, EditWorkload, ReplaceWorkload, RelabelWorkload, ChangeService,
         ChangeAccess, UserStep
<1>2. (\E b \in Bindings : SyncCache(b)) \/ OnlyEnqueues => WorkerRests
  BY DEF WorkerRests, SyncCache, OnlyEnqueues
<1>3. Crash => ForgetRequest
  BY DEF Crash
<1>4. CallFails => ForgetRequest \/ WorkerAborts
  BY DEF CallFails, Calling, WorkerAborts
<1>5. ASSUME NEW b \in Bindings, Take(b) PROVE WorkerRests \/ WorkerTakes(b)
  BY <1>5 DEF Take, WorkerRests, WorkerTakes
<1>. QED
  BY <1>1, <1>2, <1>3, <1>4, <1>5, NextCases

\* The worker's copy.
LEMMA NextCopyIsOlder == GuardInv /\ Next => CopyIsOlder'
<1>. SUFFICES ASSUME GuardInv, Next, pc' # "idle" PROVE CopyIsOlder'
  BY DEF CopyIsOlder
<1>0. TypeOK /\ TypeOK'
  BY NextTypeOK DEF GuardInv
<1>1. ASSUME pc # "idle",
             cur' = cur,
             SameObject(obj, obj'),
             pc' \in {"secret", "workloads", "project", "patch", "unfinalize"} => HasFinalizer(obj),
             pc' = "unfinalize" => IsDeleting
      PROVE  CopyIsOlder'
  <2>1. cur \in Bindings /\ obj.rv \in Nat /\ sb[cur].rv \in Nat
    BY <1>0, <1>1 DEF TypeOK, ServiceBinding
  <2>2. /\ Exists(obj)
        /\ obj.rv <= sb[cur].rv
        /\ obj.rv = sb[cur].rv => obj.phase = sb[cur].phase /\ obj.finalizers = sb[cur].finalizers
        /\ HasFinalizer(obj) => HasFinalizer(sb[cur]) \/ sb[cur].phase = "gone"
    BY <1>1 DEF GuardInv, CopyIsOlder
  <2>3. sb'[cur] = sb[cur] \/ sb'[cur].rv = sb[cur].rv + 1
    BY <2>1, BindingStep DEF Advance
  <2>4. obj'.phase = obj.phase /\ obj'.finalizers = obj.finalizers /\ obj'.rv = obj.rv
    BY <1>1 DEF SameObject
  <2>5. /\ obj'.rv <= sb'[cur].rv
        /\ obj'.rv = sb'[cur].rv => obj'.phase = sb'[cur].phase /\ obj'.finalizers = sb'[cur].finalizers
    BY <2>1, <2>2, <2>3, <2>4
  <2>6. HasFinalizer(obj) => HasFinalizer(sb'[cur]) \/ sb'[cur].phase = "gone"
    BY <2>1, <2>2, FinalizerStays
  <2>. QED
    BY <1>1, <2>2, <2>4, <2>5, <2>6 DEF CopyIsOlder, Exists, HasFinalizer, IsDeleting
<1>2. SameObject(obj, obj)
  BY <1>0 DEF TypeOK, SameObject
<1>3. CASE WorkerRests
  BY <1>1, <1>2, <1>3 DEF WorkerRests, workerVars, GuardInv, CopyIsOlder
<1>4. CASE WorkerAborts
  BY <1>1, <1>2, <1>4 DEF WorkerAborts, Abort
<1>5. ASSUME NEW b \in Bindings, WorkerTakes(b) PROVE CopyIsOlder'
  <2>1. cur' = b /\ sb' = sb
    BY <1>5 DEF WorkerTakes, apiVars
  <2>2. cache[b] \in ServiceBinding /\ NoSecret \in MaybeSecret /\ "True" \in Conditions
    BY <1>0 DEF TypeOK, MaybeSecret, Conditions
  <2>3. SameObject(cache[b], obj')
    BY <1>5, <2>2, CopyWrites DEF WorkerTakes
  <2>4. /\ Exists(cache[b])
        /\ pc' \in {"finalizer", "secret", "workloads"}
        /\ pc' \in {"secret", "workloads"} => HasFinalizer(cache[b])
    BY <1>5 DEF WorkerTakes, FirstStep
  <2>5. /\ cache[b].rv <= sb[b].rv
        /\ cache[b].rv = sb[b].rv => cache[b] = sb[b]
        /\ HasFinalizer(cache[b]) => HasFinalizer(sb[b]) \/ sb[b].phase = "gone"
    BY DEF GuardInv, CacheIsOlder
  <2>. QED
    BY <2>1, <2>3, <2>4, <2>5 DEF SameObject, CopyIsOlder, Exists, HasFinalizer
<1>6. CASE Step
  <2>1. CASE AddFinalizer /\ Current
    <3>1. /\ pc' = "secret"
          /\ cur' = cur
          /\ sb' = [sb EXCEPT ![cur] = Finalized(sb[cur])]
          /\ obj' = Finalized(obj)
          /\ obj.rv = sb[cur].rv
      BY <2>1 DEF AddFinalizer, Current, Goto
    <3>2. cur \in Bindings /\ obj \in ServiceBinding /\ sb[cur] \in ServiceBinding
      BY <1>0, <2>1 DEF TypeOK, AddFinalizer
    <3>3. sb'[cur] = Finalized(sb[cur])
      BY <1>0, <3>1, <3>2 DEF TypeOK
    <3>4. Exists(obj) /\ obj.phase = sb[cur].phase
      BY <2>1, <3>1 DEF AddFinalizer, GuardInv, CopyIsOlder
    <3>5. /\ Finalized(obj).phase = obj.phase
          /\ Finalized(obj).finalizers = {Finalizer}
          /\ Finalized(obj).rv = obj.rv + 1
          /\ Finalized(sb[cur]).phase = sb[cur].phase
          /\ Finalized(sb[cur]).finalizers = {Finalizer}
          /\ Finalized(sb[cur]).rv = sb[cur].rv + 1
      BY <3>2, BindingWrites
    <3>6. obj.rv + 1 \in Nat
      BY <3>2 DEF ServiceBinding
    <3>. QED
      BY <3>1, <3>3, <3>4, <3>5, <3>6 DEF CopyIsOlder, Exists, HasFinalizer
  <2>2. CASE ~(AddFinalizer /\ Current)
    <3>1. pc # "idle" /\ cur' = cur /\ ~UpdateStatus
      BY <1>6, <2>2 DEF Step, AddFinalizer, ResolveBindingSecret, ResolveWorkloads, ProjectBinding,
             Manage, PatchDone, ClearFinalizer, UpdateStatus, Goto, Abort, ForgetRequest
    <3>2. SameObject(obj, obj')
      <4>1. CASE AddFinalizer
        BY <1>2, <2>2, <4>1 DEF AddFinalizer
      <4>2. CASE ~AddFinalizer
        <5>1. pc # "finalizer" /\ pc # "status"
          BY <1>6, <3>1, <4>2 DEF Step, ResolveBindingSecret, ResolveWorkloads, ProjectBinding,
                 Manage, PatchDone, ClearFinalizer
        <5>. QED
          BY <1>0, <1>6, <5>1, StepCopy
      <4>. QED
        BY <4>1, <4>2
    <3>3. /\ pc' \in {"secret", "workloads", "project", "patch", "unfinalize"} =>
               pc \in {"secret", "workloads", "project", "patch", "unfinalize"}
          /\ pc' = "unfinalize" => IsDeleting
      BY <1>6, <2>2, <3>1 DEF Step, AddFinalizer, ResolveBindingSecret, ResolveWorkloads,
             ProjectBinding, Manage, PatchDone, ClearFinalizer, Goto, Abort, AfterSequence,
             GuardInv, CopyIsOlder
    <3>4. pc' \in {"secret", "workloads", "project", "patch", "unfinalize"} => HasFinalizer(obj)
      BY <3>1, <3>3 DEF GuardInv, CopyIsOlder
    <3>. QED
      BY <1>1, <3>1, <3>2, <3>3, <3>4
  <2>. QED
    BY <2>1, <2>2
<1>7. ~ForgetRequest
  BY DEF ForgetRequest
<1>. QED
  BY <1>3, <1>4, <1>5, <1>6, <1>7, WorkerStep

\* The stash of one reconciliation: it stays, it is forgotten, or ResolveWorkloads
\* fills it with the workloads as they are stored.
LEMMA StashStep ==
  ASSUME GuardInv, Next
  PROVE  \/ UNCHANGED <<found, read>>
         \/ found' = {}
         \/ /\ ResolveWorkloads
            /\ UNCHANGED workload
            /\ found' \subseteq Workloads
            /\ \A w \in found' : read'[w] = workload[w]
<1>1. ASSUME ResolveWorkloads
      PROVE  \/ UNCHANGED <<found, read>>
             \/ /\ UNCHANGED workload
                /\ found' \subseteq Workloads
                /\ \A w \in found' : read'[w] = workload[w]
  BY <1>1 DEF ResolveWorkloads, apiVars
<1>2. Step => ResolveWorkloads \/ UNCHANGED <<found, read>> \/ found' = {}
  BY DEF Step, AddFinalizer, ResolveBindingSecret, ProjectBinding, Manage, PatchDone,
         ClearFinalizer, UpdateStatus, ForgetRequest, ForgetStash, stashVars
<1>3. WorkerRests \/ WorkerAborts \/ (\E b \in Bindings : WorkerTakes(b)) => UNCHANGED <<found, read>>
  BY DEF WorkerRests, WorkerAborts, WorkerTakes, workerVars, stashVars
<1>4. ForgetRequest => found' = {}
  BY DEF ForgetRequest, ForgetStash
<1>. QED
  BY <1>1, <1>2, <1>3, <1>4, WorkerStep

\* The stash stays an older version of the stored workloads.
LEMMA NextStashIsOlder == GuardInv /\ Next => StashIsOlder'
<1>. SUFFICES ASSUME GuardInv, Next, NEW w \in found'
              PROVE  /\ read'[w].rv <= workload'[w].rv
                     /\ read'[w].rv = workload'[w].rv => read'[w] = workload'[w]
  BY DEF StashIsOlder
<1>1. TypeOK
  BY DEF GuardInv
<1>2. CASE UNCHANGED <<found, read>>
  <2>1. w \in found /\ w \in Workloads /\ read[w].rv \in Nat /\ workload[w].rv \in Nat
    BY <1>1, <1>2 DEF TypeOK, Workload
  <2>2. read[w].rv <= workload[w].rv /\ (read[w].rv = workload[w].rv => read[w] = workload[w])
    BY <2>1 DEF GuardInv, StashIsOlder
  <2>. QED
    BY <1>2, <2>1, <2>2, WorkloadVersions
<1>3. CASE /\ UNCHANGED workload
           /\ found' \subseteq Workloads
           /\ \A v \in found' : read'[v] = workload[v]
  <2>1. w \in Workloads /\ workload[w].rv \in Nat
    BY <1>1, <1>3 DEF TypeOK, Workload
  <2>. QED
    BY <1>3, <2>1
<1>. QED
  BY <1>2, <1>3, StashStep

\* What is about to be written stays what ProjectBinding computed.
LEMMA NextStashIsProjected == GuardInv /\ Next => StashIsProjected'
<1>. SUFFICES ASSUME GuardInv, Next, pc' = "patch"
              PROVE  todo' \subseteq found' /\ \A w \in found' : projected'[w] = Desired(w)'
  BY DEF StashIsProjected
<1>0. TypeOK
  BY DEF GuardInv
<1>1. CASE ProjectBinding
  <2>1. /\ projected' = [w \in Workloads |-> IF w \in found THEN Desired(w) ELSE NotStashed]
        /\ todo' = found
        /\ UNCHANGED <<found, read, cur, obj>>
    BY <1>1 DEF ProjectBinding, Goto
  <2>2. \A w : Desired(w)' = Desired(w)
    BY <2>1 DEF Desired, IsDeleting
  <2>. QED
    BY <1>0, <2>1, <2>2 DEF TypeOK
<1>2. ASSUME pc = "patch", todo' \subseteq todo, UNCHANGED <<found, read, projected, cur, obj>>
      PROVE  todo' \subseteq found' /\ \A w \in found' : projected'[w] = Desired(w)'
  <2>1. \A w : Desired(w)' = Desired(w)
    BY <1>2 DEF Desired, IsDeleting
  <2>. QED
    BY <1>2, <2>1 DEF GuardInv, StashIsProjected
<1>3. CASE WorkerRests
  BY <1>2, <1>3 DEF WorkerRests, workerVars, stashVars
<1>4. CASE Step /\ ~ProjectBinding
  <2>1. \E w \in Workloads : Manage(w)
    BY <1>4 DEF Step, AddFinalizer, ResolveBindingSecret, ResolveWorkloads, PatchDone,
           ClearFinalizer, UpdateStatus, ForgetRequest, Goto, Abort, AfterSequence
  <2>2. pc = "patch" /\ todo' \subseteq todo /\ UNCHANGED <<found, read, projected, cur, obj>>
    BY <2>1 DEF Manage, AfterSequence
  <2>. QED
    BY <1>2, <2>2
<1>5. ~ForgetRequest /\ ~WorkerAborts /\ ~(\E b \in Bindings : WorkerTakes(b))
  BY DEF ForgetRequest, WorkerAborts, Abort, WorkerTakes, FirstStep
<1>. QED
  BY <1>1, <1>3, <1>4, <1>5, WorkerStep

\* The invariant is inductive.
LEMMA InitGuardInv == Init => GuardInv
<1>. SUFFICES ASSUME Init PROVE GuardInv
  OBVIOUS
<1>1. TypeOK
  BY InitTypeOK
<1>2. CacheIsOlder
  BY ConstantsAssumption DEF Init, CacheIsOlder, NeverCreated, HasFinalizer
<1>3. CopyIsOlder /\ StashIsOlder /\ StashIsProjected
  BY DEF Init, CopyIsOlder, StashIsOlder, StashIsProjected
<1>4. FinalizerGuardsProjection
  <2>1. \A w \in Workloads : workload[w].proj = NoProjection
    <3>1. /\ NotStashed.proj = NoProjection
          /\ [NotStashed EXCEPT !.phase = "live", !.rv = 1, !.labels = {Label}].proj = NoProjection
      BY DEF NotStashed
    <3>. QED
      BY <3>1 DEF Init
  <2>. QED
    BY <2>1 DEF FinalizerGuardsProjection, NoProjection
<1>. QED
  BY <1>1, <1>2, <1>3, <1>4 DEF GuardInv

\* The inductive invariant behind FinalizerFirst is preserved.
LEMMA NextGuardInv == GuardInv /\ [Next]_vars => GuardInv'
<1>. SUFFICES ASSUME GuardInv, [Next]_vars PROVE GuardInv'
  OBVIOUS
<1>1. TypeOK'
  BY NextTypeOK DEF GuardInv
<1>2. CASE UNCHANGED vars
  BY <1>1, <1>2 DEF vars, apiVars, workerVars, stashVars, GuardInv, CacheIsOlder, CopyIsOlder,
         StashIsOlder, StashIsProjected, FinalizerGuardsProjection, Desired, IsDeleting
<1>3. CASE Next
  BY <1>1, <1>3, NextCacheIsOlder, NextCopyIsOlder, NextStashIsOlder, NextStashIsProjected,
     NextFinalizerGuards DEF GuardInv
<1>. QED
  BY <1>2, <1>3

\* FinalizerGuardsProjection is an invariant of the reconciler, whatever users,
\* the operator, the network and the process do: WithFinalizer stores the
\* finalizer before PatchWorkloads can write a workload.
THEOREM FinalizerFirst == Spec => []FinalizerGuardsProjection
<1>1. GuardInv => FinalizerGuardsProjection
  BY DEF GuardInv
<1>. QED
  BY <1>1, InitGuardInv, NextGuardInv, PTL DEF Spec

\* A step that is not a user's takes nothing back that was written to a workload
\* since PatchWorkloads read it: the resource version in the write sees to it.
THEOREM UpdatesSurvive == Spec => NoLostUpdate
<1>1. ASSUME GuardInv, Next, NEW w \in Workloads, edits' = edits
      PROVE  /\ workload'[w].rev = workload[w].rev
             /\ \A b \in Bindings \ {cur} : workload'[w].proj[b] = workload[w].proj[b]
  <2>1. CASE workload'[w] = workload[w]
    BY <2>1
  <2>2. CASE /\ pc = "patch"
             /\ cur \in Bindings
             /\ workload[w] = read[w]
             /\ workload'[w] = Written(Desired(w), workload[w].rv)
    <3>1. /\ read[w] \in Workload
          /\ obj.binding \in MaybeSecret
          /\ NoSecret \in MaybeSecret
          /\ workload[w].rv \in Nat
      BY <1>1 DEF GuardInv, TypeOK, ServiceBinding, MaybeSecret, Workload
    <3>2. PICK s \in MaybeSecret : Desired(w) = WithProjection(read[w], cur, s)
      BY <3>1 DEF Desired
    <3>3. /\ Desired(w) \in Workload
          /\ Desired(w).rev = read[w].rev
          /\ Desired(w).proj = [read[w].proj EXCEPT ![cur] = s]
      BY <2>2, <3>1, <3>2, ProjectionWrites
    <3>4. /\ Written(Desired(w), workload[w].rv).rev = Desired(w).rev
          /\ Written(Desired(w), workload[w].rv).proj = Desired(w).proj
      BY <2>2, <3>1, <3>2, <3>3, ProjectionWrites
    <3>5. read[w].proj \in [Bindings -> MaybeSecret]
      BY <3>1 DEF Workload
    <3>. QED
      BY <2>2, <3>3, <3>4, <3>5
  <2>. QED
    BY <1>1, <2>1, <2>2, WorkloadStep
<1>2. GuardInv /\ [Next]_vars =>
        [\A w \in Workloads : edits' = edits =>
           /\ workload'[w].rev = workload[w].rev
           /\ \A b \in Bindings \ {cur} : workload'[w].proj[b] = workload[w].proj[b]]_vars
  BY <1>1
<1>. QED
  BY <1>2, InitGuardInv, NextGuardInv, PTL DEF Spec, NoLostUpdate

----------------------------------------------------------------------------
(***************************************************************************)
(* What is reported as projected is there.                                 *)
(***************************************************************************)
\* Nothing is stashed before ResolveWorkloads, and success is reported last.
ReportComesLast ==
  /\ pc \in {"idle", "finalizer", "secret", "workloads"} => found = {}
  /\ pc \in {"finalizer", "secret", "workloads", "project", "patch"} => obj.projected # "True"

\* The user has not changed or deleted the workload since it was read.
Untouched(w) == Exists(workload[w]) /\ workload[w].rev = read[w].rev

\* What such a workload shows of the binding: what was read until it is managed,
\* and the secret to be reported from then on.
StashIsKept ==
  \A w \in found :
    /\ read[w].rev <= workload[w].rev
    /\ pc = "project" /\ Untouched(w) => workload[w].proj[cur] = read[w].proj[cur]
    /\ pc = "patch" /\ w \in todo /\ Untouched(w) => workload[w].proj[cur] = read[w].proj[cur]
    /\ pc = "patch" /\ ~IsDeleting /\ w \notin todo /\ Untouched(w) =>
         workload[w].proj[cur] = obj.binding

ReportInv ==
  /\ GuardInv
  /\ ReportComesLast
  /\ StashIsKept
  /\ ResolvedShowsBinding

\* How a workload may change without the worker: what is still the revision that
\* was there shows what it showed.
Kept(w) ==
  /\ workload[w].rev <= workload'[w].rev
  /\ Exists(workload'[w]) /\ workload'[w].rev = workload[w].rev =>
       Exists(workload[w]) /\ workload'[w].proj = workload[w].proj

\* A user either gives a workload a new revision, or deletes or relabels it.
LEMMA UserKeeps ==
  ASSUME TypeOK, User, NEW w \in Workloads
  PROVE  Kept(w)
<1>0. /\ workload \in [Workloads -> Workload]
      /\ workload[w] \in Workload
      /\ workload[w].rev \in Nat
      /\ {} \in SUBSET {Label}
  BY DEF TypeOK, Workload
<1>1. CASE workload'[w] = workload[w]
  BY <1>0, <1>1 DEF Kept
<1>2. CASE workload'[w].rev = workload[w].rev + 1
  BY <1>0, <1>2 DEF Kept
<1>3. CASE workload'[w] = Removed(workload[w])
  <2>1. Removed(workload[w]).rev = workload[w].rev /\ Removed(workload[w]).phase = "none"
    BY <1>0, WorkloadWrites
  <2>. QED
    BY <1>0, <1>3, <2>1 DEF Kept, Exists
<1>4. CASE workload'[w] = Relabelled(workload[w])
  <2>1. /\ Relabelled(workload[w]).rev = workload[w].rev
        /\ Relabelled(workload[w]).proj = workload[w].proj
    BY <1>0, WorkloadWrites
  <2>2. Relabelled(workload[w]).phase = workload[w].phase
    BY <1>0 DEF Relabelled, Workload
  <2>. QED
    BY <1>0, <1>4, <2>1, <2>2 DEF Kept, Exists
<1>5. /\ \A l \in SUBSET {Label} : Recreated(workload[w], l).rev = workload[w].rev + 1
      /\ Edited(workload[w]).rev = workload[w].rev + 1
      /\ Replaced(workload[w]).rev = workload[w].rev + 1
  BY <1>0, WorkloadWrites
<1>6. \/ workload'[w] = workload[w]
      \/ \E l \in SUBSET {Label} : workload'[w] = Recreated(workload[w], l)
      \/ workload'[w] \in {Removed(workload[w]), Edited(workload[w]), Replaced(workload[w]),
                           Relabelled(workload[w])}
  BY <1>0 DEF User, CreateBinding, DeleteBinding, RetargetBinding, CreateWorkload, DeleteWorkload,
         EditWorkload, ReplaceWorkload, RelabelWorkload, ChangeService, ChangeAccess
<1>. QED
  BY <1>1, <1>2, <1>3, <1>4, <1>5, <1>6

\* What the worker's writes to its copy leave of the status.
LEMMA StatusWrites ==
  ASSUME NEW o \in ServiceBinding, NEW c, NEW s
  PROVE  /\ InitializeConditions(o).projected = "Initializing"
         /\ Finalized(o).projected = o.projected
         /\ MarkAvailable(o, c).projected = o.projected
         /\ Resolved(o, c, s).projected = o.projected
         /\ MarkProjected(o, c).projected = c
         /\ MarkProjected(o, c).binding = o.binding
         /\ MarkProjected(o, c).phase = o.phase
PROOF BY DEF ServiceBinding, InitializeConditions, Finalized, MarkAvailable, Resolved, MarkProjected

\* The parts of the invariant besides GuardInv.
ReportParts == ReportComesLast /\ StashIsKept /\ ResolvedShowsBinding

\* The worker stands still while others act.
LEMMA RestReports ==
  ASSUME ReportInv, TypeOK', WorkerRests, \A w \in Workloads : Kept(w)
  PROVE  ReportParts'
<1>0. /\ UNCHANGED <<pc, cur, obj, found, read, todo>>
      /\ found \subseteq Workloads
      /\ \A w \in found :
           read[w].rev \in Nat /\ workload[w].rev \in Nat /\ workload'[w].rev \in Nat
  BY DEF WorkerRests, workerVars, stashVars, ReportInv, GuardInv, TypeOK, Workload
<1>1. ReportComesLast'
  BY <1>0 DEF ReportInv, ReportComesLast
<1>2. \A w \in found : read[w].rev <= workload[w].rev
  BY DEF ReportInv, StashIsKept
<1>3. \A w \in found : read[w].rev <= workload'[w].rev
  BY <1>0, <1>2 DEF Kept
<1>4. ASSUME NEW w \in found, Untouched(w)'
      PROVE  Untouched(w) /\ workload'[w].proj = workload[w].proj
  <2>1. Exists(workload'[w]) /\ workload'[w].rev = read[w].rev
    BY <1>0, <1>4 DEF Untouched
  <2>2. w \in Workloads /\ workload[w].rev <= workload'[w].rev
    BY <1>0 DEF Kept
  <2>3. workload'[w].rev = workload[w].rev
    BY <1>0, <1>2, <2>1, <2>2
  <2>. QED
    BY <2>1, <2>2, <2>3 DEF Untouched, Kept
<1>5. StashIsKept'
  BY <1>0, <1>3, <1>4 DEF ReportInv, StashIsKept, IsDeleting
<1>6. ResolvedShowsBinding'
  BY <1>0, <1>4 DEF ReportInv, ResolvedShowsBinding, IsDeleting, Untouched
<1>. QED
  BY <1>1, <1>5, <1>6 DEF ReportParts

\* A step before the workloads are resolved: there is nothing to report yet.
LEMMA EarlyReports ==
  ASSUME found' = {}, pc' \in {"idle", "finalizer", "secret", "workloads", "project", "status"},
         pc' \in {"finalizer", "secret", "workloads", "project"} => obj'.projected # "True"
  PROVE  ReportParts'
<1>1. ReportComesLast'
  BY DEF ReportComesLast
<1>2. StashIsKept' /\ ResolvedShowsBinding'
  BY DEF StashIsKept, ResolvedShowsBinding
<1>. QED
  BY <1>1, <1>2 DEF ReportParts

\* A reconciliation that is given up, or that finalizes, does not report success.
LEMMA SilentReports ==
  ASSUME ReportInv, pc' \in {"unfinalize", "status"}, UNCHANGED <<workload, found, read>>,
         obj'.projected # "True" \/ obj'.phase = "deleting"
  PROVE  ReportParts'
<1>1. ReportComesLast'
  BY DEF ReportComesLast
<1>2. StashIsKept'
  BY DEF ReportInv, StashIsKept
<1>3. ResolvedShowsBinding'
  BY DEF ResolvedShowsBinding, IsDeleting
<1>. QED
  BY <1>1, <1>2, <1>3 DEF ReportParts

\* The steps up to the resolution of the workloads.
LEMMA ResolutionReports ==
  ASSUME ReportInv, AddFinalizer \/ ResolveBindingSecret \/ ResolveWorkloads
  PROVE  ReportParts'
<1>0. TypeOK /\ obj \in ServiceBinding /\ found \subseteq Workloads
  BY DEF ReportInv, GuardInv, TypeOK
<1>1. CASE AddFinalizer
  <2>1. found = {} /\ obj.projected # "True"
    BY <1>1 DEF AddFinalizer, ReportInv, ReportComesLast
  <2>2. Finalized(obj).projected = obj.projected
    BY <1>0, StatusWrites
  <2>3. found' = {} /\ pc' \in {"secret", "status"} /\ obj'.projected # "True"
    BY <1>1, <2>1, <2>2 DEF AddFinalizer, Goto, Abort, stashVars
  <2>. QED
    BY <2>3, EarlyReports
<1>2. CASE ResolveBindingSecret
  <2>1. found = {} /\ obj.projected # "True"
    BY <1>2 DEF ResolveBindingSecret, ReportInv, ReportComesLast
  <2>2. \A c, s : /\ MarkAvailable(obj, c).projected = obj.projected
                  /\ Resolved(obj, c, s).projected = obj.projected
    BY <1>0, StatusWrites
  <2>3. found' = {} /\ pc' = "workloads" /\ obj'.projected # "True"
    BY <1>2, <2>1, <2>2 DEF ResolveBindingSecret, Goto, stashVars
  <2>. QED
    BY <2>3, EarlyReports
<1>3. CASE ResolveWorkloads
  <2>1. found = {} /\ obj.projected # "True"
    BY <1>3 DEF ResolveWorkloads, ReportInv, ReportComesLast
  <2>2. \A c : MarkProjected(obj, c).projected = c
    BY <1>0, StatusWrites
  <2>3. /\ pc' = "project"
        /\ UNCHANGED <<workload, cur>>
        /\ obj'.projected # "True"
    BY <1>3, <2>1, <2>2 DEF ResolveWorkloads, Goto, apiVars
  <2>4. CASE found' = {}
    BY <2>3, <2>4, EarlyReports
  <2>5. CASE found' # {}
    <3>1. found' \subseteq Workloads /\ \A w \in found' : read'[w] = workload[w]
      BY <1>3, <2>1, <2>5 DEF ResolveWorkloads
    <3>2. \A w \in found' : workload[w].rev \in Nat
      BY <1>0, <3>1 DEF TypeOK, Workload
    <3>3. StashIsKept'
      BY <2>3, <3>1, <3>2 DEF StashIsKept
    <3>4. ReportComesLast' /\ ResolvedShowsBinding'
      BY <2>3 DEF ReportComesLast, ResolvedShowsBinding
    <3>. QED
      BY <3>3, <3>4 DEF ReportParts
  <2>. QED
    BY <2>4, <2>5
<1>. QED
  BY <1>1, <1>2, <1>3

\* ProjectBinding leaves every stashed workload to be managed.
LEMMA ProjectReports ==
  ASSUME ReportInv, ProjectBinding
  PROVE  ReportParts'
<1>1. /\ pc = "project"
      /\ pc' = "patch"
      /\ todo' = found
      /\ UNCHANGED <<workload, cur, obj, found, read>>
  BY DEF ProjectBinding, Goto, apiVars
<1>2. ReportComesLast' /\ ResolvedShowsBinding'
  BY <1>1 DEF ReportInv, ReportComesLast, ResolvedShowsBinding
<1>3. StashIsKept'
  BY <1>1 DEF ReportInv, StashIsKept, Untouched
<1>. QED
  BY <1>2, <1>3 DEF ReportParts

\* What a stashed workload is to show: the secret to be reported.
LEMMA DesiredShows ==
  ASSUME GuardInv, pc = "patch", ~IsDeleting, NEW w \in found
  PROVE  /\ projected[w].proj[cur] = obj.binding
         /\ \A n \in Nat : Written(projected[w], n).proj[cur] = obj.binding
<1>1. /\ cur \in Bindings
      /\ w \in Workloads
      /\ read[w] \in Workload
      /\ read[w].proj \in [Bindings -> MaybeSecret]
      /\ projected[w] \in Workload
      /\ obj.binding \in MaybeSecret
  BY DEF GuardInv, TypeOK, ServiceBinding, Workload
<1>2. projected[w] = WithProjection(read[w], cur, obj.binding)
  BY DEF GuardInv, StashIsProjected, Desired
<1>3. WithProjection(read[w], cur, obj.binding).proj = [read[w].proj EXCEPT ![cur] = obj.binding]
  BY <1>1, ProjectionWrites
<1>4. projected[w].proj[cur] = obj.binding
  BY <1>1, <1>2, <1>3
<1>5. \A n \in Nat : Written(projected[w], n).proj = projected[w].proj
  BY <1>1, ProjectionWrites
<1>. QED
  BY <1>4, <1>5

\* A stashed workload is managed: it shows the secret, or its user has it.
LEMMA ManagedReports ==
  ASSUME ReportInv, NEW v \in Workloads, Manage(v), Outcome(v) \in {"equal", "notFound", "updated"}
  PROVE  ReportParts'
<1>0. /\ GuardInv
      /\ workload \in [Workloads -> Workload]
      /\ found \subseteq Workloads
      /\ \A w \in Workloads : read[w].rev \in Nat /\ workload[w].rev \in Nat /\ workload[w].rv \in Nat
  BY DEF ReportInv, GuardInv, TypeOK, Workload
<1>1. /\ pc = "patch" /\ pc' = "patch"
      /\ v \in todo /\ todo' = todo \ {v}
      /\ UNCHANGED <<cur, obj, found, read, projected>>
      /\ IF Outcome(v) = "updated"
           THEN workload' = [workload EXCEPT ![v] = Written(projected[v], workload[v].rv)]
           ELSE workload' = workload
  BY DEF Manage
<1>2. v \in found
  BY <1>0, <1>1 DEF GuardInv, StashIsProjected
<1>3. \A w \in Workloads \ {v} : workload'[w] = workload[w]
  BY <1>0, <1>1
<1>4. ReportComesLast' /\ ResolvedShowsBinding'
  BY <1>1 DEF ReportInv, ReportComesLast, ResolvedShowsBinding
<1>5. read[v].rev <= workload'[v].rev /\ (~IsDeleting /\ Untouched(v)' => workload'[v].proj[cur] = obj.binding)
  <2>1. CASE Outcome(v) = "updated"
    <3>1. workload'[v] = Written(projected[v], workload[v].rv) /\ workload[v].rv \in Nat
      BY <1>0, <1>1, <2>1
    <3>2. projected[v].rev = read[v].rev /\ projected[v] \in Workload
      <4>1. /\ cur \in Bindings
            /\ read[v] \in Workload
            /\ projected[v] \in Workload
            /\ obj.binding \in MaybeSecret
            /\ NoSecret \in MaybeSecret
        BY <1>0, <1>1 DEF GuardInv, TypeOK, ServiceBinding, MaybeSecret
      <4>2. PICK s \in MaybeSecret : Desired(v) = WithProjection(read[v], cur, s)
        BY <4>1 DEF Desired
      <4>3. WithProjection(read[v], cur, s).rev = read[v].rev
        BY <4>1, ProjectionWrites
      <4>. QED
        BY <1>0, <1>1, <1>2, <4>1, <4>2, <4>3 DEF GuardInv, StashIsProjected
    <3>3. \A n \in Nat : Written(projected[v], n).rev = projected[v].rev
      BY <3>2 DEF Written, Workload
    <3>4. ~IsDeleting => workload'[v].proj[cur] = obj.binding
      BY <1>0, <1>1, <1>2, <3>1, DesiredShows
    <3>. QED
      BY <1>0, <3>1, <3>2, <3>3, <3>4
  <2>2. CASE Outcome(v) = "equal"
    <3>1. projected[v] = read[v] /\ workload' = workload
      BY <1>1, <2>2 DEF Outcome
    <3>2. Untouched(v) => workload[v].proj[cur] = read[v].proj[cur]
      BY <1>1, <1>2 DEF ReportInv, StashIsKept
    <3>3. ~IsDeleting => read[v].proj[cur] = obj.binding
      BY <1>0, <1>1, <1>2, <3>1, DesiredShows
    <3>4. read[v].rev <= workload[v].rev
      BY <1>2 DEF ReportInv, StashIsKept
    <3>. QED
      BY <1>1, <3>1, <3>2, <3>3, <3>4 DEF Untouched
  <2>3. CASE Outcome(v) = "notFound"
    <3>1. ~Exists(workload[v]) /\ workload' = workload
      BY <1>1, <2>3 DEF Outcome
    <3>2. read[v].rev <= workload[v].rev
      BY <1>2 DEF ReportInv, StashIsKept
    <3>. QED
      BY <3>1, <3>2 DEF Untouched
  <2>. QED
    BY <2>1, <2>2, <2>3
<1>6. \A w \in found \ {v} :
        /\ read[w].rev <= workload'[w].rev
        /\ w \in todo /\ Untouched(w)' => workload'[w].proj[cur] = read[w].proj[cur]
        /\ ~IsDeleting /\ w \notin todo /\ Untouched(w)' => workload'[w].proj[cur] = obj.binding
  BY <1>0, <1>1, <1>3 DEF ReportInv, StashIsKept, Untouched
<1>7. StashIsKept'
  BY <1>1, <1>5, <1>6 DEF StashIsKept, IsDeleting
<1>. QED
  BY <1>4, <1>7 DEF ReportParts

\* A stashed workload is not managed: the step says so.
LEMMA UnmanagedReports ==
  ASSUME ReportInv, NEW v \in Workloads, Manage(v), Outcome(v) \in {"forbidden", "conflict"}
  PROVE  ReportParts'
<1>1. /\ pc = "patch"
      /\ pc' \in {"unfinalize", "status"}
      /\ UNCHANGED <<workload, found, read>>
      /\ obj' = obj \/ obj' = MarkProjected(obj, "False")
  BY DEF Manage, AfterSequence
<1>2. obj.projected # "True"
  BY <1>1 DEF ReportInv, ReportComesLast
<1>3. MarkProjected(obj, "False").projected = "False"
  BY StatusWrites DEF ReportInv, GuardInv, TypeOK
<1>. QED
  BY <1>1, <1>2, <1>3, SilentReports

\* All workloads are managed: success is reported of what they show.
LEMMA PatchDoneReports ==
  ASSUME ReportInv, PatchDone
  PROVE  ReportParts'
<1>0. obj \in ServiceBinding
  BY DEF ReportInv, GuardInv, TypeOK
<1>1. /\ pc = "patch" /\ todo = {} /\ pc' = AfterSequence
      /\ UNCHANGED <<workload, cur, found, read>>
      /\ \E c : obj' = MarkProjected(obj, c)
  BY DEF PatchDone, Goto, apiVars, stashVars
<1>2. obj'.binding = obj.binding /\ obj'.phase = obj.phase
  BY <1>0, <1>1, StatusWrites
<1>3. CASE IsDeleting
  BY <1>1, <1>2, <1>3, SilentReports DEF AfterSequence, IsDeleting
<1>4. CASE ~IsDeleting
  <2>1. pc' = "status"
    BY <1>1, <1>4 DEF AfterSequence
  <2>2. \A w \in found : Untouched(w) => workload[w].proj[cur] = obj.binding
    BY <1>1, <1>4 DEF ReportInv, StashIsKept
  <2>3. ResolvedShowsBinding'
    BY <1>1, <1>2, <2>2 DEF ResolvedShowsBinding, Untouched
  <2>4. ReportComesLast' /\ StashIsKept'
    BY <1>1, <2>1 DEF ReportInv, ReportComesLast, StashIsKept
  <2>. QED
    BY <2>3, <2>4 DEF ReportParts
<1>. QED
  BY <1>3, <1>4

\* The invariant is inductive.
LEMMA NextReportInv == ReportInv /\ [Next]_vars => ReportInv'
<1>. SUFFICES ASSUME ReportInv, [Next]_vars PROVE ReportInv'
  OBVIOUS
<1>0. GuardInv /\ TypeOK
  BY DEF ReportInv, GuardInv
<1>1. GuardInv' /\ TypeOK'
  BY <1>0, NextGuardInv DEF GuardInv
<1>. SUFFICES ReportParts'
  BY <1>1 DEF ReportInv, ReportParts
<1>2. ASSUME UNCHANGED workload, NEW w \in Workloads PROVE Kept(w)
  <2>1. workload[w].rev \in Nat
    BY <1>0 DEF TypeOK, Workload
  <2>. QED
    BY <1>2, <2>1 DEF Kept
<1>3. CASE WorkerRests /\ UNCHANGED workload
  BY <1>1, <1>2, <1>3, RestReports
<1>4. CASE UNCHANGED vars
  BY <1>3, <1>4 DEF vars, apiVars, WorkerRests
<1>5. CASE User
  <2>1. WorkerRests
    BY <1>5 DEF WorkerRests, User, CreateBinding, DeleteBinding, RetargetBinding, CreateWorkload,
           DeleteWorkload, EditWorkload, ReplaceWorkload, RelabelWorkload, ChangeService,
           ChangeAccess, UserStep
  <2>. QED
    BY <1>0, <1>1, <1>5, <2>1, UserKeeps, RestReports
<1>6. CASE OnlyEnqueues \/ \E b \in Bindings : SyncCache(b)
  BY <1>3, <1>6 DEF OnlyEnqueues, SyncCache, apiVars, WorkerRests
<1>7. CASE ForgetRequest
  BY <1>7, EarlyReports DEF ForgetRequest, ForgetStash
<1>8. CASE CallFails
  <2>1. ForgetRequest \/ (Calling /\ Abort /\ UNCHANGED <<apiVars, obj, stashVars>>)
    BY <1>8 DEF CallFails
  <2>2. ASSUME Calling, Abort, UNCHANGED <<apiVars, obj, stashVars>> PROVE ReportParts'
    <3>1. pc' = "status" /\ UNCHANGED <<workload, found, read, obj>>
      BY <2>2 DEF Abort, apiVars, stashVars
    <3>2. \/ pc \in {"finalizer", "secret", "workloads", "project", "patch"}
          \/ pc = "unfinalize"
      BY <2>2 DEF Calling
    <3>3. obj.projected # "True" \/ obj.phase = "deleting"
      BY <1>0, <3>2 DEF ReportInv, ReportComesLast, GuardInv, CopyIsOlder, IsDeleting
    <3>. QED
      BY <3>1, <3>3, SilentReports
  <2>. QED
    BY <1>7, <2>1, <2>2
<1>9. ASSUME NEW b \in Bindings, Take(b) PROVE ReportParts'
  <2>1. CASE UNCHANGED workerVars
    BY <1>3, <1>9, <2>1 DEF Take, apiVars, WorkerRests
  <2>2. CASE ~UNCHANGED workerVars
    <3>1. /\ pc = "idle"
          /\ found' = found
          /\ obj' = InitializeConditions(cache[b])
          /\ pc' \in {"finalizer", "secret", "workloads"}
      BY <1>9, <2>2 DEF Take, FirstStep, stashVars
    <3>2. found = {}
      BY <3>1 DEF ReportInv, ReportComesLast
    <3>3. obj'.projected = "Initializing"
      BY <1>0, <3>1, StatusWrites DEF TypeOK
    <3>. QED
      BY <3>1, <3>2, <3>3, EarlyReports
  <2>. QED
    BY <2>1, <2>2
<1>10. CASE ClearFinalizer
  <2>1. pc' = "status" /\ UNCHANGED <<workload, found, read, obj>> /\ obj.phase = "deleting"
    BY <1>0, <1>10 DEF ClearFinalizer, Goto, Abort, stashVars, GuardInv, CopyIsOlder, IsDeleting
  <2>. QED
    BY <2>1, SilentReports
<1>11. ASSUME NEW w \in Workloads, Manage(w) PROVE ReportParts'
  <2>1. Outcome(w) \in {"equal", "notFound", "updated"} \/ Outcome(w) \in {"forbidden", "conflict"}
    BY DEF Outcome
  <2>. QED
    BY <1>11, <2>1, ManagedReports, UnmanagedReports
<1>12. CASE Step
  BY <1>7, <1>10, <1>11, <1>12, ResolutionReports, ProjectReports, PatchDoneReports
     DEF Step, UpdateStatus
<1>. QED
  BY <1>4, <1>5, <1>6, <1>7, <1>8, <1>9, <1>12, NextCases DEF Crash

\* Success, when it is reported last, was not had over a failure.  A step that
\* fails ends the reconciliation; a failed resolution asks for another attempt and
\* has marked the condition, which is then not "Initializing" any more.
FailureIsMarked ==
  /\ pc # "status" => ~failed
  /\ pc \in {"idle", "finalizer", "secret", "workloads"} => ~requeue
  /\ pc \in {"project", "patch"} /\ obj.projected = "Initializing" =>
       ~requeue /\ \A w \in Workloads : w = obj.ref => w \in found
  /\ pc \in {"finalizer", "secret", "workloads", "project", "patch"} => obj.projected # "True"
  /\ pc = "unfinalize" => IsDeleting
  /\ obj.available = "True" => obj.binding \in Secrets

EarnedInv == TypeOK /\ FailureIsMarked /\ SuccessIsEarned

\* What else the worker's writes to its copy leave of the binding.
LEMMA ConditionWrites ==
  ASSUME NEW o \in ServiceBinding, NEW c, NEW s
  PROVE  /\ InitializeConditions(o).available = "Initializing"
         /\ Finalized(o).available = o.available /\ Finalized(o).binding = o.binding
         /\ MarkAvailable(o, c).available = c
         /\ Resolved(o, c, s).available = c /\ Resolved(o, c, s).binding = s
         /\ MarkProjected(o, c).available = o.available /\ MarkProjected(o, c).ref = o.ref
PROOF BY DEF ServiceBinding, InitializeConditions, Finalized, MarkAvailable, Resolved, MarkProjected

\* A reconciliation that starts, or goes on before the workloads are resolved.
LEMMA EarlyEarned ==
  ASSUME EarnedInv, pc' \in {"finalizer", "secret", "workloads"}, ~failed', ~requeue',
         obj'.projected # "True", obj'.available = "True" => obj'.binding \in Secrets
  PROVE  FailureIsMarked' /\ SuccessIsEarned'
PROOF BY DEF FailureIsMarked, SuccessIsEarned

\* A reconciliation that fails, or that finalizes, does not report success.
LEMMA SilentEarned ==
  ASSUME EarnedInv, pc' = "status" \/ (pc' = "unfinalize" /\ ~failed' /\ obj'.phase = "deleting"),
         obj'.projected # "True" \/ obj'.phase = "deleting",
         obj'.available = "True" => obj'.binding \in Secrets
  PROVE  FailureIsMarked' /\ SuccessIsEarned'
PROOF BY DEF FailureIsMarked, SuccessIsEarned, IsDeleting

\* The worker stands still, or forgets the request.
LEMMA RestEarned ==
  ASSUME EarnedInv, UNCHANGED workerVars \/ ForgetRequest
  PROVE  FailureIsMarked' /\ SuccessIsEarned'
<1>1. CASE UNCHANGED workerVars
  BY <1>1 DEF workerVars, stashVars, EarnedInv, FailureIsMarked, SuccessIsEarned, IsDeleting, Ready
<1>2. CASE ForgetRequest
  BY <1>2 DEF ForgetRequest, NeverCreated, FailureIsMarked, SuccessIsEarned
<1>. QED
  BY <1>1, <1>2

\* The steps up to the resolution of the workloads.
LEMMA ResolutionEarned ==
  ASSUME EarnedInv, AddFinalizer \/ ResolveBindingSecret \/ ResolveWorkloads
  PROVE  FailureIsMarked' /\ SuccessIsEarned'
<1>0. /\ obj \in ServiceBinding
      /\ obj.available = "True" => obj.binding \in Secrets
      /\ pc \in {"finalizer", "secret", "workloads"} =>
           ~failed /\ ~requeue /\ obj.projected # "True"
  BY DEF EarnedInv, TypeOK, FailureIsMarked
<1>1. CASE AddFinalizer
  <2>1. CASE Current
    BY <1>0, <1>1, <2>1, StatusWrites, ConditionWrites, EarlyEarned DEF AddFinalizer, Goto
  <2>2. CASE ~Current
    BY <1>0, <1>1, <2>2, SilentEarned DEF AddFinalizer, Abort
  <2>. QED
    BY <2>1, <2>2
<1>2. CASE ResolveBindingSecret
  <2>1. pc = "secret" /\ pc' = "workloads" /\ ~failed' /\ ~requeue'
    BY <1>0, <1>2 DEF ResolveBindingSecret, Goto
  <2>2. \/ \E c \in {"False", "Unknown"} : obj' = MarkAvailable(obj, c)
        \/ \E c \in {"False", "Unknown"} : obj' = Resolved(obj, c, NoSecret)
        \/ service[cur] \in Secrets /\ obj' = Resolved(obj, "True", service[cur])
    BY <1>2 DEF ResolveBindingSecret
  <2>3. obj'.projected = obj.projected
    BY <1>0, <2>2, StatusWrites
  <2>4. obj'.available = "True" => obj'.binding \in Secrets
    BY <1>0, <2>2, ConditionWrites
  <2>. QED
    BY <1>0, <2>1, <2>3, <2>4, EarlyEarned
<1>3. CASE ResolveWorkloads
  <2>1. pc = "workloads" /\ pc' = "project" /\ ~failed'
    BY <1>0, <1>3 DEF ResolveWorkloads, Goto
  <2>2. CASE "readWorkload" \notin allowed \/ (obj.ref # Selector /\ {w \in Workloads : Matches(w, obj.ref)} = {})
    <3>1. \E c \in {"False", "Unknown"} : obj' = MarkProjected(obj, c)
      BY <1>3, <2>2 DEF ResolveWorkloads
    <3>2. obj'.projected \in {"False", "Unknown"}
      BY <1>0, <3>1, StatusWrites
    <3>3. obj'.available = "True" => obj'.binding \in Secrets
      BY <1>0, <3>1, StatusWrites, ConditionWrites
    <3>. QED
      BY <2>1, <3>2, <3>3 DEF FailureIsMarked, SuccessIsEarned
  <2>3. CASE ~("readWorkload" \notin allowed \/ (obj.ref # Selector /\ {w \in Workloads : Matches(w, obj.ref)} = {}))
    <3>1. /\ found' = {w \in Workloads : Matches(w, obj.ref)}
          /\ obj' = obj
          /\ requeue' = requeue
      BY <1>3, <2>3 DEF ResolveWorkloads
    <3>2. ASSUME NEW w \in Workloads, w = obj.ref PROVE w \in found'
      <4>1. obj.ref # Selector
        BY <3>2, ConstantsAssumption
      <4>2. PICK v \in Workloads : Matches(v, obj.ref)
        BY <2>3, <4>1
      <4>3. v = obj.ref
        BY <4>1, <4>2 DEF Matches, Refers
      <4>. QED
        BY <3>1, <3>2, <4>2, <4>3
    <3>. QED
      BY <1>0, <2>1, <3>1, <3>2 DEF FailureIsMarked, SuccessIsEarned
  <2>. QED
    BY <2>2, <2>3
<1>. QED
  BY <1>1, <1>2, <1>3

\* The steps that write the workloads: one that fails or is forbidden ends them.
LEMMA ManageEarned ==
  ASSUME EarnedInv, NEW v \in Workloads, Manage(v)
  PROVE  FailureIsMarked' /\ SuccessIsEarned'
<1>0. /\ pc = "patch" /\ ~failed
      /\ obj \in ServiceBinding
      /\ obj.projected # "True"
      /\ obj.available = "True" => obj.binding \in Secrets
      /\ UNCHANGED <<found, requeue>>
  BY DEF EarnedInv, TypeOK, FailureIsMarked, Manage
<1>1. CASE UNCHANGED <<obj, pc, failed>>
  BY <1>0, <1>1 DEF EarnedInv, FailureIsMarked, SuccessIsEarned
<1>2. CASE obj' = MarkProjected(obj, "False") /\ pc' = AfterSequence /\ failed' = failed
  <2>1. /\ obj'.projected = "False" /\ obj'.phase = obj.phase
        /\ obj'.available = "True" => obj'.binding \in Secrets
    BY <1>0, <1>2, StatusWrites, ConditionWrites
  <2>. QED
    BY <1>0, <1>2, <2>1, SilentEarned DEF AfterSequence, IsDeleting
<1>3. CASE pc' = "status" /\ obj' = obj
  BY <1>0, <1>3, SilentEarned
<1>. QED
  BY <1>1, <1>2, <1>3 DEF Manage

\* All workloads are managed.
LEMMA PatchDoneEarned ==
  ASSUME EarnedInv, PatchDone
  PROVE  FailureIsMarked' /\ SuccessIsEarned'
<1>0. /\ pc = "patch" /\ ~failed /\ ~failed'
      /\ obj \in ServiceBinding
      /\ obj.projected # "True"
      /\ obj.available = "True" => obj.binding \in Secrets
      /\ UNCHANGED <<found, requeue>>
      /\ pc' = AfterSequence
  BY DEF EarnedInv, TypeOK, FailureIsMarked, PatchDone, Goto, stashVars
<1>1. \/ obj.projected = "Initializing" /\ obj' = MarkProjected(obj, "True")
      \/ obj' = MarkProjected(obj, obj.projected)
  BY DEF PatchDone
<1>2. /\ obj'.phase = obj.phase /\ obj'.ref = obj.ref
      /\ obj'.available = "True" => obj'.binding \in Secrets
      /\ obj.projected = "Initializing" \/ obj'.projected # "True"
  BY <1>0, <1>1, StatusWrites, ConditionWrites
<1>3. CASE IsDeleting \/ obj'.projected # "True"
  BY <1>0, <1>2, <1>3, SilentEarned DEF AfterSequence, IsDeleting
<1>4. CASE ~IsDeleting /\ obj.projected = "Initializing"
  <2>1. ~requeue /\ \A w \in Workloads : w = obj.ref => w \in found
    BY <1>0, <1>4 DEF EarnedInv, FailureIsMarked
  <2>2. pc' = "status"
    BY <1>0, <1>4 DEF AfterSequence
  <2>. QED
    BY <1>0, <1>2, <2>1, <2>2 DEF FailureIsMarked, SuccessIsEarned, Ready
<1>. QED
  BY <1>2, <1>3, <1>4

\* The invariant is inductive.
LEMMA NextEarnedInv == EarnedInv /\ [Next]_vars => EarnedInv'
<1>. SUFFICES ASSUME EarnedInv, [Next]_vars PROVE EarnedInv'
  OBVIOUS
<1>0. TypeOK /\ TypeOK'
  BY NextTypeOK DEF EarnedInv
<1>. SUFFICES FailureIsMarked' /\ SuccessIsEarned'
  BY <1>0 DEF EarnedInv
<1>1. CASE UNCHANGED workerVars \/ ForgetRequest
  BY <1>1, RestEarned
<1>2. CASE UNCHANGED vars
  BY <1>1, <1>2 DEF vars
<1>3. CASE User
  BY <1>1, <1>3 DEF User, CreateBinding, DeleteBinding, RetargetBinding, CreateWorkload,
         DeleteWorkload, EditWorkload, ReplaceWorkload, RelabelWorkload, ChangeService,
         ChangeAccess, UserStep
<1>4. CASE OnlyEnqueues \/ Crash \/ \E b \in Bindings : SyncCache(b)
  BY <1>1, <1>4 DEF OnlyEnqueues, SyncCache, Crash
<1>5. CASE CallFails
  <2>1. ForgetRequest \/ (Calling /\ Abort /\ obj' = obj)
    BY <1>5 DEF CallFails
  <2>2. ASSUME Calling, Abort, obj' = obj PROVE FailureIsMarked' /\ SuccessIsEarned'
    <3>1. \/ pc \in {"finalizer", "secret", "workloads", "project", "patch"}
          \/ pc = "unfinalize"
      BY <2>2 DEF Calling
    <3>2. /\ obj.projected # "True" \/ obj.phase = "deleting"
          /\ obj.available = "True" => obj.binding \in Secrets
      BY <3>1 DEF EarnedInv, FailureIsMarked, IsDeleting
    <3>. QED
      BY <2>2, <3>2, SilentEarned DEF Abort
  <2>. QED
    BY <1>1, <2>1, <2>2
<1>6. ASSUME NEW b \in Bindings, Take(b) PROVE FailureIsMarked' /\ SuccessIsEarned'
  <2>1. CASE ~UNCHANGED workerVars
    <3>1. /\ pc = "idle"
          /\ obj' = InitializeConditions(cache[b])
          /\ pc' \in {"finalizer", "secret", "workloads"}
          /\ UNCHANGED <<requeue, failed>>
      BY <1>6, <2>1 DEF Take, FirstStep
    <3>2. obj'.projected = "Initializing" /\ obj'.available = "Initializing"
      BY <1>0, <3>1, StatusWrites, ConditionWrites DEF TypeOK
    <3>3. ~requeue /\ ~failed
      BY <3>1 DEF EarnedInv, FailureIsMarked
    <3>. QED
      BY <3>1, <3>2, <3>3, EarlyEarned
  <2>. QED
    BY <1>1, <2>1
<1>7. CASE ProjectBinding
  <2>1. pc = "project" /\ pc' = "patch" /\ UNCHANGED <<obj, found, requeue, failed>>
    BY <1>7 DEF ProjectBinding, Goto
  <2>. QED
    BY <2>1 DEF EarnedInv, FailureIsMarked, SuccessIsEarned
<1>8. CASE ClearFinalizer
  <2>1. pc' = "status" /\ obj' = obj /\ obj.phase = "deleting"
    BY <1>8 DEF ClearFinalizer, Goto, Abort, EarnedInv, FailureIsMarked, IsDeleting
  <2>2. obj.available = "True" => obj.binding \in Secrets
    BY DEF EarnedInv, FailureIsMarked
  <2>. QED
    BY <2>1, <2>2, SilentEarned
<1>9. CASE Step
  BY <1>1, <1>7, <1>8, <1>9, ResolutionEarned, ManageEarned, PatchDoneEarned DEF Step, UpdateStatus
<1>. QED
  BY <1>2, <1>3, <1>4, <1>5, <1>6, <1>9, NextCases

\* What the reconciler is about to report is there.  Success is reported only when
\* no step failed and the workload the binding names was resolved, Ready only with
\* a secret, and every workload that was resolved shows what is reported, unless
\* the user has changed or deleted it meanwhile: no conflict, error, missing
\* workload or lost permission is passed over in silence (ResolveWorkloads to
\* PatchWorkloads and the conditions).
THEOREM ReportIsTrue == Spec => []ReportedProjectionIsThere
<1>1. Init => ReportInv
  <2>. SUFFICES ASSUME Init PROVE ReportInv
    OBVIOUS
  <2>1. GuardInv
    BY InitGuardInv
  <2>2. ReportComesLast /\ StashIsKept /\ ResolvedShowsBinding
    BY DEF Init, ReportComesLast, StashIsKept, ResolvedShowsBinding
  <2>. QED
    BY <2>1, <2>2 DEF ReportInv
<1>2. Init => EarnedInv
  <2>1. Init => FailureIsMarked /\ SuccessIsEarned
    BY DEF Init, NeverCreated, FailureIsMarked, SuccessIsEarned
  <2>. QED
    BY <2>1, InitTypeOK DEF EarnedInv
<1>3. ReportInv /\ EarnedInv => ReportedProjectionIsThere
  BY DEF ReportInv, EarnedInv, ReportedProjectionIsThere
<1>. QED
  BY <1>1, <1>2, <1>3, NextReportInv, NextEarnedInv, PTL DEF Spec
=============================================================================
