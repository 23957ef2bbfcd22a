--------------------- MODULE ServiceBindingOrphanProofs ---------------------
(***************************************************************************)
(* A binding that is gone leaves no projection behind, as long as the      *)
(* controller keeps its permissions, bindings keep their workload          *)
(* reference and workloads keep their labels.  Each of the three exceptions *)
(* is an early return or a TODO of the code, and breaks the property.      *)
(***************************************************************************)
EXTENDS ServiceBindingControllerProofs

\* What may not happen.
Steady == Events \cap {"rbac", "retarget", "relabel"} = {}

\* A binding that exists keeps its workload reference.
LEMMA ReferenceStays ==
  ASSUME Steady, OrphanInv, Next, NEW b \in Bindings, sb[b].phase # "none"
  PROVE  sb'[b].ref = sb[b].ref
<1>0. sb \in [Bindings -> ServiceBinding] /\ sb[b] \in ServiceBinding /\ obj \in ServiceBinding
  BY DEF OrphanInv, GuardInv, TypeOK
<1>1. ASSUME NEW c \in Bindings, NEW ref \in Workloads \cup {Selector}, CreateBinding(c, ref)
      PROVE  sb'[b].ref = sb[b].ref
  BY <1>0, <1>1 DEF CreateBinding
<1>2. ASSUME NEW c \in Bindings, DeleteBinding(c) PROVE sb'[b].ref = sb[b].ref
  <2>1. Deleted(sb[b]).ref = sb[b].ref
    BY <1>0, BindingWrites
  <2>. QED
    BY <1>0, <1>2, <2>1 DEF DeleteBinding
<1>3. CASE AddFinalizer \/ ClearFinalizer
  <2>1. Finalized(sb[b]).ref = sb[b].ref /\ Released(sb[b]).ref = sb[b].ref
    BY <1>0, BindingWrites
  <2>. QED
    BY <1>0, <1>3, <2>1 DEF AddFinalizer, ClearFinalizer
<1>4. CASE UpdateStatus
  <2>1. SameObject(obj, FinalStatus(obj))
    BY <1>0, CopyWrites DEF MaybeSecret, Conditions
  <2>2. Saved(FinalStatus(obj)).ref = obj.ref
    BY <2>1, BindingWrites DEF SameObject
  <2>3. obj.ref = sb[cur].ref
    BY <1>4 DEF UpdateStatus, OrphanInv, ReferencesAgree
  <2>. QED
    BY <1>0, <1>4, <2>2, <2>3 DEF UpdateStatus
<1>5. User => \/ UNCHANGED sb
              \/ \E c \in Bindings, ref \in Workloads \cup {Selector} : CreateBinding(c, ref)
              \/ \E c \in Bindings : DeleteBinding(c)
  BY DEF Steady, User, RetargetBinding, CreateWorkload, DeleteWorkload, EditWorkload,
         ReplaceWorkload, RelabelWorkload, ChangeService, ChangeAccess
<1>6. Step => UNCHANGED sb \/ AddFinalizer \/ ClearFinalizer \/ UpdateStatus
  BY DEF Step, ResolveBindingSecret, ResolveWorkloads, ProjectBinding, Manage, PatchDone, apiVars
<1>7. (\E c \in Bindings : SyncCache(c) \/ Take(c)) \/ OnlyEnqueues \/ Crash \/ CallFails
        => UNCHANGED sb
  BY DEF SyncCache, OnlyEnqueues, Take, Crash, CallFails, apiVars
<1>. QED
  BY <1>1, <1>2, <1>3, <1>4, <1>5, <1>6, <1>7, NextCases

\* A binding goes in one of two ways: deleted by a user without the finalizer, or
\* released by the worker at the end of its finalization.
LEMMA GoneStep ==
  ASSUME GuardInv, Next, NEW b \in Bindings, sb'[b].phase = "gone", sb[b].phase # "gone"
  PROVE  /\ UNCHANGED <<workload, cache>>
         /\ \/ ~HasFinalizer(sb[b]) /\ WorkerRests
            \/ b = cur /\ ClearFinalizer
<1>0. sb \in [Bindings -> ServiceBinding] /\ sb[b] \in ServiceBinding /\ obj \in ServiceBinding
  BY DEF GuardInv, TypeOK
<1>1. ASSUME NEW c \in Bindings, NEW ref \in Workloads \cup {Selector},
             CreateBinding(c, ref) \/ RetargetBinding(c, ref)
      PROVE  FALSE
  <2>1. Created(ref).phase = "live" /\ Retargeted(sb[b], ref).phase = sb[b].phase
    BY <1>0, BindingSpecs
  <2>. QED
    BY <1>0, <1>1, <2>1 DEF CreateBinding, RetargetBinding
<1>2. ASSUME NEW c \in Bindings, DeleteBinding(c)
      PROVE  UNCHANGED <<workload, cache>> /\ ~HasFinalizer(sb[b]) /\ WorkerRests
  <2>1. Deleted(sb[b]).phase = IF HasFinalizer(sb[b]) THEN "deleting" ELSE "gone"
    BY <1>0, BindingWrites
  <2>2. ~HasFinalizer(sb[b])
    BY <1>0, <1>2, <2>1 DEF DeleteBinding
  <2>. QED
    BY <1>2, <2>2 DEF DeleteBinding, UserStep, WorkerRests
<1>3. CASE AddFinalizer
  <2>1. Finalized(sb[b]).phase = sb[b].phase
    BY <1>0, BindingWrites
  <2>. QED
    BY <1>0, <1>3, <2>1 DEF AddFinalizer
<1>4. CASE ClearFinalizer
  <2>1. b = cur
    BY <1>0, <1>4 DEF ClearFinalizer
  <2>. QED
    BY <1>4, <2>1 DEF ClearFinalizer
<1>5. ~UpdateStatus
  <2>. SUFFICES ASSUME UpdateStatus PROVE FALSE
    OBVIOUS
  <2>1. SameObject(obj, FinalStatus(obj))
    BY <1>0, CopyWrites DEF MaybeSecret, Conditions
  <2>2. Saved(FinalStatus(obj)).phase = obj.phase
    BY <2>1, BindingWrites DEF SameObject
  <2>3. Exists(obj)
    BY DEF UpdateStatus, GuardInv, CopyIsOlder
  <2>. QED
    BY <1>0, <2>2, <2>3 DEF UpdateStatus, Exists
<1>6. User => \/ UNCHANGED sb
              \/ \E c \in Bindings, ref \in Workloads \cup {Selector} :
                   CreateBinding(c, ref) \/ RetargetBinding(c, ref)
              \/ \E c \in Bindings : DeleteBinding(c)
  BY DEF User, CreateWorkload, DeleteWorkload, EditWorkload, ReplaceWorkload, RelabelWorkload,
         ChangeService, ChangeAccess
<1>7. Step => UNCHANGED sb \/ AddFinalizer \/ ClearFinalizer \/ UpdateStatus
  BY DEF Step, ResolveBindingSecret, ResolveWorkloads, ProjectBinding, Manage, PatchDone, apiVars
<1>8. (\E c \in Bindings : SyncCache(c) \/ Take(c)) \/ OnlyEnqueues \/ Crash \/ CallFails
         => UNCHANGED sb
  BY DEF SyncCache, OnlyEnqueues, Take, Crash, CallFails, apiVars
<1>. QED
  BY <1>1, <1>2, <1>3, <1>4, <1>5, <1>6, <1>7, <1>8, NextCases

\* The cache and the worker's copy follow the life of the binding.
LEMMA NextLifeGoesForward == GuardInv /\ LifeGoesForward /\ Next => LifeGoesForward'
<1>. SUFFICES ASSUME GuardInv, LifeGoesForward, Next PROVE LifeGoesForward'
  OBVIOUS
<1>0. GuardInv /\ TypeOK /\ TypeOK' /\ LifeGoesForward
  BY NextTypeOK DEF GuardInv
<1>1. ASSUME NEW b \in Bindings
      PROVE  cache'[b] = cache[b] \/ (cache'[b] = sb[b] /\ sb'[b] = sb[b])
  BY <1>0, CacheStep
<1>2. ASSUME NEW b \in Bindings
      PROVE  /\ cache'[b].phase = "live" /\ HasFinalizer(cache'[b]) => sb'[b].phase # "gone"
             /\ cache'[b].phase = "deleting" => sb'[b].phase \in {"deleting", "gone"}
             /\ cache'[b].phase = "gone" => sb'[b].phase = "gone"
  <2>1. CASE cache'[b] = sb[b] /\ sb'[b] = sb[b]
    BY <2>1
  <2>2. CASE cache'[b] = cache[b]
    <3>1. /\ cache[b].phase = "live" /\ HasFinalizer(cache[b]) => sb[b].phase # "gone"
          /\ cache[b].phase = "deleting" => sb[b].phase \in {"deleting", "gone"}
          /\ cache[b].phase = "gone" => sb[b].phase = "gone"
      BY <1>0 DEF LifeGoesForward
    <3>2. sb'[b] = sb[b] \/ Advance(sb[b], sb'[b])
      BY <1>0, BindingStep
    <3>3. sb'[b].phase \in Phases
      BY <1>0 DEF TypeOK, ServiceBinding
    <3>4. /\ cache[b].phase = "deleting" => sb'[b].phase \in {"deleting", "gone"}
          /\ cache[b].phase = "gone" => sb'[b].phase = "gone"
      BY <3>1, <3>2, <3>3 DEF Advance, Phases
    <3>5. ASSUME cache[b].phase = "live", HasFinalizer(cache[b]), sb'[b].phase = "gone"
          PROVE  FALSE
      <4>1. sb[b].phase # "gone"
        BY <3>1, <3>5
      <4>2. HasFinalizer(sb[b])
        BY <1>0, <3>5, <4>1 DEF GuardInv, CacheIsOlder
      <4>3. b = cur /\ ClearFinalizer
        BY <1>0, <3>5, <4>1, <4>2, GoneStep
      <4>4. pc = "unfinalize" /\ IsDeleting
        BY <1>0, <4>3 DEF ClearFinalizer, GuardInv, CopyIsOlder
      <4>. QED
        BY <1>0, <3>5, <4>3, <4>4 DEF LifeGoesForward
    <3>. QED
      BY <2>2, <3>4, <3>5
  <2>. QED
    BY <1>1, <2>1, <2>2
<1>3. ASSUME pc # "idle", cur' = cur, SameObject(obj, obj')
      PROVE  /\ obj'.phase = "live" /\ HasFinalizer(obj') => sb'[cur].phase # "gone"
             /\ obj'.phase = "deleting" => cache'[cur].phase \in {"deleting", "gone"}
  <2>1. cur \in Bindings
    BY <1>0, <1>3 DEF TypeOK
  <2>2. obj'.phase = obj.phase /\ obj'.finalizers = obj.finalizers
    BY <1>3 DEF SameObject
  <2>3. /\ obj.phase = "live" /\ HasFinalizer(obj) => sb[cur].phase # "gone"
        /\ obj.phase = "deleting" => cache[cur].phase \in {"deleting", "gone"}
    BY <1>0, <1>3 DEF LifeGoesForward, IsDeleting
  <2>4. obj'.phase = "deleting" => cache'[cur].phase \in {"deleting", "gone"}
    BY <1>0, <1>1, <2>1, <2>2, <2>3 DEF LifeGoesForward
  <2>5. ASSUME obj.phase = "live", HasFinalizer(obj), sb'[cur].phase = "gone" PROVE FALSE
    <3>1. sb[cur].phase # "gone"
      BY <2>3, <2>5
    <3>2. HasFinalizer(sb[cur])
      BY <1>0, <1>3, <2>5, <3>1 DEF GuardInv, CopyIsOlder
    <3>3. ClearFinalizer
      BY <1>0, <2>1, <2>5, <3>1, <3>2, GoneStep
    <3>4. pc = "unfinalize" /\ IsDeleting
      BY <1>0, <3>3 DEF ClearFinalizer, GuardInv, CopyIsOlder
    <3>. QED
      BY <2>5, <3>4 DEF IsDeleting
  <2>. QED
    BY <2>2, <2>4, <2>5 DEF HasFinalizer
<1>4. SameObject(obj, obj)
  BY <1>0 DEF TypeOK, SameObject
<1>5. ASSUME pc' # "idle"
      PROVE  /\ obj'.phase = "live" /\ HasFinalizer(obj') => sb'[cur'].phase # "gone"
             /\ obj'.phase = "deleting" => cache'[cur'].phase \in {"deleting", "gone"}
  <2>1. CASE WorkerRests \/ WorkerAborts
    BY <1>3, <1>4, <1>5, <2>1 DEF WorkerRests, WorkerAborts, Abort, workerVars
  <2>2. ASSUME NEW b \in Bindings, WorkerTakes(b)
        PROVE  /\ obj'.phase = "live" /\ HasFinalizer(obj') => sb'[cur'].phase # "gone"
               /\ obj'.phase = "deleting" => cache'[cur'].phase \in {"deleting", "gone"}
    <3>1. cache[b] \in ServiceBinding /\ NoSecret \in MaybeSecret /\ "True" \in Conditions
      BY <1>0 DEF TypeOK, MaybeSecret, Conditions
    <3>2. SameObject(cache[b], obj') /\ cur' = b /\ sb' = sb
      BY <2>2, <3>1, CopyWrites DEF WorkerTakes, apiVars
    <3>3. cache'[b] = cache[b] \/ cache'[b] = sb[b]
      BY <1>1
    <3>. QED
      BY <1>0, <3>2, <3>3 DEF SameObject, LifeGoesForward, HasFinalizer
  <2>3. CASE Step
    <3>1. CASE pc = "finalizer" /\ Current /\ obj' = Finalized(obj)
      <4>1. AddFinalizer
        BY <2>3, <3>1 DEF Step, ResolveBindingSecret, ResolveWorkloads, ProjectBinding, Manage,
               PatchDone, ClearFinalizer, UpdateStatus
      <4>2. cur \in Bindings /\ sb[cur] \in ServiceBinding /\ obj \in ServiceBinding
        BY <1>0, <3>1 DEF TypeOK
      <4>3. cur' = cur /\ sb'[cur] = Finalized(sb[cur]) /\ cache' = cache
        BY <1>0, <3>1, <4>1, <4>2 DEF AddFinalizer, Goto, TypeOK
      <4>4. Finalized(sb[cur]).phase = sb[cur].phase /\ Finalized(obj).phase = obj.phase
        BY <4>2, BindingWrites
      <4>5. sb[cur].phase # "gone"
        BY <3>1 DEF Current, Exists
      <4>. QED
        BY <1>0, <3>1, <4>3, <4>4, <4>5 DEF LifeGoesForward, IsDeleting
    <3>2. CASE SameObject(obj, obj')
      <4>1. pc # "idle" /\ cur' = cur
        BY <1>5, <2>3 DEF Step, AddFinalizer, ResolveBindingSecret, ResolveWorkloads,
               ProjectBinding, Manage, PatchDone, ClearFinalizer, UpdateStatus, Goto, Abort,
               ForgetRequest
      <4>. QED
        BY <1>3, <3>2, <4>1
    <3>3. CASE pc = "status" /\ obj' = NeverCreated
      BY <3>3 DEF NeverCreated
    <3>. QED
      BY <1>0, <2>3, <3>1, <3>2, <3>3, StepCopy
  <2>4. ~ForgetRequest
    BY <1>5 DEF ForgetRequest
  <2>. QED
    BY <2>1, <2>2, <2>3, <2>4, WorkerStep
<1>. QED
  BY <1>2, <1>5 DEF LifeGoesForward, IsDeleting, HasFinalizer

\* The permissions stay, and so do the workload references.
LEMMA NextReferencesAgree ==
  ASSUME Steady, OrphanInv, Next
  PROVE  allowed' = Permissions /\ ReferencesAgree'
<1>0. GuardInv /\ TypeOK /\ ReferencesAgree /\ allowed = Permissions
  BY DEF OrphanInv, GuardInv
<1>1. allowed' = allowed
  <2>1. User => UNCHANGED allowed
    BY DEF Steady, User, CreateBinding, DeleteBinding, RetargetBinding, CreateWorkload,
           DeleteWorkload, EditWorkload, ReplaceWorkload, RelabelWorkload, ChangeService,
           ChangeAccess
  <2>2. Step => UNCHANGED allowed
    BY DEF Step, AddFinalizer, ResolveBindingSecret, ResolveWorkloads, ProjectBinding, Manage,
           PatchDone, ClearFinalizer, UpdateStatus, apiVars
  <2>3. (\E c \in Bindings : SyncCache(c) \/ Take(c)) \/ OnlyEnqueues \/ Crash \/ CallFails
          => UNCHANGED allowed
    BY DEF SyncCache, OnlyEnqueues, Take, Crash, CallFails, apiVars
  <2>. QED
    BY <2>1, <2>2, <2>3, NextCases
<1>2. ASSUME NEW b \in Bindings, cache'[b].phase # "none" PROVE cache'[b].ref = sb'[b].ref
  <2>1. CASE cache'[b] = sb[b] /\ sb'[b] = sb[b]
    BY <2>1
  <2>2. CASE cache'[b] = cache[b]
    <3>1. sb[b].phase # "none"
      BY <1>0, <1>2, <2>2 DEF GuardInv, CacheIsOlder, NeverCreated
    <3>. QED
      BY <1>0, <1>2, <2>2, <3>1, ReferenceStays DEF ReferencesAgree
  <2>. QED
    BY <1>0, <2>1, <2>2, CacheStep
<1>3. ASSUME pc # "idle", cur' = cur, obj'.ref = obj.ref PROVE obj'.ref = sb'[cur'].ref
  <2>1. cur \in Bindings /\ sb[cur].phase # "none"
    BY <1>0, <1>3 DEF TypeOK, GuardInv, CacheIsOlder
  <2>. QED
    BY <1>0, <1>3, <2>1, ReferenceStays DEF ReferencesAgree
<1>4. ASSUME pc' # "idle" PROVE obj'.ref = sb'[cur'].ref
  <2>1. CASE WorkerRests \/ WorkerAborts
    BY <1>3, <1>4, <2>1 DEF WorkerRests, WorkerAborts, Abort, workerVars
  <2>2. ASSUME NEW b \in Bindings, WorkerTakes(b) PROVE obj'.ref = sb'[cur'].ref
    <3>1. cache[b] \in ServiceBinding /\ NoSecret \in MaybeSecret /\ "True" \in Conditions
      BY <1>0 DEF TypeOK, MaybeSecret, Conditions
    <3>2. SameObject(cache[b], obj') /\ cur' = b /\ sb' = sb /\ cache[b].phase # "none"
      BY <2>2, <3>1, CopyWrites DEF WorkerTakes, apiVars, Exists
    <3>. QED
      BY <1>0, <3>2 DEF SameObject, ReferencesAgree
  <2>3. CASE Step
    <3>1. pc # "idle" /\ cur' = cur /\ ~UpdateStatus
      BY <1>4, <2>3 DEF Step, AddFinalizer, ResolveBindingSecret, ResolveWorkloads,
             ProjectBinding, Manage, PatchDone, ClearFinalizer, UpdateStatus, Goto, Abort,
             ForgetRequest
    <3>2. pc # "status"
      BY <2>3, <3>1 DEF Step, AddFinalizer, ResolveBindingSecret, ResolveWorkloads,
             ProjectBinding, Manage, PatchDone, ClearFinalizer
    <3>3. Finalized(obj).ref = obj.ref
      BY <1>0, BindingWrites DEF TypeOK
    <3>4. obj'.ref = obj.ref
      BY <1>0, <2>3, <3>2, <3>3, StepCopy DEF SameObject
    <3>. QED
      BY <1>3, <3>1, <3>4
  <2>4. ~ForgetRequest
    BY <1>4 DEF ForgetRequest
  <2>. QED
    BY <2>1, <2>2, <2>3, <2>4, WorkerStep
<1>. QED
  BY <1>0, <1>1, <1>2, <1>4 DEF ReferencesAgree

\* A workload that still shows a binding after a step was not written by it,
\* was edited by a user, or was written by PatchWorkloads; in each case it is as
\* much referred to as before.
LEMMA StillProjected ==
  ASSUME Steady, OrphanInv, Next, NEW w \in Workloads, NEW b \in Bindings,
         workload'[w].proj[b] # NoSecret
  PROVE  \/ /\ workload'[w].proj[b] = workload[w].proj[b]
            /\ workload'[w].phase = workload[w].phase
            /\ workload'[w].labels = workload[w].labels
         \/ /\ b = cur
            /\ pc = "patch"
            /\ ~IsDeleting
            /\ workload[w] = read[w]
            /\ w \in found
            /\ workload'[w].phase = workload[w].phase
            /\ workload'[w].labels = workload[w].labels
<1>0. /\ GuardInv
      /\ workload \in [Workloads -> Workload]
      /\ workload[w] \in Workload
      /\ workload[w].proj \in [Bindings -> MaybeSecret]
  BY DEF OrphanInv, GuardInv, TypeOK, Workload
<1>1. NoProjection[b] = NoSecret
  BY DEF NoProjection
<1>2. ASSUME NEW v \in Workloads, NEW l \in SUBSET {Label}, CreateWorkload(v, l)
      PROVE  workload'[w] = workload[w]
  BY <1>0, <1>1, <1>2, WorkloadWrites DEF CreateWorkload
<1>3. ASSUME NEW v \in Workloads, DeleteWorkload(v) \/ EditWorkload(v) \/ ReplaceWorkload(v)
      PROVE  /\ workload'[w].proj[b] = workload[w].proj[b]
             /\ workload'[w].phase = workload[w].phase
             /\ workload'[w].labels = workload[w].labels
  <2>1. workload'[w] \in {workload[w], Removed(workload[w]), Edited(workload[w]),
                          Replaced(workload[w])}
    BY <1>0, <1>3 DEF DeleteWorkload, EditWorkload, ReplaceWorkload
  <2>2. ASSUME NEW l \in SUBSET {Label}
        PROVE  /\ Removed(workload[w]).proj = NoProjection
               /\ Replaced(workload[w]).proj = NoProjection
               /\ Edited(workload[w]).proj = workload[w].proj
               /\ Edited(workload[w]).phase = workload[w].phase
               /\ Edited(workload[w]).labels = workload[w].labels
    BY <1>0, <2>2, WorkloadWrites
  <2>3. {} \in SUBSET {Label}
    OBVIOUS
  <2>. QED
    BY <1>1, <2>1, <2>2, <2>3
<1>4. ASSUME NEW v \in Workloads, Manage(v), workload'[w] # workload[w]
      PROVE  \/ /\ workload'[w].proj[b] = workload[w].proj[b]
                /\ workload'[w].phase = workload[w].phase
                /\ workload'[w].labels = workload[w].labels
             \/ /\ b = cur
                /\ pc = "patch"
                /\ ~IsDeleting
                /\ workload[w] = read[w]
                /\ w \in found
                /\ workload'[w].phase = workload[w].phase
                /\ workload'[w].labels = workload[w].labels
  <2>1. pc = "patch" /\ w \in todo /\ edits' = edits
    BY <1>0, <1>4 DEF Manage, boundVars
  <2>2. /\ cur \in Bindings
        /\ workload[w] = read[w]
        /\ workload'[w] = Written(Desired(w), workload[w].rv)
    BY <1>0, <1>4, <2>1, WorkloadStep
  <2>3. /\ w \in found
        /\ obj.binding \in MaybeSecret
        /\ NoSecret \in MaybeSecret
        /\ workload[w].rv \in Nat
    BY <1>0, <2>1 DEF GuardInv, StashIsProjected, TypeOK, ServiceBinding, MaybeSecret, Workload
  <2>4. PICK s \in MaybeSecret : /\ Desired(w) = WithProjection(workload[w], cur, s)
                                 /\ IsDeleting => s = NoSecret
    BY <2>2, <2>3 DEF Desired
  <2>5. /\ Desired(w) \in Workload
        /\ Desired(w).phase = workload[w].phase
        /\ Desired(w).labels = workload[w].labels
        /\ Desired(w).proj = [workload[w].proj EXCEPT ![cur] = s]
    BY <1>0, <2>2, <2>3, <2>4, ProjectionWrites
  <2>6. /\ workload'[w].phase = Desired(w).phase
        /\ workload'[w].labels = Desired(w).labels
        /\ workload'[w].proj = Desired(w).proj
    BY <2>2, <2>3, <2>5, ProjectionWrites
  <2>. QED
    BY <1>0, <2>1, <2>2, <2>3, <2>4, <2>5, <2>6
<1>5. User => \/ UNCHANGED workload
              \/ \E v \in Workloads, l \in SUBSET {Label} : CreateWorkload(v, l)
              \/ \E v \in Workloads : DeleteWorkload(v) \/ EditWorkload(v) \/ ReplaceWorkload(v)
  BY DEF Steady, User, CreateBinding, DeleteBinding, RetargetBinding, RelabelWorkload,
         ChangeService, ChangeAccess
<1>6. Step => UNCHANGED workload \/ \E v \in Workloads : Manage(v)
  BY DEF Step, AddFinalizer, ResolveBindingSecret, ResolveWorkloads, ProjectBinding, PatchDone,
         ClearFinalizer, UpdateStatus, apiVars
<1>7. (\E c \in Bindings : SyncCache(c) \/ Take(c)) \/ OnlyEnqueues \/ Crash \/ CallFails
        => UNCHANGED workload
  BY DEF SyncCache, OnlyEnqueues, Take, Crash, CallFails, apiVars
<1>. QED
  BY <1>2, <1>3, <1>4, <1>5, <1>6, <1>7, NextCases

\* A binding whose finalizer is or was stored has been created.
LEMMA ProjectedWasCreated ==
  ASSUME GuardInv, NEW b \in Bindings, NEW w \in Workloads, workload[w].proj[b] # NoSecret
  PROVE  sb[b].phase # "none"
PROOF BY DEF GuardInv, FinalizerGuardsProjection, CacheIsOlder, NeverCreated, HasFinalizer

\* Only referenced workloads are projected into.
LEMMA NextProjectedIsReferenced ==
  ASSUME Steady, OrphanInv, Next
  PROVE  ProjectedIsReferenced'
<1>. SUFFICES ASSUME NEW b \in Bindings, NEW w \in Workloads, workload'[w].proj[b] # NoSecret
              PROVE  Refers(sb'[b].ref, w, workload'[w])
  BY DEF ProjectedIsReferenced, Matches, Refers, Exists
<1>0. GuardInv /\ TypeOK
  BY DEF OrphanInv, GuardInv
<1>1. Refers(sb[b].ref, w, workload[w])
      /\ workload'[w].phase = workload[w].phase
      /\ workload'[w].labels = workload[w].labels
      /\ sb[b].phase # "none"
  <2>1. CASE /\ workload'[w].proj[b] = workload[w].proj[b]
             /\ workload'[w].phase = workload[w].phase
             /\ workload'[w].labels = workload[w].labels
    <3>1. sb[b].phase # "none"
      BY <1>0, <2>1, ProjectedWasCreated
    <3>2. Refers(sb[b].ref, w, workload[w])
      BY <2>1 DEF OrphanInv, ProjectedIsReferenced, Matches
    <3>. QED
      BY <2>1, <3>1, <3>2
  <2>2. CASE /\ b = cur
             /\ pc = "patch"
             /\ workload[w] = read[w]
             /\ w \in found
             /\ workload'[w].phase = workload[w].phase
             /\ workload'[w].labels = workload[w].labels
    <3>1. Refers(obj.ref, w, workload[w]) /\ obj.ref = sb[b].ref
      BY <2>2 DEF OrphanInv, StashIsReferenced, ReferencesAgree
    <3>2. sb[b].phase # "none"
      BY <1>0, <2>2 DEF GuardInv, CacheIsOlder
    <3>. QED
      BY <2>2, <3>1, <3>2
  <2>. QED
    BY <2>1, <2>2, StillProjected
<1>2. sb'[b].ref = sb[b].ref
  BY <1>1, ReferenceStays
<1>. QED
  BY <1>1, <1>2 DEF Refers, Exists

\* Only referenced workloads are stashed.
LEMMA NextStashIsReferenced ==
  ASSUME Steady, OrphanInv, Next
  PROVE  StashIsReferenced'
<1>0. GuardInv /\ TypeOK /\ StashIsReferenced
  BY DEF OrphanInv, GuardInv
<1>1. ASSUME UNCHANGED <<found, read>>, obj'.ref = obj.ref,
             pc' \in {"idle", "finalizer", "secret", "workloads"} =>
               pc \in {"idle", "finalizer", "secret", "workloads"}
      PROVE  StashIsReferenced'
  BY <1>0, <1>1 DEF StashIsReferenced
<1>2. CASE WorkerRests
  BY <1>1, <1>2 DEF WorkerRests, workerVars, stashVars
<1>3. CASE WorkerAborts
  BY <1>1, <1>3 DEF WorkerAborts, Abort, stashVars
<1>4. CASE ForgetRequest
  BY <1>4 DEF ForgetRequest, ForgetStash, StashIsReferenced
<1>5. ASSUME NEW b \in Bindings, WorkerTakes(b) PROVE StashIsReferenced'
  <2>1. found' = {}
    BY <1>0, <1>5 DEF WorkerTakes, StashIsReferenced, stashVars
  <2>. QED
    BY <2>1 DEF StashIsReferenced
<1>6. CASE ResolveWorkloads
  <2>1. pc' = "project"
    BY <1>6 DEF ResolveWorkloads, Goto
  <2>2. CASE found' = {}
    BY <2>2 DEF StashIsReferenced
  <2>3. CASE found' # {}
    <3>1. found = {}
      BY <1>0, <1>6 DEF ResolveWorkloads, StashIsReferenced
    <3>2. /\ obj' = obj
          /\ found' = {w \in Workloads : Matches(w, obj.ref)}
          /\ read' = [w \in Workloads |-> IF w \in found' THEN workload[w] ELSE NotStashed]
      BY <1>6, <2>3, <3>1 DEF ResolveWorkloads
    <3>3. \A w \in found' : Refers(obj'.ref, w, read'[w])
      BY <3>2 DEF Matches
    <3>. QED
      BY <2>1, <3>3 DEF StashIsReferenced
  <2>. QED
    BY <2>2, <2>3
<1>7. CASE Step /\ ~ResolveWorkloads /\ ~UpdateStatus
  <2>1. UNCHANGED <<found, read>>
    BY <1>7 DEF Step, AddFinalizer, ResolveBindingSecret, ProjectBinding, Manage, PatchDone,
           ClearFinalizer, stashVars
  <2>2. pc' \in {"idle", "finalizer", "secret", "workloads"} =>
          pc \in {"idle", "finalizer", "secret", "workloads"}
    BY <1>7 DEF Step, AddFinalizer, ResolveBindingSecret, ProjectBinding, Manage, PatchDone,
           ClearFinalizer, Goto, Abort, AfterSequence
  <2>3. pc # "status"
    BY <1>7 DEF Step, AddFinalizer, ResolveBindingSecret, ProjectBinding, Manage, PatchDone,
           ClearFinalizer
  <2>4. Finalized(obj).ref = obj.ref
    BY <1>0, BindingWrites DEF TypeOK
  <2>5. obj'.ref = obj.ref
    BY <1>0, <1>7, <2>3, <2>4, StepCopy DEF SameObject
  <2>. QED
    BY <1>1, <2>1, <2>2, <2>5
<1>8. UpdateStatus => ForgetRequest
  BY DEF UpdateStatus
<1>. QED
  BY <1>2, <1>3, <1>4, <1>5, <1>6, <1>7, <1>8, WorkerStep

\* The finalization goes from workload to workload and forgets none.
LEMMA NextFinalizationProgress ==
  ASSUME Steady, OrphanInv, Next
  PROVE  FinalizationProgress'
<1>. SUFFICES ASSUME obj'.phase = "deleting", NEW w \in Workloads,
                     workload'[w].proj[cur'] # NoSecret
              PROVE  /\ pc' # "unfinalize"
                     /\ pc' = "project" => w \in found' /\ read'[w].proj[cur'] # NoSecret
                     /\ pc' = "patch" => w \in todo' /\ read'[w].proj[cur'] # NoSecret
  BY DEF FinalizationProgress, IsDeleting
<1>0. GuardInv /\ TypeOK /\ allowed = Permissions
  BY DEF OrphanInv, GuardInv
<1>1. CASE pc' \notin {"unfinalize", "project", "patch"}
  BY <1>1
<1>2. CASE pc' \in {"unfinalize", "project", "patch"}
  <2>1. pc # "idle" /\ cur' = cur
    BY <1>2, WorkerStep DEF WorkerRests, workerVars, ForgetRequest, WorkerAborts, Abort, WorkerTakes,
           FirstStep, Step, AddFinalizer, ResolveBindingSecret, ResolveWorkloads, ProjectBinding,
           Manage, PatchDone, ClearFinalizer, UpdateStatus, Goto
  <2>2. cur \in Bindings
    BY <1>0, <2>1 DEF TypeOK
  <2>3. WorkerRests \/ Step
    BY <1>2, WorkerStep DEF ForgetRequest, WorkerAborts, Abort, WorkerTakes, FirstStep
  <2>4. IsDeleting
    <3>1. WorkerRests => obj' = obj
      BY DEF WorkerRests, workerVars
    <3>2. Step => obj'.phase = obj.phase \/ obj' = NeverCreated
      BY <1>0, StepCopy, BindingWrites DEF TypeOK, SameObject
    <3>. QED
      BY <2>3, <3>1, <3>2 DEF IsDeleting, NeverCreated
  <2>5. workload[w].proj[cur] # NoSecret
    BY <2>1, <2>2, <2>4, StillProjected
  <2>6. /\ pc # "unfinalize"
        /\ pc = "project" => w \in found /\ read[w].proj[cur] # NoSecret
        /\ pc = "patch" => w \in todo /\ read[w].proj[cur] # NoSecret
    BY <2>4, <2>5 DEF OrphanInv, FinalizationProgress
  <2>7. Refers(sb[cur].ref, w, workload[w]) /\ obj.ref = sb[cur].ref
    BY <2>1, <2>2, <2>5 DEF OrphanInv, ProjectedIsReferenced, Matches, ReferencesAgree
  <2>8. CASE WorkerRests
    BY <2>6, <2>8 DEF WorkerRests, workerVars, stashVars
  <2>9. CASE ResolveWorkloads
    <3>1. w \in {v \in Workloads : Matches(v, obj.ref)}
      BY <2>7 DEF Matches
    <3>2. found' = {v \in Workloads : Matches(v, obj.ref)} /\ read'[w] = workload[w]
      BY <1>0, <2>9, <3>1 DEF ResolveWorkloads, Permissions
    <3>3. pc' = "project"
      BY <2>9 DEF ResolveWorkloads, Goto
    <3>. QED
      BY <2>1, <2>5, <3>1, <3>2, <3>3
  <2>10. CASE ProjectBinding
    BY <2>6, <2>10 DEF ProjectBinding, Goto
  <2>11. ASSUME NEW v \in Workloads, Manage(v)
         PROVE  /\ pc' # "unfinalize"
                /\ pc' = "project" => w \in found' /\ read'[w].proj[cur'] # NoSecret
                /\ pc' = "patch" => w \in todo' /\ read'[w].proj[cur'] # NoSecret
    <3>1. /\ pc = "patch"
          /\ UNCHANGED <<found, read, cur>>
          /\ Outcome(v) # "forbidden"
      BY <1>0, <2>11 DEF Manage, Outcome, Permissions
    <3>2. pc' # "unfinalize" /\ pc' # "project"
      BY <2>11, <3>1 DEF Manage
    <3>3. w \in todo /\ read[w].proj[cur] # NoSecret /\ w \in found
      BY <1>0, <2>6, <3>1 DEF GuardInv, StashIsProjected
    <3>4. ASSUME v = w, pc' = "patch" PROVE FALSE
      <4>1. /\ read[w] \in Workload
            /\ workload[w].rv \in Nat
            /\ NoSecret \in MaybeSecret
            /\ read[w].proj \in [Bindings -> MaybeSecret]
        BY <1>0 DEF TypeOK, Workload, MaybeSecret
      <4>2. projected[w] = WithProjection(read[w], cur, NoSecret)
        BY <1>0, <2>4, <3>1, <3>3 DEF GuardInv, StashIsProjected, Desired
      <4>3. projected[w].proj = [read[w].proj EXCEPT ![cur] = NoSecret] /\ projected[w] \in Workload
        BY <2>2, <4>1, <4>2, ProjectionWrites
      <4>4. Outcome(w) # "equal"
        BY <2>2, <3>3, <4>1, <4>3 DEF Outcome
      <4>5. Outcome(w) # "notFound"
        BY <2>7 DEF Outcome, Refers
      <4>6. Outcome(w) # "updated"
        <5>. SUFFICES ASSUME Outcome(w) = "updated" PROVE FALSE
          OBVIOUS
        <5>1. workload'[w] = Written(projected[w], workload[w].rv)
          BY <1>0, <2>11, <3>4 DEF Manage, TypeOK
        <5>2. workload'[w].proj = projected[w].proj
          BY <2>2, <4>1, <4>3, <5>1, ProjectionWrites
        <5>. QED
          BY <2>1, <2>2, <4>1, <4>3, <5>2
      <4>7. Outcome(w) # "conflict"
        BY <2>11, <3>1, <3>4 DEF Manage
      <4>. QED
        BY <2>11, <3>1, <3>4, <4>4, <4>5, <4>6, <4>7 DEF Manage
    <3>5. v # w /\ pc' = "patch" => w \in todo'
      BY <2>11, <3>3 DEF Manage
    <3>. QED
      BY <3>1, <3>2, <3>3, <3>4, <3>5
  <2>12. ~PatchDone
    BY <2>6 DEF PatchDone
  <2>13. Step => ResolveWorkloads \/ ProjectBinding \/ PatchDone \/ \E v \in Workloads : Manage(v)
    BY <1>2 DEF Step, AddFinalizer, ResolveBindingSecret, ClearFinalizer, UpdateStatus, Goto, Abort,
           ForgetRequest
  <2>. QED
    BY <2>3, <2>8, <2>9, <2>10, <2>11, <2>12, <2>13
<1>. QED
  BY <1>1, <1>2

\* A binding that goes, goes from the last step of a finalization.
LEMMA NextNoOrphan ==
  ASSUME Steady, OrphanInv, Next
  PROVE  NoOrphan'
<1>. SUFFICES ASSUME NEW b \in Bindings, NEW w \in Workloads, sb'[b].phase = "gone",
                     workload'[w].proj[b] # NoSecret
              PROVE  FALSE
  BY DEF NoOrphan
<1>0. GuardInv
  BY DEF OrphanInv
<1>1. CASE sb[b].phase = "gone"
  <2>1. workload[w].proj[b] = NoSecret
    BY <1>1 DEF OrphanInv, NoOrphan
  <2>2. b = cur /\ pc = "patch" /\ ~IsDeleting
    BY <2>1, StillProjected
  <2>3. Exists(obj) /\ HasFinalizer(obj)
    BY <1>0, <2>2 DEF GuardInv, CopyIsOlder
  <2>. QED
    BY <1>1, <2>2, <2>3 DEF OrphanInv, LifeGoesForward, IsDeleting, Exists
<1>2. CASE sb[b].phase # "gone"
  <2>1. workload'[w].proj[b] = workload[w].proj[b]
    BY <1>0, <1>2, GoneStep
  <2>2. CASE ~HasFinalizer(sb[b])
    BY <1>0, <1>2, <2>1, <2>2 DEF GuardInv, FinalizerGuardsProjection
  <2>3. CASE b = cur /\ ClearFinalizer
    <3>1. pc = "unfinalize" /\ IsDeleting
      BY <1>0, <2>3 DEF ClearFinalizer, GuardInv, CopyIsOlder
    <3>. QED
      BY <2>1, <2>3, <3>1 DEF OrphanInv, FinalizationProgress
  <2>. QED
    BY <1>0, <1>2, <2>2, <2>3, GoneStep
<1>. QED
  BY <1>1, <1>2

\* The inductive invariant holds initially.
LEMMA InitOrphanInv == Init => OrphanInv
<1>. SUFFICES ASSUME Init PROVE OrphanInv
  OBVIOUS
<1>1. GuardInv
  BY InitGuardInv
<1>2. \A w \in Workloads, b \in Bindings : workload[w].proj[b] = NoSecret
  <2>1. /\ NotStashed.proj = NoProjection
        /\ [NotStashed EXCEPT !.phase = "live", !.rv = 1, !.labels = {Label}].proj = NoProjection
    BY DEF NotStashed
  <2>2. \A w \in Workloads : workload[w].proj = NoProjection
    BY <2>1 DEF Init
  <2>. QED
    BY <2>2 DEF NoProjection
<1>3. \A b \in Bindings : sb[b].phase = "none" /\ cache[b].phase = "none"
  BY DEF Init, NeverCreated
<1>4. pc = "idle" /\ found = {} /\ obj.phase = "none" /\ allowed = Permissions
  BY DEF Init, NeverCreated
<1>5. LifeGoesForward /\ ReferencesAgree
  BY <1>3, <1>4 DEF LifeGoesForward, ReferencesAgree
<1>6. ProjectedIsReferenced /\ NoOrphan
  BY <1>2 DEF ProjectedIsReferenced, NoOrphan
<1>7. StashIsReferenced /\ FinalizationProgress
  BY <1>4 DEF StashIsReferenced, FinalizationProgress, IsDeleting
<1>. QED
  BY <1>1, <1>4, <1>5, <1>6, <1>7 DEF OrphanInv

\* The inductive invariant is preserved, part by part.
LEMMA NextOrphanInv == Steady /\ OrphanInv /\ [Next]_vars => OrphanInv'
<1>. SUFFICES ASSUME Steady, OrphanInv, [Next]_vars PROVE OrphanInv'
  OBVIOUS
<1>1. GuardInv'
  BY NextGuardInv DEF OrphanInv
<1>2. CASE UNCHANGED vars
  <2>1. UNCHANGED <<sb, workload, allowed, cache, pc, cur, obj, found, read, todo>>
    BY <1>2 DEF vars, apiVars, workerVars, stashVars
  <2>2. allowed' = Permissions /\ LifeGoesForward' /\ ReferencesAgree' /\ NoOrphan'
    BY <2>1 DEF OrphanInv, LifeGoesForward, ReferencesAgree, NoOrphan, IsDeleting
  <2>3. ProjectedIsReferenced' /\ StashIsReferenced' /\ FinalizationProgress'
    BY <2>1 DEF OrphanInv, ProjectedIsReferenced, StashIsReferenced, FinalizationProgress, Matches,
           IsDeleting
  <2>. QED
    BY <1>1, <2>2, <2>3 DEF OrphanInv
<1>3. CASE Next
  BY <1>1, <1>3, NextLifeGoesForward, NextReferencesAgree, NextProjectedIsReferenced,
     NextStashIsReferenced, NextFinalizationProgress, NextNoOrphan DEF OrphanInv
<1>. QED
  BY <1>2, <1>3

\* NoOrphan is an invariant of the reconciler when its permissions, the bindings'
\* references and the workloads' labels do not change: finalization in
\* ResolveWorkloads, ProjectBinding and PatchWorkloads takes the projection out of
\* every workload before WithFinalizer lets the binding go, whatever conflicts,
\* errors, restarts, edits and re-creations come in between.
THEOREM NothingLeftBehind ==
  ASSUME Steady
  PROVE  Spec => []NoOrphan
<1>1. OrphanInv => NoOrphan
  BY DEF OrphanInv
<1>2. OrphanInv /\ [Next]_vars => OrphanInv'
  BY NextOrphanInv
<1>. QED
  BY <1>1, <1>2, InitOrphanInv, PTL DEF Spec

=============================================================================
