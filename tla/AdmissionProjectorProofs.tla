---------------------- MODULE AdmissionProjectorProofs ----------------------
(***************************************************************************)
(* The admission projector next to the reconciler: neither of the two      *)
(* shows a binding in a workload before the finalizer of the binding is    *)
(* stored, and the webhook shows none that is gone.                        *)
(*                                                                         *)
(* The webhook knows nothing of finalizers.  What keeps it in order is the *)
(* secret in the status: the reconciler saves one only of a binding that   *)
(* has the finalizer.                                                      *)
(***************************************************************************)
EXTENDS AdmissionProjector, ServiceBindingOrphanProofs

Guarded(b) == HasFinalizer(sb[b]) \/ sb[b].phase = "gone"

\* A version of a binding with a secret in its status has the finalizer.
SecretIsGuarded ==
  /\ \A b \in Bindings :
       /\ sb[b].binding # NoSecret => HasFinalizer(sb[b]) \/ sb[b].phase = "gone"
       /\ cache[b].binding # NoSecret => HasFinalizer(cache[b]) \/ cache[b].phase = "gone"
  /\ pc # "idle" /\ obj.binding # NoSecret => HasFinalizer(obj)

\* What a request that is being admitted is about to write.
AdmittedIsGuarded ==
  /\ request.object \in Workload
  /\ request # NoRequest => request.name \in Workloads
  /\ \A b \in Bindings : request.object.proj[b] # NoSecret => Guarded(b)

AdmissionInv ==
  /\ GuardInv
  /\ LifeGoesForward
  /\ SecretIsGuarded
  /\ AdmittedIsGuarded

----------------------------------------------------------------------------
\* What each write leaves of the secret in the status.
LEMMA SecretWrites ==
  ASSUME NEW o \in ServiceBinding, NEW ref, NEW c, NEW s
  PROVE  /\ Created(ref).binding = NoSecret
         /\ Deleted(o).binding = o.binding
         /\ Retargeted(o, ref).binding = o.binding
         /\ Saved(o).binding = o.binding
         /\ InitializeConditions(o).binding = o.binding
         /\ MarkAvailable(o, c).binding = o.binding
         /\ MarkProjected(o, c).binding = o.binding
         /\ Resolved(o, c, s).binding = s
         /\ FinalStatus(o).binding = o.binding
<1>1. Created(ref).binding = NoSecret
  BY DEF Created, NeverCreated
<1>2. /\ Deleted(o).binding = o.binding
      /\ Retargeted(o, ref).binding = o.binding
      /\ Saved(o).binding = o.binding
  BY DEF ServiceBinding, Deleted, Retargeted, Saved
<1>3. /\ InitializeConditions(o).binding = o.binding
      /\ MarkAvailable(o, c).binding = o.binding
      /\ MarkProjected(o, c).binding = o.binding
      /\ Resolved(o, c, s).binding = s
      /\ FinalStatus(o).binding = o.binding
  BY DEF ServiceBinding, InitializeConditions, MarkAvailable, MarkProjected, Resolved, FinalStatus
<1>. QED
  BY <1>1, <1>2, <1>3

\* Only ResolveBindingSecret changes the secret in the worker's copy.
LEMMA StepSecret ==
  ASSUME TypeOK, Step, pc' # "idle", pc # "secret", obj' # Finalized(obj)
  PROVE  obj'.binding = obj.binding
<1>0. obj \in ServiceBinding
  BY DEF TypeOK
<1>1. \A c : MarkProjected(obj, c).binding = obj.binding
  BY <1>0, SecretWrites
<1>2. obj' = obj \/ \E c : obj' = MarkProjected(obj, c)
  BY DEF Step, AddFinalizer, ResolveBindingSecret, ResolveWorkloads, ProjectBinding, Manage,
         PatchDone, ClearFinalizer, UpdateStatus, ForgetRequest
<1>. QED
  BY <1>1, <1>2

\* The reconciler saves a secret only with the finalizer in hand.
LEMMA NextSecretIsGuarded == GuardInv /\ SecretIsGuarded /\ Next => SecretIsGuarded'
<1>. SUFFICES ASSUME GuardInv, SecretIsGuarded, Next PROVE SecretIsGuarded'
  OBVIOUS
<1>0. /\ TypeOK
      /\ sb \in [Bindings -> ServiceBinding]
      /\ \A b \in Bindings : sb[b] \in ServiceBinding /\ cache[b] \in ServiceBinding
      /\ obj \in ServiceBinding
  BY DEF GuardInv, TypeOK
<1>1. ASSUME NEW b \in Bindings, sb'[b].binding # NoSecret, sb'[b] # sb[b]
      PROVE  HasFinalizer(sb'[b]) \/ sb'[b].phase = "gone"
  <2>. USE DEF HasFinalizer
  <2>0. sb[b].binding # NoSecret => HasFinalizer(sb[b]) \/ sb[b].phase = "gone"
    BY DEF SecretIsGuarded
  <2>1. ASSUME NEW c \in Bindings, NEW ref \in Workloads \cup {Selector}, CreateBinding(c, ref)
        PROVE  FALSE
    BY <1>0, <1>1, <2>1, SecretWrites DEF CreateBinding
  <2>2. ASSUME NEW c \in Bindings, NEW ref \in Workloads \cup {Selector}, RetargetBinding(c, ref)
        PROVE  HasFinalizer(sb'[b]) \/ sb'[b].phase = "gone"
    <3>1. sb'[b] = Retargeted(sb[b], ref)
      BY <1>0, <1>1, <2>2 DEF RetargetBinding
    <3>2. Retargeted(sb[b], ref).binding = sb[b].binding
      BY <1>0, SecretWrites
    <3>3. /\ Retargeted(sb[b], ref).finalizers = sb[b].finalizers
          /\ Retargeted(sb[b], ref).phase = sb[b].phase
      BY <1>0, BindingSpecs
    <3>. QED
      BY <1>1, <2>0, <3>1, <3>2, <3>3
  <2>3. ASSUME NEW c \in Bindings, DeleteBinding(c)
        PROVE  HasFinalizer(sb'[b]) \/ sb'[b].phase = "gone"
    <3>1. sb'[b] = Deleted(sb[b]) /\ sb[b].phase = "live"
      BY <1>0, <1>1, <2>3 DEF DeleteBinding
    <3>2. Deleted(sb[b]).binding = sb[b].binding
      BY <1>0, SecretWrites
    <3>3. Deleted(sb[b]).finalizers = sb[b].finalizers
      BY <1>0, BindingWrites
    <3>. QED
      BY <1>1, <2>0, <3>1, <3>2, <3>3
  <2>4. CASE AddFinalizer
    <3>1. sb'[b] = Finalized(sb[b])
      BY <1>0, <1>1, <2>4 DEF AddFinalizer
    <3>. QED
      BY <1>0, <3>1, BindingWrites
  <2>5. CASE ClearFinalizer
    <3>1. sb'[b] = Released(sb[b])
      BY <1>0, <1>1, <2>5 DEF ClearFinalizer
    <3>. QED
      BY <1>0, <3>1, BindingWrites
  <2>6. CASE UpdateStatus
    <3>1. sb'[b] = Saved(FinalStatus(obj)) /\ pc # "idle"
      BY <1>0, <1>1, <2>6 DEF UpdateStatus
    <3>2. SameObject(obj, FinalStatus(obj)) /\ FinalStatus(obj).binding = obj.binding
      BY <1>0, CopyWrites, SecretWrites DEF MaybeSecret, Conditions
    <3>3. sb'[b].binding = obj.binding /\ sb'[b].finalizers = obj.finalizers
      BY <3>1, <3>2, BindingWrites, SecretWrites DEF SameObject
    <3>. QED
      BY <1>1, <3>1, <3>3 DEF SecretIsGuarded
  <2>7. User => \/ UNCHANGED sb
                \/ \E c \in Bindings, ref \in Workloads \cup {Selector} :
                     CreateBinding(c, ref) \/ RetargetBinding(c, ref)
                \/ \E c \in Bindings : DeleteBinding(c)
    BY DEF User, CreateWorkload, DeleteWorkload, EditWorkload, ReplaceWorkload, RelabelWorkload,
           ChangeService, ChangeAccess
  <2>8. Step => UNCHANGED sb \/ AddFinalizer \/ ClearFinalizer \/ UpdateStatus
    BY DEF Step, ResolveBindingSecret, ResolveWorkloads, ProjectBinding, Manage, PatchDone, apiVars
  <2>9. (\E c \in Bindings : SyncCache(c) \/ Take(c)) \/ OnlyEnqueues \/ Crash \/ CallFails
          => UNCHANGED sb
    BY DEF SyncCache, OnlyEnqueues, Take, Crash, CallFails, apiVars
  <2>. QED
    BY <1>1, <2>1, <2>2, <2>3, <2>4, <2>5, <2>6, <2>7, <2>8, <2>9, NextCases
<1>2. ASSUME NEW b \in Bindings, cache'[b].binding # NoSecret
      PROVE  HasFinalizer(cache'[b]) \/ cache'[b].phase = "gone"
  BY <1>0, <1>2, CacheStep DEF SecretIsGuarded
<1>3. ASSUME pc' # "idle", obj'.binding # NoSecret
      PROVE  HasFinalizer(obj')
  <2>1. CASE WorkerRests \/ WorkerAborts
    BY <1>3, <2>1 DEF WorkerRests, WorkerAborts, workerVars, SecretIsGuarded
  <2>2. ASSUME NEW b \in Bindings, WorkerTakes(b)
        PROVE  HasFinalizer(obj')
    <3>1. obj' = InitializeConditions(cache[b]) /\ Exists(cache[b])
      BY <2>2 DEF WorkerTakes
    <3>2. /\ obj'.binding = cache[b].binding
          /\ obj'.finalizers = cache[b].finalizers
      BY <1>0, <3>1, SecretWrites, CopyWrites DEF SameObject, MaybeSecret, Conditions
    <3>. QED
      BY <1>3, <3>1, <3>2 DEF SecretIsGuarded, HasFinalizer, Exists
  <2>3. CASE Step
    <3>1. CASE obj' = Finalized(obj)
      BY <1>0, <3>1, BindingWrites DEF HasFinalizer
    <3>2. CASE obj' # Finalized(obj)
      <4>1. pc # "idle"
        BY <2>3 DEF Step, AddFinalizer, ResolveBindingSecret, ResolveWorkloads, ProjectBinding,
               Manage, PatchDone, ClearFinalizer, UpdateStatus
      <4>2. HasFinalizer(obj)
        <5>1. CASE pc = "secret"
          BY <5>1 DEF GuardInv, CopyIsOlder
        <5>2. CASE pc # "secret"
          BY <1>0, <1>3, <2>3, <3>2, <4>1, <5>2, StepSecret DEF SecretIsGuarded
        <5>. QED
          BY <5>1, <5>2
      <4>3. obj' # NeverCreated
        BY <1>3 DEF NeverCreated
      <4>4. SameObject(obj, obj')
        BY <1>0, <2>3, <3>2, <4>3, StepCopy
      <4>. QED
        BY <4>2, <4>4 DEF SameObject, HasFinalizer
    <3>. QED
      BY <3>1, <3>2
  <2>4. ~ForgetRequest
    BY <1>3 DEF ForgetRequest
  <2>. QED
    BY <2>1, <2>2, <2>3, <2>4, WorkerStep
<1>4. ASSUME NEW b \in Bindings, sb'[b].binding # NoSecret
      PROVE  HasFinalizer(sb'[b]) \/ sb'[b].phase = "gone"
  BY <1>1, <1>4 DEF SecretIsGuarded
<1>. QED
  BY <1>2, <1>3, <1>4 DEF SecretIsGuarded, HasFinalizer

----------------------------------------------------------------------------
\* What users write shows no more than what is stored.
LEMMA UserWritesAre ==
  ASSUME TypeOK, NEW w \in Workloads, NEW o \in UserWrites(workload[w])
  PROVE  /\ o \in Workload
         /\ o.rv = workload[w].rv + 1
         /\ \A b \in Bindings : o.proj[b] \in {workload[w].proj[b], NoSecret}
<1>0. workload[w] \in Workload /\ {} \in SUBSET {Label}
  BY DEF TypeOK
<1>1. \A b \in Bindings : NoProjection[b] = NoSecret
  BY DEF NoProjection
<1>2. /\ Edited(workload[w]) \in Workload
      /\ Edited(workload[w]).rv = workload[w].rv + 1
      /\ Edited(workload[w]).proj = workload[w].proj
      /\ Replaced(workload[w]) \in Workload
      /\ Replaced(workload[w]).rv = workload[w].rv + 1
      /\ Replaced(workload[w]).proj = NoProjection
      /\ Relabelled(workload[w]) \in Workload
      /\ Relabelled(workload[w]).rv = workload[w].rv + 1
      /\ Relabelled(workload[w]).proj = workload[w].proj
  BY <1>0, WorkloadWrites
<1>3. \A labels \in SUBSET {Label} :
        /\ Recreated(workload[w], labels) \in Workload
        /\ Recreated(workload[w], labels).rv = workload[w].rv + 1
        /\ Recreated(workload[w], labels).proj = NoProjection
  BY <1>0, WorkloadWrites
<1>4. \/ o \in {Edited(workload[w]), Replaced(workload[w]), Relabelled(workload[w])}
      \/ \E labels \in SUBSET {Label} : o = Recreated(workload[w], labels)
  BY DEF UserWrites
<1>. QED
  BY <1>1, <1>2, <1>3, <1>4

\* The webhook adds the bindings that are live in the cache; those that have a
\* secret have the finalizer.
LEMMA InterceptedIs ==
  ASSUME GuardInv, SecretIsGuarded, NEW o \in Workload,
         \A b \in Bindings : o.proj[b] # NoSecret => Guarded(b),
         NEW active, \A b \in active : cache[b].phase = "live"
  PROVE  /\ Intercepted(o, active) \in Workload
         /\ Intercepted(o, active).rv = o.rv
         /\ \A b \in Bindings : Intercepted(o, active).proj[b] # NoSecret => Guarded(b)
<1>. DEFINE proj == [b \in Bindings |-> IF b \in active THEN CachedSecret(b) ELSE o.proj[b]]
<1>1. \A b \in Bindings : CachedSecret(b) \in MaybeSecret /\ o.proj[b] \in MaybeSecret
  BY DEF GuardInv, TypeOK, ServiceBinding, CachedSecret, Workload
<1>2. proj \in [Bindings -> MaybeSecret]
  BY <1>1
<1>3. ASSUME NEW b \in Bindings, proj[b] # NoSecret
      PROVE  Guarded(b)
  <2>1. CASE b \in active
    <3>1. cache[b].binding # NoSecret /\ cache[b].phase = "live"
      BY <1>3, <2>1 DEF CachedSecret
    <3>2. HasFinalizer(cache[b])
      BY <3>1 DEF SecretIsGuarded
    <3>. QED
      BY <3>2 DEF GuardInv, CacheIsOlder, Guarded
  <2>2. CASE b \notin active
    BY <1>3, <2>2
  <2>. QED
    BY <2>1, <2>2
<1>4. Intercepted(o, active) = [o EXCEPT !.proj = proj]
  BY DEF Intercepted
<1>. HIDE DEF proj
<1>5. /\ Intercepted(o, active) \in Workload
      /\ Intercepted(o, active).rv = o.rv
      /\ Intercepted(o, active).proj = proj
  BY <1>2, <1>4 DEF Workload
<1>. QED
  BY <1>3, <1>5

\* A request, or a write to a workload under a new version, that shows nothing
\* unguarded, disturbs nothing else.
LEMMA WriteStep ==
  ASSUME AdmissionInv,
         UNCHANGED <<sb, service, allowed, cache, queue, tracked, pc, cur, orig, obj, found, read,
                     projected, requeue, failed, faults>>,
         todo' \subseteq todo,
         edits' \in 0 .. MaxEdits,
         workload' \in [Workloads -> Workload],
         \A w \in Workloads :
           \/ workload'[w] = workload[w]
           \/ /\ workload'[w].rv = workload[w].rv + 1
              /\ \A b \in Bindings : workload'[w].proj[b] # NoSecret => Guarded(b),
         AdmittedIsGuarded'
  PROVE  AdmissionInv'
<1>0. GuardInv /\ TypeOK
  BY DEF AdmissionInv, GuardInv
<1>1. TypeOK'
  <2>1. ApiTypeOK' /\ InformerTypeOK' /\ TrackerTypeOK'
    BY <1>0 DEF TypeOK, ApiTypeOK, InformerTypeOK, TrackerTypeOK
  <2>2. RequestTypeOK'
    BY <1>0, RequestFrame, TypeParts DEF TypeOKParts
  <2>3. CopyTypeOK' /\ StashTypeOK'
    BY <1>0 DEF TypeOK, CopyTypeOK, StashTypeOK
  <2>4. BoundTypeOK'
    BY <1>0 DEF TypeOK, BoundTypeOK
  <2>. QED
    BY <2>1, <2>2, <2>3, <2>4, TypeParts DEF TypeOKParts
<1>2. CacheIsOlder' /\ CopyIsOlder'
  BY <1>0 DEF GuardInv, CacheIsOlder, CopyIsOlder, IsDeleting
<1>3. StashIsOlder'
  <2>. SUFFICES ASSUME NEW w \in found
                PROVE  /\ read[w].rv <= workload'[w].rv
                       /\ read[w].rv = workload'[w].rv => read[w] = workload'[w]
    BY DEF StashIsOlder
  <2>1. w \in Workloads /\ read[w].rv \in Nat /\ workload[w].rv \in Nat
    BY <1>0 DEF TypeOK, Workload
  <2>2. read[w].rv <= workload[w].rv /\ (read[w].rv = workload[w].rv => read[w] = workload[w])
    BY <1>0 DEF GuardInv, StashIsOlder
  <2>. QED
    BY <2>1, <2>2
<1>4. StashIsProjected'
  <2>1. \A w : Desired(w)' = Desired(w)
    BY DEF Desired, IsDeleting
  <2>. QED
    BY <1>0, <2>1 DEF GuardInv, StashIsProjected
<1>5. FinalizerGuardsProjection'
  BY <1>0 DEF GuardInv, FinalizerGuardsProjection, Guarded
<1>6. LifeGoesForward' /\ SecretIsGuarded'
  BY DEF AdmissionInv, LifeGoesForward, SecretIsGuarded, IsDeleting
<1>. QED
  BY <1>1, <1>2, <1>3, <1>4, <1>5, <1>6 DEF AdmissionInv, GuardInv

\* A request is admitted.
LEMMA AdmitStep ==
  ASSUME AdmissionInv, NEW w \in Workloads, NEW o \in UserWrites(workload[w]),
         Admit(w, o) \/ AdmitUnnamed(w, o)
  PROVE  AdmissionInv'
<1>0. GuardInv /\ SecretIsGuarded /\ TypeOK
  BY DEF AdmissionInv, GuardInv
<1>1. PICK active : /\ \A b \in active : cache[b].phase = "live"
                    /\ request' = [name |-> w, object |-> Intercepted(o, active)]
  BY DEF Admit, AdmitUnnamed, Active, ActiveUnnamed
<1>2. /\ UNCHANGED <<sb, workload, service, allowed, cache, queue, tracked, pc, cur, orig, obj,
                     found, read, projected, todo, requeue, failed, faults>>
      /\ edits < MaxEdits
      /\ edits' = edits + 1
  BY DEF Admit, AdmitUnnamed, UserStep, apiVars, workerVars, stashVars
<1>3. /\ o \in Workload
      /\ \A b \in Bindings : o.proj[b] \in {workload[w].proj[b], NoSecret}
  BY <1>0, UserWritesAre
<1>4. \A b \in Bindings : o.proj[b] # NoSecret => Guarded(b)
  BY <1>0, <1>3 DEF GuardInv, FinalizerGuardsProjection, Guarded
<1>5. /\ Intercepted(o, active) \in Workload
      /\ \A b \in Bindings : Intercepted(o, active).proj[b] # NoSecret => Guarded(b)
  BY <1>0, <1>1, <1>3, <1>4, InterceptedIs
<1>6. AdmittedIsGuarded'
  BY <1>1, <1>2, <1>5 DEF AdmittedIsGuarded, Guarded
<1>7. edits' \in 0 .. MaxEdits
  BY <1>0, <1>2, ConstantsAssumption DEF TypeOK
<1>8. workload' \in [Workloads -> Workload]
  BY <1>0, <1>2 DEF TypeOK
<1>. QED
  BY <1>2, <1>6, <1>7, <1>8, WriteStep

\* It is stored, or refused.
LEMMA FinishStep ==
  ASSUME AdmissionInv, Finish
  PROVE  AdmissionInv'
<1>. DEFINE w == request.name
<1>0. TypeOK /\ AdmittedIsGuarded
  BY DEF AdmissionInv, GuardInv
<1>1. /\ w \in Workloads
      /\ request' = NoRequest
      /\ workload' = IF workload[w].rv + 1 = request.object.rv
                       THEN [workload EXCEPT ![w] = request.object]
                       ELSE workload
      /\ UNCHANGED <<sb, service, allowed, cache, queue, tracked, pc, cur, orig, obj, found, read,
                     projected, todo, requeue, failed, edits, faults>>
  BY <1>0 DEF Finish, AdmittedIsGuarded, workerVars, stashVars, boundVars
<1>2. /\ request.object \in Workload
      /\ \A b \in Bindings : request.object.proj[b] # NoSecret => Guarded(b)
  BY <1>0 DEF AdmittedIsGuarded
<1>. HIDE DEF w
<1>3. workload' \in [Workloads -> Workload]
  BY <1>0, <1>1, <1>2 DEF TypeOK
<1>4. \A v \in Workloads :
        \/ workload'[v] = workload[v]
        \/ /\ workload'[v].rv = workload[v].rv + 1
           /\ \A b \in Bindings : workload'[v].proj[b] # NoSecret => Guarded(b)
  BY <1>0, <1>1, <1>2 DEF TypeOK
<1>5. AdmittedIsGuarded'
  <2>1. NotStashed \in Workload /\ \A b \in Bindings : NotStashed.proj[b] = NoSecret
    BY RecordTypes DEF NotStashed, NoProjection
  <2>2. NoRequest.object = NotStashed
    BY DEF NoRequest
  <2>. QED
    BY <1>1, <2>1, <2>2 DEF AdmittedIsGuarded
<1>6. edits' \in 0 .. MaxEdits
  BY <1>0, <1>1 DEF TypeOK
<1>. QED
  BY <1>1, <1>3, <1>4, <1>5, <1>6, WriteStep

\* The reconciler's own update goes through the webhook.
LEMMA ManageInterceptedStep ==
  ASSUME AdmissionInv, NEW w \in Workloads, ManageIntercepted(w)
  PROVE  AdmissionInv'
<1>. DEFINE o == Intercepted(projected[w], Active(w, projected[w]))
<1>0. GuardInv /\ TypeOK /\ SecretIsGuarded
  BY DEF AdmissionInv, GuardInv
<1>1. /\ pc = "patch"
      /\ w \in todo
      /\ Outcome(w) = "updated"
      /\ workload' = IF o = workload[w]
                       THEN workload
                       ELSE [workload EXCEPT ![w] = Written(o, workload[w].rv)]
      /\ todo' = todo \ {w}
      /\ UNCHANGED <<sb, service, allowed, cache, queue, tracked, pc, cur, orig, obj, found, read,
                     projected, requeue, failed, edits, faults, request>>
  BY DEF ManageIntercepted, boundVars
<1>2. cur \in Bindings /\ w \in found /\ projected[w] = Desired(w)
  BY <1>0, <1>1 DEF GuardInv, StashIsProjected, TypeOK
<1>3. workload[w] = read[w]
  <2>1. workload[w].rv = read[w].rv
    BY <1>1 DEF Outcome
  <2>. QED
    BY <1>0, <1>2, <2>1 DEF GuardInv, StashIsOlder
<1>4. /\ read[w] \in Workload
      /\ read[w].proj \in [Bindings -> MaybeSecret]
      /\ projected[w] \in Workload
      /\ obj.binding \in MaybeSecret
      /\ NoSecret \in MaybeSecret
      /\ workload[w].rv \in Nat
  BY <1>0 DEF TypeOK, ServiceBinding, MaybeSecret, Workload
<1>5. PICK s \in MaybeSecret : Desired(w) = WithProjection(read[w], cur, s)
  BY <1>4 DEF Desired
<1>6. projected[w].proj = [read[w].proj EXCEPT ![cur] = s]
  <2>1. WithProjection(read[w], cur, s).proj = [read[w].proj EXCEPT ![cur] = s]
    BY <1>2, <1>4, ProjectionWrites
  <2>. QED
    BY <1>2, <1>5, <2>1
<1>7. Guarded(cur)
  BY <1>0, <1>1 DEF GuardInv, CopyIsOlder, Guarded
<1>8. \A b \in Bindings : projected[w].proj[b] # NoSecret => Guarded(b)
  BY <1>0, <1>3, <1>4, <1>6, <1>7 DEF GuardInv, FinalizerGuardsProjection, Guarded
<1>9. \A b \in Active(w, projected[w]) : cache[b].phase = "live"
  BY DEF Active
<1>10. /\ o \in Workload
       /\ \A b \in Bindings : o.proj[b] # NoSecret => Guarded(b)
  BY <1>0, <1>4, <1>8, <1>9, InterceptedIs
<1>. HIDE DEF o
<1>11. /\ Written(o, workload[w].rv) \in Workload
       /\ Written(o, workload[w].rv).rv = workload[w].rv + 1
       /\ Written(o, workload[w].rv).proj = o.proj
  <2>. DEFINE n == workload[w].rv
  <2>1. n \in Nat /\ o \in Workload /\ cur \in Bindings /\ NoSecret \in MaybeSecret
    BY <1>2, <1>4, <1>10
  <2>. HIDE DEF n
  <2>2. Written(o, n) \in Workload /\ Written(o, n).rv = n + 1 /\ Written(o, n).proj = o.proj
    BY <2>1, ProjectionWrites
  <2>. QED
    BY <2>2 DEF n
<1>12. workload' \in [Workloads -> Workload]
  BY <1>0, <1>1, <1>11 DEF TypeOK
<1>13. \A v \in Workloads :
         \/ workload'[v] = workload[v]
         \/ /\ workload'[v].rv = workload[v].rv + 1
            /\ \A b \in Bindings : workload'[v].proj[b] # NoSecret => Guarded(b)
  BY <1>0, <1>1, <1>10, <1>11 DEF TypeOK
<1>14. AdmittedIsGuarded'
  BY <1>1 DEF AdmissionInv, AdmittedIsGuarded, Guarded
<1>15. edits' \in 0 .. MaxEdits /\ todo' \subseteq todo
  BY <1>0, <1>1 DEF TypeOK
<1>. QED
  BY <1>1, <1>12, <1>13, <1>14, <1>15, WriteStep

\* The reconciler does not touch a request that is being admitted, and a binding
\* that was guarded when the request was made stays guarded.
LEMMA ReconcilerStep ==
  ASSUME AdmissionInv, Next, UNCHANGED request
  PROVE  AdmissionInv'
<1>0. GuardInv /\ LifeGoesForward /\ SecretIsGuarded /\ AdmittedIsGuarded
  BY DEF AdmissionInv
<1>1. GuardInv' /\ LifeGoesForward' /\ SecretIsGuarded'
  BY <1>0, NextGuardInv, NextLifeGoesForward, NextSecretIsGuarded
<1>2. \A b \in Bindings : Guarded(b) => Guarded(b)'
  BY <1>0, FinalizerStays DEF Guarded, HasFinalizer
<1>3. AdmittedIsGuarded'
  BY <1>0, <1>2 DEF AdmittedIsGuarded
<1>. QED
  BY <1>1, <1>3 DEF AdmissionInv

\* The invariant is inductive.
LEMMA InitAdmissionInv == AdmissionInit => AdmissionInv
<1>. SUFFICES ASSUME Init, request = NoRequest PROVE AdmissionInv
  BY DEF AdmissionInit
<1>1. GuardInv /\ LifeGoesForward
  BY InitOrphanInv DEF OrphanInv
<1>2. SecretIsGuarded
  BY DEF Init, SecretIsGuarded, NeverCreated
<1>3. AdmittedIsGuarded
  <2>1. NotStashed \in Workload /\ \A b \in Bindings : NotStashed.proj[b] = NoSecret
    BY RecordTypes DEF NotStashed, NoProjection
  <2>2. NoRequest.object = NotStashed
    BY DEF NoRequest
  <2>. QED
    BY <2>1, <2>2 DEF AdmittedIsGuarded
<1>. QED
  BY <1>1, <1>2, <1>3 DEF AdmissionInv

\* The invariant behind both theorems is preserved by every step of either side.
LEMMA NextAdmissionInv == AdmissionInv /\ [AdmissionNext]_admissionVars => AdmissionInv'
<1>. SUFFICES ASSUME AdmissionInv, [AdmissionNext]_admissionVars PROVE AdmissionInv'
  OBVIOUS
<1>1. CASE UNCHANGED admissionVars
  <2>1. UNCHANGED vars /\ UNCHANGED request
    BY <1>1 DEF admissionVars
  <2>2. UNCHANGED <<sb, cache, pc, cur, obj>>
    BY <2>1 DEF vars, apiVars, workerVars
  <2>3. GuardInv'
    BY <2>1, NextGuardInv DEF AdmissionInv
  <2>4. LifeGoesForward' /\ SecretIsGuarded' /\ AdmittedIsGuarded'
    BY <2>1, <2>2 DEF AdmissionInv, LifeGoesForward, SecretIsGuarded, AdmittedIsGuarded, Guarded,
           IsDeleting
  <2>. QED
    BY <2>3, <2>4 DEF AdmissionInv
<1>2. CASE AdmissionNext
  BY <1>2, ReconcilerStep, AdmitStep, FinishStep, ManageInterceptedStep DEF AdmissionNext
<1>. QED
  BY <1>1, <1>2

\* With the webhook admitting what users and the reconciler write, and whatever
\* its cache shows, no workload carries a projection of a binding that the API
\* server would let go of without telling the controller
\* (AdmissionProjectorWebhook, WithFinalizer).
THEOREM AdmittedAfterFinalizer == AdmissionSpec => []FinalizerGuardsProjection
<1>1. AdmissionInv => FinalizerGuardsProjection
  BY DEF AdmissionInv, GuardInv
<1>. QED
  BY <1>1, InitAdmissionInv, NextAdmissionInv, PTL DEF AdmissionSpec

\* The webhook projects nothing of a binding that is gone, however far its cache
\* lags behind: the worker saw the deletion in that cache before it let the
\* binding go (activeServiceBindings, ResourceReconciler).
THEOREM GoneStaysOut == AdmissionSpec => []GoneIsNotAdmitted
<1>1. AdmissionInv => GoneIsNotAdmitted
  <2>. SUFFICES ASSUME AdmissionInv, NEW b \in Bindings, sb[b].phase = "gone",
                       cache[b].phase = "live"
                PROVE  CachedSecret(b) = NoSecret
    BY DEF GoneIsNotAdmitted, Active
  <2>1. ~HasFinalizer(cache[b])
    BY DEF AdmissionInv, LifeGoesForward
  <2>. QED
    BY <2>1 DEF AdmissionInv, SecretIsGuarded, CachedSecret
<1>. QED
  BY <1>1, InitAdmissionInv, NextAdmissionInv, PTL DEF AdmissionSpec
=============================================================================
