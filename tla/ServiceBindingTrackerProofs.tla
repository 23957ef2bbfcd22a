--------------------- MODULE ServiceBindingTrackerProofs --------------------
(***************************************************************************)
(* A binding at rest is found by the trigger for what it waits for,        *)
(* whatever users, restarts, errors and stale caches do.                   *)
(***************************************************************************)
EXTENDS ServiceBindingControllerProofs

\* The binding is found by the triggers for its service and for the workload that
\* its reference names.
ServiceTracked(b) == b \notin Direct => Service \in tracked[b]
WorkloadTracked(b, ref) == \A w \in Workloads : w = ref => w \in tracked[b]

\* A binding that rests was tracked as the cache has it.
RestIsTracked ==
  \A b \in Bindings :
    cache[b].phase = "live" /\ b \notin queue /\ b # cur =>
      ServiceTracked(b) /\ WorkloadTracked(b, cache[b].ref)

\* The binding at hand is the cached one until a watch event enqueues it again,
\* and what the worker has looked up for it is tracked.
RunIsTracked ==
  pc # "idle" /\ cache[cur].phase = "live" /\ cur \notin queue =>
    /\ obj.phase = "live"
    /\ obj.ref = cache[cur].ref
    /\ pc # "unfinalize"
    /\ pc \in {"workloads", "project", "patch", "status"} /\ ~failed => ServiceTracked(cur)
    /\ pc \in {"project", "patch", "status"} /\ ~failed => WorkloadTracked(cur, obj.ref)

TrackInv == TypeOK /\ RestIsTracked /\ RunIsTracked

\* Before the first reconciliation there is no binding to be found.
LEMMA InitTrackInv == Init => TrackInv
<1>. SUFFICES ASSUME Init PROVE RestIsTracked /\ RunIsTracked
  BY InitTypeOK DEF TrackInv
<1>1. \A b \in Bindings : cache[b].phase = "none"
  BY DEF Init, NeverCreated
<1>. QED
  BY <1>1 DEF Init, RestIsTracked, RunIsTracked

\* Track adds to what is tracked for the binding at hand.
LEMMA TrackAdds ==
  ASSUME TypeOK, pc # "idle", NEW keys, Track(keys)
  PROVE  /\ \A b \in Bindings : tracked[b] \subseteq tracked'[b]
         /\ keys \subseteq tracked'[cur]
<1>1. tracked \in [Bindings -> SUBSET Keys] /\ cur \in Bindings
  BY DEF TypeOK
<1>. QED
  BY <1>1 DEF Track

\* What is tracked stays tracked as long as the process lives.
LEMMA RestGoesOn ==
  ASSUME TrackInv, UNCHANGED cache, queue \subseteq queue',
         cur' = cur \/ (cur' = NoBinding /\ cur \in queue'),
         \A b \in Bindings : tracked[b] \subseteq tracked'[b]
  PROVE  RestIsTracked'
<1>. SUFFICES ASSUME NEW b \in Bindings, cache[b].phase = "live", b \notin queue', b # cur'
              PROVE  ServiceTracked(b)' /\ WorkloadTracked(b, cache[b].ref)'
  BY DEF RestIsTracked
<1>1. b \notin queue /\ b # cur
  OBVIOUS
<1>2. ServiceTracked(b) /\ WorkloadTracked(b, cache[b].ref)
  BY <1>1 DEF TrackInv, RestIsTracked
<1>. QED
  BY <1>2 DEF ServiceTracked, WorkloadTracked

\* Users, resyncs, triggers and the watch.
LEMMA OthersTrackInv ==
  ASSUME TrackInv, User \/ OnlyEnqueues \/ \E c \in Bindings : SyncCache(c)
  PROVE  RestIsTracked' /\ RunIsTracked'
<1>1. UNCHANGED <<tracked, pc, cur, obj, failed>> /\ queue \subseteq queue'
  BY DEF User, CreateBinding, DeleteBinding, RetargetBinding, CreateWorkload, DeleteWorkload,
         EditWorkload, ReplaceWorkload, RelabelWorkload, ChangeService, ChangeAccess, UserStep,
         OnlyEnqueues, SyncCache, workerVars
<1>2. \A b \in Bindings : b \notin queue' => cache'[b] = cache[b]
  <2>1. User \/ OnlyEnqueues => UNCHANGED cache
    BY DEF User, CreateBinding, DeleteBinding, RetargetBinding, CreateWorkload, DeleteWorkload,
           EditWorkload, ReplaceWorkload, RelabelWorkload, ChangeService, ChangeAccess, UserStep,
           OnlyEnqueues
  <2>2. ASSUME NEW c \in Bindings, SyncCache(c)
        PROVE  \A b \in Bindings : b \notin queue' => cache'[b] = cache[b]
    BY <2>2 DEF SyncCache, TrackInv, TypeOK
  <2>. QED
    BY <2>1, <2>2
<1>3. RestIsTracked'
  BY <1>1, <1>2 DEF TrackInv, RestIsTracked, ServiceTracked, WorkloadTracked
<1>4. pc # "idle" => cur \in Bindings
  BY DEF TrackInv, TypeOK
<1>5. RunIsTracked'
  BY <1>1, <1>2, <1>4 DEF TrackInv, RunIsTracked, ServiceTracked, WorkloadTracked
<1>. QED
  BY <1>3, <1>5

\* A restart enqueues every binding there is.
LEMMA CrashTrackInv == Crash => RestIsTracked' /\ RunIsTracked'
PROOF BY DEF Crash, ForgetRequest, RestIsTracked, RunIsTracked, Exists

\* The worker begins with the binding as it is cached.
LEMMA TakeTrackInv ==
  ASSUME TrackInv, NEW c \in Bindings, Take(c)
  PROVE  RestIsTracked' /\ RunIsTracked'
<1>0. /\ cache[c] \in ServiceBinding
      /\ NoSecret \in MaybeSecret
      /\ "True" \in Conditions
      /\ cur = NoBinding
  BY DEF TrackInv, TypeOK, MaybeSecret, Conditions, Take
<1>1. UNCHANGED <<cache, tracked>> /\ queue' = queue \ {c}
  BY DEF Take
<1>2. CASE cache[c].phase = "live"
  <2>1. /\ cur' = c
        /\ obj' = InitializeConditions(cache[c])
        /\ pc' \in {"finalizer", "secret"}
    BY <1>2 DEF Take, Exists, FirstStep
  <2>2. SameObject(cache[c], obj')
    BY <1>0, <2>1, CopyWrites
  <2>3. RunIsTracked'
    BY <1>1, <1>2, <2>1, <2>2 DEF RunIsTracked, SameObject
  <2>4. RestIsTracked'
    BY <1>0, <1>1, <2>1, ConstantsAssumption
       DEF TrackInv, RestIsTracked, ServiceTracked, WorkloadTracked
  <2>. QED
    BY <2>3, <2>4
<1>3. CASE cache[c].phase # "live"
  <2>1. cur' = c \/ (cur' = cur /\ pc' = pc)
    BY DEF Take, workerVars
  <2>2. RunIsTracked'
    BY <1>1, <1>3, <2>1 DEF RunIsTracked, Take
  <2>3. RestIsTracked'
    BY <1>0, <1>1, <1>3, <2>1, ConstantsAssumption
       DEF TrackInv, RestIsTracked, ServiceTracked, WorkloadTracked
  <2>. QED
    BY <2>2, <2>3
<1>. QED
  BY <1>2, <1>3

\* A call that fails was tracked all the same, and brings the binding back.
LEMMA FailureTrackInv ==
  ASSUME TrackInv, CallFails
  PROVE  RestIsTracked' /\ RunIsTracked'
<1>0. TypeOK
  BY DEF TrackInv
<1>1. CASE Calling /\ Abort /\ Track(CalledKeys) /\ UNCHANGED <<queue, obj>>
  <2>1. pc # "idle"
    BY <1>1 DEF Calling
  <2>2. \A b \in Bindings : tracked[b] \subseteq tracked'[b]
    BY <1>0, <1>1, <2>1, TrackAdds
  <2>3. UNCHANGED <<cache, queue, cur, obj>> /\ pc' = "status" /\ failed' = TRUE
    BY <1>1 DEF CallFails, Abort
  <2>4. RestIsTracked'
    BY <2>2, <2>3, RestGoesOn
  <2>5. RunIsTracked'
    BY <2>1, <2>3 DEF TrackInv, RunIsTracked
  <2>. QED
    BY <2>4, <2>5
<1>2. CASE ForgetRequest /\ queue' = queue \cup {cur} /\ UNCHANGED tracked
  <2>1. UNCHANGED cache /\ cur' = NoBinding /\ pc' = "idle"
    BY <1>2 DEF CallFails, ForgetRequest
  <2>2. RestIsTracked'
    BY <1>2, <2>1, RestGoesOn
  <2>. QED
    BY <2>1, <2>2 DEF RunIsTracked
<1>. QED
  BY <1>1, <1>2 DEF CallFails

\* The steps that end nothing keep the queue, the cache and the binding at hand.
LEMMA StepRest ==
  ASSUME TrackInv, Step, ~UpdateStatus
  PROVE  /\ UNCHANGED <<cache, queue, cur>>
         /\ pc # "idle"
         /\ (failed' = failed \/ failed' = TRUE)
         /\ \A b \in Bindings : tracked[b] \subseteq tracked'[b]
         /\ obj'.phase = obj.phase /\ obj'.ref = obj.ref
<1>0. TypeOK /\ obj \in ServiceBinding
  BY DEF TrackInv, TypeOK
<1>1. UNCHANGED <<cache, queue, cur>> /\ pc # "idle" /\ (failed' = failed \/ failed' = TRUE)
  BY DEF Step, AddFinalizer, ResolveBindingSecret, ResolveWorkloads, ProjectBinding, Manage,
         PatchDone, ClearFinalizer, Goto, Abort
<1>2. \A b \in Bindings : tracked[b] \subseteq tracked'[b]
  <2>1. UNCHANGED tracked \/ \E keys \in {ServiceKeys, WorkloadKeys} : Track(keys)
    BY DEF Step, AddFinalizer, ResolveBindingSecret, ResolveWorkloads, ProjectBinding, Manage,
           PatchDone, ClearFinalizer
  <2>. QED
    BY <1>0, <1>1, <2>1, TrackAdds
<1>3. obj'.phase = obj.phase /\ obj'.ref = obj.ref
  <2>1. Finalized(obj).phase = obj.phase /\ Finalized(obj).ref = obj.ref
    BY <1>0, BindingWrites
  <2>2. pc # "status"
    BY DEF Step, AddFinalizer, ResolveBindingSecret, ResolveWorkloads, ProjectBinding, Manage,
           PatchDone, ClearFinalizer
  <2>. QED
    BY <1>0, <2>1, <2>2, StepCopy DEF SameObject
<1>. QED
  BY <1>1, <1>2, <1>3

\* The lookups track what they look up, the other steps come after them.
LEMMA StepTrackInv ==
  ASSUME TrackInv, Step, ~UpdateStatus
  PROVE  RestIsTracked' /\ RunIsTracked'
<1>0. TypeOK
  BY DEF TrackInv
<1>1. /\ UNCHANGED <<cache, queue, cur>>
      /\ pc # "idle"
      /\ (failed' = failed \/ failed' = TRUE)
      /\ \A b \in Bindings : tracked[b] \subseteq tracked'[b]
      /\ obj'.phase = obj.phase /\ obj'.ref = obj.ref
  BY StepRest
<1>2. RestIsTracked'
  BY <1>1, RestGoesOn
<1>3. RunIsTracked'
  <2>. SUFFICES ASSUME cache'[cur'].phase = "live", cur' \notin queue'
                PROVE  /\ obj'.phase = "live"
                       /\ obj'.ref = cache'[cur'].ref
                       /\ pc' # "unfinalize"
                       /\ pc' \in {"workloads", "project", "patch", "status"} /\ ~failed'
                            => ServiceTracked(cur)'
                       /\ pc' \in {"project", "patch", "status"} /\ ~failed'
                            => WorkloadTracked(cur, obj.ref)'
    BY DEF RunIsTracked
  <2>1. /\ obj.phase = "live"
        /\ obj.ref = cache[cur].ref
        /\ pc # "unfinalize"
        /\ pc \in {"workloads", "project", "patch", "status"} /\ ~failed => ServiceTracked(cur)
        /\ pc \in {"project", "patch", "status"} /\ ~failed => WorkloadTracked(cur, obj.ref)
    BY <1>1 DEF TrackInv, RunIsTracked
  <2>2. cur \in Bindings /\ (~failed' => ~failed)
    <3>1. cur \in Bindings
      BY <1>0, <1>1 DEF TypeOK
    <3>2. ~failed' => ~failed
      BY <1>1
    <3>. QED
      BY <3>1, <3>2
  <2>3. ServiceTracked(cur) => ServiceTracked(cur)'
    BY <1>1, <2>2 DEF ServiceTracked
  <2>4. WorkloadTracked(cur, obj.ref) => WorkloadTracked(cur, obj.ref)'
    BY <1>1, <2>2 DEF WorkloadTracked
  <2>5. CASE AddFinalizer
    <3>1. pc' = "secret" \/ (pc' = "status" /\ failed' = TRUE)
      BY <2>5 DEF AddFinalizer, Goto, Abort
    <3>. QED
      BY <1>1, <2>1, <3>1
  <2>6. CASE ResolveBindingSecret
    <3>1. ServiceKeys \subseteq tracked'[cur] /\ pc' = "workloads"
      BY <1>0, <1>1, <2>6, TrackAdds DEF ResolveBindingSecret, Goto
    <3>2. ServiceTracked(cur)'
      BY <1>1, <3>1 DEF ServiceTracked, ServiceKeys
    <3>. QED
      BY <1>1, <2>1, <3>1, <3>2
  <2>7. CASE ResolveWorkloads
    <3>1. WorkloadKeys \subseteq tracked'[cur] /\ pc' = "project" /\ pc = "workloads"
      BY <1>0, <1>1, <2>7, TrackAdds DEF ResolveWorkloads, Goto
    <3>2. WorkloadTracked(cur, obj.ref)'
      BY <1>1, <3>1 DEF WorkloadTracked, WorkloadKeys
    <3>. QED
      BY <1>1, <2>1, <2>2, <2>3, <3>1, <3>2
  <2>8. CASE ProjectBinding \/ PatchDone \/ \E w \in Workloads : Manage(w)
    <3>1. AfterSequence = "status"
      BY <2>1 DEF AfterSequence, IsDeleting
    <3>2. pc \in {"project", "patch"} /\ pc' \in {"patch", "status"}
      BY <2>8, <3>1 DEF ProjectBinding, PatchDone, Manage, Goto
    <3>. QED
      BY <1>1, <2>1, <2>2, <2>3, <2>4, <3>2
  <2>9. CASE ClearFinalizer
    BY <2>1, <2>9 DEF ClearFinalizer
  <2>. QED
    BY <1>1, <2>1, <2>5, <2>6, <2>7, <2>8, <2>9 DEF Step
<1>. QED
  BY <1>2, <1>3

\* The end of a reconciliation: with an error the binding is enqueued, without one
\* it was tracked.
LEMMA EndTrackInv ==
  ASSUME TrackInv, UpdateStatus
  PROVE  RestIsTracked' /\ RunIsTracked'
<1>1. /\ pc = "status"
      /\ pc' = "idle"
      /\ UNCHANGED <<cache, tracked>>
      /\ queue \subseteq queue'
      /\ failed => cur \in queue'
  BY DEF UpdateStatus, ForgetRequest
<1>2. failed \in BOOLEAN
  BY DEF TrackInv, TypeOK
<1>3. cache[cur].phase = "live" /\ cur \notin queue' =>
        ServiceTracked(cur) /\ WorkloadTracked(cur, cache[cur].ref)
  BY <1>1, <1>2 DEF TrackInv, RunIsTracked
<1>4. \A b \in Bindings : cache[b].phase = "live" /\ b \notin queue' =>
        ServiceTracked(b) /\ WorkloadTracked(b, cache[b].ref)
  BY <1>1, <1>3 DEF TrackInv, RestIsTracked
<1>. QED
  BY <1>1, <1>4 DEF RestIsTracked, RunIsTracked, ServiceTracked, WorkloadTracked

\* Every step keeps resting bindings tracked, and the running one as far as it got.
LEMMA NextTrackInv == TrackInv /\ [Next]_vars => TrackInv'
<1>. SUFFICES ASSUME TrackInv, [Next]_vars PROVE RestIsTracked' /\ RunIsTracked'
  BY NextTypeOK DEF TrackInv
<1>1. CASE UNCHANGED vars
  BY <1>1 DEF vars, workerVars, TrackInv, RestIsTracked, RunIsTracked, ServiceTracked,
              WorkloadTracked
<1>2. CASE Next
  BY <1>2, NextCases, OthersTrackInv, CrashTrackInv, TakeTrackInv, FailureTrackInv, StepTrackInv,
     EndTrackInv
<1>. QED
  BY <1>1, <1>2

\* A binding at rest is found by the trigger for its service and for the workload
\* it names (TrackAndGet in the resolver, TriggerWebhook).
THEOREM RestingFound == Spec => []RestingIsTracked
<1>1. TrackInv => RestingIsTracked
  BY DEF TrackInv, RestIsTracked, RestingIsTracked, ServiceTracked, WorkloadTracked
<1>. QED
  BY <1>1, InitTrackInv, NextTrackInv, PTL DEF Spec
=============================================================================
