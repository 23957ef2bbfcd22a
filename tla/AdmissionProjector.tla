------------------------- MODULE AdmissionProjector -------------------------
(***************************************************************************)
(* The admission projector of controllers/webhook_controller.go composed   *)
(* with the ServiceBinding reconciler.                                     *)
(*                                                                         *)
(* The API server passes every create and update of a workload through the *)
(* webhook, the reconciler's own updates included.  The webhook runs in    *)
(* the reconciler's process, reads the bindings from the same cache and    *)
(* projects each active one with the secret of its cached status.          *)
(*                                                                         *)
(* A user's request is admitted in one step and stored in a later one.  A  *)
(* reconciler's update is one step: the worker waits for it, and it fails  *)
(* if the workload changes meanwhile.  Whether the webhook's rules cover a *)
(* workload's type yet is left open: the steps of ServiceBindingController *)
(* are the writes that are not intercepted.                                *)
(***************************************************************************)
EXTENDS ServiceBindingController

VARIABLE request  \* the user's write that is being admitted

admissionVars == <<vars, request>>

NoRequest == [name |-> Selector, object |-> NotStashed]

----------------------------------------------------------------------------
\* Mutant: the secret is projected only while the service is available.
SecretWhenAvailable(b) == IF cache[b].available = "True" THEN cache[b].binding ELSE NoSecret

\* projector.Project for a cached binding: nothing is projected without a secret.
CachedSecret(b) == cache[b].binding

\* Mutant: terminating bindings are not passed over.
ActiveTerminating(w, o) == {b \in Bindings : Exists(cache[b]) /\ Refers(cache[b].ref, w, o)}

\* activeServiceBindings: not terminating, and for this workload.
Active(w, o) == {b \in Bindings : cache[b].phase = "live" /\ Refers(cache[b].ref, w, o)}

\* The same for a workload whose name is still to be generated: its name is
\* empty, and so is the name in a reference by selector.
ActiveUnnamed == {b \in Bindings : cache[b].phase = "live" /\ cache[b].ref = Selector}

\* AdmissionProjectorWebhook.
Intercepted(o, active) ==
  [o EXCEPT !.proj = [b \in Bindings |-> IF b \in active THEN CachedSecret(b) ELSE o.proj[b]]]

----------------------------------------------------------------------------
(***************************************************************************)
(* A user's create or update.                                              *)
(***************************************************************************)
UserWrites(o) ==
  IF Exists(o)
    THEN {Edited(o)} \cup {Replaced(o) : e \in Events \cap {"replace"}}
                     \cup {Relabelled(o) : e \in Events \cap {"relabel"}}
    ELSE {Recreated(o, labels) : labels \in SUBSET {Label}}

Admit(w, o) ==
  /\ UserStep
  /\ request = NoRequest
  /\ request' = [name |-> w, object |-> Intercepted(o, Active(w, o))]
  /\ UNCHANGED apiVars

AdmitUnnamed(w, o) ==
  /\ UserStep
  /\ "generateName" \in Events
  /\ request = NoRequest
  /\ ~Exists(workload[w])
  /\ request' = [name |-> w, object |-> Intercepted(o, ActiveUnnamed)]
  /\ UNCHANGED apiVars

\* The request is stored unless the workload was written in between.
Finish ==
  LET w == request.name
  IN  /\ request # NoRequest
      /\ request' = NoRequest
      /\ workload' = IF workload[w].rv + 1 = request.object.rv
                       THEN [workload EXCEPT ![w] = request.object]
                       ELSE workload
      /\ UNCHANGED <<sb, service, allowed, cache, queue, tracked, workerVars, boundVars>>

\* Manage when its update is intercepted.  An update that changes nothing in the
\* end does not move the resource version.
ManageIntercepted(w) ==
  LET o == Intercepted(projected[w], Active(w, projected[w]))
  IN  /\ pc = "patch"
      /\ w \in todo
      /\ Outcome(w) = "updated"
      /\ workload' = IF o = workload[w]
                       THEN workload
                       ELSE [workload EXCEPT ![w] = Written(o, workload[w].rv)]
      /\ todo' = todo \ {w}
      /\ UNCHANGED <<sb, service, allowed, cache, queue, tracked, pc, cur, orig, obj, found, read,
                     projected, requeue, failed, boundVars, request>>

----------------------------------------------------------------------------
AdmissionInit == Init /\ request = NoRequest

AdmissionNext ==
  \/ Next /\ UNCHANGED request
  \/ \E w \in Workloads : \E o \in UserWrites(workload[w]) : Admit(w, o)
  \/ \E w \in Workloads : \E o \in UserWrites(workload[w]) : AdmitUnnamed(w, o)
  \/ Finish
  \/ \E w \in Workloads : ManageIntercepted(w)

AdmissionSpec == AdmissionInit /\ [][AdmissionNext]_admissionVars

\* As in ServiceBindingController; a request that was admitted is finished.
AdmissionFairness ==
  /\ \A b \in Bindings :
       /\ WF_admissionVars(SyncCache(b) /\ UNCHANGED request)
       /\ WF_admissionVars(Resync(b) /\ UNCHANGED request)
       /\ SF_admissionVars(Take(b) /\ UNCHANGED request)
  /\ WF_admissionVars((Step /\ UNCHANGED request) \/ \E w \in Workloads : ManageIntercepted(w))
  /\ WF_admissionVars(Finish)

AdmissionFairSpec == AdmissionSpec /\ AdmissionFairness

----------------------------------------------------------------------------
\* The webhook projects nothing of a binding that is gone, although all it sees
\* is a cache that may lag behind: the worker saw the deletion in that cache
\* before it let the binding go (activeServiceBindings; ResourceReconciler).
GoneIsNotAdmitted ==
  \A b \in Bindings, w \in Workloads :
    sb[b].phase = "gone" /\ b \in Active(w, workload[w]) => CachedSecret(b) = NoSecret

\* The webhook projects a binding only into workloads it refers to ("check that
\* bindings are for this workload").
AdmittedIsReferenced ==
  request # NoRequest =>
    \A b \in Bindings :
      request.object.proj[b] # NoSecret => Refers(sb[b].ref, request.name, request.object)
=============================================================================
