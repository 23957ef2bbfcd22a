----------------------- MODULE ServiceBindingWebhook -----------------------
(***************************************************************************)
(* Defaulting and validation of a ServiceBinding                           *)
(* (apis/v1beta1/servicebinding_webhook.go), and the two readings of its   *)
(* workload reference, by the resolver and by the admission projector.     *)
(*                                                                         *)
(* Only the validating webhook is deployed: it validates a binding with    *)
(* its default filled in, and what is stored is the binding without it.    *)
(* The reconciler and the admission projector fill it in again.            *)
(*                                                                         *)
(*   binding    [metadataName, name, service, workload, env, ...]          *)
(*   service    [apiVersion, kind, name]                                   *)
(*   workload   [apiVersion, kind, name, selector]                         *)
(*   env        a sequence of [name, key]                                  *)
(***************************************************************************)
EXTENDS TLAPS

\* Go's zero string, a selector that is nil, and the rank of the empty variable
\* name in the order of variable names.
Blank == ""
NoSelector == {"nil"}
NoVariable == 0

\* A selector is given by the labels it selects, or is no selector at all.
BadSelector == {"malformed"}

\* ServiceBinding.Default.
Default(b) == [b EXCEPT !.name = IF @ = Blank THEN b.metadataName ELSE @]

ValidService(r) == Blank \notin {r.apiVersion, r.kind, r.name}

ValidWorkload(r) ==
  /\ Blank \notin {r.apiVersion, r.kind}
  /\ (r.name = Blank) <=> (r.selector # NoSelector)
  /\ r.selector # BadSelector

\* Mutant: variables are not validated.
ValidEnvAny(e) == TRUE

ValidEnv(e) == e.name # NoVariable /\ e.key # Blank

\* ServiceBindingSpec.validate.
ValidSpec(b) ==
  /\ b.name # Blank
  /\ ValidService(b.service)
  /\ ValidWorkload(b.workload)
  /\ \A i \in DOMAIN b.env : ValidEnv(b.env[i])

\* ValidateCreate and ValidateUpdate, which looks at nothing of the old binding.
Accepted(b) == ValidSpec(Default(b))

\* Mutant: a binding is used as it was stored.
LoadedAsStored(b) == b

\* A stored binding as it is handed to the projector.
Loaded(b) == Default(b)

----------------------------------------------------------------------------
\* A workload is given by its name and its labels.
Selects(r, labels) == r.selector \notin {NoSelector, BadSelector} /\ r.selector \subseteq labels

\* resolver.LookupWorkloads: by name if there is one, else by selector.
LooksUp(r, name, labels) == IF r.name # Blank THEN r.name = name ELSE Selects(r, labels)

\* The loop of AdmissionProjectorWebhook over the bindings: either will do.
Intercepts(r, name, labels) == r.name = name \/ Selects(r, labels)

\* For a reference that was accepted, and a workload that has its name, the
\* admission projector and the reconciler mean the same workloads: what one
\* projects the other finds when it is to be taken out again (validate, "expected
\* exactly one").
THEOREM ReadingsAgree ==
  ASSUME NEW r, NEW name, NEW labels, ValidWorkload(r), name # Blank
  PROVE  Intercepts(r, name, labels) <=> LooksUp(r, name, labels)
<1>1. CASE r.name = Blank
  BY <1>1 DEF Intercepts, LooksUp
<1>2. CASE r.name # Blank
  <2>1. r.selector = NoSelector
    BY <1>2 DEF ValidWorkload
  <2>2. ~Selects(r, labels)
    BY <2>1 DEF Selects
  <2> QED
    BY <1>2, <2>2 DEF Intercepts, LooksUp
<1> QED
  BY <1>1, <1>2
=============================================================================
