----------------------------- MODULE Projector -----------------------------
(***************************************************************************)
(* The service binding projector: projector/binding.go.  Project and       *)
(* Unproject rewrite a workload's pod template for one ServiceBinding.     *)
(*                                                                         *)
(* Data.  A binding's uid and the name of an environment variable are      *)
(* natural numbers that stand for their rank in Go's string order, which   *)
(* is all the sorting in the code looks at.  Every other string is opaque. *)
(*                                                                         *)
(*   binding    [uid, name, type, provider, secret, env, containers]       *)
(*              env is a sequence of [name, key]; secret is                *)
(*              Status.Binding.Name, Empty when Status.Binding is nil      *)
(*   template   [annotations, containers, volumes]                         *)
(*   container  [name, env, mounts]                                        *)
(*   env        [name, from], from one of Value, SecretKeyRef, FieldRef    *)
(*   volume     [name, sources];  mount [name, path]                       *)
(***************************************************************************)
EXTENDS Naturals, FiniteSets, Sequences, Functions, TLC

\* Go's zero string: no secret, no type, no provider, no such annotation.
Empty == ""

\* The rank of "SERVICE_BINDING_ROOT" among the variable names; 0 is that of the
\* empty name.
ServiceBindingRootEnv == 1

\* The mount root used when a container does not define one.
DefaultRoot == "/bindings"

\* A container found through a mapping without a name expression.
Unnamed == "(nil)"

(***************************************************************************)
(* Names that the projector derives from the uid of a binding.  Names with *)
(* one of these heads are the ones the HasPrefix tests of the code select. *)
(***************************************************************************)
SecretAnnotationName(b) == <<"secret", b.uid>>
TypeAnnotationName(b) == <<"type", b.uid>>
ProviderAnnotationName(b) == <<"provider", b.uid>>
VolumeName(b) == <<"servicebinding", b.uid>>

HasVolumePrefix(name) == name[1] = "servicebinding"
InGroup(annotation) == annotation[1] \in {"secret", "type", "provider"}

(***************************************************************************)
(* Sources of an environment variable.                                     *)
(***************************************************************************)
Value(v) == <<"value", v>>
SecretKeyRef(secret, key) == <<"secret", secret, key>>
FieldRef(annotation) == <<"field", annotation>>

IsSecretKeyRef(e) == e.from[1] = "secret"
IsFieldRef(e) == e.from[1] = "field"

(***************************************************************************)
(* A list rebuilt from the items of s that have a place in before, which   *)
(* gives the places that must come ahead of each: an item comes behind as  *)
(* many items as it has places ahead of it.                                *)
(***************************************************************************)
Arrange(s, before) ==
  [k \in 1..Cardinality(DOMAIN before) |->
     s[CHOOSE i \in DOMAIN before : Cardinality(before[i]) = k - 1]]

\* sort.SliceStable: ties are broken by the place an item had.
SliceStable(s, Less(_, _)) ==
  Arrange(s, [i \in DOMAIN s |->
    {j \in DOMAIN s : Less(s[j], s[i]) \/ (~Less(s[i], s[j]) /\ j < i)}])

\* The loops that append the items to keep to an empty list.
Kept(s, Keep(_)) ==
  LET kept == {i \in DOMAIN s : Keep(s[i])}
  IN  Arrange(s, [i \in kept |-> {j \in kept : j < i}])

\* The order of the three sorts: projected items last, among them by name.
ProjectedLast(ip, jp, smaller) == jp /\ (ip => smaller)

----------------------------------------------------------------------------
(***************************************************************************)
(* Volumes and volume mounts.                                              *)
(***************************************************************************)
\* Mutant: projected items are put last but not sorted among themselves.
VolumeLessUnsorted(v, w) == HasVolumePrefix(w.name) /\ ~HasVolumePrefix(v.name)

VolumeLess(v, w) ==
  ProjectedLast(HasVolumePrefix(v.name), HasVolumePrefix(w.name), v.name[2] < w.name[2])

VolumeSources(b) ==
  <<<<"secret", b.secret>>>>
    \o (IF b.type # Empty THEN <<<<"type", TypeAnnotationName(b)>>>> ELSE <<>>)
    \o (IF b.provider # Empty THEN <<<<"provider", ProviderAnnotationName(b)>>>> ELSE <<>>)

\* The annotations that building the volume sets on the way.  projectEnv sets
\* them again to the same values.
ProjectedAnnotations(b) ==
  {SecretAnnotationName(b)}
    \cup (IF b.type # Empty THEN {TypeAnnotationName(b)} ELSE {})
    \cup (IF b.provider # Empty THEN {ProviderAnnotationName(b)} ELSE {})

AnnotationValue(b, a) ==
  CASE a[1] = "secret" -> b.secret [] a[1] = "type" -> b.type [] a[1] = "provider" -> b.provider

annotate(b, annotations) ==
  [a \in DOMAIN annotations \cup ProjectedAnnotations(b) |->
     IF a \in ProjectedAnnotations(b) THEN AnnotationValue(b, a) ELSE annotations[a]]

projectVolume(b, t) ==
  LET volume == [name |-> VolumeName(b), sources |-> VolumeSources(b)]
  IN  [t EXCEPT !.annotations = annotate(b, @),
                !.volumes = SliceStable(Append(@, volume), VolumeLess)]

unprojectVolume(b, t) ==
  LET Keep(v) == v.name # VolumeName(b)
  IN  [t EXCEPT !.volumes = Kept(@, Keep)]

\* The value of the first variable named SERVICE_BINDING_ROOT: the zero string
\* when that variable takes its value from elsewhere.
RootValue(env) ==
  LET roots == {i \in DOMAIN env : env[i].name = ServiceBindingRootEnv}
      first == CHOOSE i \in roots : \A j \in roots : i <= j
  IN  IF roots = {} THEN DefaultRoot
      ELSE IF env[first].from[1] = "value" THEN env[first].from[2] ELSE Empty

\* Mutant: the root is defined again although the container has one.
serviceBindingRootAgain(c) ==
  [c EXCEPT !.env = Append(@, [name |-> ServiceBindingRootEnv, from |-> Value(DefaultRoot)])]

\* Reading the root defines it where the container does not.
serviceBindingRoot(c) ==
  IF \E i \in DOMAIN c.env : c.env[i].name = ServiceBindingRootEnv
    THEN c
    ELSE [c EXCEPT !.env = Append(@, [name |-> ServiceBindingRootEnv,
                                      from |-> Value(DefaultRoot)])]

projectVolumeMount(b, c) ==
  LET mount == [name |-> VolumeName(b), path |-> <<RootValue(c.env), b.name>>]
  IN  [serviceBindingRoot(c) EXCEPT !.mounts = SliceStable(Append(@, mount), VolumeLess)]

unprojectVolumeMount(b, c) ==
  LET Keep(m) == m.name # VolumeName(b)
  IN  [c EXCEPT !.mounts = Kept(@, Keep)]

----------------------------------------------------------------------------
(***************************************************************************)
(* Environment variables.                                                  *)
(***************************************************************************)
knownProjectedSecrets(t) ==
  {t.annotations[k] : k \in {a \in DOMAIN t.annotations : a[1] = "secret"}}

isProjectedEnv(e, secrets) ==
  \/ IsSecretKeyRef(e) /\ e.from[2] \in secrets
  \/ IsFieldRef(e) /\ InGroup(e.from[2])

\* What one entry of spec.env becomes.
EnvVar(b, e) ==
  [name |-> e.name,
   from |-> CASE e.key = "type" /\ b.type # Empty -> FieldRef(TypeAnnotationName(b))
              [] e.key = "provider" /\ b.provider # Empty -> FieldRef(ProviderAnnotationName(b))
              [] OTHER -> SecretKeyRef(b.secret, e.key)]

projectEnv(b, t, c) ==
  LET secrets == knownProjectedSecrets(t)
      Less(e, f) == ProjectedLast(isProjectedEnv(e, secrets), isProjectedEnv(f, secrets),
                                  e.name < f.name)
      added == [i \in DOMAIN b.env |-> EnvVar(b, b.env[i])]
  IN  [c EXCEPT !.env = SliceStable(@ \o added, Less)]

\* Mutant: variables that refer to the type or provider annotation are kept.
unprojectEnvSecretOnly(b, t, c) ==
  LET name == SecretAnnotationName(b)
      Keep(e) == ~(IsSecretKeyRef(e) /\ name \in DOMAIN t.annotations
                                     /\ e.from[2] = t.annotations[name])
  IN  [c EXCEPT !.env = Kept(@, Keep)]

\* Mutant: every variable read from a secret is taken for a projected one.
unprojectEnvAnySecret(b, t, c) ==
  LET Keep(e) == ~IsSecretKeyRef(e) /\ ~IsFieldRef(e)
  IN  [c EXCEPT !.env = Kept(@, Keep)]

\* The secret is the one the template's annotation names, the secret of the
\* last projection, which need not be the binding's secret any more.
unprojectEnv(b, t, c) ==
  LET name == SecretAnnotationName(b)
      secret == IF name \in DOMAIN t.annotations THEN t.annotations[name] ELSE Empty
      Keep(e) == /\ ~(IsSecretKeyRef(e) /\ e.from[2] = secret)
                 /\ ~(IsFieldRef(e) /\ e.from[2] \in {TypeAnnotationName(b),
                                                      ProviderAnnotationName(b)})
  IN  [c EXCEPT !.env = Kept(@, Keep)]

----------------------------------------------------------------------------
(***************************************************************************)
(* Containers and the two operations.                                      *)
(***************************************************************************)
isContainerBindable(b, c) ==
  b.containers = {} \/ c.name = Unnamed \/ c.name \in b.containers

projectContainer(b, t, c) ==
  IF isContainerBindable(b, c) THEN projectEnv(b, t, projectVolumeMount(b, c)) ELSE c

unprojectContainer(b, t, c) == unprojectEnv(b, t, unprojectVolumeMount(b, c))

cleanupAnnotations(b, t) ==
  [t EXCEPT !.annotations =
     Restrict(@, DOMAIN @ \ {SecretAnnotationName(b), TypeAnnotationName(b),
                             ProviderAnnotationName(b)})]

\* Mutant: the annotations are removed before the containers are cleaned, which
\* then no longer know the secret that was projected.
unprojectAnnotationsFirst(b, t) ==
  LET v == cleanupAnnotations(b, unprojectVolume(b, t))
  IN  [v EXCEPT !.containers = [i \in DOMAIN @ |-> unprojectContainer(b, v, @[i])]]

\* Mutant: a container the binding does not select is dropped.
unprojectDropsContainer(b, t) ==
  LET Bindable(c) == isContainerBindable(b, c)
  IN  cleanupAnnotations(b, [t EXCEPT !.containers = Kept(@, Bindable)])

\* Every container is cleaned with the annotations still in place.
unproject(b, t) ==
  LET v == unprojectVolume(b, t)
      c == [v EXCEPT !.containers = [i \in DOMAIN @ |-> unprojectContainer(b, t, @[i])]]
  IN  cleanupAnnotations(b, c)

project(b, t) ==
  LET clean == unproject(b, t)
      v == projectVolume(b, clean)
  IN  IF b.secret = Empty THEN clean
      ELSE [v EXCEPT !.containers = [i \in DOMAIN @ |-> projectContainer(b, v, @[i])]]
=============================================================================
