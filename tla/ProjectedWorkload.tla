-------------------------- MODULE ProjectedWorkload --------------------------
(***************************************************************************)
(* One workload whose pod template is rewritten over time by Project and   *)
(* Unproject, for several bindings in any order and in any version of each *)
(* (the secret rotates, the spec is edited, the binding is deleted while   *)
(* an older version is projected), while its user replaces the template or *)
(* adds to it between two projections.                                     *)
(*                                                                         *)
(* A version is what users submitted and the validating webhook let        *)
(* through, with its default, and the secret its service published.        *)
(*                                                                         *)
(* LookupMapping, NewMetaPodTemplate and WriteToWorkload, which read the   *)
(* template out of the workload and write it back, are left out here       *)
(* (MappedWorkload!ReadsBack says why they can be).                        *)
(***************************************************************************)
EXTENDS Projector, ServiceBindingWebhook

CONSTANTS
  Uids,            \* uids of the bindings
  Submissions,     \* ServiceBindings that users submit
  BoundSecrets,    \* uid -> the secrets its service publishes over time
  UserTemplates,   \* templates a user may write
  UserEnv          \* variables a user may append to a container later

ASSUME UidsAssumption == Uids \subseteq Nat /\ IsFiniteSet(Uids)

\* A submission has the fields of the API type.
ASSUME SubmissionsAssumption ==
  Submissions \subseteq
    [uid : Uids, metadataName : STRING, name : STRING, type : STRING, provider : STRING,
     env : Seq([name : Nat, key : STRING]), containers : SUBSET STRING,
     service : [apiVersion : STRING, kind : STRING, name : STRING],
     workload : [apiVersion : STRING, kind : STRING, name : STRING, selector : SUBSET STRING]]

List(s) == s \in Seq(Range(s))

\* A variable that the API server accepts and that a user wrote: it refers to no
\* annotation of the projector.
UserVariable(e) ==
  /\ e.name \in Nat \ {NoVariable}
  /\ IsSecretKeyRef(e) => e.from[3] # Blank
  /\ ~(IsFieldRef(e) /\ InGroup(e.from[2]))

UserContainer(c) ==
  /\ DOMAIN c = {"name", "env", "mounts"}
  /\ List(c.env) /\ \A e \in Range(c.env) : UserVariable(e)
  /\ List(c.mounts) /\ \A m \in Range(c.mounts) : ~HasVolumePrefix(m.name)

\* Users write templates of their own: they leave the projector's names to it.
UserTemplate(t) ==
  /\ DOMAIN t = {"annotations", "containers", "volumes"}
  /\ t.annotations \in [DOMAIN t.annotations -> STRING]
  /\ \A a \in DOMAIN t.annotations : ~InGroup(a)
  /\ List(t.containers) /\ \A c \in Range(t.containers) : UserContainer(c)
  /\ List(t.volumes) /\ \A v \in Range(t.volumes) : ~HasVolumePrefix(v.name)

ASSUME UserTemplatesAssumption == \A t \in UserTemplates : UserTemplate(t)
ASSUME UserEnvAssumption == \A e \in UserEnv : UserVariable(e)

VARIABLES
  template,        \* the pod template in the workload
  base,            \* what the user wrote of it
  last             \* uid -> the version projected last, NotProjected if none

vars == <<template, base, last>>

NotProjected == [uid |-> 0, secret |-> Empty]

\* What the projector reads of a binding.
Version(b, secret) ==
  [uid |-> b.uid, name |-> b.name, type |-> b.type, provider |-> b.provider, env |-> b.env,
   containers |-> b.containers, secret |-> secret]

\* Every binding, in every version it is ever projected in.
BindingVersions ==
  UNION {{Version(Loaded(s), secret) : secret \in BoundSecrets[s.uid]} :
           s \in {x \in Submissions : Accepted(x)}}

(***************************************************************************)
(* Instances in which the items of a binding can be told from all others.  *)
(* The code does not see to that: it takes a variable that reads a secret  *)
(* for one of every binding with that secret.                              *)
(***************************************************************************)
Secrets == {b.secret : b \in BindingVersions} \cup {Empty}

\* A variable that no unprojection takes away.
Lasting(e) ==
  /\ ~(IsSecretKeyRef(e) /\ e.from[2] \in Secrets)
  /\ ~(IsFieldRef(e) /\ InGroup(e.from[2]))

LastingTemplate(t) ==
  /\ \A c \in Range(t.containers) : \A e \in Range(c.env) : Lasting(e)
  /\ \A i, j \in DOMAIN t.containers : t.containers[i].name = t.containers[j].name => i = j

\* No secret is published for two bindings or read by the user's own variables,
\* the containers have different names, and the root is not among the variables
\* added to a container that is there.
Apart ==
  /\ \A b, c \in BindingVersions : b.secret = c.secret /\ b.secret # Empty => b.uid = c.uid
  /\ \A t \in UserTemplates : LastingTemplate(t)
  /\ \A e \in UserEnv : Lasting(e) /\ e.name # ServiceBindingRootEnv

\* No two bindings ask for a variable of one name: the sort of the code then puts
\* the one that was projected first ahead.
DifferentVariables ==
  \A b, c \in BindingVersions : b.uid # c.uid =>
    \A i \in DOMAIN b.env, j \in DOMAIN c.env : b.env[i].name # c.env[j].name

----------------------------------------------------------------------------
(***************************************************************************)
(* Operations.                                                             *)
(***************************************************************************)
Project(b) ==
  /\ template' = project(b, template)
  /\ last' = [last EXCEPT ![b.uid] = IF b.secret = Empty THEN NotProjected ELSE b]
  /\ UNCHANGED base

Unproject(b) ==
  /\ template' = unproject(b, template)
  /\ last' = [last EXCEPT ![b.uid] = NotProjected]
  /\ UNCHANGED base

\* The user, or a deployment tool, writes its own template over the workload.
UserReplace(t) ==
  /\ template' = t
  /\ base' = t
  /\ last' = [u \in Uids |-> NotProjected]

\* The user adds a variable behind the ones a container has.
UserAppend(i, e) ==
  LET add(c) == [c EXCEPT !.env = Append(@, e)]
  IN  /\ \A j \in DOMAIN base.containers[i].env : base.containers[i].env[j] # e
      /\ template' = [template EXCEPT !.containers[i] = add(@)]
      /\ base' = [base EXCEPT !.containers[i] = add(@)]
      /\ UNCHANGED last

Init ==
  /\ base \in UserTemplates
  /\ template = base
  /\ last = [u \in Uids |-> NotProjected]

Next ==
  \/ \E b \in BindingVersions : Project(b)
  \/ \E b \in BindingVersions : Unproject(b)
  \/ \E t \in UserTemplates : UserReplace(t)
  \/ \E i \in DOMAIN base.containers, e \in UserEnv : UserAppend(i, e)

Spec == Init /\ [][Next]_vars

----------------------------------------------------------------------------
(***************************************************************************)
(* The refinement mapping: the facts a reader of the template finds for    *)
(* each uid.                                                               *)
(***************************************************************************)
ContainerName(i) == base.containers[i].name

\* The containers by name, with the mount root each would use.
UserPart(t) ==
  [c \in {t.containers[i].name : i \in DOMAIN t.containers} |->
     RootValue(t.containers[CHOOSE i \in DOMAIN t.containers :
                              t.containers[i].name = c].env)]

OwnSource(u, src) ==
  CASE src[1] \in {"type", "provider"} -> IF src[2] = <<src[1], u>> THEN <<"annotation", src[1]>>
                                          ELSE <<"foreign">>
    [] OTHER -> src

\* A variable belongs to the binding whose annotation it refers to, or one of
\* whose secrets it reads: a variable left behind is still the binding's.
OwnEnv(u, e) ==
  \/ IsFieldRef(e) /\ InGroup(e.from[2]) /\ e.from[2][2] = u
  \/ IsSecretKeyRef(e) /\ \E b \in BindingVersions : b.uid = u /\ b.secret = e.from[2]

EnvSource(e) == IF IsFieldRef(e) THEN <<"annotation", e.from[2][1]>> ELSE e.from

Indexes(field) ==
  UNION {{<<i, j>> : j \in DOMAIN template.containers[i][field]} :
           i \in DOMAIN template.containers}

FactsOf(u) ==
  {<<"annotation", a[1], template.annotations[a]>> :
     a \in {x \in DOMAIN template.annotations : InGroup(x) /\ x[2] = u}}
  \cup {<<"volume", {OwnSource(u, v.sources[k]) : k \in DOMAIN v.sources}>> :
     v \in {template.volumes[k] : k \in {x \in DOMAIN template.volumes :
              template.volumes[x].name = <<"servicebinding", u>>}}}
  \cup {<<"mount", ContainerName(p[1]), template.containers[p[1]].mounts[p[2]].path>> :
     p \in {x \in Indexes("mounts") :
              template.containers[x[1]].mounts[x[2]].name = <<"servicebinding", u>>}}
  \cup {LET e == template.containers[p[1]].env[p[2]]
        IN  <<"env", ContainerName(p[1]), e.name, EnvSource(e)>> :
     p \in {x \in Indexes("env") : OwnEnv(u, template.containers[x[1]].env[x[2]])}}

Abstract ==
  INSTANCE Projection WITH Users <- {UserPart(t) : t \in UserTemplates},
                           user <- UserPart(base),
                           facts <- [u \in Uids |-> FactsOf(u)]

----------------------------------------------------------------------------
(***************************************************************************)
(* Properties.                                                             *)
(***************************************************************************)
TypeOK ==
  /\ DOMAIN template.containers = DOMAIN base.containers
  /\ \A i \in DOMAIN base.containers : template.containers[i].name = ContainerName(i)
  /\ \A u \in Uids : last[u] = NotProjected \/ last[u] \in BindingVersions

\* Every step of the projector does to the workload what the abstract
\* specification says: Project leaves exactly the footprint of the version
\* projected, whatever older version, other binding or user edit was there;
\* Unproject removes it with any version of the binding in hand; neither changes
\* the facts of another binding (project, unproject).
RefinesProjection == Abstract!Spec

\* Projecting the version that is there already changes nothing at all, the
\* order of the lists included: the controller then finds the workload
\* semantically equal and writes nothing (project; PatchWorkloads).
Idempotent ==
  \A b \in BindingVersions : LET t == project(b, template) IN project(b, t) = t

\* The template two bindings leave does not depend on which is projected first,
\* so that replicas and retries of the webhook and of the controller agree on
\* one spec and do not restart pods in turns (the three sorts).
OrderIndependent ==
  \A b, c \in BindingVersions :
    b.uid # c.uid => project(b, project(c, template)) = project(c, project(b, template))

\* Every reference of the template can be resolved: a variable or a volume that
\* refers to a projector annotation finds it, a mount of a binding finds its
\* volume, and a volume reads the secret its annotation names (project and
\* unproject: the annotations go last).
NoDanglingReference ==
  LET annotated == DOMAIN template.annotations
      volumes == {template.volumes[k] : k \in DOMAIN template.volumes}
  IN  /\ \A p \in Indexes("env") :
           LET e == template.containers[p[1]].env[p[2]]
           IN  IsFieldRef(e) /\ InGroup(e.from[2]) => e.from[2] \in annotated
      /\ \A p \in Indexes("mounts") :
           LET m == template.containers[p[1]].mounts[p[2]]
           IN  HasVolumePrefix(m.name) => \E v \in volumes : v.name = m.name
      /\ \A v \in volumes : HasVolumePrefix(v.name) =>
           \A k \in DOMAIN v.sources :
             IF v.sources[k][1] = "secret"
               THEN /\ <<"secret", v.name[2]>> \in annotated
                    /\ template.annotations[<<"secret", v.name[2]>>] = v.sources[k][2]
               ELSE v.sources[k][2] \in annotated

\* The lists without what projecting put there.
UserItems(s) == LET User(x) == ~HasVolumePrefix(x.name) IN Kept(s, User)
UserVariables(s) == LET User(e) == Lasting(e) /\ e.name # ServiceBindingRootEnv IN Kept(s, User)
UserRoots(s) == LET Root(e) == Lasting(e) /\ e.name = ServiceBindingRootEnv IN Kept(s, Root)

\* What the user wrote stays, in the order it was written: with the projected
\* items and the added root variable taken out, the template is the user's.
\* The root is added at most once, where there was none, and so ahead of any that
\* the user adds later (project, unproject; a variable that reads a binding's
\* secret goes with the binding's, whoever wrote it).
UserContentPreserved ==
  LET added == [name |-> ServiceBindingRootEnv, from |-> Value(DefaultRoot)]
  IN  /\ Restrict(template.annotations, {a \in DOMAIN template.annotations : ~InGroup(a)})
           = base.annotations
      /\ UserItems(template.volumes) = base.volumes
      /\ \A i \in DOMAIN base.containers :
           LET c == template.containers[i]
               d == base.containers[i]
           IN  /\ UserItems(c.mounts) = d.mounts
               /\ UserVariables(c.env) = UserVariables(d.env)
               /\ UserRoots(c.env) \in {UserRoots(d.env), <<added>> \o UserRoots(d.env)}

\* Nothing is projected that the API server would refuse or that would hide
\* something else: a projected variable has a name and a key, a volume is mounted
\* below the root, not on it.  A binding is stored as it was submitted, without
\* the name it was validated with (Default and validate; Default again before
\* Project).
ProjectedIsWellFormed ==
  \A i \in DOMAIN template.containers :
    LET c == template.containers[i]
    IN  /\ \A j \in DOMAIN c.env :
             /\ c.env[j].name # NoVariable
             /\ IsSecretKeyRef(c.env[j]) => c.env[j].from[3] # Blank
        /\ \A j \in DOMAIN c.mounts :
             HasVolumePrefix(c.mounts[j].name) => c.mounts[j].path[2] # Blank

\* A binding keeps every variable it asked for, in every container it binds,
\* until it is projected again or unprojected itself, or the user replaces the
\* template: no operation for another binding takes one away (unprojectEnv).
OtherBindingsPreserved ==
  \A u \in Uids : last[u] # NotProjected =>
    \A i \in DOMAIN base.containers, k \in DOMAIN last[u].env :
      isContainerBindable(last[u], template.containers[i]) =>
        \E j \in DOMAIN template.containers[i].env :
          template.containers[i].env[j] = EnvVar(last[u], last[u].env[k])
=============================================================================
