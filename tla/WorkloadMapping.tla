-------------------------- MODULE WorkloadMapping --------------------------
(***************************************************************************)
(* Where a workload keeps what is projected into it: the mapping resource  *)
(* of a workload's type, its validating webhook                            *)
(* (apis/v1beta1/clusterworkloadresourcemapping_webhook.go), and the       *)
(* resolver's choice of a template for one version of that type            *)
(* (resolver/cluster.go).  Only the validating webhook is deployed: it     *)
(* validates a mapping with its defaults filled in, and what is stored is  *)
(* the mapping without them.                                               *)
(***************************************************************************)
EXTENDS Naturals, Sequences, SequencesExt, FiniteSets

CONSTANTS
  Versions,     \* the versions in which workloads of the type are served
  Templates,    \* mapping templates that users write
  MaxVersions,  \* bound on the number of templates in a mapping
  Malformed,    \* paths that are no JSONPath expression
  General       \* paths that are one, and no plain sequence of fields

Wildcard == "*"
Unset == ""

MappingContainer == [path : STRING, name : STRING, env : STRING, volumeMounts : STRING]
MappingTemplate ==
  [version : STRING, annotations : STRING, containers : Seq(MappingContainer), volumes : STRING]

ASSUME MappingAssumption ==
  /\ Wildcard \notin Versions
  /\ MaxVersions \in Nat
  /\ Templates \subseteq MappingTemplate
  /\ Unset \notin Malformed \cup General

\* The paths of a PodSpecable resource are what they look like.
ASSUME DefaultsAssumption ==
  /\ {".spec.template.metadata.annotations", ".spec.template.spec.volumes",
      ".name", ".env", ".volumeMounts"} \cap (Malformed \cup General) = {}
  /\ {".spec.template.spec.initContainers[*]", ".spec.template.spec.containers[*]"}
       \cap Malformed = {}

VARIABLE stored  \* the templates of the stored mapping, none without one

vars == <<stored>>

----------------------------------------------------------------------------
Or(path, default) == IF path = Unset THEN default ELSE path

PodSpecableContainers ==
  << [path |-> ".spec.template.spec.initContainers[*]", name |-> ".name",
      env |-> Unset, volumeMounts |-> Unset],
     [path |-> ".spec.template.spec.containers[*]", name |-> ".name",
      env |-> Unset, volumeMounts |-> Unset] >>

DefaultContainer(c) ==
  [c EXCEPT !.env = Or(@, ".env"), !.volumeMounts = Or(@, ".volumeMounts")]

\* Mutant: the paths in a container are set before the containers are.
DefaultEarly(t) ==
  [t EXCEPT
     !.annotations = Or(@, ".spec.template.metadata.annotations"),
     !.containers = IF @ = <<>> THEN PodSpecableContainers
                    ELSE [i \in DOMAIN @ |-> DefaultContainer(@[i])],
     !.volumes = Or(@, ".spec.template.spec.volumes")]

\* ClusterWorkloadResourceMappingTemplate.Default: what a template leaves out is
\* as in a PodSpecable resource.
Default(t) ==
  LET containers == IF t.containers = <<>> THEN PodSpecableContainers ELSE t.containers
  IN  [t EXCEPT
         !.annotations = Or(@, ".spec.template.metadata.annotations"),
         !.containers = [i \in DOMAIN containers |-> DefaultContainer(containers[i])],
         !.volumes = Or(@, ".spec.template.spec.volumes")]

DefaultAll(spec) == [i \in DOMAIN spec |-> Default(spec[i])]

\* validateJsonPath and validateRestrictedJsonPath.
IsJsonPath(path) == path \notin Malformed
IsFieldPath(path) == path \notin Malformed \cup General

ValidContainer(c) ==
  /\ IsJsonPath(c.path)
  /\ c.name # Unset => IsFieldPath(c.name)
  /\ IsFieldPath(c.env)
  /\ IsFieldPath(c.volumeMounts)

ValidTemplate(t) ==
  /\ t.version # Unset
  /\ IsFieldPath(t.annotations)
  /\ IsFieldPath(t.volumes)
  /\ \A i \in DOMAIN t.containers : ValidContainer(t.containers[i])

\* Mutant: versions may repeat.
ValidRepeated(spec) == \A i \in DOMAIN spec : ValidTemplate(spec[i])

\* ClusterWorkloadResourceMapping.validate.
Valid(spec) ==
  /\ \A i, j \in DOMAIN spec : spec[i].version = spec[j].version => i = j
  /\ \A i \in DOMAIN spec : ValidTemplate(spec[i])

----------------------------------------------------------------------------
NoMapping ==
  [version |-> Wildcard, annotations |-> Unset, containers |-> <<>>, volumes |-> Unset]

At(spec, version) == {i \in DOMAIN spec : spec[i].version = version}

\* The last template for all versions, or an empty one.
WildcardMapping(spec) ==
  IF At(spec, Wildcard) = {} THEN NoMapping ELSE spec[Max(At(spec, Wildcard))]

\* resolver.LookupMapping.  An exact match keeps the address of the loop's only
\* variable, which holds the last template when the loop is over (go 1.18).
LookupMapping(spec, version) ==
  Default(IF At(spec, version) # {} THEN Last(spec) ELSE WildcardMapping(spec))

----------------------------------------------------------------------------
\* A user creates or updates the mapping: ValidateCreate, ValidateUpdate.
Apply(spec) ==
  /\ Valid(DefaultAll(spec))
  /\ stored' = spec

\* A user deletes it.
Delete ==
  /\ stored # <<>>
  /\ stored' = <<>>

Init == stored = <<>>

Next ==
  \/ \E spec \in BoundedSeq(Templates, MaxVersions) : Apply(spec)
  \/ Delete

Spec == Init /\ [][Next]_vars

----------------------------------------------------------------------------
\* A version without a template of its own is served by the template for all
\* versions, wherever in the mapping that stands, and as a PodSpecable resource
\* when there is none (validate makes the versions unique, LookupMapping looks
\* at every one of them).
WildcardServesTheRest ==
  \A version \in Versions : At(stored, version) = {} =>
    /\ At(stored, Wildcard) = {} => LookupMapping(stored, version) = Default(NoMapping)
    /\ \A i \in At(stored, Wildcard) : LookupMapping(stored, version) = Default(stored[i])

\* Although a mapping is stored without its defaults, the projector gets a
\* template in which every path it follows is given and has been validated,
\* whichever version it asks for (Default and validate in the webhook, Default
\* again in LookupMapping).
LookupIsUsable ==
  \A version \in Versions :
    LET t == LookupMapping(stored, version)
    IN  /\ ValidTemplate(t)
        /\ Unset \notin {t.annotations, t.volumes}
        /\ t.containers # <<>>
        /\ \A i \in DOMAIN t.containers :
             Unset \notin {t.containers[i].env, t.containers[i].volumeMounts}

SamePaths(t, u) ==
  /\ t.annotations = u.annotations
  /\ t.containers = u.containers
  /\ t.volumes = u.volumes

\* What the Resolver interface says: the workload's version is directly matched
\* if the mapping has it (LookupMapping).
ExactVersionIsMatched ==
  \A version \in Versions :
    \A i \in At(stored, version) : SamePaths(LookupMapping(stored, version), Default(stored[i]))
=============================================================================
