----------------------- MODULE WorkloadMappingProofs ------------------------
(***************************************************************************)
(* What a stored mapping promises, for every mapping that users can write  *)
(* and every number of templates in it: by itself, and under the workloads *)
(* and projections of MappedWorkload.                                      *)
(***************************************************************************)
EXTENDS MappedWorkload, TLAPS

\* A default fills in what is not set.
LEMMA DefaultContainerGives ==
  ASSUME NEW c \in MappingContainer
  PROVE  /\ DefaultContainer(c).path = c.path
         /\ DefaultContainer(c).name = c.name
         /\ DefaultContainer(c).env = Or(c.env, ".env")
         /\ DefaultContainer(c).volumeMounts = Or(c.volumeMounts, ".volumeMounts")
PROOF BY DEF DefaultContainer, MappingContainer

\* A path that is given in place of one that is not set is set.
LEMMA OrIsSet ==
  ASSUME NEW path, NEW default, default # Unset
  PROVE  Or(path, default) # Unset
PROOF BY DEF Or

\* The containers that a template without any stands for.
LEMMA PodSpecableContainersAre ==
  /\ DOMAIN PodSpecableContainers = 1 .. 2
  /\ \A i \in 1 .. 2 :
       /\ DefaultContainer(PodSpecableContainers[i]).path
            \in {".spec.template.spec.initContainers[*]", ".spec.template.spec.containers[*]"}
       /\ DefaultContainer(PodSpecableContainers[i]).name = ".name"
       /\ DefaultContainer(PodSpecableContainers[i]).env = ".env"
       /\ DefaultContainer(PodSpecableContainers[i]).volumeMounts = ".volumeMounts"
<1>1. DOMAIN PodSpecableContainers = 1 .. 2
  BY DEF PodSpecableContainers
<1>2. PodSpecableContainers[1] =
        [path |-> ".spec.template.spec.initContainers[*]", name |-> ".name",
         env |-> Unset, volumeMounts |-> Unset]
  BY DEF PodSpecableContainers
<1>3. PodSpecableContainers[2] =
        [path |-> ".spec.template.spec.containers[*]", name |-> ".name",
         env |-> Unset, volumeMounts |-> Unset]
  BY DEF PodSpecableContainers
<1>4. /\ DefaultContainer(PodSpecableContainers[1]).path = ".spec.template.spec.initContainers[*]"
      /\ DefaultContainer(PodSpecableContainers[1]).name = ".name"
      /\ DefaultContainer(PodSpecableContainers[1]).env = ".env"
      /\ DefaultContainer(PodSpecableContainers[1]).volumeMounts = ".volumeMounts"
  BY <1>2 DEF DefaultContainer, Or
<1>5. /\ DefaultContainer(PodSpecableContainers[2]).path = ".spec.template.spec.containers[*]"
      /\ DefaultContainer(PodSpecableContainers[2]).name = ".name"
      /\ DefaultContainer(PodSpecableContainers[2]).env = ".env"
      /\ DefaultContainer(PodSpecableContainers[2]).volumeMounts = ".volumeMounts"
  BY <1>3 DEF DefaultContainer, Or
<1>6. \A i \in 1 .. 2 : i = 1 \/ i = 2
  OBVIOUS
<1>. QED
  BY <1>1, <1>4, <1>5, <1>6

\* They are valid, and every path of theirs is set.
LEMMA PodSpecableContainersAreValid ==
  \A i \in DOMAIN PodSpecableContainers :
    /\ ValidContainer(DefaultContainer(PodSpecableContainers[i]))
    /\ DefaultContainer(PodSpecableContainers[i]).env # Unset
    /\ DefaultContainer(PodSpecableContainers[i]).volumeMounts # Unset
<1>. SUFFICES ASSUME NEW i \in 1 .. 2
              PROVE  /\ ValidContainer(DefaultContainer(PodSpecableContainers[i]))
                     /\ DefaultContainer(PodSpecableContainers[i]).env # Unset
                     /\ DefaultContainer(PodSpecableContainers[i]).volumeMounts # Unset
  BY PodSpecableContainersAre
<1>. DEFINE c == DefaultContainer(PodSpecableContainers[i])
<1>1. /\ c.path \in {".spec.template.spec.initContainers[*]", ".spec.template.spec.containers[*]"}
      /\ c.name = ".name" /\ c.env = ".env" /\ c.volumeMounts = ".volumeMounts"
  BY PodSpecableContainersAre
<1>. HIDE DEF c
<1>2. ValidContainer(c)
  BY <1>1, DefaultsAssumption DEF ValidContainer, IsJsonPath, IsFieldPath
<1>3. c.env # Unset /\ c.volumeMounts # Unset
  BY <1>1 DEF Unset
<1>. QED
  BY <1>2, <1>3 DEF c

----------------------------------------------------------------------------
\* What the projector needs of a template: LookupIsUsable, of one template.
Usable(t) ==
  /\ ValidTemplate(t)
  /\ Unset \notin {t.annotations, t.volumes}
  /\ t.containers # <<>>
  /\ \A i \in DOMAIN t.containers :
       Unset \notin {t.containers[i].env, t.containers[i].volumeMounts}

\* A type without a mapping is served as a PodSpecable resource.
LEMMA NoMappingIsUsable == Usable(Default(NoMapping))
<1>. DEFINE d == Default(NoMapping)
            ds == [i \in DOMAIN PodSpecableContainers |-> DefaultContainer(PodSpecableContainers[i])]
<1>1. /\ d.version = Wildcard
      /\ d.annotations = ".spec.template.metadata.annotations"
      /\ d.volumes = ".spec.template.spec.volumes"
  BY DEF Default, NoMapping, Or
<1>2. d.containers = ds
  BY DEF Default, NoMapping
<1>3. DOMAIN ds = 1 .. 2 /\ ds # <<>>
  BY PodSpecableContainersAre
<1>4. \A i \in DOMAIN ds : ValidContainer(ds[i]) /\ ds[i].env # Unset /\ ds[i].volumeMounts # Unset
  BY PodSpecableContainersAreValid
<1>. HIDE DEF d, ds
<1>5. d.version # Unset /\ d.annotations # Unset /\ d.volumes # Unset
  BY <1>1 DEF Wildcard, Unset
<1>6. IsFieldPath(d.annotations) /\ IsFieldPath(d.volumes)
  BY <1>1, DefaultsAssumption DEF IsFieldPath
<1>7. ValidTemplate(d)
  BY <1>2, <1>4, <1>5, <1>6 DEF ValidTemplate
<1>. QED
  BY <1>2, <1>3, <1>4, <1>5, <1>7 DEF Usable, d

\* A template that is valid with its defaults is usable with them: none of the
\* paths the projector follows is left out.
LEMMA DefaultIsUsable ==
  ASSUME NEW t \in MappingTemplate, ValidTemplate(Default(t))
  PROVE  Usable(Default(t))
<1>. DEFINE d == Default(t)
            cs == IF t.containers = <<>> THEN PodSpecableContainers ELSE t.containers
            ds == [i \in DOMAIN cs |-> DefaultContainer(cs[i])]
<1>1. /\ d.annotations = Or(t.annotations, ".spec.template.metadata.annotations")
      /\ d.containers = ds
      /\ d.volumes = Or(t.volumes, ".spec.template.spec.volumes")
  BY DEF Default, MappingTemplate
<1>2. d.annotations # Unset /\ d.volumes # Unset
  BY <1>1, OrIsSet DEF Unset
<1>3. /\ ds # <<>>
      /\ \A i \in DOMAIN ds : ds[i].env # Unset /\ ds[i].volumeMounts # Unset
  <2>1. CASE t.containers = <<>>
    <3>1. cs = PodSpecableContainers
      BY <2>1
    <3>2. DOMAIN ds = 1 .. 2
      BY <3>1, PodSpecableContainersAre
    <3>3. ds # <<>>
      BY <3>2
    <3>4. \A i \in DOMAIN ds : ds[i].env # Unset /\ ds[i].volumeMounts # Unset
      BY <3>1, PodSpecableContainersAreValid
    <3>. QED
      BY <3>3, <3>4
  <2>2. CASE t.containers # <<>>
    <3>1. cs = t.containers /\ t.containers \in Seq(MappingContainer)
      BY <2>2 DEF MappingTemplate
    <3>2. /\ DOMAIN ds = 1 .. Len(t.containers)
          /\ Len(t.containers) \in Nat
          /\ 1 \in DOMAIN ds
      <4>1. DOMAIN t.containers = 1 .. Len(t.containers) /\ Len(t.containers) \in Nat
        BY <3>1
      <4>2. Len(t.containers) # 0
        BY <2>2, <3>1
      <4>3. DOMAIN ds = DOMAIN t.containers
        BY <3>1
      <4>. QED
        BY <4>1, <4>2, <4>3
    <3>3. ds # <<>>
      BY <3>2
    <3>4. ASSUME NEW i \in DOMAIN ds
          PROVE  ds[i].env # Unset /\ ds[i].volumeMounts # Unset
      <4>1. ds[i] = DefaultContainer(t.containers[i]) /\ t.containers[i] \in MappingContainer
        BY <3>1, <3>2
      <4>2. /\ ds[i].env = Or(t.containers[i].env, ".env")
            /\ ds[i].volumeMounts = Or(t.containers[i].volumeMounts, ".volumeMounts")
        BY <4>1, DefaultContainerGives
      <4>3. ".env" # Unset /\ ".volumeMounts" # Unset
        BY DEF Unset
      <4>. QED
        BY <4>2, <4>3, OrIsSet
    <3>. QED
      BY <3>3, <3>4
  <2>. QED
    BY <2>1, <2>2
<1>. HIDE DEF d, cs, ds
<1>4. ValidTemplate(d)
  BY DEF d
<1>. QED
  BY <1>1, <1>2, <1>3, <1>4 DEF Usable, d

----------------------------------------------------------------------------
\* The inductive invariant: what is stored was valid once its defaults were
\* filled in, although it is stored without them.
StoredIsValid ==
  /\ stored \in Seq(MappingTemplate)
  /\ Valid(DefaultAll(stored))

\* A mapping that users write is a sequence of templates.
LEMMA WrittenIsTyped ==
  ASSUME NEW spec \in BoundedSeq(Templates, MaxVersions)
  PROVE  spec \in Seq(MappingTemplate)
<1>1. PICK m \in 0 .. MaxVersions : spec \in [1 .. m -> Templates]
  BY DEF BoundedSeq, SeqOf
<1>2. spec \in [1 .. m -> MappingTemplate]
  BY <1>1, MappingAssumption
<1>. QED
  BY <1>1, <1>2, MappingAssumption

\* Each stored template is valid with its defaults, and no other has its version.
LEMMA StoredTemplates ==
  ASSUME StoredIsValid, NEW i \in DOMAIN stored
  PROVE  /\ stored[i] \in MappingTemplate
         /\ ValidTemplate(Default(stored[i]))
         /\ \A j \in DOMAIN stored : stored[i].version = stored[j].version => i = j
<1>1. stored[i] \in MappingTemplate
  BY DEF StoredIsValid
<1>2. \A j \in DOMAIN stored : DefaultAll(stored)[j] = Default(stored[j])
  BY DEF DefaultAll
<1>3. DOMAIN DefaultAll(stored) = DOMAIN stored
  BY DEF DefaultAll
<1>4. ValidTemplate(Default(stored[i]))
  BY <1>2, <1>3 DEF StoredIsValid, Valid
<1>5. \A j \in DOMAIN stored : Default(stored[j]).version = stored[j].version
  <2>. SUFFICES ASSUME NEW j \in DOMAIN stored
                PROVE  Default(stored[j]).version = stored[j].version
    OBVIOUS
  <2>1. stored[j] \in MappingTemplate
    BY DEF StoredIsValid
  <2>. QED
    BY <2>1 DEF Default, MappingTemplate
<1>6. \A j \in DOMAIN stored : stored[i].version = stored[j].version => i = j
  BY <1>2, <1>3, <1>5 DEF StoredIsValid, Valid
<1>. QED
  BY <1>1, <1>4, <1>6

\* The template for all versions is found wherever it stands.
LEMMA WildcardIsFound ==
  ASSUME StoredIsValid, NEW i \in At(stored, Wildcard)
  PROVE  WildcardMapping(stored) = stored[i]
<1>1. i \in DOMAIN stored /\ stored[i].version = Wildcard
  BY DEF At
<1>2. At(stored, Wildcard) = {i}
  BY <1>1, StoredTemplates DEF At
<1>3. i \in Nat
  BY <1>1 DEF StoredIsValid
<1>4. Max({i}) = i
  BY <1>3 DEF Max
<1>. QED
  BY <1>2, <1>4 DEF WildcardMapping

\* The projector gets a usable template for every version it asks for.
LEMMA LookupGives ==
  ASSUME StoredIsValid, NEW version
  PROVE  Usable(LookupMapping(stored, version))
<1>1. CASE At(stored, version) # {}
  <2>1. stored # <<>> /\ Len(stored) \in DOMAIN stored
    BY <1>1 DEF At, StoredIsValid
  <2>2. LookupMapping(stored, version) = Default(stored[Len(stored)])
    BY <1>1 DEF LookupMapping, Last
  <2>. QED
    BY <2>1, <2>2, StoredTemplates, DefaultIsUsable
<1>2. CASE At(stored, version) = {} /\ At(stored, Wildcard) # {}
  <2>1. PICK i \in At(stored, Wildcard) : TRUE
    BY <1>2
  <2>2. LookupMapping(stored, version) = Default(stored[i])
    BY <1>2, WildcardIsFound DEF LookupMapping
  <2>3. i \in DOMAIN stored
    BY DEF At
  <2>. QED
    BY <2>2, <2>3, StoredTemplates, DefaultIsUsable
<1>3. CASE At(stored, version) = {} /\ At(stored, Wildcard) = {}
  <2>1. LookupMapping(stored, version) = Default(NoMapping)
    BY <1>3 DEF LookupMapping, WildcardMapping
  <2>. QED
    BY <2>1, NoMappingIsUsable
<1>. QED
  BY <1>1, <1>2, <1>3

\* What the two properties ask of a stored mapping.
LEMMA StoredIsServed ==
  ASSUME StoredIsValid
  PROVE  LookupIsUsable /\ WildcardServesTheRest
<1>1. LookupIsUsable
  BY LookupGives DEF LookupIsUsable, Usable
<1>2. ASSUME NEW version \in Versions, At(stored, version) = {}
      PROVE  /\ At(stored, Wildcard) = {} => LookupMapping(stored, version) = Default(NoMapping)
             /\ \A i \in At(stored, Wildcard) : LookupMapping(stored, version) = Default(stored[i])
  BY <1>2, WildcardIsFound DEF LookupMapping, WildcardMapping
<1>. QED
  BY <1>1, <1>2 DEF WildcardServesTheRest

----------------------------------------------------------------------------
\* Without a mapping there is nothing to be valid.
LEMMA InitIsValid == Init => StoredIsValid
<1>. SUFFICES ASSUME stored = <<>>
              PROVE  stored \in Seq(MappingTemplate) /\ Valid(DefaultAll(stored))
  BY DEF Init, StoredIsValid
<1>1. DOMAIN DefaultAll(stored) = {}
  BY DEF DefaultAll
<1>2. Valid(DefaultAll(stored))
  BY <1>1 DEF Valid
<1>. QED
  BY <1>2

\* Every write of a mapping goes through the webhook; deleting one leaves none.
LEMMA NextIsValid ==
  ASSUME StoredIsValid, Next
  PROVE  StoredIsValid'
<1>1. ASSUME NEW spec \in BoundedSeq(Templates, MaxVersions), Apply(spec)
      PROVE  StoredIsValid'
  BY <1>1, WrittenIsTyped DEF Apply, StoredIsValid
<1>2. CASE Delete
  <2>1. stored' = <<>>
    BY <1>2 DEF Delete
  <2>2. DOMAIN DefaultAll(<<>>) = {}
    BY DEF DefaultAll
  <2>3. Valid(DefaultAll(<<>>))
    BY <2>2 DEF Valid
  <2>. QED
    BY <2>1, <2>3 DEF StoredIsValid
<1>. QED
  BY <1>1, <1>2 DEF Next

\* The mapping alone: whichever mappings users write and delete, a lookup gives
\* the projector a validated template with every path set, and a version without
\* a template of its own is served by the one for all versions (validate,
\* Default, LookupMapping).
THEOREM MappingIsServed == Spec => [](LookupIsUsable /\ WildcardServesTheRest)
<1>1. StoredIsValid /\ UNCHANGED vars => StoredIsValid'
  BY DEF StoredIsValid, vars
<1>2. StoredIsValid /\ [Next]_vars => StoredIsValid'
  BY <1>1, NextIsValid
<1>. QED
  BY <1>2, InitIsValid, StoredIsServed, PTL DEF Spec

\* Projections and workloads leave the mapping alone.
LEMMA WorkloadNextIsValid ==
  ASSUME StoredIsValid, [WorkloadNext]_workloadVars
  PROVE  StoredIsValid'
<1>1. CASE Remap
  <2>1. Next
    BY <1>1 DEF Remap, Next
  <2>. QED
    BY <2>1, NextIsValid
<1>2. CASE stored' = stored
  BY <1>2 DEF StoredIsValid
<1>3. Remap \/ stored' = stored
  BY DEF WorkloadNext, Project, Unproject, Replace, workloadVars
<1>. QED
  BY <1>1, <1>2, <1>3

\* A mapping in use: whatever is projected through it, the template that the
\* projector of a workload is given is validated and has every path set
\* (LookupMapping, NewMetaPodTemplate).
THEOREM MappedIsUsable == WorkloadSpec => []LookupIsUsable
<1>1. WorkloadInit => StoredIsValid
  BY InitIsValid DEF WorkloadInit
<1>2. StoredIsValid /\ [WorkloadNext]_workloadVars => StoredIsValid'
  BY WorkloadNextIsValid
<1>. QED
  BY <1>1, <1>2, StoredIsServed, PTL DEF WorkloadSpec

\* The same for the template of the versions without one of their own: its place
\* in the mapping does not matter (LookupMapping).
THEOREM MappedWildcardServes == WorkloadSpec => []WildcardServesTheRest
<1>1. WorkloadInit => StoredIsValid
  BY InitIsValid DEF WorkloadInit
<1>2. StoredIsValid /\ [WorkloadNext]_workloadVars => StoredIsValid'
  BY WorkloadNextIsValid
<1>. QED
  BY <1>1, <1>2, StoredIsServed, PTL DEF WorkloadSpec
=============================================================================
