---------------------- MODULE ProjectedWorkloadProofs ----------------------
(***************************************************************************)
(* Proofs about ProjectedWorkload: what the projector leaves in a template *)
(* is well formed, refers only to what is there and keeps what the user    *)
(* wrote, whatever the bindings and templates, however many, in any order; *)
(* where the bindings share no secret, ProjectedWorkload implements        *)
(* Projection and projecting once more changes nothing; where they share   *)
(* no name of a variable either, the order makes no difference.            *)
(***************************************************************************)
EXTENDS ProjectedWorkload, FiniteSetTheorems, WellFoundedInduction

----------------------------------------------------------------------------
(***************************************************************************)
(* Lists.  Sorting and filtering are both Arrange, so that one argument    *)
(* serves for both: when before is a strict linear order, the numbers of   *)
(* places ahead of an item are all different and fill 0..n-1.              *)
(***************************************************************************)
Ordered(before) ==
  /\ \A i \in DOMAIN before : before[i] \subseteq DOMAIN before \ {i}
  /\ \A i \in DOMAIN before : \A j \in before[i] : before[j] \subseteq before[i]
  /\ \A i, j \in DOMAIN before : i = j \/ i \in before[j] \/ j \in before[i]

\* In a strict linear order no two items have as many places ahead of them, and
\* every number of places below the length is that of an item (Arrange).
LEMMA RankIsOnto ==
  ASSUME NEW before, IsFiniteSet(DOMAIN before), Ordered(before)
  PROVE  /\ Cardinality(DOMAIN before) \in Nat
         /\ \A i, j \in DOMAIN before :
              j \in before[i] => Cardinality(before[j]) < Cardinality(before[i])
         /\ \A i \in DOMAIN before : Cardinality(before[i]) \in 0..(Cardinality(DOMAIN before) - 1)
         /\ \A k \in 1..Cardinality(DOMAIN before) :
              \E i \in DOMAIN before : Cardinality(before[i]) = k - 1
<1> DEFINE P == DOMAIN before
           n == Cardinality(P)
           rank(i) == Cardinality(before[i])
<1>1. n \in Nat
  BY FS_CardinalityType
<1>2. ASSUME NEW i \in P PROVE rank(i) \in 0..(n - 1) /\ IsFiniteSet(before[i])
  <2>1. before[i] \subseteq P /\ before[i] # P
    BY DEF Ordered
  <2>2. IsFiniteSet(before[i]) /\ rank(i) <= n /\ n # rank(i)
    BY <2>1, FS_Subset
  <2>3. rank(i) \in Nat
    BY <2>2, FS_CardinalityType
  <2> QED
    BY <1>1, <2>2, <2>3
<1>3. ASSUME NEW i \in P, NEW j \in P, j \in before[i] PROVE rank(j) < rank(i)
  <2>1. before[j] \subseteq before[i] /\ j \in before[i] /\ j \notin before[j]
    BY <1>3 DEF Ordered
  <2> QED
    BY <1>2, <2>1, FS_Subset
<1>4. ASSUME NEW i \in P, NEW j \in P, rank(i) = rank(j) PROVE i = j
  <2>1. i = j \/ i \in before[j] \/ j \in before[i]
    BY DEF Ordered
  <2>2. rank(i) \in Nat /\ rank(j) \in Nat
    BY <1>1, <1>2
  <2> HIDE DEF rank
  <2> QED
    BY <1>3, <1>4, <2>1, <2>2
<1>5. ASSUME NEW k \in 1..n PROVE \E i \in P : rank(i) = k - 1
  <2> DEFINE f == [i \in P |-> rank(i)]
             T == {rank(i) : i \in P}
  <2>1. T \subseteq 0..(n - 1)
    BY <1>2
  <2>2. f \in Bijection(P, T)
    <3> HIDE DEF rank
    <3>1. f \in [P -> T]
      OBVIOUS
    <3>2. \A a, b \in P : f[a] = f[b] => a = b
      BY <1>4
    <3>3. \A t \in T : \E a \in P : f[a] = t
      OBVIOUS
    <3> QED
      BY <3>1, <3>2, <3>3 DEF Bijection, Injection, IsInjective, Surjection
  <2>3. Cardinality(T) = n /\ IsFiniteSet(T)
    BY <2>2, FS_Bijection DEF ExistsBijection
  <2>4. IsFiniteSet(0..(n - 1)) /\ Cardinality(0..(n - 1)) = n
    <3> HIDE DEF n
    <3>1. 0 \in Int /\ n - 1 \in Int
      BY <1>1
    <3>2. Cardinality(0..(n - 1)) = IF 0 > n - 1 THEN 0 ELSE (n - 1) - 0 + 1
      BY <3>1, FS_Interval
    <3> QED
      BY <1>1, <3>1, <3>2, FS_Interval
  <2>5. T = 0..(n - 1)
    BY <2>1, <2>3, <2>4, <1>1, FS_Subset
  <2> QED
    BY <2>5, <1>1
<1> QED
  BY <1>1, <1>2, <1>3, <1>5

\* A list arranged by a strict linear order has the items that were given a
\* place, and no others (Arrange).
LEMMA ArrangedItems ==
  ASSUME NEW s, NEW before, IsFiniteSet(DOMAIN before), Ordered(before)
  PROVE  List(Arrange(s, before)) /\ Range(Arrange(s, before)) = {s[i] : i \in DOMAIN before}
<1> DEFINE P == DOMAIN before
           n == Cardinality(P)
           rank(i) == Cardinality(before[i])
           at(k) == CHOOSE i \in P : rank(i) = k - 1
           list == [k \in 1..n |-> s[at(k)]]
<1>1. n \in Nat /\ \A i \in P : rank(i) \in 0..(n - 1)
  BY RankIsOnto
<1>2. \A k \in 1..n : \E i \in P : rank(i) = k - 1
  BY RankIsOnto
<1>3. \A i, j \in P : rank(i) = rank(j) => i = j
  <2> SUFFICES ASSUME NEW i \in P, NEW j \in P, rank(i) = rank(j) PROVE i = j
    OBVIOUS
  <2>1. i = j \/ i \in before[j] \/ j \in before[i]
    BY DEF Ordered
  <2>2. (j \in before[i] => rank(j) < rank(i)) /\ (i \in before[j] => rank(i) < rank(j))
    BY RankIsOnto
  <2>3. rank(i) \in Nat /\ rank(j) \in Nat
    BY <1>1
  <2> HIDE DEF rank
  <2> QED
    BY <2>1, <2>2, <2>3
<1> HIDE DEF rank
<1>4. ASSUME NEW k \in 1..n PROVE at(k) \in P /\ rank(at(k)) = k - 1
  BY <1>2
<1>5. ASSUME NEW i \in P PROVE rank(i) + 1 \in 1..n /\ at(rank(i) + 1) = i
  <2>1. rank(i) + 1 \in 1..n /\ (rank(i) + 1) - 1 = rank(i)
    BY <1>1
  <2>2. at(rank(i) + 1) \in P /\ rank(at(rank(i) + 1)) = rank(i)
    BY <1>4, <2>1
  <2> QED
    BY <1>3, <2>1, <2>2
<1>6. Arrange(s, before) = list
  BY DEF Arrange, rank
<1> HIDE DEF at
<1>7. Range(list) = {s[i] : i \in P}
  <2>1. DOMAIN list = 1..n /\ \A k \in 1..n : list[k] = s[at(k)]
    OBVIOUS
  <2>2. ASSUME NEW i \in P PROVE s[i] \in Range(list)
    <3>1. list[rank(i) + 1] = s[i]
      BY <1>5, <2>1
    <3> QED
      BY <1>5, <2>1, <3>1 DEF Range
  <2>3. ASSUME NEW x \in Range(list) PROVE x \in {s[i] : i \in P}
    BY <1>4, <2>1 DEF Range
  <2> QED
    BY <2>2, <2>3
<1>8. list \in Seq(Range(list))
  BY <1>1 DEF Range
<1> QED
  BY <1>6, <1>7, <1>8 DEF List

\* The places of the items to keep, in the order they have (Kept).
LEMMA FilterIsOrdered ==
  ASSUME NEW s, List(s), NEW P \in SUBSET DOMAIN s
  PROVE  LET before == [i \in P |-> {j \in P : j < i}]
         IN  IsFiniteSet(DOMAIN before) /\ Ordered(before)
<1> DEFINE before == [i \in P |-> {j \in P : j < i}]
<1>1. DOMAIN s = 1..Len(s) /\ Len(s) \in Nat
  BY DEF List
<1>2. IsFiniteSet(DOMAIN before)
  <2>1. IsFiniteSet(1..Len(s))
    BY <1>1, FS_Interval
  <2> QED
    BY <1>1, <2>1, FS_Subset
<1>3. P \subseteq Nat
  BY <1>1
<1>4. Ordered(before)
  BY <1>3 DEF Ordered
<1> QED
  BY <1>2, <1>4

\* A list from which items are dropped has the others, in a list again (Kept).
LEMMA FilteredItems ==
  ASSUME NEW s, List(s), NEW P \in SUBSET DOMAIN s
  PROVE  LET r == Arrange(s, [i \in P |-> {j \in P : j < i}])
         IN  List(r) /\ Range(r) = {s[i] : i \in P}
<1> DEFINE before == [i \in P |-> {j \in P : j < i}]
<1>1. IsFiniteSet(DOMAIN before) /\ Ordered(before)
  BY FilterIsOrdered
<1> HIDE DEF before
<1>2. List(Arrange(s, before)) /\ Range(Arrange(s, before)) = {s[i] : i \in DOMAIN before}
  BY <1>1, ArrangedItems
<1> QED
  BY <1>2 DEF before

\* The order that puts projected items last, by a number among themselves, and
\* breaks ties by place (SliceStable with ProjectedLast).
SortOrder(s, projected, key) ==
  LET less(i, j) == ProjectedLast(i \in projected, j \in projected, key[i] < key[j])
  IN  [i \in DOMAIN s |-> {j \in DOMAIN s : less(j, i) \/ (~less(i, j) /\ j < i)}]

\* It is a strict linear order.
LEMMA SortIsOrdered ==
  ASSUME NEW s, List(s), NEW projected \in SUBSET DOMAIN s, NEW key,
         \A i \in projected : key[i] \in Nat
  PROVE  /\ DOMAIN SortOrder(s, projected, key) = DOMAIN s
         /\ IsFiniteSet(DOMAIN SortOrder(s, projected, key))
         /\ Ordered(SortOrder(s, projected, key))
<1> DEFINE less(i, j) == ProjectedLast(i \in projected, j \in projected, key[i] < key[j])
           before == [i \in DOMAIN s |->
                        {j \in DOMAIN s : less(j, i) \/ (~less(i, j) /\ j < i)}]
<1>1. DOMAIN s = 1..Len(s) /\ Len(s) \in Nat
  BY DEF List
<1>2. IsFiniteSet(DOMAIN before)
  BY <1>1, FS_Interval
<1>3. DOMAIN s \subseteq Nat
  BY <1>1
<1>4. Ordered(before)
  <2>1. ASSUME NEW i \in DOMAIN s PROVE before[i] \subseteq DOMAIN s \ {i}
    BY <1>3 DEF ProjectedLast
  <2>2. ASSUME NEW i \in DOMAIN s, NEW j \in before[i], NEW k \in before[j] PROVE k \in before[i]
    BY <1>3 DEF ProjectedLast
  <2>3. ASSUME NEW i \in DOMAIN s, NEW j \in DOMAIN s
        PROVE  i = j \/ i \in before[j] \/ j \in before[i]
    BY <1>3 DEF ProjectedLast
  <2> QED
    BY <2>1, <2>2, <2>3 DEF Ordered
<1>5. SortOrder(s, projected, key) = before /\ DOMAIN before = DOMAIN s
  BY DEF SortOrder
<1> HIDE DEF before
<1> QED
  BY <1>2, <1>4, <1>5

\* A list that is sorted has the items it had.
LEMMA SortedItems ==
  ASSUME NEW s, NEW before, DOMAIN before = DOMAIN s, IsFiniteSet(DOMAIN before), Ordered(before)
  PROVE  List(Arrange(s, before)) /\ Range(Arrange(s, before)) = Range(s)
  BY ArrangedItems DEF Range

\* Sorting volumes, or mounts, keeps them all (VolumeLess).
LEMMA SortedVolumes ==
  ASSUME NEW s, List(s), \A v \in Range(s) : HasVolumePrefix(v.name) => v.name[2] \in Nat
  PROVE  List(SliceStable(s, VolumeLess)) /\ Range(SliceStable(s, VolumeLess)) = Range(s)
<1> DEFINE projected == {i \in DOMAIN s : HasVolumePrefix(s[i].name)}
           key == [i \in DOMAIN s |-> s[i].name[2]]
           less(i, j) == ProjectedLast(i \in projected, j \in projected, key[i] < key[j])
           before == SortOrder(s, projected, key)
           stable == [i \in DOMAIN s |->
                        {j \in DOMAIN s : \/ VolumeLess(s[j], s[i])
                                          \/ ~VolumeLess(s[i], s[j]) /\ j < i}]
<1>1. \A i \in projected : key[i] \in Nat
  BY DEF Range
<1>2. DOMAIN before = DOMAIN s /\ IsFiniteSet(DOMAIN before) /\ Ordered(before)
  <2>1. projected \in SUBSET DOMAIN s
    OBVIOUS
  <2> HIDE DEF projected, key
  <2> QED
    BY <1>1, <2>1, SortIsOrdered
<1>3. \A i, j \in DOMAIN s : less(i, j) <=> VolumeLess(s[i], s[j])
  BY DEF VolumeLess, ProjectedLast
<1>4. before = stable
  <2>1. before = [i \in DOMAIN s |-> {j \in DOMAIN s : less(j, i) \/ (~less(i, j) /\ j < i)}]
    BY DEF SortOrder
  <2> HIDE DEF less, before
  <2> QED
    BY <1>3, <2>1
<1>5. SliceStable(s, VolumeLess) = Arrange(s, stable)
  BY DEF SliceStable
<1> HIDE DEF before, stable
<1> QED
  BY <1>2, <1>4, <1>5, SortedItems

\* The order of the variables (projectEnv).
VariableOrder(s, secrets) ==
  LET Less(e, f) == ProjectedLast(isProjectedEnv(e, secrets), isProjectedEnv(f, secrets),
                                  e.name < f.name)
  IN  [i \in DOMAIN s |-> {j \in DOMAIN s : Less(s[j], s[i]) \/ (~Less(s[i], s[j]) /\ j < i)}]

\* Variables have a strict linear order once ties are broken (projectEnv).
LEMMA VariablesAreOrdered ==
  ASSUME NEW s, List(s), \A e \in Range(s) : e.name \in Nat, NEW secrets
  PROVE  /\ DOMAIN VariableOrder(s, secrets) = DOMAIN s
         /\ IsFiniteSet(DOMAIN VariableOrder(s, secrets))
         /\ Ordered(VariableOrder(s, secrets))
<1> DEFINE Less(e, f) == ProjectedLast(isProjectedEnv(e, secrets), isProjectedEnv(f, secrets),
                                       e.name < f.name)
           projected == {i \in DOMAIN s : isProjectedEnv(s[i], secrets)}
           key == [i \in DOMAIN s |-> s[i].name]
           less(i, j) == ProjectedLast(i \in projected, j \in projected, key[i] < key[j])
           before == SortOrder(s, projected, key)
<1>1. \A i \in projected : key[i] \in Nat
  BY DEF Range
<1>2. DOMAIN before = DOMAIN s /\ IsFiniteSet(DOMAIN before) /\ Ordered(before)
  <2>1. projected \in SUBSET DOMAIN s
    OBVIOUS
  <2> HIDE DEF projected, key
  <2> QED
    BY <1>1, <2>1, SortIsOrdered
<1>3. \A i, j \in DOMAIN s : less(i, j) <=> Less(s[i], s[j])
  BY DEF ProjectedLast
<1>4. before = VariableOrder(s, secrets)
  <2>1. VariableOrder(s, secrets) =
          [i \in DOMAIN s |-> {j \in DOMAIN s : Less(s[j], s[i]) \/ (~Less(s[i], s[j]) /\ j < i)}]
    BY DEF VariableOrder
  <2>2. before = [i \in DOMAIN s |-> {j \in DOMAIN s : less(j, i) \/ (~less(i, j) /\ j < i)}]
    BY DEF SortOrder
  <2> HIDE DEF less, Less, before
  <2> QED
    BY <1>3, <2>1, <2>2
<1> HIDE DEF before
<1> QED
  BY <1>2, <1>4

\* The items of a list with one more, and of two lists one behind the other
\* (append).
LEMMA AppendedItems ==
  ASSUME NEW s, List(s)
  PROVE  /\ \A x : List(Append(s, x)) /\ Range(Append(s, x)) = Range(s) \cup {x}
         /\ \A r : List(r) => List(s \o r) /\ Range(s \o r) = Range(s) \cup Range(r)
<1>1. s \in Seq(Range(s)) /\ DOMAIN s = 1..Len(s) /\ Len(s) \in Nat
  BY DEF List
<1>2. ASSUME NEW x PROVE List(Append(s, x)) /\ Range(Append(s, x)) = Range(s) \cup {x}
  <2> DEFINE T == Range(s) \cup {x}
             a == Append(s, x)
  <2>1. s \in Seq(T)
    BY <1>1
  <2>2. DOMAIN a = 1..(Len(s) + 1) /\ \A i \in 1..Len(s) : a[i] = s[i]
    BY <2>1
  <2>3. a[Len(s) + 1] = x /\ Len(a) = Len(s) + 1
    BY <2>1
  <2>4. Range(a) = T
    BY <1>1, <2>2, <2>3 DEF Range
  <2>5. a \in Seq(T)
    BY <2>1
  <2> QED
    BY <2>4, <2>5 DEF List
<1>3. ASSUME NEW r, List(r) PROVE List(s \o r) /\ Range(s \o r) = Range(s) \cup Range(r)
  <2> DEFINE T == Range(s) \cup Range(r)
             a == s \o r
  <2>1. s \in Seq(T) /\ r \in Seq(T) /\ DOMAIN r = 1..Len(r) /\ Len(r) \in Nat
    BY <1>1, <1>3 DEF List
  <2>2. a \in Seq(T) /\ Len(a) = Len(s) + Len(r) /\ DOMAIN a = 1..(Len(s) + Len(r))
    BY <2>1
  <2>3. \A i \in 1..Len(s) : i \in DOMAIN a /\ a[i] = s[i]
    BY <1>1, <2>1, <2>2
  <2>4. \A i \in 1..Len(r) : Len(s) + i \in DOMAIN a /\ a[Len(s) + i] = r[i]
    BY <1>1, <2>1, <2>2
  <2>5. T \subseteq Range(a)
    BY <1>1, <2>1, <2>3, <2>4 DEF Range
  <2>6. Range(a) \subseteq T
    BY <2>2 DEF Range
  <2> QED
    BY <2>2, <2>5, <2>6 DEF List
<1> QED
  BY <1>2, <1>3

----------------------------------------------------------------------------
(***************************************************************************)
(* The projector's operations, seen as what they do to the sets of items.  *)
(***************************************************************************)
ContainerShape(c) ==
  /\ DOMAIN c = {"name", "env", "mounts"}
  /\ List(c.env) /\ \A e \in Range(c.env) : e.name \in Nat
  /\ List(c.mounts) /\ \A m \in Range(c.mounts) : HasVolumePrefix(m.name) => m.name[2] \in Nat

TemplateShape(t) ==
  /\ DOMAIN t = {"annotations", "containers", "volumes"}
  /\ \A i \in DOMAIN t.containers : ContainerShape(t.containers[i])
  /\ List(t.volumes) /\ \A v \in Range(t.volumes) : HasVolumePrefix(v.name) => v.name[2] \in Nat

\* What is known of a version once it was accepted and loaded.
IsVersion(b) ==
  /\ b.uid \in Nat
  /\ b.name # Blank
  /\ List(b.env)
  /\ \A i \in DOMAIN b.env : b.env[i].name \in Nat \ {NoVariable} /\ b.env[i].key # Blank

\* A version the projector is handed was validated with the name it is handed
\* with, variables included (Default, validate).
LEMMA VersionsAreValid ==
  \A b \in BindingVersions : IsVersion(b) /\ b.uid \in Uids
<1> SUFFICES ASSUME NEW b \in BindingVersions PROVE IsVersion(b) /\ b.uid \in Uids
  OBVIOUS
<1>1. PICK s \in Submissions : Accepted(s) /\ \E secret : b = Version(Loaded(s), secret)
  BY DEF BindingVersions
<1>2. /\ s.uid \in Uids
      /\ s.env \in Seq([name : Nat, key : STRING])
      /\ DOMAIN s = {"uid", "metadataName", "name", "type", "provider", "env", "containers",
                     "service", "workload"}
  BY SubmissionsAssumption
<1>3. b.uid = s.uid /\ b.env = s.env /\ b.name = Default(s).name
  BY <1>1, <1>2 DEF Version, Loaded, Default
<1>4. Default(s).env = s.env
  BY <1>2 DEF Default
<1>5. b.name # Blank /\ \A i \in DOMAIN b.env : b.env[i].name # NoVariable /\ b.env[i].key # Blank
  BY <1>1, <1>3, <1>4 DEF Accepted, ValidSpec, ValidEnv
<1>6. List(b.env) /\ \A i \in DOMAIN b.env : b.env[i].name \in Nat
  <2> DEFINE r == s.env
             T == [name : Nat, key : STRING]
  <2>1. r \in Seq(T)
    BY <1>2
  <2> HIDE DEF r, T
  <2>2. \A i \in DOMAIN r : r[i] \in T
    BY <2>1
  <2>3. List(r)
    <3>1. Len(r) \in Nat /\ DOMAIN r = 1..Len(r) /\ r = [i \in 1..Len(r) |-> r[i]]
      BY <2>1
    <3>2. \A i \in 1..Len(r) : r[i] \in Range(r)
      BY <3>1 DEF Range
    <3> QED
      BY <3>1, <3>2 DEF List
  <2> QED
    BY <1>3, <2>2, <2>3 DEF r, T
<1> QED
  BY <1>2, <1>3, <1>5, <1>6, UidsAssumption DEF IsVersion

\* The condition of unprojectEnv.
StaysVariable(b, t, e) ==
  LET name == SecretAnnotationName(b)
      secret == IF name \in DOMAIN t.annotations THEN t.annotations[name] ELSE Empty
  IN  /\ ~(IsSecretKeyRef(e) /\ e.from[2] = secret)
      /\ ~(IsFieldRef(e) /\ e.from[2] \in {TypeAnnotationName(b), ProviderAnnotationName(b)})

\* Unprojecting a container takes out the mounts and the variables of the binding
\* and nothing else (unprojectContainer).
LEMMA UnprojectedContainer ==
  ASSUME NEW b, NEW t, NEW c, ContainerShape(c)
  PROVE  LET d == unprojectContainer(b, t, c)
         IN  /\ ContainerShape(d)
             /\ d.name = c.name
             /\ Range(d.mounts) = {m \in Range(c.mounts) : m.name # VolumeName(b)}
             /\ Range(d.env) = {e \in Range(c.env) : StaysVariable(b, t, e)}
<1> DEFINE KeepMount(m) == m.name # VolumeName(b)
           mounts == Kept(c.mounts, KeepMount)
           KeepEnv(e) == StaysVariable(b, t, e)
           env == Kept(c.env, KeepEnv)
           d == unprojectContainer(b, t, c)
<1>1. d = [[c EXCEPT !.mounts = mounts] EXCEPT !.env = env]
  BY DEF unprojectContainer, unprojectEnv, unprojectVolumeMount, StaysVariable, ContainerShape
<1>2. List(mounts) /\ Range(mounts) = {m \in Range(c.mounts) : m.name # VolumeName(b)}
  <2> DEFINE P == {i \in DOMAIN c.mounts : KeepMount(c.mounts[i])}
             r == Arrange(c.mounts, [i \in P |-> {j \in P : j < i}])
  <2>1. mounts = r
    BY DEF Kept
  <2>2. List(r) /\ Range(r) = {c.mounts[i] : i \in P}
    <3> HIDE DEF KeepMount
    <3>1. P \in SUBSET DOMAIN c.mounts /\ List(c.mounts)
      BY DEF ContainerShape
    <3> HIDE DEF P
    <3> QED
      BY <3>1, FilteredItems
  <2> QED
    BY <2>1, <2>2 DEF Range
<1>3. List(env) /\ Range(env) = {e \in Range(c.env) : StaysVariable(b, t, e)}
  <2> DEFINE P == {i \in DOMAIN c.env : KeepEnv(c.env[i])}
             r == Arrange(c.env, [i \in P |-> {j \in P : j < i}])
  <2>1. env = r
    BY DEF Kept
  <2>2. List(r) /\ Range(r) = {c.env[i] : i \in P}
    <3> HIDE DEF KeepEnv
    <3>1. P \in SUBSET DOMAIN c.env /\ List(c.env)
      BY DEF ContainerShape
    <3> HIDE DEF P
    <3> QED
      BY <3>1, FilteredItems
  <2> QED
    BY <2>1, <2>2 DEF Range
<1> HIDE DEF mounts, env, d
<1>4. DOMAIN d = DOMAIN c /\ d.name = c.name /\ d.mounts = mounts /\ d.env = env
  BY <1>1 DEF ContainerShape
<1> QED
  BY <1>2, <1>3, <1>4 DEF ContainerShape, d

RootVariable == [name |-> ServiceBindingRootEnv, from |-> Value(DefaultRoot)]

MountOf(b, c) == [name |-> VolumeName(b), path |-> <<RootValue(c.env), b.name>>]

VariablesOf(b) == {EnvVar(b, b.env[i]) : i \in DOMAIN b.env}

VolumeOf(b) == [name |-> VolumeName(b), sources |-> VolumeSources(b)]

\* Reading the root adds at most the root variable (serviceBindingRoot).
LEMMA RootedContainer ==
  ASSUME NEW c, ContainerShape(c)
  PROVE  LET d == serviceBindingRoot(c)
         IN  /\ ContainerShape(d)
             /\ d.name = c.name
             /\ d.mounts = c.mounts
             /\ Range(c.env) \subseteq Range(d.env)
             /\ Range(d.env) \subseteq Range(c.env) \cup {RootVariable}
<1> DEFINE d == serviceBindingRoot(c)
<1>1. CASE d = c
  BY <1>1
<1>2. CASE d = [c EXCEPT !.env = Append(@, RootVariable)]
  <2>1. List(Append(c.env, RootVariable))
        /\ Range(Append(c.env, RootVariable)) = Range(c.env) \cup {RootVariable}
    BY AppendedItems DEF ContainerShape
  <2>2. DOMAIN d = DOMAIN c /\ d.name = c.name /\ d.mounts = c.mounts
        /\ d.env = Append(c.env, RootVariable)
    BY <1>2 DEF ContainerShape
  <2>3. RootVariable.name \in Nat
    BY DEF RootVariable, ServiceBindingRootEnv
  <2> HIDE DEF d
  <2> QED
    BY <2>1, <2>2, <2>3 DEF ContainerShape, d
<1> QED
  BY <1>1, <1>2 DEF serviceBindingRoot, RootVariable

\* What a binding adds to the variables is a list (projectEnv).
LEMMA VariablesAreListed ==
  ASSUME NEW b, IsVersion(b)
  PROVE  LET added == [i \in DOMAIN b.env |-> EnvVar(b, b.env[i])]
         IN  /\ List(added)
             /\ Range(added) = VariablesOf(b)
             /\ \A e \in Range(added) : e.name \in Nat
<1> DEFINE added == [i \in DOMAIN b.env |-> EnvVar(b, b.env[i])]
<1>1. DOMAIN b.env = 1..Len(b.env) /\ Len(b.env) \in Nat
  BY DEF IsVersion, List
<1>2. Range(added) = VariablesOf(b)
  BY DEF Range, VariablesOf
<1>3. \A i \in 1..Len(b.env) : added[i] \in Range(added)
  BY <1>1 DEF Range
<1>4. \A e \in VariablesOf(b) : e.name \in Nat
  BY DEF VariablesOf, EnvVar, IsVersion
<1>5. List(added)
  <2> DEFINE n == Len(b.env)
             x(i) == EnvVar(b, b.env[i])
             S == Range(added)
  <2>1. added = [i \in 1..n |-> x(i)] /\ n \in Nat /\ \A i \in 1..n : x(i) \in S
    BY <1>1, <1>3
  <2> HIDE DEF n, x, S
  <2>2. [i \in 1..n |-> x(i)] \in Seq(S)
    BY <2>1
  <2> QED
    BY <2>1, <2>2 DEF List, S
<1> QED
  BY <1>2, <1>4, <1>5

\* Projecting into a container adds the mount, the variables and at most the root
\* variable, and takes nothing away (projectContainer).
LEMMA ProjectedContainer ==
  ASSUME NEW b, IsVersion(b), NEW t, NEW c, ContainerShape(c), isContainerBindable(b, c)
  PROVE  LET d == projectContainer(b, t, c)
         IN  /\ ContainerShape(d)
             /\ d.name = c.name
             /\ Range(d.mounts) = Range(c.mounts) \cup {MountOf(b, c)}
             /\ Range(d.env) = Range(serviceBindingRoot(c).env) \cup VariablesOf(b)
<1> DEFINE r == serviceBindingRoot(c)
           added == [i \in DOMAIN b.env |-> EnvVar(b, b.env[i])]
           secrets == knownProjectedSecrets(t)
           Less(e, f) == ProjectedLast(isProjectedEnv(e, secrets), isProjectedEnv(f, secrets),
                                       e.name < f.name)
           mounts == SliceStable(Append(c.mounts, MountOf(b, c)), VolumeLess)
           env == SliceStable(r.env \o added, Less)
           d == projectContainer(b, t, c)
<1>1. ContainerShape(r) /\ r.name = c.name /\ r.mounts = c.mounts
  BY RootedContainer
<1>2. List(mounts) /\ Range(mounts) = Range(c.mounts) \cup {MountOf(b, c)}
  <2> DEFINE s == Append(c.mounts, MountOf(b, c))
  <2>1. List(s) /\ Range(s) = Range(c.mounts) \cup {MountOf(b, c)}
    BY AppendedItems DEF ContainerShape
  <2>2. MountOf(b, c).name[2] \in Nat
    BY DEF MountOf, VolumeName, IsVersion
  <2> HIDE DEF s
  <2>3. \A m \in Range(s) : HasVolumePrefix(m.name) => m.name[2] \in Nat
    BY <2>1, <2>2 DEF ContainerShape
  <2>4. List(SliceStable(s, VolumeLess)) /\ Range(SliceStable(s, VolumeLess)) = Range(s)
    BY <2>1, <2>3, SortedVolumes
  <2> QED
    BY <2>1, <2>4 DEF s
<1>3. List(added) /\ Range(added) = VariablesOf(b) /\ \A e \in Range(added) : e.name \in Nat
  BY VariablesAreListed
<1>4. List(env) /\ Range(env) = Range(r.env) \cup VariablesOf(b)
      /\ \A e \in Range(env) : e.name \in Nat
  <2> DEFINE s == r.env \o added
  <2>1. List(r.env) /\ \A e \in Range(r.env) : e.name \in Nat
    BY <1>1 DEF ContainerShape
  <2>2. List(s) /\ Range(s) = Range(r.env) \cup Range(added)
    <3> HIDE DEF r, added
    <3> QED
      BY <1>3, <2>1, AppendedItems
  <2>3. \A e \in Range(s) : e.name \in Nat
    BY <1>3, <2>1, <2>2
  <2> HIDE DEF s
  <2> DEFINE sorted == Arrange(s, VariableOrder(s, secrets))
  <2>4. List(sorted) /\ Range(sorted) = Range(s)
    <3> HIDE DEF secrets
    <3>1. /\ DOMAIN VariableOrder(s, secrets) = DOMAIN s
          /\ IsFiniteSet(DOMAIN VariableOrder(s, secrets))
          /\ Ordered(VariableOrder(s, secrets))
      BY <2>2, <2>3, VariablesAreOrdered
    <3> QED
      BY <3>1, SortedItems
  <2>5. env = sorted
    BY DEF s, SliceStable, VariableOrder
  <2> HIDE DEF env, sorted
  <2> QED
    BY <1>3, <2>2, <2>3, <2>4, <2>5
<1>5. d = [[r EXCEPT !.mounts = mounts] EXCEPT !.env = env]
  <2>1. d = projectEnv(b, t, projectVolumeMount(b, c))
    BY DEF projectContainer
  <2>2. projectVolumeMount(b, c) = [r EXCEPT !.mounts = mounts]
    BY <1>1 DEF projectVolumeMount, MountOf
  <2>3. [r EXCEPT !.mounts = mounts].env = r.env
    BY <1>1 DEF ContainerShape
  <2> QED
    BY <2>1, <2>2, <2>3 DEF projectEnv
<1> HIDE DEF r, mounts, env, d
<1>6. DOMAIN d = DOMAIN r /\ d.name = r.name /\ d.mounts = mounts /\ d.env = env
  BY <1>1, <1>5 DEF ContainerShape
<1>7. MountOf(b, c).name[2] \in Nat
  BY DEF MountOf, VolumeName, IsVersion
<1>8. ContainerShape(d)
  BY <1>1, <1>2, <1>4, <1>6, <1>7 DEF ContainerShape
<1> QED
  BY <1>1, <1>2, <1>4, <1>6, <1>8 DEF d, r

\* Unprojecting takes out the volume and the annotations of the binding, cleans
\* every container, and leaves the rest (unproject).
LEMMA UnprojectedTemplate ==
  ASSUME NEW b, NEW t, TemplateShape(t)
  PROVE  LET u == unproject(b, t)
         IN  /\ TemplateShape(u)
             /\ DOMAIN u.containers = DOMAIN t.containers
             /\ \A i \in DOMAIN t.containers :
                  u.containers[i] = unprojectContainer(b, t, t.containers[i])
             /\ Range(u.volumes) = {v \in Range(t.volumes) : v.name # VolumeName(b)}
             /\ DOMAIN u.annotations =
                  DOMAIN t.annotations \ {SecretAnnotationName(b), TypeAnnotationName(b),
                                          ProviderAnnotationName(b)}
             /\ \A a \in DOMAIN u.annotations : u.annotations[a] = t.annotations[a]
<1> DEFINE KeepVolume(v) == v.name # VolumeName(b)
           volumes == Kept(t.volumes, KeepVolume)
           containers == [i \in DOMAIN t.containers |-> unprojectContainer(b, t, t.containers[i])]
           v == [t EXCEPT !.volumes = volumes]
           c == [v EXCEPT !.containers = containers]
           u == unproject(b, t)
<1>1. List(volumes) /\ Range(volumes) = {x \in Range(t.volumes) : x.name # VolumeName(b)}
  <2> DEFINE P == {i \in DOMAIN t.volumes : KeepVolume(t.volumes[i])}
             r == Arrange(t.volumes, [i \in P |-> {j \in P : j < i}])
  <2>1. volumes = r
    BY DEF Kept
  <2>2. List(r) /\ Range(r) = {t.volumes[i] : i \in P}
    <3> HIDE DEF KeepVolume
    <3>1. P \in SUBSET DOMAIN t.volumes /\ List(t.volumes)
      BY DEF TemplateShape
    <3> HIDE DEF P
    <3> QED
      BY <3>1, FilteredItems
  <2> QED
    BY <2>1, <2>2 DEF Range
<1>2. u = cleanupAnnotations(b, c)
  <2>1. unprojectVolume(b, t) = v
    BY DEF unprojectVolume
  <2>2. v.containers = t.containers
    BY DEF TemplateShape
  <2> QED
    BY <2>1, <2>2 DEF unproject
<1> HIDE DEF volumes, containers
<1>3. DOMAIN c = DOMAIN t /\ c.annotations = t.annotations /\ c.containers = containers
      /\ c.volumes = volumes
  BY DEF TemplateShape
<1> HIDE DEF c, u
<1>4. DOMAIN u = DOMAIN t /\ u.containers = containers /\ u.volumes = volumes
      /\ u.annotations = Restrict(t.annotations,
           DOMAIN t.annotations \ {SecretAnnotationName(b), TypeAnnotationName(b),
                                   ProviderAnnotationName(b)})
  BY <1>2, <1>3 DEF cleanupAnnotations, TemplateShape
<1>5. \A i \in DOMAIN t.containers : ContainerShape(unprojectContainer(b, t, t.containers[i]))
  BY UnprojectedContainer DEF TemplateShape
<1>6. TemplateShape(u)
  BY <1>1, <1>4, <1>5 DEF TemplateShape, containers
<1>7. DOMAIN u.containers = DOMAIN t.containers
      /\ \A i \in DOMAIN t.containers :
           u.containers[i] = unprojectContainer(b, t, t.containers[i])
  BY <1>4 DEF containers
<1>8. DOMAIN u.annotations = DOMAIN t.annotations \ {SecretAnnotationName(b), TypeAnnotationName(b),
                                                     ProviderAnnotationName(b)}
      /\ \A a \in DOMAIN u.annotations : u.annotations[a] = t.annotations[a]
  BY <1>4 DEF Restrict
<1> QED
  BY <1>1, <1>4, <1>6, <1>7, <1>8 DEF u

\* Projecting adds the volume and the annotations of the binding to the template
\* it was taken out of, and goes through every container (project).
LEMMA ProjectedTemplate ==
  ASSUME NEW b, IsVersion(b), b.secret # Empty, NEW t, TemplateShape(t)
  PROVE  LET u == unproject(b, t)
             v == projectVolume(b, u)
             p == project(b, t)
         IN  /\ TemplateShape(p)
             /\ DOMAIN p.containers = DOMAIN t.containers
             /\ \A i \in DOMAIN t.containers :
                  p.containers[i] = projectContainer(b, v, u.containers[i])
             /\ Range(p.volumes) = Range(u.volumes) \cup {VolumeOf(b)}
             /\ p.annotations = annotate(b, u.annotations)
<1> DEFINE u == unproject(b, t)
           v == projectVolume(b, u)
           p == project(b, t)
           volumes == SliceStable(Append(u.volumes, VolumeOf(b)), VolumeLess)
           containers == [i \in DOMAIN u.containers |-> projectContainer(b, v, u.containers[i])]
<1>1. TemplateShape(u) /\ DOMAIN u.containers = DOMAIN t.containers
  BY UnprojectedTemplate
<1>2. VolumeOf(b).name[2] \in Nat
  BY DEF VolumeOf, VolumeName, IsVersion
<1> HIDE DEF u
<1>3. List(volumes) /\ Range(volumes) = Range(u.volumes) \cup {VolumeOf(b)}
  <2> DEFINE s == Append(u.volumes, VolumeOf(b))
  <2>1. List(s) /\ Range(s) = Range(u.volumes) \cup {VolumeOf(b)}
    BY <1>1, AppendedItems DEF TemplateShape
  <2> HIDE DEF s
  <2>2. \A x \in Range(s) : HasVolumePrefix(x.name) => x.name[2] \in Nat
    BY <1>1, <1>2, <2>1 DEF TemplateShape
  <2>3. List(SliceStable(s, VolumeLess)) /\ Range(SliceStable(s, VolumeLess)) = Range(s)
    BY <2>1, <2>2, SortedVolumes
  <2> QED
    BY <2>1, <2>3 DEF s
<1>4. v = [u EXCEPT !.annotations = annotate(b, @), !.volumes = volumes]
  BY DEF projectVolume, VolumeOf
<1> HIDE DEF volumes, v
<1>5. DOMAIN v = DOMAIN u /\ v.containers = u.containers /\ v.volumes = volumes
      /\ v.annotations = annotate(b, u.annotations)
  BY <1>1, <1>4 DEF TemplateShape
<1>6. p = [v EXCEPT !.containers = containers]
  BY <1>5 DEF project, u, v
<1> HIDE DEF p, containers
<1>7. DOMAIN p = DOMAIN u /\ p.containers = containers /\ p.volumes = volumes
      /\ p.annotations = annotate(b, u.annotations)
  BY <1>1, <1>5, <1>6 DEF TemplateShape
<1>8. ASSUME NEW i \in DOMAIN u.containers
      PROVE  ContainerShape(projectContainer(b, v, u.containers[i]))
  <2>1. ContainerShape(u.containers[i])
    BY <1>1 DEF TemplateShape
  <2>2. CASE isContainerBindable(b, u.containers[i])
    BY <2>1, <2>2, ProjectedContainer
  <2>3. CASE ~isContainerBindable(b, u.containers[i])
    BY <2>1, <2>3 DEF projectContainer
  <2> QED
    BY <2>2, <2>3
<1>9. TemplateShape(p)
  BY <1>1, <1>2, <1>3, <1>7, <1>8 DEF TemplateShape, containers
<1>10. DOMAIN p.containers = DOMAIN t.containers
       /\ \A i \in DOMAIN t.containers : p.containers[i] = projectContainer(b, v, u.containers[i])
  BY <1>1, <1>7 DEF containers
<1> QED
  BY <1>3, <1>7, <1>9, <1>10 DEF u, v, p

----------------------------------------------------------------------------
(***************************************************************************)
(* The invariants, as predicates of a template.                            *)
(***************************************************************************)
VariableIsWellFormed(e) ==
  e.name # NoVariable /\ (IsSecretKeyRef(e) => e.from[3] # Blank)

ContainerIsWellFormed(c) ==
  /\ \A e \in Range(c.env) : VariableIsWellFormed(e)
  /\ \A m \in Range(c.mounts) : HasVolumePrefix(m.name) => m.path[2] # Blank

WellFormed(t) == \A i \in DOMAIN t.containers : ContainerIsWellFormed(t.containers[i])

\* The annotations a binding's volume and variables rely on.
Annotated(b, t) ==
  /\ ProjectedAnnotations(b) \subseteq DOMAIN t.annotations
  /\ t.annotations[SecretAnnotationName(b)] = b.secret

\* A projected volume is that of one version of a binding, with its annotations.
VolumesResolve(t) ==
  \A v \in Range(t.volumes) : HasVolumePrefix(v.name) =>
    \E b \in BindingVersions : v = VolumeOf(b) /\ Annotated(b, t)

MountsResolve(t) ==
  \A i \in DOMAIN t.containers : \A m \in Range(t.containers[i].mounts) :
    HasVolumePrefix(m.name) => \E v \in Range(t.volumes) : v.name = m.name

\* A variable refers to the type or to the provider annotation of a binding.
VariablesResolve(t) ==
  \A i \in DOMAIN t.containers : \A e \in Range(t.containers[i].env) :
    IsFieldRef(e) /\ InGroup(e.from[2]) =>
      /\ e.from[2] \in DOMAIN t.annotations
      /\ \E b \in BindingVersions : e.from[2] \in {TypeAnnotationName(b), ProviderAnnotationName(b)}

Resolves(t) == VolumesResolve(t) /\ MountsResolve(t) /\ VariablesResolve(t)

\* The containers are those the user wrote, in the user's order.
SameContainers(t, u) ==
  /\ DOMAIN t.containers = DOMAIN u.containers
  /\ \A i \in DOMAIN u.containers : t.containers[i].name = u.containers[i].name

WorkloadInv ==
  /\ UserTemplate(base)
  /\ TemplateShape(template)
  /\ SameContainers(template, base)
  /\ last \in [Uids -> BindingVersions \cup {NotProjected}]
  /\ WellFormed(template)
  /\ Resolves(template)

\* What a user writes has no projected item in it, so that there is nothing to
\* resolve (UserReplace).
LEMMA UserTemplateResolves ==
  ASSUME NEW t, UserTemplate(t)
  PROVE  TemplateShape(t) /\ WellFormed(t) /\ Resolves(t)
<1>1. \A i \in DOMAIN t.containers : UserContainer(t.containers[i])
  BY DEF UserTemplate, Range
<1>2. TemplateShape(t)
  BY <1>1 DEF UserTemplate, UserContainer, UserVariable, TemplateShape, ContainerShape
<1>3. WellFormed(t)
  BY <1>1 DEF UserContainer, UserVariable, WellFormed, ContainerIsWellFormed, VariableIsWellFormed
<1>4. VolumesResolve(t) /\ MountsResolve(t)
  BY <1>1 DEF UserTemplate, UserContainer, VolumesResolve, MountsResolve
<1>5. VariablesResolve(t)
  BY <1>1 DEF UserContainer, UserVariable, VariablesResolve
<1> QED
  BY <1>2, <1>3, <1>4, <1>5 DEF Resolves

\* The names derived from a uid tell the bindings and the kinds apart.
LEMMA NamesDiffer ==
  \A b, c : /\ VolumeName(b) = VolumeName(c) <=> b.uid = c.uid
            /\ SecretAnnotationName(b) = SecretAnnotationName(c) <=> b.uid = c.uid
            /\ TypeAnnotationName(b) = TypeAnnotationName(c) <=> b.uid = c.uid
            /\ ProviderAnnotationName(b) = ProviderAnnotationName(c) <=> b.uid = c.uid
            /\ SecretAnnotationName(b) # TypeAnnotationName(c)
            /\ SecretAnnotationName(b) # ProviderAnnotationName(c)
            /\ TypeAnnotationName(b) # ProviderAnnotationName(c)
  BY DEF VolumeName, SecretAnnotationName, TypeAnnotationName, ProviderAnnotationName

\* With the binding taken out, what is left still finds what it refers to: the
\* annotations that go belong to nobody else (unproject).
LEMMA UnprojectResolves ==
  ASSUME NEW b, NEW t, TemplateShape(t), WellFormed(t), Resolves(t)
  PROVE  /\ WellFormed(unproject(b, t))
         /\ Resolves(unproject(b, t))
         /\ SameContainers(unproject(b, t), t)
<1> DEFINE u == unproject(b, t)
<1>1. DOMAIN u.containers = DOMAIN t.containers
      /\ \A i \in DOMAIN t.containers : u.containers[i] = unprojectContainer(b, t, t.containers[i])
  BY UnprojectedTemplate
<1>2. Range(u.volumes) = {v \in Range(t.volumes) : v.name # VolumeName(b)}
  BY UnprojectedTemplate
<1>3. DOMAIN u.annotations = DOMAIN t.annotations \ {SecretAnnotationName(b), TypeAnnotationName(b),
                                                     ProviderAnnotationName(b)}
      /\ \A a \in DOMAIN u.annotations : u.annotations[a] = t.annotations[a]
  BY UnprojectedTemplate
<1> HIDE DEF u
<1>4. ASSUME NEW i \in DOMAIN t.containers
      PROVE  /\ u.containers[i].name = t.containers[i].name
             /\ Range(u.containers[i].mounts) =
                  {m \in Range(t.containers[i].mounts) : m.name # VolumeName(b)}
             /\ Range(u.containers[i].env) =
                  {e \in Range(t.containers[i].env) : StaysVariable(b, t, e)}
  <2> DEFINE c == t.containers[i]
             d == unprojectContainer(b, t, c)
  <2>1. ContainerShape(c)
    BY DEF TemplateShape
  <2>2. u.containers[i] = d
    BY <1>1
  <2> HIDE DEF c
  <2>3. /\ d.name = c.name
        /\ Range(d.mounts) = {m \in Range(c.mounts) : m.name # VolumeName(b)}
        /\ Range(d.env) = {e \in Range(c.env) : StaysVariable(b, t, e)}
    BY <2>1, UnprojectedContainer
  <2> QED
    BY <2>2, <2>3 DEF c
<1>5. WellFormed(u)
  BY <1>1, <1>4 DEF WellFormed, ContainerIsWellFormed
<1>6. VolumesResolve(u)
  <2> SUFFICES ASSUME NEW v \in Range(u.volumes), HasVolumePrefix(v.name)
               PROVE  \E c \in BindingVersions : v = VolumeOf(c) /\ Annotated(c, u)
    BY DEF VolumesResolve
  <2>1. v \in Range(t.volumes) /\ v.name # VolumeName(b)
    BY <1>2
  <2>2. PICK c \in BindingVersions : v = VolumeOf(c) /\ Annotated(c, t)
    BY <2>1 DEF Resolves, VolumesResolve
  <2>3. c.uid # b.uid
    BY <2>1, <2>2, NamesDiffer DEF VolumeOf
  <2>4. ProjectedAnnotations(c) \subseteq DOMAIN u.annotations
    BY <1>3, <2>2, <2>3, NamesDiffer DEF Annotated, ProjectedAnnotations
  <2>5. SecretAnnotationName(c) \in DOMAIN u.annotations
    BY <2>4 DEF ProjectedAnnotations
  <2> QED
    BY <1>3, <2>2, <2>4, <2>5 DEF Annotated
<1>7. MountsResolve(u)
  <2> SUFFICES ASSUME NEW i \in DOMAIN u.containers, NEW m \in Range(u.containers[i].mounts),
                      HasVolumePrefix(m.name)
               PROVE  \E v \in Range(u.volumes) : v.name = m.name
    BY DEF MountsResolve
  <2>1. m \in Range(t.containers[i].mounts) /\ m.name # VolumeName(b)
    BY <1>1, <1>4
  <2>2. PICK v \in Range(t.volumes) : v.name = m.name
    BY <1>1, <2>1 DEF Resolves, MountsResolve
  <2> QED
    BY <1>2, <2>1, <2>2
<1>8. VariablesResolve(u)
  <2> SUFFICES ASSUME NEW i \in DOMAIN u.containers, NEW e \in Range(u.containers[i].env),
                      IsFieldRef(e), InGroup(e.from[2])
               PROVE  /\ e.from[2] \in DOMAIN u.annotations
                      /\ \E c \in BindingVersions :
                           e.from[2] \in {TypeAnnotationName(c), ProviderAnnotationName(c)}
    BY DEF VariablesResolve
  <2>1. e \in Range(t.containers[i].env) /\ StaysVariable(b, t, e)
    BY <1>1, <1>4
  <2>2. /\ e.from[2] \in DOMAIN t.annotations
        /\ \E c \in BindingVersions :
             e.from[2] \in {TypeAnnotationName(c), ProviderAnnotationName(c)}
    BY <1>1, <2>1 DEF Resolves, VariablesResolve
  <2>3. e.from[2] \notin {TypeAnnotationName(b), ProviderAnnotationName(b)}
    BY <2>1 DEF StaysVariable
  <2>4. e.from[2] # SecretAnnotationName(b)
    BY <2>2, NamesDiffer
  <2> QED
    BY <1>3, <2>2, <2>3, <2>4
<1>9. SameContainers(u, t)
  BY <1>1, <1>4 DEF SameContainers
<1> QED
  BY <1>5, <1>6, <1>7, <1>8, <1>9 DEF Resolves, u

\* A binding's variables have names and keys, and refer to its own annotations
\* (projectEnv).
LEMMA AddedVariables ==
  ASSUME NEW b, IsVersion(b), NEW e \in VariablesOf(b)
  PROVE  /\ VariableIsWellFormed(e)
         /\ IsFieldRef(e) => /\ e.from[2] \in {TypeAnnotationName(b), ProviderAnnotationName(b)}
                             /\ e.from[2] \in ProjectedAnnotations(b)
<1>1. PICK i \in DOMAIN b.env : e = EnvVar(b, b.env[i])
  BY DEF VariablesOf
<1>2. b.env[i].name # NoVariable /\ b.env[i].key # Blank
  BY DEF IsVersion
<1>3. e.name = b.env[i].name
  BY <1>1 DEF EnvVar
<1>4. CASE b.env[i].key = "type" /\ b.type # Empty
  <2>1. e.from = FieldRef(TypeAnnotationName(b))
    BY <1>1, <1>4 DEF EnvVar
  <2> QED
    BY <1>2, <1>3, <1>4, <2>1
    DEF FieldRef, IsFieldRef, IsSecretKeyRef, VariableIsWellFormed, ProjectedAnnotations
<1>5. CASE b.env[i].key = "provider" /\ b.provider # Empty
  <2>1. e.from = FieldRef(ProviderAnnotationName(b))
    BY <1>1, <1>5 DEF EnvVar
  <2> QED
    BY <1>2, <1>3, <1>5, <2>1
    DEF FieldRef, IsFieldRef, IsSecretKeyRef, VariableIsWellFormed, ProjectedAnnotations
<1>6. CASE /\ ~(b.env[i].key = "type" /\ b.type # Empty)
           /\ ~(b.env[i].key = "provider" /\ b.provider # Empty)
  <2>1. e.from = SecretKeyRef(b.secret, b.env[i].key)
    BY <1>1, <1>6 DEF EnvVar
  <2> QED
    BY <1>2, <1>3, <2>1 DEF SecretKeyRef, IsFieldRef, IsSecretKeyRef, VariableIsWellFormed
<1> QED
  BY <1>4, <1>5, <1>6

\* With the binding put in, everything finds what it refers to: the binding's
\* items its new annotations, the others theirs, which are not set again (project).
LEMMA ProjectResolves ==
  ASSUME NEW b \in BindingVersions, NEW t, TemplateShape(t), WellFormed(t), Resolves(t)
  PROVE  /\ TemplateShape(project(b, t))
         /\ WellFormed(project(b, t))
         /\ Resolves(project(b, t))
         /\ SameContainers(project(b, t), t)
<1> DEFINE u == unproject(b, t)
           v == projectVolume(b, u)
           p == project(b, t)
<1>1. IsVersion(b)
  BY VersionsAreValid
<1>2. /\ TemplateShape(u)
      /\ DOMAIN u.containers = DOMAIN t.containers
      /\ Range(u.volumes) = {x \in Range(t.volumes) : x.name # VolumeName(b)}
  BY UnprojectedTemplate
<1>3. WellFormed(u) /\ Resolves(u) /\ SameContainers(u, t)
  BY UnprojectResolves
<1>4. CASE b.secret = Empty
  <2>1. p = u
    BY <1>4 DEF project
  <2> QED
    BY <1>2, <1>3, <2>1
<1>5. CASE b.secret # Empty
  <2>1. /\ TemplateShape(p)
        /\ DOMAIN p.containers = DOMAIN t.containers
        /\ \A i \in DOMAIN t.containers : p.containers[i] = projectContainer(b, v, u.containers[i])
        /\ Range(p.volumes) = Range(u.volumes) \cup {VolumeOf(b)}
        /\ p.annotations = annotate(b, u.annotations)
    BY <1>1, <1>5, ProjectedTemplate
  <2> HIDE DEF u, v, p
  <2>2. /\ DOMAIN p.annotations = DOMAIN u.annotations \cup ProjectedAnnotations(b)
        /\ \A a \in DOMAIN u.annotations \ ProjectedAnnotations(b) :
             p.annotations[a] = u.annotations[a]
        /\ p.annotations[SecretAnnotationName(b)] = b.secret
    BY <2>1 DEF annotate, ProjectedAnnotations, AnnotationValue, SecretAnnotationName
  <2>3. ASSUME NEW i \in DOMAIN t.containers
        PROVE  /\ p.containers[i].name = u.containers[i].name
               /\ \A m \in Range(p.containers[i].mounts) :
                    m \in Range(u.containers[i].mounts) \/ m = MountOf(b, u.containers[i])
               /\ \A e \in Range(p.containers[i].env) :
                    e \in Range(u.containers[i].env) \cup {RootVariable} \cup VariablesOf(b)
    <3> DEFINE c == u.containers[i]
               d == projectContainer(b, v, c)
    <3>1. ContainerShape(c) /\ p.containers[i] = d
      BY <1>2, <2>1 DEF TemplateShape
    <3> HIDE DEF c
    <3>2. CASE isContainerBindable(b, c)
      <4>1. /\ d.name = c.name
            /\ Range(d.mounts) = Range(c.mounts) \cup {MountOf(b, c)}
            /\ Range(d.env) = Range(serviceBindingRoot(c).env) \cup VariablesOf(b)
        BY <1>1, <3>1, <3>2, ProjectedContainer
      <4>2. Range(serviceBindingRoot(c).env) \subseteq Range(c.env) \cup {RootVariable}
        BY <3>1, RootedContainer
      <4> QED
        BY <3>1, <4>1, <4>2 DEF c
    <3>3. CASE ~isContainerBindable(b, c)
      <4>1. d = c
        BY <3>3 DEF projectContainer
      <4> QED
        BY <3>1, <4>1 DEF c
    <3> QED
      BY <3>2, <3>3
  <2>4. WellFormed(p)
    <3>1. VariableIsWellFormed(RootVariable)
      BY DEF VariableIsWellFormed, RootVariable, ServiceBindingRootEnv, NoVariable, IsSecretKeyRef,
             Value
    <3>2. \A e \in VariablesOf(b) : VariableIsWellFormed(e)
      BY <1>1, AddedVariables
    <3>3. \A c : MountOf(b, c).path[2] # Blank
      BY <1>1 DEF MountOf, IsVersion
    <3>4. ASSUME NEW i \in DOMAIN p.containers PROVE ContainerIsWellFormed(p.containers[i])
      <4>1. ContainerIsWellFormed(u.containers[i])
        BY <1>2, <1>3, <2>1 DEF WellFormed
      <4> QED
        BY <2>1, <2>3, <3>1, <3>2, <3>3, <4>1 DEF ContainerIsWellFormed
    <3> QED
      BY <3>4 DEF WellFormed
  <2>5. VolumesResolve(p)
    <3> SUFFICES ASSUME NEW x \in Range(p.volumes), HasVolumePrefix(x.name)
                 PROVE  \E c \in BindingVersions : x = VolumeOf(c) /\ Annotated(c, p)
      BY DEF VolumesResolve
    <3>1. CASE x = VolumeOf(b)
      BY <2>2, <3>1 DEF Annotated
    <3>2. CASE x \in Range(u.volumes)
      <4>1. PICK c \in BindingVersions : x = VolumeOf(c) /\ Annotated(c, u)
        BY <1>3, <3>2 DEF Resolves, VolumesResolve
      <4>2. c.uid # b.uid
        BY <1>2, <3>2, <4>1, NamesDiffer DEF VolumeOf
      <4>3. SecretAnnotationName(c) \in DOMAIN u.annotations \ ProjectedAnnotations(b)
        <5>1. SecretAnnotationName(c) \in DOMAIN u.annotations
          BY <4>1 DEF Annotated, ProjectedAnnotations
        <5> QED
          BY <4>2, <5>1, NamesDiffer DEF ProjectedAnnotations
      <4> QED
        BY <2>2, <4>1, <4>3 DEF Annotated
    <3> QED
      BY <2>1, <3>1, <3>2
  <2>6. MountsResolve(p)
    <3> SUFFICES ASSUME NEW i \in DOMAIN p.containers, NEW m \in Range(p.containers[i].mounts),
                        HasVolumePrefix(m.name)
                 PROVE  \E x \in Range(p.volumes) : x.name = m.name
      BY DEF MountsResolve
    <3>1. CASE m = MountOf(b, u.containers[i])
      <4>1. m.name = VolumeOf(b).name
        BY <3>1 DEF MountOf, VolumeOf
      <4> QED
        BY <2>1, <4>1
    <3>2. CASE m \in Range(u.containers[i].mounts)
      <4>1. PICK x \in Range(u.volumes) : x.name = m.name
        BY <1>2, <1>3, <2>1, <3>2 DEF Resolves, MountsResolve
      <4> QED
        BY <2>1, <4>1
    <3> QED
      BY <2>1, <2>3, <3>1, <3>2
  <2>7. VariablesResolve(p)
    <3> SUFFICES ASSUME NEW i \in DOMAIN p.containers, NEW e \in Range(p.containers[i].env),
                        IsFieldRef(e), InGroup(e.from[2])
                 PROVE  /\ e.from[2] \in DOMAIN p.annotations
                        /\ \E c \in BindingVersions :
                             e.from[2] \in {TypeAnnotationName(c), ProviderAnnotationName(c)}
      BY DEF VariablesResolve
    <3>1. CASE e \in VariablesOf(b)
      BY <1>1, <2>2, <3>1, AddedVariables
    <3>2. CASE e \in Range(u.containers[i].env)
      BY <1>2, <1>3, <2>1, <2>2, <3>2 DEF Resolves, VariablesResolve
    <3>3. e # RootVariable
      BY DEF RootVariable, IsFieldRef, Value
    <3> QED
      BY <2>1, <2>3, <3>1, <3>2, <3>3
  <2>8. SameContainers(p, t)
    BY <1>3, <2>1, <2>3 DEF SameContainers
  <2> QED
    BY <2>1, <2>4, <2>5, <2>6, <2>7, <2>8 DEF Resolves, p
<1> QED
  BY <1>4, <1>5

----------------------------------------------------------------------------
(***************************************************************************)
(* The invariant, and the properties that follow from it.                  *)
(***************************************************************************)
\* The template r is t with e behind the variables of one container.
HasAppended(t, i, e, r) ==
  /\ DOMAIN r = DOMAIN t
  /\ r.annotations = t.annotations
  /\ r.volumes = t.volumes
  /\ DOMAIN r.containers = DOMAIN t.containers
  /\ \A j \in DOMAIN t.containers \ {i} : r.containers[j] = t.containers[j]
  /\ DOMAIN r.containers[i] = DOMAIN t.containers[i]
  /\ r.containers[i].name = t.containers[i].name
  /\ r.containers[i].mounts = t.containers[i].mounts
  /\ r.containers[i].env = Append(t.containers[i].env, e)
  /\ List(r.containers[i].env)
  /\ Range(r.containers[i].env) = Range(t.containers[i].env) \cup {e}

\* A variable the user adds is put behind the others, in both templates
\* (UserAppend).
LEMMA AppendedVariable ==
  ASSUME NEW t, NEW i \in DOMAIN t.containers, NEW e,
         DOMAIN t = {"annotations", "containers", "volumes"},
         DOMAIN t.containers[i] = {"name", "env", "mounts"}, List(t.containers[i].env)
  PROVE  LET add(c) == [c EXCEPT !.env = Append(@, e)]
         IN  HasAppended(t, i, e, [t EXCEPT !.containers[i] = add(@)])
<1> DEFINE c == t.containers[i]
           env == Append(c.env, e)
           add(d) == [d EXCEPT !.env = Append(@, e)]
           r == [t EXCEPT !.containers[i] = add(@)]
<1>1. List(env) /\ Range(env) = Range(c.env) \cup {e}
  BY AppendedItems
<1>2. r = [t EXCEPT !.containers = [@ EXCEPT ![i] = [c EXCEPT !.env = env]]]
  OBVIOUS
<1>3. DOMAIN r = DOMAIN t /\ r.annotations = t.annotations /\ r.volumes = t.volumes
      /\ r.containers = [t.containers EXCEPT ![i] = [c EXCEPT !.env = env]]
  BY <1>2
<1> HIDE DEF env
<1>4. r.containers[i] = [c EXCEPT !.env = env]
  BY <1>3
<1> QED
  BY <1>1, <1>3, <1>4 DEF env, HasAppended

\* UserAppend keeps the invariant.
LEMMA UserAppendKeeps ==
  ASSUME WorkloadInv, NEW i \in DOMAIN base.containers, NEW e \in UserEnv, UserAppend(i, e)
  PROVE  WorkloadInv'
<1>1. UserVariable(e)
  BY UserEnvAssumption
<1>2. \A j \in DOMAIN base.containers : UserContainer(base.containers[j])
  BY DEF WorkloadInv, UserTemplate, Range
<1>3. /\ base.containers \in Seq(Range(base.containers))
      /\ DOMAIN base = {"annotations", "containers", "volumes"}
  BY DEF WorkloadInv, UserTemplate, List
<1>4. HasAppended(base, i, e, base')
  BY <1>2, <1>3, AppendedVariable DEF UserAppend, UserContainer
<1>5. i \in DOMAIN template.containers /\ TemplateShape(template)
  BY DEF WorkloadInv, SameContainers
<1>6. HasAppended(template, i, e, template')
  BY <1>5, AppendedVariable DEF UserAppend, TemplateShape, ContainerShape
<1>7. UserTemplate(base')
  <2>1. \A j \in DOMAIN base'.containers : UserContainer(base'.containers[j])
    <3>1. UserContainer(base'.containers[i])
      BY <1>1, <1>2, <1>4 DEF HasAppended, UserContainer
    <3> QED
      BY <1>2, <1>4, <3>1 DEF HasAppended
  <2>2. List(base'.containers)
    <3> DEFINE s == base'.containers
               n == Len(base.containers)
    <3>1. n \in Nat /\ DOMAIN s = 1..n
      BY <1>3, <1>4 DEF HasAppended
    <3>2. s = [base.containers EXCEPT ![i] = s[i]]
      BY <1>3 DEF UserAppend
    <3>3. s = [k \in 1..n |-> s[k]]
      BY <1>3, <3>1, <3>2
    <3> HIDE DEF s, n
    <3>4. \A k \in 1..n : s[k] \in Range(s)
      BY <3>1 DEF Range
    <3>5. s \in Seq(Range(s))
      BY <3>1, <3>3, <3>4
    <3> QED
      BY <3>5 DEF List, s
  <2> QED
    BY <1>4, <2>1, <2>2 DEF HasAppended, WorkloadInv, UserTemplate, Range
<1>8. TemplateShape(template')
  BY <1>1, <1>5, <1>6 DEF HasAppended, TemplateShape, ContainerShape, UserVariable
<1>9. SameContainers(template', base')
  BY <1>4, <1>6 DEF HasAppended, WorkloadInv, SameContainers
<1>10. WellFormed(template')
  BY <1>1, <1>6 DEF HasAppended, WorkloadInv, WellFormed, ContainerIsWellFormed, VariableIsWellFormed, UserVariable
<1>11. VolumesResolve(template') /\ MountsResolve(template')
  BY <1>6 DEF HasAppended, WorkloadInv, Resolves, VolumesResolve, MountsResolve, Annotated
<1>12. VariablesResolve(template')
  BY <1>1, <1>6 DEF HasAppended, WorkloadInv, Resolves, VariablesResolve, UserVariable
<1>13. last' = last
  BY DEF UserAppend
<1> QED
  BY <1>7, <1>8, <1>9, <1>10, <1>11, <1>12, <1>13 DEF WorkloadInv, Resolves

\* Every step of the projector and of the user keeps the invariant.
LEMMA NextWorkloadInv ==
  ASSUME WorkloadInv, [Next]_vars
  PROVE  WorkloadInv'
<1>1. ASSUME NEW b \in BindingVersions, Project(b) PROVE WorkloadInv'
  <2>1. /\ TemplateShape(template') /\ WellFormed(template') /\ Resolves(template')
        /\ SameContainers(template', template)
    BY <1>1, ProjectResolves DEF WorkloadInv, Project
  <2>2. b.uid \in Uids
    BY VersionsAreValid
  <2>3. last' \in [Uids -> BindingVersions \cup {NotProjected}]
    BY <1>1, <2>2 DEF WorkloadInv, Project
  <2> QED
    BY <1>1, <2>1, <2>3 DEF WorkloadInv, Project, SameContainers
<1>2. ASSUME NEW b \in BindingVersions, Unproject(b) PROVE WorkloadInv'
  <2>1. TemplateShape(template')
    BY <1>2, UnprojectedTemplate DEF WorkloadInv, Unproject
  <2>2. WellFormed(template') /\ Resolves(template') /\ SameContainers(template', template)
    BY <1>2, UnprojectResolves DEF WorkloadInv, Unproject
  <2>3. last' \in [Uids -> BindingVersions \cup {NotProjected}]
    BY <1>2 DEF WorkloadInv, Unproject
  <2> QED
    BY <1>2, <2>1, <2>2, <2>3 DEF WorkloadInv, Unproject, SameContainers
<1>3. ASSUME NEW t \in UserTemplates, UserReplace(t) PROVE WorkloadInv'
  <2>1. UserTemplate(t)
    BY UserTemplatesAssumption
  <2>2. TemplateShape(t) /\ WellFormed(t) /\ Resolves(t)
    BY <2>1, UserTemplateResolves
  <2> QED
    BY <1>3, <2>1, <2>2 DEF WorkloadInv, UserReplace, SameContainers
<1>4. ASSUME NEW i \in DOMAIN base.containers, NEW e \in UserEnv, UserAppend(i, e)
      PROVE  WorkloadInv'
  BY <1>4, UserAppendKeeps
<1>5. CASE UNCHANGED vars
  BY <1>5 DEF vars, WorkloadInv
<1> QED
  BY <1>1, <1>2, <1>3, <1>4, <1>5 DEF Next

\* The invariant holds in every state.
LEMMA WorkloadInvariant == Spec => []WorkloadInv
<1>1. Init => WorkloadInv
  <2> SUFFICES ASSUME Init PROVE WorkloadInv
    OBVIOUS
  <2>1. UserTemplate(base)
    BY UserTemplatesAssumption DEF Init
  <2>2. TemplateShape(base) /\ WellFormed(base) /\ Resolves(base)
    BY <2>1, UserTemplateResolves
  <2> QED
    BY <2>1, <2>2 DEF Init, WorkloadInv, SameContainers
<1>2. WorkloadInv /\ [Next]_vars => WorkloadInv'
  BY NextWorkloadInv
<1> QED
  BY <1>1, <1>2, PTL DEF Spec

\* A workload keeps its containers, in order and under their names, through any
\* number of projections, and what was projected last is a version of a binding
\* (project, unproject).
THEOREM ProjectionIsTyped == Spec => []TypeOK
<1>1. WorkloadInv => TypeOK
  BY DEF WorkloadInv, SameContainers, TypeOK, ContainerName
<1> QED
  BY <1>1, WorkloadInvariant, PTL

\* Nothing is ever projected that has no name, no key or no directory of its own,
\* whatever was submitted: validation with the default filled in is enough,
\* because the projector fills it in again (Default, validate, projectEnv,
\* projectVolumeMount).
THEOREM ProjectionIsWellFormed == Spec => []ProjectedIsWellFormed
<1>1. WorkloadInv => ProjectedIsWellFormed
  BY DEF WorkloadInv, WellFormed, ContainerIsWellFormed, VariableIsWellFormed, Range,
         ProjectedIsWellFormed
<1> QED
  BY <1>1, WorkloadInvariant, PTL

\* The sources of a volume are its secret and the annotations that were set with
\* it (projectVolume).
LEMMA SourcesOfVolume ==
  ASSUME NEW b
  PROVE  Range(VolumeSources(b)) =
           {<<"secret", b.secret>>}
             \cup (IF b.type # Empty THEN {<<"type", TypeAnnotationName(b)>>} ELSE {})
             \cup (IF b.provider # Empty THEN {<<"provider", ProviderAnnotationName(b)>>} ELSE {})
<1> DEFINE secret == <<<<"secret", b.secret>>>>
           type == IF b.type # Empty THEN <<<<"type", TypeAnnotationName(b)>>>> ELSE <<>>
           provider == IF b.provider # Empty THEN <<<<"provider", ProviderAnnotationName(b)>>>>
                       ELSE <<>>
           types == IF b.type # Empty THEN {<<"type", TypeAnnotationName(b)>>} ELSE {}
           providers == IF b.provider # Empty THEN {<<"provider", ProviderAnnotationName(b)>>} ELSE {}
<1>1. List(secret) /\ Range(secret) = {<<"secret", b.secret>>}
  BY DEF List, Range
<1>2. List(type) /\ Range(type) = types
  <2>1. CASE b.type # Empty
    BY <2>1 DEF List, Range
  <2>2. CASE b.type = Empty
    BY <2>2 DEF List, Range
  <2> QED
    BY <2>1, <2>2
<1>3. List(provider) /\ Range(provider) = providers
  <2>1. CASE b.provider # Empty
    BY <2>1 DEF List, Range
  <2>2. CASE b.provider = Empty
    BY <2>2 DEF List, Range
  <2> QED
    BY <2>1, <2>2
<1>4. VolumeSources(b) = (secret \o type) \o provider
  BY DEF VolumeSources
<1> HIDE DEF secret, type, provider, types, providers
<1>5. List(secret \o type) /\ Range(secret \o type) = Range(secret) \cup Range(type)
  BY <1>1, <1>2, AppendedItems
<1>6. Range((secret \o type) \o provider) = Range(secret) \cup Range(type) \cup Range(provider)
  BY <1>3, <1>5, AppendedItems
<1> QED
  BY <1>1, <1>2, <1>3, <1>4, <1>6 DEF types, providers

\* In every state of the workload each reference the projector made can be
\* resolved, while other bindings come and go and older versions are replaced
\* (project, unproject).
THEOREM ReferencesResolve == Spec => []NoDanglingReference
<1>1. ASSUME WorkloadInv PROVE NoDanglingReference
  <2> DEFINE annotated == DOMAIN template.annotations
             volumes == {template.volumes[k] : k \in DOMAIN template.volumes}
  <2>1. volumes = Range(template.volumes)
    BY DEF Range
  <2>2. VolumesResolve(template) /\ MountsResolve(template) /\ VariablesResolve(template)
    BY <1>1 DEF WorkloadInv, Resolves
  <2>3. ASSUME NEW p \in Indexes("env")
        PROVE  LET e == template.containers[p[1]].env[p[2]]
               IN  IsFieldRef(e) /\ InGroup(e.from[2]) => e.from[2] \in annotated
    <3>1. p[1] \in DOMAIN template.containers /\ p[2] \in DOMAIN template.containers[p[1]].env
      BY DEF Indexes
    <3>2. template.containers[p[1]].env[p[2]] \in Range(template.containers[p[1]].env)
      BY <3>1 DEF Range
    <3> QED
      BY <2>2, <3>1, <3>2 DEF VariablesResolve
  <2>4. ASSUME NEW p \in Indexes("mounts")
        PROVE  LET m == template.containers[p[1]].mounts[p[2]]
               IN  HasVolumePrefix(m.name) => \E v \in volumes : v.name = m.name
    <3>1. p[1] \in DOMAIN template.containers /\ p[2] \in DOMAIN template.containers[p[1]].mounts
      BY DEF Indexes
    <3>2. template.containers[p[1]].mounts[p[2]] \in Range(template.containers[p[1]].mounts)
      BY <3>1 DEF Range
    <3> QED
      BY <2>1, <2>2, <3>1, <3>2 DEF MountsResolve
  <2>5. ASSUME NEW v \in volumes, HasVolumePrefix(v.name), NEW k \in DOMAIN v.sources
        PROVE  IF v.sources[k][1] = "secret"
                 THEN /\ <<"secret", v.name[2]>> \in annotated
                      /\ template.annotations[<<"secret", v.name[2]>>] = v.sources[k][2]
                 ELSE v.sources[k][2] \in annotated
    <3>1. PICK b \in BindingVersions : v = VolumeOf(b) /\ Annotated(b, template)
      BY <2>1, <2>2, <2>5 DEF VolumesResolve
    <3>2. v.sources = VolumeSources(b) /\ <<"secret", v.name[2]>> = SecretAnnotationName(b)
      BY <3>1 DEF VolumeOf, VolumeName, SecretAnnotationName
    <3>3. \/ v.sources[k] = <<"secret", b.secret>>
          \/ v.sources[k][1] # "secret" /\ v.sources[k][2] \in ProjectedAnnotations(b)
      <4>1. v.sources[k] \in Range(VolumeSources(b))
        BY <2>5, <3>2 DEF Range
      <4> QED
        BY <4>1, SourcesOfVolume DEF ProjectedAnnotations
    <3>4. SecretAnnotationName(b) \in ProjectedAnnotations(b)
      BY DEF ProjectedAnnotations
    <3>5. CASE v.sources[k] = <<"secret", b.secret>>
      <4>1. v.sources[k][1] = "secret" /\ v.sources[k][2] = b.secret
        BY <3>5
      <4> QED
        BY <3>1, <3>2, <3>4, <4>1 DEF Annotated
    <3>6. CASE v.sources[k][1] # "secret" /\ v.sources[k][2] \in ProjectedAnnotations(b)
      BY <3>1, <3>6 DEF Annotated
    <3> QED
      BY <3>3, <3>5, <3>6
  <2> QED
    BY <2>3, <2>4, <2>5 DEF NoDanglingReference
<1> QED
  BY <1>1, WorkloadInvariant, PTL

----------------------------------------------------------------------------
(***************************************************************************)
(* The refinement.  It needs more of its instance than the properties      *)
(* above: that a binding's variables can be told from all others.          *)
(***************************************************************************)
FirstRoot(env, f) ==
  /\ f \in DOMAIN env
  /\ env[f].name = ServiceBindingRootEnv
  /\ \A j \in DOMAIN env : env[j].name = ServiceBindingRootEnv => f <= j

ValueOf(e) == IF e.from[1] = "value" THEN e.from[2] ELSE Empty

\* The root a container uses is value, and no unprojection changes that.
Rooted(env, value) ==
  \/ (\A j \in DOMAIN env : env[j].name # ServiceBindingRootEnv) /\ value = DefaultRoot
  \/ \E f \in DOMAIN env : FirstRoot(env, f) /\ Lasting(env[f]) /\ ValueOf(env[f]) = value

\* The places in an arranged list: each item has one, in order (Arrange).
LEMMA ArrangedPlaces ==
  ASSUME NEW s, NEW before, IsFiniteSet(DOMAIN before), Ordered(before)
  PROVE  \E pos \in [DOMAIN before -> DOMAIN Arrange(s, before)] :
           /\ \A i \in DOMAIN before : Arrange(s, before)[pos[i]] = s[i]
           /\ \A k \in DOMAIN Arrange(s, before) : \E i \in DOMAIN before : pos[i] = k
           /\ \A i \in DOMAIN before : pos[i] \in Nat
           /\ \A i, j \in DOMAIN before : j \in before[i] => pos[j] < pos[i]
<1> DEFINE P == DOMAIN before
           n == Cardinality(P)
           rank(i) == Cardinality(before[i])
           at(k) == CHOOSE i \in P : rank(i) = k - 1
           list == [k \in 1..n |-> s[at(k)]]
           pos == [i \in P |-> rank(i) + 1]
<1>1. n \in Nat /\ \A i \in P : rank(i) \in 0..(n - 1)
  BY RankIsOnto
<1>2. \A k \in 1..n : \E i \in P : rank(i) = k - 1
  BY RankIsOnto
<1>3. \A i, j \in P : j \in before[i] => rank(j) < rank(i)
  BY RankIsOnto
<1>4. Arrange(s, before) = list
  BY DEF Arrange
<1> HIDE DEF rank
<1>5. \A i, j \in P : rank(i) = rank(j) => i = j
  BY <1>1, <1>3 DEF Ordered
<1>6. pos \in [P -> 1..n]
  BY <1>1
<1>7. ASSUME NEW i \in P PROVE list[pos[i]] = s[i]
  <2>1. pos[i] \in 1..n /\ pos[i] - 1 = rank(i)
    BY <1>1
  <2>2. at(pos[i]) \in P /\ rank(at(pos[i])) = pos[i] - 1
    BY <1>2, <2>1
  <2>3. at(pos[i]) = i
    BY <1>5, <2>1, <2>2
  <2> HIDE DEF at
  <2> QED
    BY <2>1, <2>3
<1>8. ASSUME NEW k \in 1..n PROVE \E i \in P : pos[i] = k
  BY <1>1, <1>2
<1>9. \A i, j \in P : j \in before[i] => pos[j] < pos[i]
  BY <1>1, <1>3
<1> HIDE DEF pos
<1>10. DOMAIN list = 1..n /\ \A i \in P : pos[i] \in Nat
  BY <1>1, <1>6
<1> HIDE DEF list, P, n
<1>11. /\ pos \in [P -> DOMAIN list]
       /\ \A i \in P : list[pos[i]] = s[i]
       /\ \A k \in DOMAIN list : \E i \in P : pos[i] = k
       /\ \A i \in P : pos[i] \in Nat
       /\ \A i, j \in P : j \in before[i] => pos[j] < pos[i]
  BY <1>6, <1>7, <1>8, <1>9, <1>10
<1> QED
  BY <1>4, <1>11 DEF P

\* A list arranged so that the first root variable stays ahead of the others
\* keeps its root.
LEMMA ArrangedRoot ==
  ASSUME NEW s, NEW before, IsFiniteSet(DOMAIN before), Ordered(before),
         DOMAIN before \subseteq DOMAIN s, NEW value, NEW f \in DOMAIN before,
         FirstRoot(s, f), Lasting(s[f]), ValueOf(s[f]) = value,
         \A j \in DOMAIN before : s[j].name = ServiceBindingRootEnv => j = f \/ f \in before[j]
  PROVE  \E g \in DOMAIN Arrange(s, before) :
           /\ FirstRoot(Arrange(s, before), g)
           /\ Lasting(Arrange(s, before)[g])
           /\ ValueOf(Arrange(s, before)[g]) = value
<1> DEFINE r == Arrange(s, before)
<1>1. PICK pos \in [DOMAIN before -> DOMAIN r] :
           /\ \A i \in DOMAIN before : r[pos[i]] = s[i]
           /\ \A k \in DOMAIN r : \E i \in DOMAIN before : pos[i] = k
           /\ \A i \in DOMAIN before : pos[i] \in Nat
           /\ \A i, j \in DOMAIN before : j \in before[i] => pos[j] < pos[i]
  BY ArrangedPlaces
<1> DEFINE g == pos[f]
<1>2. g \in DOMAIN r /\ r[g] = s[f]
  BY <1>1
<1>3. ASSUME NEW k \in DOMAIN r, r[k].name = ServiceBindingRootEnv PROVE g <= k
  <2>1. PICK i \in DOMAIN before : pos[i] = k
    BY <1>1
  <2>2. i = f \/ f \in before[i]
    BY <1>1, <1>3, <2>1
  <2> QED
    BY <1>1, <2>1, <2>2
<1>4. FirstRoot(r, g)
  BY <1>2, <1>3 DEF FirstRoot
<1> QED
  BY <1>2, <1>4

\* The root a rooted container uses (serviceBindingRoot).
LEMMA RootedValue ==
  ASSUME NEW env, DOMAIN env \subseteq Nat, NEW value, Rooted(env, value)
  PROVE  RootValue(env) = value
<1> DEFINE roots == {i \in DOMAIN env : env[i].name = ServiceBindingRootEnv}
           first == CHOOSE i \in roots : \A j \in roots : i <= j
<1>1. CASE roots = {} /\ value = DefaultRoot
  BY <1>1 DEF RootValue
<1>2. ASSUME NEW f \in DOMAIN env, FirstRoot(env, f), ValueOf(env[f]) = value
      PROVE  RootValue(env) = value
  <2>1. f \in roots /\ \A j \in roots : f <= j
    BY <1>2 DEF FirstRoot
  <2>2. first \in roots /\ \A j \in roots : first <= j
    BY <2>1
  <2>3. roots \subseteq Nat /\ roots # {}
    BY <2>1
  <2>0. RootValue(env) = IF roots = {} THEN DefaultRoot ELSE ValueOf(env[first])
    BY DEF RootValue, ValueOf
  <2>4. first <= f /\ f <= first /\ first \in Nat /\ f \in Nat
    BY <2>1, <2>2, <2>3
  <2> HIDE DEF first
  <2>5. first = f
    BY <2>4
  <2> QED
    BY <1>2, <2>0, <2>3, <2>5
<1> QED
  BY <1>1, <1>2 DEF Rooted

\* Variables that all last root their container.
LEMMA LastingIsRooted ==
  ASSUME NEW env, List(env), \A e \in Range(env) : Lasting(e)
  PROVE  Rooted(env, RootValue(env))
<1> DEFINE roots == {i \in DOMAIN env : env[i].name = ServiceBindingRootEnv}
<1>1. DOMAIN env = 1..Len(env) /\ Len(env) \in Nat
  BY DEF List
<1>2. CASE roots = {}
  BY <1>2 DEF Rooted, RootValue
<1>3. CASE roots # {}
  <2>1. roots \subseteq Nat
    BY <1>1
  <2>2. PICK f \in roots : \A j \in roots : ~(<<j, f>> \in OpToRel(<, Nat))
    <3> HIDE DEF roots
    <3> QED
      BY <1>3, <2>1, WFMin, NatLessThanWellFounded
  <2>3. \A j \in roots : f <= j
    <3> SUFFICES ASSUME NEW j \in roots PROVE f <= j
      OBVIOUS
    <3>1. ~(j < f)
      BY <2>1, <2>2 DEF OpToRel
    <3> QED
      BY <2>1, <3>1
  <2>4. FirstRoot(env, f) /\ Lasting(env[f])
    BY <2>3 DEF FirstRoot, Range
  <2>5. Rooted(env, ValueOf(env[f]))
    BY <2>4 DEF Rooted
  <2>6. DOMAIN env \subseteq Nat
    BY <1>1
  <2> QED
    BY <2>5, <2>6, RootedValue
<1> QED
  BY <1>2, <1>3

\* An annotation of the projector is one that a version of a binding, with a
\* secret, sets, and has the value that version gives it.
AnnotationsOwned(t) ==
  \A a \in DOMAIN t.annotations : InGroup(a) =>
    \E b \in BindingVersions :
      /\ b.secret # Empty
      /\ a \in ProjectedAnnotations(b)
      /\ t.annotations[a] = AnnotationValue(b, a)

\* The secrets the projector knows of are bindings' secrets, so that a variable
\* that lasts is not taken for a projected one (unprojectEnv, isProjectedEnv).
LEMMA LastingIsNotProjected ==
  ASSUME NEW t, AnnotationsOwned(t), NEW e, Lasting(e)
  PROVE  /\ ~isProjectedEnv(e, knownProjectedSecrets(t))
         /\ \A b : StaysVariable(b, t, e)
<1>1. ASSUME NEW a \in DOMAIN t.annotations, a[1] = "secret" PROVE t.annotations[a] \in Secrets
  BY <1>1 DEF AnnotationsOwned, InGroup, AnnotationValue, Secrets
<1>2. knownProjectedSecrets(t) \subseteq Secrets
  BY <1>1 DEF knownProjectedSecrets
<1>3. ~isProjectedEnv(e, knownProjectedSecrets(t))
  BY <1>2 DEF isProjectedEnv, Lasting
<1>4. ASSUME NEW b PROVE StaysVariable(b, t, e)
  <2> DEFINE name == SecretAnnotationName(b)
             secret == IF name \in DOMAIN t.annotations THEN t.annotations[name] ELSE Empty
  <2>1. secret \in Secrets
    <3>1. CASE name \in DOMAIN t.annotations
      BY <1>1, <3>1 DEF SecretAnnotationName
    <3>2. CASE name \notin DOMAIN t.annotations
      BY <3>2 DEF Secrets
    <3> QED
      BY <3>1, <3>2
  <2>2. InGroup(TypeAnnotationName(b)) /\ InGroup(ProviderAnnotationName(b))
    BY DEF InGroup, TypeAnnotationName, ProviderAnnotationName
  <2> HIDE DEF secret
  <2>3. /\ ~(IsSecretKeyRef(e) /\ e.from[2] = secret)
        /\ ~(IsFieldRef(e) /\ e.from[2] \in {TypeAnnotationName(b), ProviderAnnotationName(b)})
    BY <2>1, <2>2 DEF Lasting
  <2> QED
    BY <2>3 DEF StaysVariable, secret
<1> QED
  BY <1>3, <1>4

\* Unprojecting leaves a container its root (unprojectEnv).
LEMMA RootUnprojected ==
  ASSUME NEW b, NEW t, AnnotationsOwned(t), NEW c, ContainerShape(c), NEW value, Rooted(c.env, value)
  PROVE  Rooted(unprojectContainer(b, t, c).env, value)
<1> DEFINE s == c.env
           P == {i \in DOMAIN s : StaysVariable(b, t, s[i])}
           before == [i \in P |-> {j \in P : j < i}]
           env == unprojectContainer(b, t, c).env
           KeepEnv(e) == StaysVariable(b, t, e)
<1>1. env = Arrange(s, before)
  <2>1. env = Kept(s, KeepEnv)
    BY DEF unprojectContainer, unprojectEnv, unprojectVolumeMount, StaysVariable, ContainerShape
  <2> QED
    BY <2>1 DEF Kept
<1>2. List(s) /\ DOMAIN s \subseteq Nat
  BY DEF ContainerShape, List
<1>3. IsFiniteSet(DOMAIN before) /\ Ordered(before)
  <2>1. P \in SUBSET DOMAIN s
    OBVIOUS
  <2> HIDE DEF P, s
  <2> QED
    BY <1>2, <2>1, FilterIsOrdered
<1>4. CASE (\A j \in DOMAIN s : s[j].name # ServiceBindingRootEnv) /\ value = DefaultRoot
  <2>1. Range(env) \subseteq Range(s)
    BY UnprojectedContainer
  <2>2. \A e \in Range(s) : e.name # ServiceBindingRootEnv
    BY <1>4 DEF Range
  <2> HIDE DEF env, s
  <2>3. \A j \in DOMAIN env : env[j] \in Range(s)
    BY <2>1 DEF Range
  <2> QED
    BY <1>4, <2>2, <2>3 DEF Rooted, env
<1>5. ASSUME NEW f \in DOMAIN s, FirstRoot(s, f), Lasting(s[f]), ValueOf(s[f]) = value
      PROVE  Rooted(env, value)
  <2>1. f \in P
    BY <1>5, LastingIsNotProjected
  <2>2. \A j \in P : s[j].name = ServiceBindingRootEnv => j = f \/ f < j
    BY <1>2, <1>5 DEF FirstRoot
  <2>3. DOMAIN before = P /\ P \subseteq DOMAIN s
    OBVIOUS
  <2>4. \A j \in P : s[j].name = ServiceBindingRootEnv => j = f \/ f \in before[j]
    BY <2>1, <2>2
  <2> HIDE DEF before, s, P
  <2>5. \E g \in DOMAIN Arrange(s, before) :
           /\ FirstRoot(Arrange(s, before), g)
           /\ Lasting(Arrange(s, before)[g])
           /\ ValueOf(Arrange(s, before)[g]) = value
    BY <1>3, <1>5, <2>1, <2>3, <2>4, ArrangedRoot
  <2> QED
    BY <1>1, <2>5 DEF Rooted
<1> QED
  BY <1>4, <1>5 DEF Rooted

\* Projecting leaves a container its root, which it defines where there is none
\* (serviceBindingRoot, projectEnv).
LEMMA RootProjected ==
  ASSUME NEW b, IsVersion(b), NEW t, AnnotationsOwned(t), NEW c, ContainerShape(c),
         isContainerBindable(b, c), NEW value, Rooted(c.env, value)
  PROVE  Rooted(projectContainer(b, t, c).env, value)
<1> DEFINE r == serviceBindingRoot(c).env
           added == [i \in DOMAIN b.env |-> EnvVar(b, b.env[i])]
           s == r \o added
           secrets == knownProjectedSecrets(t)
           before == VariableOrder(s, secrets)
           env == projectContainer(b, t, c).env
<1>1. ContainerShape(serviceBindingRoot(c))
  BY RootedContainer
<1>2. List(r) /\ r \in Seq(Range(r)) /\ DOMAIN r = 1..Len(r) /\ Len(r) \in Nat
  BY <1>1 DEF ContainerShape, List
<1>3. List(added) /\ \A e \in Range(added) : e.name \in Nat
  BY VariablesAreListed
<1>4. PICK f \in DOMAIN r : FirstRoot(r, f) /\ Lasting(r[f]) /\ ValueOf(r[f]) = value
  <2>1. CASE (\A j \in DOMAIN c.env : c.env[j].name # ServiceBindingRootEnv) /\ value = DefaultRoot
    <3> DEFINE f == Len(c.env) + 1
               T == Range(c.env) \cup {RootVariable}
    <3>1. serviceBindingRoot(c) = [c EXCEPT !.env = Append(@, RootVariable)]
      BY <2>1 DEF serviceBindingRoot, RootVariable
    <3>2. r = Append(c.env, RootVariable)
      BY <3>1 DEF ContainerShape
    <3>3. c.env \in Seq(Range(c.env))
      BY DEF ContainerShape, List
    <3>4. c.env \in Seq(T)
      BY <3>3
    <3> HIDE DEF T
    <3>5. /\ DOMAIN r = 1..f /\ f \in Nat \ {0} /\ r[f] = RootVariable
          /\ \A i \in 1..(f - 1) : i \in DOMAIN c.env /\ r[i] = c.env[i]
      BY <3>2, <3>4
    <3>6. FirstRoot(r, f)
      <4>1. r[f].name = ServiceBindingRootEnv
        BY <3>5 DEF RootVariable
      <4>2. \A i \in 1..(f - 1) : r[i].name # ServiceBindingRootEnv
        BY <2>1, <3>5
      <4> HIDE DEF r, f
      <4>3. \A i \in 1..f : i = f \/ i \in 1..(f - 1)
        BY <3>5
      <4> QED
        BY <3>5, <4>1, <4>2, <4>3 DEF FirstRoot
    <3>7. Lasting(RootVariable) /\ ValueOf(RootVariable) = value
      BY <2>1 DEF Lasting, ValueOf, RootVariable, Value, IsSecretKeyRef, IsFieldRef
    <3> HIDE DEF r, f
    <3> QED
      BY <3>5, <3>6, <3>7
  <2>2. ASSUME NEW f \in DOMAIN c.env, FirstRoot(c.env, f), Lasting(c.env[f]),
               ValueOf(c.env[f]) = value
        PROVE  \E g \in DOMAIN r : FirstRoot(r, g) /\ Lasting(r[g]) /\ ValueOf(r[g]) = value
    <3>1. serviceBindingRoot(c) = c
      BY <2>2 DEF serviceBindingRoot, FirstRoot
    <3> QED
      BY <2>2, <3>1
  <2> QED
    BY <2>1, <2>2 DEF Rooted
<1>5. /\ List(s) /\ Range(s) = Range(r) \cup Range(added)
      /\ f \in DOMAIN s /\ s[f] = r[f] /\ FirstRoot(s, f) /\ DOMAIN s \subseteq Nat
  <2> HIDE DEF r, added
  <2>1. List(s) /\ Range(s) = Range(r) \cup Range(added)
    BY <1>2, <1>3, AppendedItems
  <2> DEFINE T == Range(r) \cup Range(added)
  <2>2. r \in Seq(T) /\ added \in Seq(T) /\ Len(added) \in Nat
    BY <1>2, <1>3 DEF List
  <2> HIDE DEF T
  <2>3. DOMAIN s = 1..(Len(r) + Len(added)) /\ \A i \in 1..Len(r) : s[i] = r[i]
    BY <1>2, <2>2
  <2>4. f \in DOMAIN s /\ s[f] = r[f] /\ DOMAIN s \subseteq Nat
    BY <1>2, <1>4, <2>2, <2>3
  <2>5. ASSUME NEW j \in DOMAIN s, s[j].name = ServiceBindingRootEnv PROVE f <= j
    <3>1. CASE j \in 1..Len(r)
      BY <1>2, <1>4, <2>3, <2>5, <3>1 DEF FirstRoot
    <3>2. CASE j \notin 1..Len(r)
      BY <1>2, <1>4, <2>2, <2>3, <3>2
    <3> QED
      BY <3>1, <3>2
  <2>6. s[f].name = ServiceBindingRootEnv
    BY <1>4, <2>4 DEF FirstRoot
  <2> HIDE DEF s
  <2> QED
    BY <2>1, <2>4, <2>5, <2>6 DEF FirstRoot
<1>6. \A e \in Range(s) : e.name \in Nat
  BY <1>1, <1>3, <1>5 DEF ContainerShape
<1>7. env = Arrange(s, before)
  <2>1. DOMAIN serviceBindingRoot(c) = {"name", "env", "mounts"}
    BY <1>1 DEF ContainerShape
  <2>2. projectContainer(b, t, c) = projectEnv(b, t, projectVolumeMount(b, c))
    BY DEF projectContainer
  <2>3. projectVolumeMount(b, c).env = r /\ DOMAIN projectVolumeMount(b, c) = {"name", "env", "mounts"}
    BY <2>1 DEF projectVolumeMount
  <2> QED
    BY <2>2, <2>3 DEF projectEnv, SliceStable, VariableOrder
<1> HIDE DEF s, env, r, added
<1>8. DOMAIN before = DOMAIN s /\ IsFiniteSet(DOMAIN before) /\ Ordered(before)
  BY <1>5, <1>6, VariablesAreOrdered
<1>9. ASSUME NEW j \in DOMAIN s, s[j].name = ServiceBindingRootEnv PROVE j = f \/ f \in before[j]
  <2>1. ~isProjectedEnv(s[f], secrets)
    BY <1>4, <1>5, LastingIsNotProjected
  <2>2. f <= j /\ f \in Nat /\ j \in Nat
    BY <1>5, <1>9 DEF FirstRoot
  <2> QED
    BY <1>5, <2>1, <2>2 DEF VariableOrder, ProjectedLast
<1> HIDE DEF before
<1>10. \E g \in DOMAIN Arrange(s, before) :
          /\ FirstRoot(Arrange(s, before), g)
          /\ Lasting(Arrange(s, before)[g])
          /\ ValueOf(Arrange(s, before)[g]) = value
  BY <1>4, <1>5, <1>8, <1>9, ArrangedRoot
<1> QED
  BY <1>7, <1>10 DEF Rooted, env

\* The annotation of a binding names the secret its variables read.
SecretsKnown(t) ==
  \A i \in DOMAIN t.containers : \A e \in Range(t.containers[i].env) :
    IsSecretKeyRef(e) =>
      /\ e.from[2] # Empty
      /\ \A b \in BindingVersions : b.secret = e.from[2] =>
           /\ SecretAnnotationName(b) \in DOMAIN t.annotations
           /\ t.annotations[SecretAnnotationName(b)] = e.from[2]

RootsKept(t, d) ==
  \A i \in DOMAIN d.containers :
    Rooted(t.containers[i].env, RootValue(d.containers[i].env))

Accounted(t, d) == AnnotationsOwned(t) /\ SecretsKnown(t) /\ RootsKept(t, d)

FactsInv == LastingTemplate(base) /\ Accounted(template, base)

\* A user's template, with nothing of a binding in it (UserReplace).
LEMMA UserAccounted ==
  ASSUME NEW t, UserTemplate(t), LastingTemplate(t)
  PROVE  Accounted(t, t)
<1>1. AnnotationsOwned(t)
  BY DEF UserTemplate, AnnotationsOwned
<1>2. ASSUME NEW i \in DOMAIN t.containers, NEW e \in Range(t.containers[i].env)
      PROVE  Lasting(e)
  BY DEF LastingTemplate, Range
<1>3. SecretsKnown(t)
  BY <1>2 DEF SecretsKnown, Lasting, Secrets
<1>4. RootsKept(t, t)
  <2>1. \A i \in DOMAIN t.containers : List(t.containers[i].env)
    BY DEF UserTemplate, UserContainer, Range
  <2> QED
    BY <1>2, <2>1, LastingIsRooted DEF RootsKept
<1> QED
  BY <1>1, <1>3, <1>4 DEF Accounted

\* Unprojecting keeps the account of the others (unproject).
LEMMA UnprojectAccounted ==
  ASSUME NEW b, NEW t, TemplateShape(t), NEW d, DOMAIN t.containers = DOMAIN d.containers,
         Accounted(t, d)
  PROVE  Accounted(unproject(b, t), d)
<1> DEFINE u == unproject(b, t)
           names == {SecretAnnotationName(b), TypeAnnotationName(b), ProviderAnnotationName(b)}
<1>1. DOMAIN u.containers = DOMAIN t.containers
      /\ \A i \in DOMAIN t.containers : u.containers[i] = unprojectContainer(b, t, t.containers[i])
  BY UnprojectedTemplate
<1>2. DOMAIN u.annotations = DOMAIN t.annotations \ names
      /\ \A a \in DOMAIN u.annotations : u.annotations[a] = t.annotations[a]
  BY UnprojectedTemplate
<1> HIDE DEF u
<1>3. AnnotationsOwned(u)
  BY <1>2 DEF Accounted, AnnotationsOwned
<1>4. SecretsKnown(u)
  <2> SUFFICES ASSUME NEW i \in DOMAIN u.containers, NEW e \in Range(u.containers[i].env),
                      IsSecretKeyRef(e)
               PROVE  /\ e.from[2] # Empty
                      /\ \A c \in BindingVersions : c.secret = e.from[2] =>
                           /\ SecretAnnotationName(c) \in DOMAIN u.annotations
                           /\ u.annotations[SecretAnnotationName(c)] = e.from[2]
    BY DEF SecretsKnown
  <2>1. e \in Range(t.containers[i].env) /\ StaysVariable(b, t, e)
    <3> DEFINE x == t.containers[i]
    <3>1. ContainerShape(x) /\ u.containers[i] = unprojectContainer(b, t, x)
      BY <1>1 DEF TemplateShape
    <3> HIDE DEF x
    <3>2. Range(unprojectContainer(b, t, x).env) = {y \in Range(x.env) : StaysVariable(b, t, y)}
      BY <3>1, UnprojectedContainer
    <3> QED
      BY <3>1, <3>2 DEF x
  <2>2. /\ e.from[2] # Empty
        /\ \A c \in BindingVersions : c.secret = e.from[2] =>
             /\ SecretAnnotationName(c) \in DOMAIN t.annotations
             /\ t.annotations[SecretAnnotationName(c)] = e.from[2]
    BY <1>1, <2>1 DEF Accounted, SecretsKnown
  <2>3. ASSUME NEW c \in BindingVersions, c.secret = e.from[2]
        PROVE  SecretAnnotationName(c) \notin names
    <3>1. SecretAnnotationName(c) # SecretAnnotationName(b)
      BY <2>1, <2>2, <2>3 DEF StaysVariable
    <3> QED
      BY <3>1, NamesDiffer
  <2> QED
    BY <1>2, <2>2, <2>3
<1>5. RootsKept(u, d)
  <2> SUFFICES ASSUME NEW i \in DOMAIN d.containers
               PROVE  Rooted(u.containers[i].env, RootValue(d.containers[i].env))
    BY DEF RootsKept
  <2> DEFINE x == t.containers[i]
  <2>1. ContainerShape(x) /\ u.containers[i] = unprojectContainer(b, t, x)
    BY <1>1 DEF TemplateShape
  <2>2. Rooted(x.env, RootValue(d.containers[i].env)) /\ AnnotationsOwned(t)
    BY DEF Accounted, RootsKept
  <2> HIDE DEF x
  <2> QED
    BY <2>1, <2>2, RootUnprojected
<1> QED
  BY <1>3, <1>4, <1>5 DEF Accounted, u

\* A binding's variables read its own secret (projectEnv).
LEMMA AddedSecrets ==
  ASSUME NEW b, NEW e \in VariablesOf(b), IsSecretKeyRef(e)
  PROVE  e.from[2] = b.secret
<1>1. PICK i \in DOMAIN b.env : e = EnvVar(b, b.env[i])
  BY DEF VariablesOf
<1>2. \/ e.from = FieldRef(TypeAnnotationName(b))
      \/ e.from = FieldRef(ProviderAnnotationName(b))
      \/ e.from = SecretKeyRef(b.secret, b.env[i].key)
  BY <1>1 DEF EnvVar
<1> QED
  BY <1>2 DEF IsSecretKeyRef, FieldRef, SecretKeyRef

\* Projecting keeps the account: the annotation it sets names the secret that the
\* variables it adds read (project).
LEMMA ProjectAccounted ==
  ASSUME Apart, NEW b \in BindingVersions, NEW t, TemplateShape(t), NEW d,
         DOMAIN t.containers = DOMAIN d.containers, Accounted(t, d)
  PROVE  Accounted(project(b, t), d)
<1> DEFINE u == unproject(b, t)
           v == projectVolume(b, u)
           p == project(b, t)
<1>1. IsVersion(b)
  BY VersionsAreValid
<1>2. /\ TemplateShape(u)
      /\ DOMAIN u.containers = DOMAIN t.containers
      /\ DOMAIN u.annotations = DOMAIN t.annotations \ {SecretAnnotationName(b),
                                    TypeAnnotationName(b), ProviderAnnotationName(b)}
  BY UnprojectedTemplate
<1>3. Accounted(u, d)
  BY UnprojectAccounted
<1>4. CASE b.secret = Empty
  <2>1. p = u
    BY <1>4 DEF project
  <2> QED
    BY <1>3, <2>1
<1>5. CASE b.secret # Empty
  <2>1. /\ DOMAIN p.containers = DOMAIN t.containers
        /\ \A i \in DOMAIN t.containers : p.containers[i] = projectContainer(b, v, u.containers[i])
        /\ p.annotations = annotate(b, u.annotations)
    BY <1>1, <1>5, ProjectedTemplate
  <2>2. v.annotations = annotate(b, u.annotations)
    BY <1>2 DEF projectVolume, TemplateShape
  <2> HIDE DEF u, v, p
  <2>3. AnnotationsOwned(p)
    <3> SUFFICES ASSUME NEW a \in DOMAIN p.annotations, InGroup(a)
                 PROVE  \E c \in BindingVersions :
                          /\ c.secret # Empty
                          /\ a \in ProjectedAnnotations(c)
                          /\ p.annotations[a] = AnnotationValue(c, a)
      BY DEF AnnotationsOwned
    <3>1. CASE a \in ProjectedAnnotations(b)
      BY <1>5, <2>1, <3>1 DEF annotate
    <3>2. CASE a \notin ProjectedAnnotations(b)
      <4>1. a \in DOMAIN u.annotations /\ p.annotations[a] = u.annotations[a]
        BY <2>1, <3>2 DEF annotate
      <4> QED
        BY <1>3, <4>1 DEF Accounted, AnnotationsOwned
    <3> QED
      BY <3>1, <3>2
  <2>4. AnnotationsOwned(v)
    BY <2>1, <2>2, <2>3 DEF AnnotationsOwned
  <2>5. SecretsKnown(p)
    <3> SUFFICES ASSUME NEW i \in DOMAIN p.containers, NEW e \in Range(p.containers[i].env),
                        IsSecretKeyRef(e)
                 PROVE  /\ e.from[2] # Empty
                        /\ \A c \in BindingVersions : c.secret = e.from[2] =>
                             /\ SecretAnnotationName(c) \in DOMAIN p.annotations
                             /\ p.annotations[SecretAnnotationName(c)] = e.from[2]
      BY DEF SecretsKnown
    <3> DEFINE x == u.containers[i]
    <3>1. ContainerShape(x) /\ p.containers[i] = projectContainer(b, v, x)
      BY <1>2, <2>1 DEF TemplateShape
    <3>2. e \in Range(x.env) \cup VariablesOf(b)
      <4> HIDE DEF x
      <4>1. CASE isContainerBindable(b, x)
        <5>1. Range(projectContainer(b, v, x).env) = Range(serviceBindingRoot(x).env) \cup VariablesOf(b)
          BY <1>1, <3>1, <4>1, ProjectedContainer
        <5>2. Range(serviceBindingRoot(x).env) \subseteq Range(x.env) \cup {RootVariable}
          BY <3>1, RootedContainer
        <5>3. e # RootVariable
          BY DEF RootVariable, IsSecretKeyRef, Value
        <5> QED
          BY <3>1, <5>1, <5>2, <5>3
      <4>2. CASE ~isContainerBindable(b, x)
        BY <3>1, <4>2 DEF projectContainer
      <4> QED
        BY <4>1, <4>2
    <3>3. CASE e \in Range(x.env)
      <4>1. /\ e.from[2] # Empty
            /\ \A c \in BindingVersions : c.secret = e.from[2] =>
                 /\ SecretAnnotationName(c) \in DOMAIN u.annotations
                 /\ u.annotations[SecretAnnotationName(c)] = e.from[2]
        BY <1>2, <1>3, <2>1, <3>3 DEF Accounted, SecretsKnown
      <4>2. ASSUME NEW c \in BindingVersions, c.secret = e.from[2]
            PROVE  /\ SecretAnnotationName(c) \in DOMAIN p.annotations
                   /\ p.annotations[SecretAnnotationName(c)] = e.from[2]
        <5>1. SecretAnnotationName(c) \in DOMAIN u.annotations
          BY <4>1, <4>2
        <5>2. SecretAnnotationName(c) # SecretAnnotationName(b)
          BY <1>2, <5>1
        <5>3. SecretAnnotationName(c) \notin ProjectedAnnotations(b)
          BY <5>2, NamesDiffer DEF ProjectedAnnotations
        <5> QED
          BY <2>1, <4>1, <4>2, <5>1, <5>3 DEF annotate
      <4> QED
        BY <4>1, <4>2
    <3>4. CASE e \in VariablesOf(b)
      <4>1. e.from[2] = b.secret
        BY <3>4, AddedSecrets
      <4>2. SecretAnnotationName(b) \in DOMAIN p.annotations
            /\ p.annotations[SecretAnnotationName(b)] = b.secret
        BY <2>1 DEF annotate, ProjectedAnnotations, AnnotationValue, SecretAnnotationName
      <4>3. \A c \in BindingVersions : c.secret = e.from[2] => c.uid = b.uid
        BY <1>5, <4>1 DEF Apart
      <4> QED
        BY <1>5, <4>1, <4>2, <4>3, NamesDiffer
    <3> QED
      BY <3>2, <3>3, <3>4
  <2>6. RootsKept(p, d)
    <3> SUFFICES ASSUME NEW i \in DOMAIN d.containers
                 PROVE  Rooted(p.containers[i].env, RootValue(d.containers[i].env))
      BY DEF RootsKept
    <3> DEFINE x == u.containers[i]
    <3>1. ContainerShape(x) /\ p.containers[i] = projectContainer(b, v, x)
      BY <1>2, <2>1 DEF TemplateShape
    <3>2. Rooted(x.env, RootValue(d.containers[i].env))
      BY <1>3 DEF Accounted, RootsKept
    <3> HIDE DEF x
    <3>3. CASE isContainerBindable(b, x)
      BY <1>1, <2>4, <3>1, <3>2, <3>3, RootProjected
    <3>4. CASE ~isContainerBindable(b, x)
      BY <3>1, <3>2, <3>4 DEF projectContainer
    <3> QED
      BY <3>3, <3>4
  <2> QED
    BY <2>3, <2>5, <2>6 DEF Accounted, p
<1> QED
  BY <1>4, <1>5

\* A variable that is not the root leaves the root as it is (UserAppend).
LEMMA RootAppended ==
  ASSUME NEW env, List(env), NEW e, e.name # ServiceBindingRootEnv, NEW value, Rooted(env, value)
  PROVE  Rooted(Append(env, e), value)
<1> DEFINE T == Range(env) \cup {e}
           r == Append(env, e)
           n == Len(env)
<1>1. env \in Seq(T) /\ DOMAIN env = 1..n /\ n \in Nat
  BY DEF List
<1> HIDE DEF T
<1>2. DOMAIN r = 1..(n + 1) /\ r[n + 1] = e /\ \A i \in 1..n : r[i] = env[i]
  BY <1>1
<1> HIDE DEF r, n
<1>3. \A j \in DOMAIN r : r[j].name = ServiceBindingRootEnv =>
        j \in DOMAIN env /\ env[j].name = ServiceBindingRootEnv
  BY <1>1, <1>2
<1>4. CASE (\A j \in DOMAIN env : env[j].name # ServiceBindingRootEnv) /\ value = DefaultRoot
  BY <1>3, <1>4 DEF Rooted, r
<1>5. ASSUME NEW f \in DOMAIN env, FirstRoot(env, f), Lasting(env[f]), ValueOf(env[f]) = value
      PROVE  Rooted(Append(env, e), value)
  <2>1. f \in DOMAIN r /\ r[f] = env[f]
    BY <1>1, <1>2
  <2>2. FirstRoot(r, f)
    BY <1>3, <1>5, <2>1 DEF FirstRoot
  <2> QED
    BY <1>5, <2>1, <2>2 DEF Rooted, r
<1> QED
  BY <1>4, <1>5 DEF Rooted

\* UserAppend keeps the account.
LEMMA UserAppendAccounted ==
  ASSUME Apart, WorkloadInv, FactsInv, NEW i \in DOMAIN base.containers, NEW e \in UserEnv,
         UserAppend(i, e)
  PROVE  FactsInv' /\ UserPart(base)' = UserPart(base)
<1>1. Lasting(e) /\ e.name # ServiceBindingRootEnv
  BY DEF Apart
<1>2. \A j \in DOMAIN base.containers : UserContainer(base.containers[j])
  BY DEF WorkloadInv, UserTemplate, Range
<1>3. DOMAIN base = {"annotations", "containers", "volumes"}
  BY DEF WorkloadInv, UserTemplate
<1>4. HasAppended(base, i, e, base')
  BY <1>2, <1>3, AppendedVariable DEF UserAppend, UserContainer
<1>5. i \in DOMAIN template.containers /\ TemplateShape(template)
  BY DEF WorkloadInv, SameContainers
<1>6. HasAppended(template, i, e, template')
  BY <1>5, AppendedVariable DEF UserAppend, TemplateShape, ContainerShape
<1>7. ASSUME NEW j \in DOMAIN base.containers
      PROVE  /\ base'.containers[j].name = base.containers[j].name
             /\ \A x \in Range(base'.containers[j].env) : Lasting(x)
             /\ RootValue(base'.containers[j].env) = RootValue(base.containers[j].env)
  <2>1. \A x \in Range(base.containers[j].env) : Lasting(x)
    BY DEF FactsInv, LastingTemplate, Range
  <2>2. CASE j # i
    BY <1>4, <2>1, <2>2 DEF HasAppended
  <2>3. CASE j = i
    <3> DEFINE s == base.containers[i].env
    <3>1. List(s) /\ \A x \in Range(s) : Lasting(x)
      BY <1>2, <2>1, <2>3 DEF UserContainer
    <3> HIDE DEF s
    <3>2. Rooted(s, RootValue(s))
      BY <3>1, LastingIsRooted
    <3>3. Rooted(Append(s, e), RootValue(s))
      BY <1>1, <3>1, <3>2, RootAppended
    <3>4. DOMAIN Append(s, e) \subseteq Nat
      <4>1. List(Append(s, e))
        BY <3>1, AppendedItems
      <4> QED
        BY <4>1 DEF List
    <3>5. RootValue(Append(s, e)) = RootValue(s)
      BY <3>3, <3>4, RootedValue
    <3> QED
      BY <1>1, <1>4, <2>1, <2>3, <3>5 DEF HasAppended, s
  <2> QED
    BY <2>2, <2>3
<1>8. LastingTemplate(base')
  <2>1. \A j, k \in DOMAIN base'.containers :
          base'.containers[j].name = base'.containers[k].name => j = k
    BY <1>4, <1>7 DEF HasAppended, FactsInv, LastingTemplate
  <2> QED
    BY <1>4, <1>7, <2>1 DEF HasAppended, LastingTemplate, Range
<1>9. AnnotationsOwned(template')
  BY <1>6 DEF HasAppended, FactsInv, Accounted, AnnotationsOwned
<1>10. SecretsKnown(template')
  <2>1. SecretsKnown(template)
    BY DEF FactsInv, Accounted
  <2>2. ASSUME NEW j \in DOMAIN template'.containers, NEW x \in Range(template'.containers[j].env),
               IsSecretKeyRef(x), \E b \in BindingVersions : b.secret = x.from[2]
        PROVE  x \in Range(template.containers[j].env) /\ j \in DOMAIN template.containers
    BY <1>1, <1>6, <2>2 DEF HasAppended, Lasting, Secrets
  <2>3. ASSUME NEW j \in DOMAIN template'.containers, NEW x \in Range(template'.containers[j].env),
               IsSecretKeyRef(x)
        PROVE  x.from[2] # Empty
    <3>1. j \in DOMAIN template.containers
          /\ (x \in Range(template.containers[j].env) \/ x = e)
      BY <1>6 DEF HasAppended
    <3> QED
      BY <1>1, <2>1, <2>3, <3>1 DEF SecretsKnown, Lasting, Secrets
  <2>4. template'.annotations = template.annotations
    BY <1>6 DEF HasAppended
  <2> QED
    BY <2>1, <2>2, <2>3, <2>4 DEF SecretsKnown
<1>11. RootsKept(template', base')
  <2> SUFFICES ASSUME NEW j \in DOMAIN base.containers
               PROVE  Rooted(template'.containers[j].env, RootValue(base.containers[j].env))
    BY <1>4, <1>7 DEF HasAppended, RootsKept
  <2>1. Rooted(template.containers[j].env, RootValue(base.containers[j].env))
    BY DEF FactsInv, Accounted, RootsKept
  <2>2. j \in DOMAIN template.containers
    BY DEF WorkloadInv, SameContainers
  <2>3. CASE j # i
    BY <1>6, <2>1, <2>2, <2>3 DEF HasAppended
  <2>4. CASE j = i
    <3> DEFINE s == template.containers[i].env
               value == RootValue(base.containers[i].env)
    <3>1. List(s) /\ Rooted(s, value)
      BY <1>5, <2>1, <2>4 DEF TemplateShape, ContainerShape
    <3> HIDE DEF s, value
    <3>2. Rooted(Append(s, e), value)
      BY <1>1, <3>1, RootAppended
    <3> QED
      BY <1>6, <2>4, <3>2 DEF HasAppended, s, value
  <2> QED
    BY <2>3, <2>4
<1>12. UserPart(base)' = UserPart(base)
  <2> DEFINE I == DOMAIN base.containers
             name(j) == base.containers[j].name
             root(j) == RootValue(base.containers[j].env)
             part == [c \in {name(j) : j \in I} |-> root(CHOOSE j \in I : name(j) = c)]
             name2(j) == base'.containers[j].name
             root2(j) == RootValue(base'.containers[j].env)
             part2 == [c \in {name2(j) : j \in I} |-> root2(CHOOSE j \in I : name2(j) = c)]
  <2>1. UserPart(base) = part
    BY DEF UserPart
  <2>2. UserPart(base)' = part2
    BY <1>4 DEF HasAppended, UserPart
  <2>3. \A j \in I : name2(j) = name(j) /\ root2(j) = root(j)
    BY <1>7
  <2> HIDE DEF name, name2, root, root2, I
  <2>4. {name2(j) : j \in I} = {name(j) : j \in I}
    BY <2>3
  <2>5. ASSUME NEW c \in {name(j) : j \in I}
        PROVE  root2(CHOOSE j \in I : name2(j) = c) = root(CHOOSE j \in I : name(j) = c)
    <3>1. (CHOOSE j \in I : name2(j) = c) = (CHOOSE j \in I : name(j) = c)
      BY <2>3
    <3>2. (CHOOSE j \in I : name(j) = c) \in I
      OBVIOUS
    <3> QED
      BY <2>3, <3>1, <3>2
  <2>6. part2 = part
    BY <2>4, <2>5
  <2> QED
    BY <2>1, <2>2, <2>6
<1> QED
  BY <1>8, <1>9, <1>10, <1>11, <1>12 DEF FactsInv, Accounted

\* Every step keeps the account.
LEMMA NextFactsInv ==
  ASSUME Apart, WorkloadInv, FactsInv, [Next]_vars
  PROVE  FactsInv'
<1>0. /\ TemplateShape(template) /\ DOMAIN template.containers = DOMAIN base.containers
      /\ Accounted(template, base) /\ LastingTemplate(base)
  BY DEF WorkloadInv, SameContainers, FactsInv
<1>1. ASSUME NEW b \in BindingVersions, Project(b) PROVE FactsInv'
  <2>1. Accounted(project(b, template), base)
    BY <1>0, ProjectAccounted
  <2> QED
    BY <1>0, <1>1, <2>1 DEF FactsInv, Project
<1>2. ASSUME NEW b \in BindingVersions, Unproject(b) PROVE FactsInv'
  <2>1. Accounted(unproject(b, template), base)
    BY <1>0, UnprojectAccounted
  <2> QED
    BY <1>0, <1>2, <2>1 DEF FactsInv, Unproject
<1>3. ASSUME NEW t \in UserTemplates, UserReplace(t) PROVE FactsInv'
  <2>1. UserTemplate(t) /\ LastingTemplate(t)
    BY UserTemplatesAssumption DEF Apart
  <2>2. Accounted(t, t)
    BY <2>1, UserAccounted
  <2> QED
    BY <1>3, <2>1, <2>2 DEF FactsInv, UserReplace
<1>4. ASSUME NEW i \in DOMAIN base.containers, NEW e \in UserEnv, UserAppend(i, e)
      PROVE  FactsInv'
  BY <1>4, UserAppendAccounted
<1>5. CASE UNCHANGED vars
  BY <1>5 DEF vars, FactsInv
<1> QED
  BY <1>1, <1>2, <1>3, <1>4, <1>5 DEF Next

----------------------------------------------------------------------------
(***************************************************************************)
(* The facts of a template, by kind, as sets of items: the mapping reads   *)
(* them off the lists by index.                                            *)
(***************************************************************************)
OwnVolume(u) == <<"servicebinding", u>>

AnnotationFactsOf(t, u) ==
  {<<"annotation", a[1], t.annotations[a]>> :
     a \in {x \in DOMAIN t.annotations : InGroup(x) /\ x[2] = u}}

VolumeFactOf(u, v) == <<"volume", {OwnSource(u, v.sources[k]) : k \in DOMAIN v.sources}>>

VolumeFactsOf(t, u) ==
  {VolumeFactOf(u, v) : v \in {x \in Range(t.volumes) : x.name = OwnVolume(u)}}

MountFactsOf(c, u) ==
  {<<"mount", c.name, m.path>> : m \in {x \in Range(c.mounts) : x.name = OwnVolume(u)}}

VariableFact(c, e) == <<"env", c.name, e.name, EnvSource(e)>>

VariableFactsOf(c, u) == {VariableFact(c, e) : e \in {x \in Range(c.env) : OwnEnv(u, x)}}

TemplateFacts(t, u) ==
  AnnotationFactsOf(t, u) \cup VolumeFactsOf(t, u)
    \cup (UNION {MountFactsOf(t.containers[i], u) : i \in DOMAIN t.containers})
    \cup (UNION {VariableFactsOf(t.containers[i], u) : i \in DOMAIN t.containers})

\* FactsOf, of any template t and user's template d.
FactsIn(t, d, u) ==
  LET indexes(field) ==
        UNION {{<<i, j>> : j \in DOMAIN t.containers[i][field]} : i \in DOMAIN t.containers}
  IN  {<<"annotation", a[1], t.annotations[a]>> :
         a \in {x \in DOMAIN t.annotations : InGroup(x) /\ x[2] = u}}
      \cup {<<"volume", {OwnSource(u, v.sources[k]) : k \in DOMAIN v.sources}>> :
         v \in {t.volumes[k] : k \in {x \in DOMAIN t.volumes :
                  t.volumes[x].name = <<"servicebinding", u>>}}}
      \cup {<<"mount", d.containers[p[1]].name, t.containers[p[1]].mounts[p[2]].path>> :
         p \in {x \in indexes("mounts") :
                  t.containers[x[1]].mounts[x[2]].name = <<"servicebinding", u>>}}
      \cup {LET e == t.containers[p[1]].env[p[2]]
            IN  <<"env", d.containers[p[1]].name, e.name, EnvSource(e)>> :
         p \in {x \in indexes("env") : OwnEnv(u, t.containers[x[1]].env[x[2]])}}

\* FactsOf reads the two templates and nothing else, before and after a step.
LEMMA FactsByTemplate ==
  ASSUME NEW u
  PROVE  /\ FactsOf(u) = FactsIn(template, base, u)
         /\ FactsOf(u)' = FactsIn(template', base', u)
<1>1. FactsOf(u) = FactsIn(template, base, u)
  BY DEF FactsOf, FactsIn, Indexes, ContainerName
<1>2. FactsOf(u)' = FactsIn(template', base', u)
  BY DEF FactsOf, FactsIn, Indexes, ContainerName
<1> QED
  BY <1>1, <1>2

\* The refinement mapping reads the same facts (FactsOf).
LEMMA FactsAreRead ==
  ASSUME NEW t, NEW d, SameContainers(t, d), NEW u
  PROVE  FactsIn(t, d, u) = TemplateFacts(t, u)
<1> DEFINE indexes(field) ==
             UNION {{<<i, j>> : j \in DOMAIN t.containers[i][field]} : i \in DOMAIN t.containers}
           volumes == {<<"volume", {OwnSource(u, v.sources[k]) : k \in DOMAIN v.sources}>> :
             v \in {t.volumes[k] : k \in {x \in DOMAIN t.volumes :
                      t.volumes[x].name = <<"servicebinding", u>>}}}
           mounts == {<<"mount", d.containers[p[1]].name, t.containers[p[1]].mounts[p[2]].path>> :
             p \in {x \in indexes("mounts") :
                      t.containers[x[1]].mounts[x[2]].name = <<"servicebinding", u>>}}
           variables == {LET e == t.containers[p[1]].env[p[2]]
                         IN  <<"env", d.containers[p[1]].name, e.name, EnvSource(e)>> :
             p \in {x \in indexes("env") : OwnEnv(u, t.containers[x[1]].env[x[2]])}}
<1>1. FactsIn(t, d, u) = AnnotationFactsOf(t, u) \cup volumes \cup mounts \cup variables
  BY DEF FactsIn, AnnotationFactsOf
<1>2. volumes = VolumeFactsOf(t, u)
  <2>1. {t.volumes[k] : k \in {x \in DOMAIN t.volumes : t.volumes[x].name = <<"servicebinding", u>>}}
          = {x \in Range(t.volumes) : x.name = OwnVolume(u)}
    BY DEF Range, OwnVolume
  <2> QED
    BY <2>1 DEF VolumeFactsOf, VolumeFactOf
<1>3. mounts = UNION {MountFactsOf(t.containers[i], u) : i \in DOMAIN t.containers}
  <2> DEFINE C == DOMAIN t.containers
             all == UNION {MountFactsOf(t.containers[i], u) : i \in C}
  <2>1. ASSUME NEW f \in mounts PROVE f \in all
    <3>1. PICK p \in indexes("mounts") :
            /\ t.containers[p[1]].mounts[p[2]].name = <<"servicebinding", u>>
            /\ f = <<"mount", d.containers[p[1]].name, t.containers[p[1]].mounts[p[2]].path>>
      OBVIOUS
    <3>2. PICK i \in C : \E j \in DOMAIN t.containers[i].mounts : p = <<i, j>>
      OBVIOUS
    <3>3. p[1] = i /\ p[2] \in DOMAIN t.containers[i].mounts
      BY <3>2
    <3>4. d.containers[i].name = t.containers[i].name
      BY DEF SameContainers
    <3>5. f \in MountFactsOf(t.containers[i], u)
      BY <3>1, <3>3, <3>4 DEF MountFactsOf, OwnVolume, Range
    <3> QED
      BY <3>5
  <2>2. ASSUME NEW f \in all PROVE f \in mounts
    <3>1. PICK i \in C : f \in MountFactsOf(t.containers[i], u)
      OBVIOUS
    <3>2. PICK j \in DOMAIN t.containers[i].mounts :
            /\ t.containers[i].mounts[j].name = <<"servicebinding", u>>
            /\ f = <<"mount", t.containers[i].name, t.containers[i].mounts[j].path>>
      BY <3>1 DEF MountFactsOf, OwnVolume, Range
    <3> DEFINE q == <<i, j>>
    <3>3. q \in indexes("mounts") /\ q[1] = i /\ q[2] = j
      OBVIOUS
    <3>4. d.containers[i].name = t.containers[i].name
      BY DEF SameContainers
    <3> HIDE DEF q
    <3>5. f = <<"mount", d.containers[q[1]].name, t.containers[q[1]].mounts[q[2]].path>>
          /\ t.containers[q[1]].mounts[q[2]].name = <<"servicebinding", u>>
      BY <3>2, <3>3, <3>4
    <3> QED
      BY <3>3, <3>5
  <2> QED
    BY <2>1, <2>2
<1>4. variables = UNION {VariableFactsOf(t.containers[i], u) : i \in DOMAIN t.containers}
  <2> DEFINE C == DOMAIN t.containers
             all == UNION {VariableFactsOf(t.containers[i], u) : i \in C}
  <2>1. ASSUME NEW f \in variables PROVE f \in all
    <3>1. PICK p \in indexes("env") :
            /\ OwnEnv(u, t.containers[p[1]].env[p[2]])
            /\ f = <<"env", d.containers[p[1]].name, t.containers[p[1]].env[p[2]].name,
                     EnvSource(t.containers[p[1]].env[p[2]])>>
      OBVIOUS
    <3>2. PICK i \in C : \E j \in DOMAIN t.containers[i].env : p = <<i, j>>
      OBVIOUS
    <3>3. p[1] = i /\ p[2] \in DOMAIN t.containers[i].env
      BY <3>2
    <3>4. d.containers[i].name = t.containers[i].name
      BY DEF SameContainers
    <3>5. f \in VariableFactsOf(t.containers[i], u)
      BY <3>1, <3>3, <3>4 DEF VariableFactsOf, VariableFact, Range
    <3> QED
      BY <3>5
  <2>2. ASSUME NEW f \in all PROVE f \in variables
    <3>1. PICK i \in C : f \in VariableFactsOf(t.containers[i], u)
      OBVIOUS
    <3>2. PICK j \in DOMAIN t.containers[i].env :
            /\ OwnEnv(u, t.containers[i].env[j])
            /\ f = <<"env", t.containers[i].name, t.containers[i].env[j].name,
                     EnvSource(t.containers[i].env[j])>>
      BY <3>1 DEF VariableFactsOf, VariableFact, Range
    <3> DEFINE q == <<i, j>>
    <3>3. q \in indexes("env") /\ q[1] = i /\ q[2] = j
      OBVIOUS
    <3>4. d.containers[i].name = t.containers[i].name
      BY DEF SameContainers
    <3> HIDE DEF q
    <3>5. f = <<"env", d.containers[q[1]].name, t.containers[q[1]].env[q[2]].name,
                  EnvSource(t.containers[q[1]].env[q[2]])>>
          /\ OwnEnv(u, t.containers[q[1]].env[q[2]])
      BY <3>2, <3>3, <3>4
    <3> QED
      BY <3>3, <3>5
  <2> QED
    BY <2>1, <2>2
<1> HIDE DEF volumes, mounts, variables
<1> QED
  BY <1>1, <1>2, <1>3, <1>4 DEF TemplateFacts

\* The names of a binding's annotations carry its uid.
LEMMA NamesCarryUid ==
  ASSUME NEW b, NEW a
  PROVE  /\ a \in ProjectedAnnotations(b) =>
              a \in {SecretAnnotationName(b), TypeAnnotationName(b), ProviderAnnotationName(b)}
         /\ a \in {SecretAnnotationName(b), TypeAnnotationName(b), ProviderAnnotationName(b)} =>
              InGroup(a) /\ a[2] = b.uid
  BY DEF ProjectedAnnotations, SecretAnnotationName, TypeAnnotationName, ProviderAnnotationName, InGroup

\* The variables of a binding in a container are those unprojecting it takes out,
\* though the binding has another secret by now (unprojectEnv).
LEMMA OwnVariablesGo ==
  ASSUME Apart, NEW b \in BindingVersions, NEW t, AnnotationsOwned(t), SecretsKnown(t),
         VariablesResolve(t), NEW i \in DOMAIN t.containers, NEW e \in Range(t.containers[i].env),
         NEW u, OwnEnv(u, e)
  PROVE  StaysVariable(b, t, e) <=> u # b.uid
<1> DEFINE name == SecretAnnotationName(b)
           secret == IF name \in DOMAIN t.annotations THEN t.annotations[name] ELSE Empty
<1>1. CASE IsFieldRef(e) /\ InGroup(e.from[2]) /\ e.from[2][2] = u
  <2>1. ~IsSecretKeyRef(e)
    BY <1>1 DEF IsFieldRef, IsSecretKeyRef
  <2>2. PICK c \in BindingVersions : e.from[2] \in {TypeAnnotationName(c), ProviderAnnotationName(c)}
    BY <1>1 DEF VariablesResolve
  <2>3. c.uid = u
    BY <1>1, <2>2, NamesCarryUid
  <2>4. e.from[2] \in {TypeAnnotationName(b), ProviderAnnotationName(b)} <=> b.uid = u
    BY <2>2, <2>3, NamesDiffer
  <2> QED
    BY <1>1, <2>1, <2>4 DEF StaysVariable
<1>2. ASSUME IsSecretKeyRef(e), NEW c \in BindingVersions, c.uid = u, c.secret = e.from[2]
      PROVE  StaysVariable(b, t, e) <=> u # b.uid
  <2>1. ~IsFieldRef(e)
    BY <1>2 DEF IsFieldRef, IsSecretKeyRef
  <2>2. /\ e.from[2] # Empty
        /\ SecretAnnotationName(c) \in DOMAIN t.annotations
        /\ t.annotations[SecretAnnotationName(c)] = e.from[2]
    BY <1>2 DEF SecretsKnown
  <2>3. ASSUME secret = e.from[2] PROVE b.uid = u
    <3>1. name \in DOMAIN t.annotations /\ t.annotations[name] = e.from[2]
      BY <2>2, <2>3
    <3>2. InGroup(name) /\ name[1] = "secret" /\ name[2] = b.uid
      BY DEF InGroup, SecretAnnotationName
    <3>3. PICK x \in BindingVersions :
            name \in ProjectedAnnotations(x) /\ t.annotations[name] = AnnotationValue(x, name)
      BY <3>1, <3>2 DEF AnnotationsOwned
    <3>4. x.uid = b.uid
      BY <3>2, <3>3, NamesCarryUid
    <3>5. x.secret = c.secret
      BY <1>2, <3>1, <3>2, <3>3 DEF AnnotationValue
    <3> QED
      BY <1>2, <2>2, <3>4, <3>5 DEF Apart
  <2>4. ASSUME b.uid = u PROVE secret = e.from[2]
    BY <1>2, <2>2, <2>4, NamesDiffer
  <2> HIDE DEF secret
  <2>5. StaysVariable(b, t, e) <=> secret # e.from[2]
    BY <1>2, <2>1 DEF StaysVariable, secret
  <2> QED
    BY <2>3, <2>4, <2>5
<1> QED
  BY <1>1, <1>2 DEF OwnEnv

\* Unprojecting empties the facts of the binding and leaves those of every other
\* (unproject).
LEMMA UnprojectFacts ==
  ASSUME Apart, NEW b \in BindingVersions, NEW t, TemplateShape(t), AnnotationsOwned(t),
         SecretsKnown(t), VariablesResolve(t), NEW w
  PROVE  LET u == unproject(b, t)
         IN  /\ AnnotationFactsOf(u, w) = IF w = b.uid THEN {} ELSE AnnotationFactsOf(t, w)
             /\ VolumeFactsOf(u, w) = IF w = b.uid THEN {} ELSE VolumeFactsOf(t, w)
             /\ \A i \in DOMAIN t.containers :
                  /\ MountFactsOf(u.containers[i], w) =
                       IF w = b.uid THEN {} ELSE MountFactsOf(t.containers[i], w)
                  /\ VariableFactsOf(u.containers[i], w) =
                       IF w = b.uid THEN {} ELSE VariableFactsOf(t.containers[i], w)
<1> DEFINE u == unproject(b, t)
           names == {SecretAnnotationName(b), TypeAnnotationName(b), ProviderAnnotationName(b)}
<1>1. /\ DOMAIN u.containers = DOMAIN t.containers
      /\ \A i \in DOMAIN t.containers : u.containers[i] = unprojectContainer(b, t, t.containers[i])
      /\ Range(u.volumes) = {v \in Range(t.volumes) : v.name # VolumeName(b)}
  BY UnprojectedTemplate
<1>2. DOMAIN u.annotations = DOMAIN t.annotations \ names
      /\ \A a \in DOMAIN u.annotations : u.annotations[a] = t.annotations[a]
  BY UnprojectedTemplate
<1> HIDE DEF u
<1>3. OwnVolume(w) = VolumeName(b) <=> w = b.uid
  BY DEF OwnVolume, VolumeName
<1>4. AnnotationFactsOf(u, w) = IF w = b.uid THEN {} ELSE AnnotationFactsOf(t, w)
  <2> DEFINE own(x) == {a \in DOMAIN x.annotations : InGroup(a) /\ a[2] = w}
  <2>1. CASE w = b.uid
    <3>1. ASSUME NEW a \in own(u) PROVE FALSE
      <4>1. PICK c \in BindingVersions : a \in ProjectedAnnotations(c)
        BY <1>2 DEF AnnotationsOwned
      <4>2. c.uid = b.uid /\ a \in {SecretAnnotationName(c), TypeAnnotationName(c), ProviderAnnotationName(c)}
        BY <2>1, <4>1, NamesCarryUid
      <4>3. a \in names
        BY <4>2, NamesDiffer
      <4> QED
        BY <1>2, <4>3
    <3> QED
      BY <2>1, <3>1 DEF AnnotationFactsOf
  <2>2. CASE w # b.uid
    <3>1. \A a \in names : a[2] # w
      BY <2>2, NamesCarryUid
    <3>2. own(u) = own(t)
      BY <1>2, <3>1
    <3>3. \A a \in own(u) : u.annotations[a] = t.annotations[a]
      BY <1>2
    <3> QED
      BY <2>2, <3>2, <3>3 DEF AnnotationFactsOf
  <2> QED
    BY <2>1, <2>2
<1>5. VolumeFactsOf(u, w) = IF w = b.uid THEN {} ELSE VolumeFactsOf(t, w)
  <2> DEFINE own(x) == {v \in Range(x.volumes) : v.name = OwnVolume(w)}
  <2>1. CASE w = b.uid
    <3>1. own(u) = {}
      BY <1>1, <1>3, <2>1
    <3> QED
      BY <2>1, <3>1 DEF VolumeFactsOf
  <2>2. CASE w # b.uid
    <3>1. own(u) = own(t)
      BY <1>1, <1>3, <2>2
    <3> QED
      BY <2>2, <3>1 DEF VolumeFactsOf
  <2> QED
    BY <2>1, <2>2
<1>6. ASSUME NEW i \in DOMAIN t.containers
      PROVE  /\ MountFactsOf(u.containers[i], w) =
                  IF w = b.uid THEN {} ELSE MountFactsOf(t.containers[i], w)
             /\ VariableFactsOf(u.containers[i], w) =
                  IF w = b.uid THEN {} ELSE VariableFactsOf(t.containers[i], w)
  <2> DEFINE c == t.containers[i]
             d == u.containers[i]
             mounts(x) == {m \in Range(x.mounts) : m.name = OwnVolume(w)}
             variables(x) == {e \in Range(x.env) : OwnEnv(w, e)}
  <2>1. d = unprojectContainer(b, t, c) /\ ContainerShape(c)
    BY <1>1 DEF TemplateShape
  <2>2. \A e \in Range(c.env) : OwnEnv(w, e) => (StaysVariable(b, t, e) <=> w # b.uid)
    BY OwnVariablesGo
  <2> HIDE DEF c, d
  <2>3. /\ d.name = c.name
        /\ Range(d.mounts) = {m \in Range(c.mounts) : m.name # VolumeName(b)}
        /\ Range(d.env) = {e \in Range(c.env) : StaysVariable(b, t, e)}
    BY <2>1, UnprojectedContainer
  <2>4. CASE w = b.uid
    <3>1. mounts(d) = {} /\ variables(d) = {}
      BY <1>3, <2>2, <2>3, <2>4
    <3>2. MountFactsOf(d, w) = {} /\ VariableFactsOf(d, w) = {}
      BY <3>1 DEF MountFactsOf, VariableFactsOf
    <3> QED
      BY <2>4, <3>2 DEF d
  <2>5. CASE w # b.uid
    <3>1. mounts(d) = mounts(c)
      BY <1>3, <2>3, <2>5
    <3>2. variables(d) = variables(c)
      BY <2>2, <2>3, <2>5
    <3>3. MountFactsOf(d, w) = MountFactsOf(c, w)
      BY <2>3, <3>1 DEF MountFactsOf
    <3>4. VariableFactsOf(d, w) = VariableFactsOf(c, w)
      BY <2>3, <3>2 DEF VariableFactsOf, VariableFact
    <3> QED
      BY <2>5, <3>3, <3>4 DEF c, d
  <2> QED
    BY <2>4, <2>5
<1> QED
  BY <1>4, <1>5, <1>6 DEF u

\* The annotations that projecting sets expose what the abstract specification
\* says (annotate).
LEMMA ProjectedAnnotationFacts ==
  ASSUME NEW b, NEW u, NEW p, p.annotations = annotate(b, u.annotations),
         AnnotationFactsOf(u, b.uid) = {}, NEW w
  PROVE  AnnotationFactsOf(p, w) =
           IF w = b.uid THEN Abstract!AnnotationFacts(b) ELSE AnnotationFactsOf(u, w)
<1> DEFINE own(x) == {a \in DOMAIN x.annotations : InGroup(a) /\ a[2] = w}
           fact(x, a) == <<"annotation", a[1], x.annotations[a]>>
<1>1. DOMAIN p.annotations = DOMAIN u.annotations \cup ProjectedAnnotations(b)
      /\ \A a \in DOMAIN p.annotations :
           p.annotations[a] = IF a \in ProjectedAnnotations(b) THEN AnnotationValue(b, a)
                              ELSE u.annotations[a]
  BY DEF annotate
<1>2. \A a \in ProjectedAnnotations(b) : InGroup(a) /\ a[2] = b.uid
  BY NamesCarryUid
<1>3. CASE w # b.uid
  <2>1. own(p) = own(u) /\ \A a \in own(u) : fact(p, a) = fact(u, a)
    BY <1>1, <1>2, <1>3
  <2> QED
    BY <1>3, <2>1 DEF AnnotationFactsOf
<1>4. CASE w = b.uid
  <2>1. own(u) = {}
    BY <1>4 DEF AnnotationFactsOf
  <2>2. own(p) = ProjectedAnnotations(b)
    BY <1>1, <1>2, <1>4, <2>1
  <2>3. \A a \in own(p) : fact(p, a) = <<"annotation", a[1], AnnotationValue(b, a)>>
    BY <1>1, <2>2
  <2>4. AnnotationFactsOf(p, w) =
          {<<"annotation", a[1], AnnotationValue(b, a)>> : a \in ProjectedAnnotations(b)}
    BY <2>2, <2>3 DEF AnnotationFactsOf
  <2>5. /\ SecretAnnotationName(b)[1] = "secret" /\ AnnotationValue(b, SecretAnnotationName(b)) = b.secret
        /\ TypeAnnotationName(b)[1] = "type" /\ AnnotationValue(b, TypeAnnotationName(b)) = b.type
        /\ ProviderAnnotationName(b)[1] = "provider"
        /\ AnnotationValue(b, ProviderAnnotationName(b)) = b.provider
    BY DEF SecretAnnotationName, TypeAnnotationName, ProviderAnnotationName, AnnotationValue
  <2>6. {<<"annotation", a[1], AnnotationValue(b, a)>> : a \in ProjectedAnnotations(b)} =
          {<<"annotation", "secret", b.secret>>}
            \cup (IF b.type # Empty THEN {<<"annotation", "type", b.type>>} ELSE {})
            \cup (IF b.provider # Empty THEN {<<"annotation", "provider", b.provider>>} ELSE {})
    BY <2>5 DEF ProjectedAnnotations
  <2>7. Abstract!AnnotationFacts(b) =
          {<<"annotation", "secret", b.secret>>}
            \cup (IF b.type # Empty THEN {<<"annotation", "type", b.type>>} ELSE {})
            \cup (IF b.provider # Empty THEN {<<"annotation", "provider", b.provider>>} ELSE {})
    <3>1. {<<"annotation", "type", b.type>> : x \in {y \in {b.type} : y # ""}} =
            IF b.type # Empty THEN {<<"annotation", "type", b.type>>} ELSE {}
      BY DEF Empty
    <3>2. {<<"annotation", "provider", b.provider>> : x \in {y \in {b.provider} : y # ""}} =
            IF b.provider # Empty THEN {<<"annotation", "provider", b.provider>>} ELSE {}
      BY DEF Empty
    <3> QED
      BY <3>1, <3>2 DEF Abstract!AnnotationFacts
  <2> QED
    BY <1>4, <2>4, <2>6, <2>7
<1> QED
  BY <1>3, <1>4

\* The volume exposes the secret and the overrides of its type and provider
\* (projectVolume).
LEMMA ProjectedVolumeFacts ==
  ASSUME NEW b, NEW u, NEW p, Range(p.volumes) = Range(u.volumes) \cup {VolumeOf(b)},
         VolumeFactsOf(u, b.uid) = {}, NEW w
  PROVE  VolumeFactsOf(p, w) = IF w = b.uid THEN {Abstract!VolumeFact(b)} ELSE VolumeFactsOf(u, w)
<1> DEFINE own(x) == {v \in Range(x.volumes) : v.name = OwnVolume(w)}
<1>1. VolumeOf(b).name = OwnVolume(w) <=> w = b.uid
  BY DEF VolumeOf, VolumeName, OwnVolume
<1>2. CASE w # b.uid
  <2>1. own(p) = own(u)
    BY <1>1, <1>2
  <2> QED
    BY <1>2, <2>1 DEF VolumeFactsOf
<1>3. CASE w = b.uid
  <2> DEFINE s == VolumeSources(b)
             typed == IF b.type # Empty THEN {<<"annotation", "type">>} ELSE {}
             provided == IF b.provider # Empty THEN {<<"annotation", "provider">>} ELSE {}
             types == IF b.type # Empty THEN {<<"type", TypeAnnotationName(b)>>} ELSE {}
             providers == IF b.provider # Empty THEN {<<"provider", ProviderAnnotationName(b)>>} ELSE {}
  <2>1. own(u) = {}
    BY <1>3 DEF VolumeFactsOf
  <2>2. own(p) = {VolumeOf(b)}
    BY <1>1, <1>3, <2>1
  <2>3. VolumeFactsOf(p, w) = {VolumeFactOf(w, VolumeOf(b))}
    BY <2>2 DEF VolumeFactsOf
  <2>4. VolumeFactOf(w, VolumeOf(b)) = <<"volume", {OwnSource(w, s[k]) : k \in DOMAIN s}>>
    BY DEF VolumeFactOf, VolumeOf
  <2>5. {OwnSource(w, s[k]) : k \in DOMAIN s} = {OwnSource(w, x) : x \in Range(s)}
    BY DEF Range
  <2>6. Range(s) = {<<"secret", b.secret>>} \cup types \cup providers
    BY SourcesOfVolume
  <2>7. OwnSource(w, <<"secret", b.secret>>) = <<"secret", b.secret>>
    BY DEF OwnSource
  <2>8. OwnSource(w, <<"type", TypeAnnotationName(b)>>) = <<"annotation", "type">>
    BY <1>3 DEF OwnSource, TypeAnnotationName
  <2>9. OwnSource(w, <<"provider", ProviderAnnotationName(b)>>) = <<"annotation", "provider">>
    BY <1>3 DEF OwnSource, ProviderAnnotationName
  <2>10. {OwnSource(w, x) : x \in Range(s)} = {<<"secret", b.secret>>} \cup typed \cup provided
    <3>1. {OwnSource(w, x) : x \in types} = typed
      BY <2>8
    <3>2. {OwnSource(w, x) : x \in providers} = provided
      BY <2>9
    <3> HIDE DEF typed, provided, types, providers, s
    <3> QED
      BY <2>6, <2>7, <3>1, <3>2
  <2>11. Abstract!VolumeFact(b) = <<"volume", {<<"secret", b.secret>>} \cup typed \cup provided>>
    <3>1. {<<"annotation", "type">> : x \in {y \in {b.type} : y # ""}} = typed
      BY DEF Empty
    <3>2. {<<"annotation", "provider">> : x \in {y \in {b.provider} : y # ""}} = provided
      BY DEF Empty
    <3> QED
      BY <3>1, <3>2 DEF Abstract!VolumeFact
  <2> QED
    BY <1>3, <2>3, <2>4, <2>5, <2>10, <2>11
<1> QED
  BY <1>2, <1>3

\* A variable of a binding is its own, in every container, and of nobody else
\* (projectEnv).
LEMMA ProjectedVariableFacts ==
  ASSUME Apart, NEW b \in BindingVersions, b.secret # Empty, NEW k \in DOMAIN b.env, NEW w
  PROVE  LET e == EnvVar(b, b.env[k])
         IN  /\ OwnEnv(w, e) <=> w = b.uid
             /\ \A c : VariableFact(c, e) = Abstract!EnvFact(b, c.name, b.env[k])
<1> DEFINE e == EnvVar(b, b.env[k])
           key == b.env[k].key
<1>1. e.name = b.env[k].name
  BY DEF EnvVar
<1>2. CASE key = "type" /\ b.type # Empty
  <2>1. e.from = FieldRef(TypeAnnotationName(b))
    BY <1>2 DEF EnvVar
  <2>2. IsFieldRef(e) /\ ~IsSecretKeyRef(e) /\ e.from[2] = <<"type", b.uid>>
    BY <2>1 DEF IsFieldRef, IsSecretKeyRef, FieldRef, TypeAnnotationName
  <2>3. OwnEnv(w, e) <=> w = b.uid
    BY <2>2 DEF OwnEnv, InGroup
  <2>4. EnvSource(e) = <<"annotation", "type">>
    BY <2>2 DEF EnvSource
  <2>5. \A c : Abstract!EnvFact(b, c.name, b.env[k]) =
                 <<"env", c.name, b.env[k].name, <<"annotation", "type">>>>
    BY <1>2 DEF Abstract!EnvFact, Empty
  <2> HIDE DEF e
  <2> QED
    BY <1>1, <2>3, <2>4, <2>5 DEF VariableFact, e
<1>3. CASE ~(key = "type" /\ b.type # Empty) /\ key = "provider" /\ b.provider # Empty
  <2>1. e.from = FieldRef(ProviderAnnotationName(b))
    BY <1>3 DEF EnvVar
  <2>2. IsFieldRef(e) /\ ~IsSecretKeyRef(e) /\ e.from[2] = <<"provider", b.uid>>
    BY <2>1 DEF IsFieldRef, IsSecretKeyRef, FieldRef, ProviderAnnotationName
  <2>3. OwnEnv(w, e) <=> w = b.uid
    BY <2>2 DEF OwnEnv, InGroup
  <2>4. EnvSource(e) = <<"annotation", "provider">>
    BY <2>2 DEF EnvSource
  <2>5. \A c : Abstract!EnvFact(b, c.name, b.env[k]) =
                 <<"env", c.name, b.env[k].name, <<"annotation", "provider">>>>
    BY <1>3 DEF Abstract!EnvFact, Empty
  <2> HIDE DEF e
  <2> QED
    BY <1>1, <2>3, <2>4, <2>5 DEF VariableFact, e
<1>4. CASE /\ ~(key = "type" /\ b.type # Empty)
           /\ ~(key = "provider" /\ b.provider # Empty)
  <2>1. e.from = SecretKeyRef(b.secret, key)
    BY <1>4 DEF EnvVar
  <2>2. ~IsFieldRef(e) /\ IsSecretKeyRef(e) /\ e.from[2] = b.secret
    BY <2>1 DEF IsFieldRef, IsSecretKeyRef, SecretKeyRef
  <2>3. OwnEnv(w, e) <=> w = b.uid
    BY <2>2 DEF OwnEnv, Apart
  <2>4. EnvSource(e) = <<"secret", b.secret, key>>
    BY <2>1, <2>2 DEF EnvSource, SecretKeyRef
  <2>5. \A c : Abstract!EnvFact(b, c.name, b.env[k]) =
                 <<"env", c.name, b.env[k].name, <<"secret", b.secret, key>>>>
    BY <1>4 DEF Abstract!EnvFact, Empty
  <2> HIDE DEF e
  <2> QED
    BY <1>1, <2>3, <2>4, <2>5 DEF VariableFact, e
<1> QED
  BY <1>2, <1>3, <1>4

\* The facts of container d, which was made of c, whose root is value, for b.
ContainerFacts(b, c, value, d, w) ==
  LET bound == w = b.uid /\ isContainerBindable(b, c)
  IN  /\ MountFactsOf(d, w) = IF bound THEN {<<"mount", c.name, <<value, b.name>>>>}
                              ELSE MountFactsOf(c, w)
      /\ VariableFactsOf(d, w) = IF bound THEN Abstract!EnvFacts(b, c.name)
                                 ELSE VariableFactsOf(c, w)

\* A container the binding selects exposes one mount below its root, and every
\* variable of the binding; the others expose what they did (projectContainer).
LEMMA ProjectedContainerFacts ==
  ASSUME Apart, NEW b \in BindingVersions, b.secret # Empty, NEW v, NEW c, ContainerShape(c),
         MountFactsOf(c, b.uid) = {}, VariableFactsOf(c, b.uid) = {},
         NEW value, Rooted(c.env, value), NEW w
  PROVE  ContainerFacts(b, c, value, projectContainer(b, v, c), w)
<1> DEFINE d == projectContainer(b, v, c)
           r == serviceBindingRoot(c)
           mounts(x) == {m \in Range(x.mounts) : m.name = OwnVolume(w)}
           variables(x) == {e \in Range(x.env) : OwnEnv(w, e)}
<1>1. CASE ~isContainerBindable(b, c)
  BY <1>1 DEF projectContainer, ContainerFacts
<1>2. CASE isContainerBindable(b, c)
  <2>1. IsVersion(b)
    BY VersionsAreValid
  <2>2. /\ d.name = c.name
        /\ Range(d.mounts) = Range(c.mounts) \cup {MountOf(b, c)}
        /\ Range(d.env) = Range(r.env) \cup VariablesOf(b)
    BY <1>2, <2>1, ProjectedContainer
  <2>3. Range(c.env) \subseteq Range(r.env) /\ Range(r.env) \subseteq Range(c.env) \cup {RootVariable}
    BY RootedContainer
  <2> HIDE DEF d, r
  <2>4. ~OwnEnv(w, RootVariable)
    BY DEF OwnEnv, RootVariable, Value, IsFieldRef, IsSecretKeyRef
  <2>5. MountOf(b, c).name = OwnVolume(w) <=> w = b.uid
    BY DEF MountOf, VolumeName, OwnVolume
  <2>6. MountOf(b, c).path = <<value, b.name>>
    <3>1. DOMAIN c.env \subseteq Nat
      BY DEF ContainerShape, List
    <3> QED
      BY <3>1, RootedValue DEF MountOf
  <2>7. \A k \in DOMAIN b.env :
          /\ OwnEnv(w, EnvVar(b, b.env[k])) <=> w = b.uid
          /\ VariableFact(d, EnvVar(b, b.env[k])) = Abstract!EnvFact(b, c.name, b.env[k])
    <3> SUFFICES ASSUME NEW k \in DOMAIN b.env
                 PROVE  /\ OwnEnv(w, EnvVar(b, b.env[k])) <=> w = b.uid
                        /\ VariableFact(d, EnvVar(b, b.env[k])) = Abstract!EnvFact(b, c.name, b.env[k])
      OBVIOUS
    <3>1. /\ OwnEnv(w, EnvVar(b, b.env[k])) <=> w = b.uid
          /\ VariableFact(d, EnvVar(b, b.env[k])) = Abstract!EnvFact(b, d.name, b.env[k])
      BY ProjectedVariableFacts
    <3> QED
      BY <2>2, <3>1
  <2>8. CASE w # b.uid
    <3>1. mounts(d) = mounts(c)
      BY <2>2, <2>5, <2>8
    <3>2. variables(d) = variables(c)
      BY <2>2, <2>3, <2>4, <2>7, <2>8 DEF VariablesOf
    <3>3. MountFactsOf(d, w) = MountFactsOf(c, w)
      BY <2>2, <3>1 DEF MountFactsOf
    <3>4. VariableFactsOf(d, w) = VariableFactsOf(c, w)
      BY <2>2, <3>2 DEF VariableFactsOf, VariableFact
    <3> QED
      BY <2>8, <3>3, <3>4 DEF d, ContainerFacts
  <2>9. CASE w = b.uid
    <3>1. mounts(c) = {}
      BY <2>9 DEF MountFactsOf
    <3>2. variables(c) = {}
      BY <2>9 DEF VariableFactsOf
    <3>3. mounts(d) = {MountOf(b, c)}
      BY <2>2, <2>5, <2>9, <3>1
    <3>4. variables(d) = VariablesOf(b)
      BY <2>2, <2>3, <2>4, <2>7, <2>9, <3>2 DEF VariablesOf
    <3>5. MountFactsOf(d, w) = {<<"mount", c.name, <<value, b.name>>>>}
      BY <2>2, <2>6, <3>3 DEF MountFactsOf
    <3>6. VariableFactsOf(d, w) = {VariableFact(d, e) : e \in VariablesOf(b)}
      BY <3>4 DEF VariableFactsOf
    <3>7. {VariableFact(d, e) : e \in VariablesOf(b)} =
            Abstract!EnvFacts(b, c.name)
      BY <2>7 DEF VariablesOf, Abstract!EnvFacts
    <3> QED
      BY <1>2, <2>9, <3>5, <3>6, <3>7 DEF d, ContainerFacts
  <2> QED
    BY <2>8, <2>9
<1> QED
  BY <1>1, <1>2

\* The user's part gives each container its root: the names differ (UserPart).
LEMMA UserPartRoots ==
  ASSUME NEW d, LastingTemplate(d)
  PROVE  /\ DOMAIN UserPart(d) = {d.containers[i].name : i \in DOMAIN d.containers}
         /\ \A i \in DOMAIN d.containers :
              UserPart(d)[d.containers[i].name] = RootValue(d.containers[i].env)
<1> DEFINE I == DOMAIN d.containers
           name(i) == d.containers[i].name
           at(c) == CHOOSE i \in I : name(i) = c
<1>1. UserPart(d) = [c \in {name(i) : i \in I} |-> RootValue(d.containers[at(c)].env)]
  BY DEF UserPart
<1>2. ASSUME NEW i \in I PROVE at(name(i)) = i
  <2>1. at(name(i)) \in I /\ name(at(name(i))) = name(i)
    OBVIOUS
  <2> HIDE DEF at
  <2> QED
    BY <2>1 DEF LastingTemplate
<1> HIDE DEF at
<1> QED
  BY <1>1, <1>2

\* Unprojecting, seen on all facts at once (unproject).
LEMMA UnprojectEmpties ==
  ASSUME Apart, WorkloadInv, FactsInv, NEW b \in BindingVersions, NEW w
  PROVE  TemplateFacts(unproject(b, template), w) =
           IF w = b.uid THEN {} ELSE TemplateFacts(template, w)
<1> DEFINE t == template
           u == unproject(b, t)
           C == DOMAIN t.containers
           mounts(x, y) == UNION {MountFactsOf(x.containers[i], y) : i \in C}
           variables(x, y) == UNION {VariableFactsOf(x.containers[i], y) : i \in C}
<1>1. TemplateShape(t) /\ AnnotationsOwned(t) /\ SecretsKnown(t) /\ VariablesResolve(t)
  BY DEF WorkloadInv, FactsInv, Accounted, Resolves
<1>2. DOMAIN u.containers = C
  BY <1>1, UnprojectedTemplate
<1>3. /\ AnnotationFactsOf(u, w) = IF w = b.uid THEN {} ELSE AnnotationFactsOf(t, w)
      /\ VolumeFactsOf(u, w) = IF w = b.uid THEN {} ELSE VolumeFactsOf(t, w)
      /\ \A i \in C :
           /\ MountFactsOf(u.containers[i], w) =
                IF w = b.uid THEN {} ELSE MountFactsOf(t.containers[i], w)
           /\ VariableFactsOf(u.containers[i], w) =
                IF w = b.uid THEN {} ELSE VariableFactsOf(t.containers[i], w)
  BY <1>1, UnprojectFacts
<1> HIDE DEF u
<1>4. mounts(u, w) = IF w = b.uid THEN {} ELSE mounts(t, w)
  BY <1>3
<1>5. variables(u, w) = IF w = b.uid THEN {} ELSE variables(t, w)
  BY <1>3
<1>6. TemplateFacts(u, w) = AnnotationFactsOf(u, w) \cup VolumeFactsOf(u, w)
                              \cup mounts(u, w) \cup variables(u, w)
  BY <1>2 DEF TemplateFacts
<1>7. TemplateFacts(t, w) = AnnotationFactsOf(t, w) \cup VolumeFactsOf(t, w)
                              \cup mounts(t, w) \cup variables(t, w)
  BY DEF TemplateFacts
<1> HIDE DEF mounts, variables
<1> QED
  BY <1>3, <1>4, <1>5, <1>6, <1>7 DEF u

\* Projecting replaces the facts of the binding by its footprint and leaves those
\* of every other (project).
LEMMA ProjectFacts ==
  ASSUME Apart, WorkloadInv, FactsInv, NEW b \in BindingVersions, NEW w
  PROVE  TemplateFacts(project(b, template), w) =
           IF w = b.uid THEN Abstract!Footprint(b) ELSE TemplateFacts(template, w)
<1> DEFINE t == template
           u == unproject(b, t)
           v == projectVolume(b, u)
           p == project(b, t)
           C == DOMAIN t.containers
           mounts(x, y) == UNION {MountFactsOf(x.containers[i], y) : i \in C}
           variables(x, y) == UNION {VariableFactsOf(x.containers[i], y) : i \in C}
<1>1. /\ TemplateShape(t) /\ AnnotationsOwned(t) /\ SecretsKnown(t) /\ VariablesResolve(t)
      /\ Accounted(t, base) /\ LastingTemplate(base) /\ C = DOMAIN base.containers
      /\ \A i \in C : t.containers[i].name = base.containers[i].name
  BY DEF WorkloadInv, FactsInv, Accounted, Resolves, SameContainers
<1>2. IsVersion(b)
  BY VersionsAreValid
<1>3. TemplateShape(u) /\ DOMAIN u.containers = C
      /\ \A i \in C : u.containers[i] = unprojectContainer(b, t, t.containers[i])
  BY <1>1, UnprojectedTemplate
<1>4. \A y : /\ AnnotationFactsOf(u, y) = IF y = b.uid THEN {} ELSE AnnotationFactsOf(t, y)
             /\ VolumeFactsOf(u, y) = IF y = b.uid THEN {} ELSE VolumeFactsOf(t, y)
             /\ \A i \in C :
                  /\ MountFactsOf(u.containers[i], y) =
                       IF y = b.uid THEN {} ELSE MountFactsOf(t.containers[i], y)
                  /\ VariableFactsOf(u.containers[i], y) =
                       IF y = b.uid THEN {} ELSE VariableFactsOf(t.containers[i], y)
  BY <1>1, UnprojectFacts
<1>5. CASE b.secret = Empty
  <2>1. p = u
    BY <1>5 DEF project
  <2>2. Abstract!Footprint(b) = {}
    BY <1>5 DEF Abstract!Footprint, Empty
  <2> QED
    BY <2>1, <2>2, UnprojectEmpties
<1>6. CASE b.secret # Empty
  <2>1. /\ DOMAIN p.containers = C
        /\ \A i \in C : p.containers[i] = projectContainer(b, v, u.containers[i])
        /\ Range(p.volumes) = Range(u.volumes) \cup {VolumeOf(b)}
        /\ p.annotations = annotate(b, u.annotations)
    BY <1>1, <1>2, <1>6, ProjectedTemplate
  <2>2. RootsKept(u, base)
    BY <1>1, UnprojectAccounted DEF Accounted
  <2>3. \A i \in C : u.containers[i].name = t.containers[i].name
    BY <1>1, <1>3, UnprojectedContainer DEF TemplateShape
  <2> HIDE DEF u, v, p
  <2> DEFINE name(i) == base.containers[i].name
             root(i) == RootValue(base.containers[i].env)
             selected(i) == isContainerBindable(b, u.containers[i])
  <2>4. AnnotationFactsOf(p, w) =
          IF w = b.uid THEN Abstract!AnnotationFacts(b) ELSE AnnotationFactsOf(t, w)
    BY <1>4, <2>1, ProjectedAnnotationFacts
  <2>5. VolumeFactsOf(p, w) = IF w = b.uid THEN {Abstract!VolumeFact(b)} ELSE VolumeFactsOf(t, w)
    BY <1>4, <2>1, ProjectedVolumeFacts
  <2>6. ASSUME NEW i \in C
        PROVE  /\ MountFactsOf(p.containers[i], w) =
                    IF w = b.uid /\ selected(i) THEN {<<"mount", name(i), <<root(i), b.name>>>>}
                    ELSE MountFactsOf(u.containers[i], w)
               /\ VariableFactsOf(p.containers[i], w) =
                    IF w = b.uid /\ selected(i)
                      THEN Abstract!EnvFacts(b, name(i))
                      ELSE VariableFactsOf(u.containers[i], w)
    <3> DEFINE c == u.containers[i]
    <3>1. ContainerShape(c) /\ c.name = name(i) /\ p.containers[i] = projectContainer(b, v, c)
      BY <1>1, <1>3, <2>1, <2>3 DEF TemplateShape
    <3>2. MountFactsOf(c, b.uid) = {} /\ VariableFactsOf(c, b.uid) = {}
      BY <1>4
    <3>3. Rooted(c.env, root(i))
      BY <1>1, <2>2 DEF RootsKept
    <3> DEFINE value == root(i)
    <3> HIDE DEF c, root, name, value
    <3>4. b \in BindingVersions /\ b.secret # Empty /\ Rooted(c.env, value)
      BY <1>6, <3>3 DEF value
    <3>5. ContainerFacts(b, c, value, projectContainer(b, v, c), w)
      BY <3>1, <3>2, <3>4, ProjectedContainerFacts
    <3> QED
      BY <3>1, <3>5 DEF c, value, ContainerFacts
  <2>7. TemplateFacts(p, w) = AnnotationFactsOf(p, w) \cup VolumeFactsOf(p, w)
                                \cup mounts(p, w) \cup variables(p, w)
    BY <2>1 DEF TemplateFacts
  <2>8. CASE w # b.uid
    <3>1. mounts(p, w) = mounts(t, w)
      BY <1>4, <2>6, <2>8
    <3>2. variables(p, w) = variables(t, w)
      BY <1>4, <2>6, <2>8
    <3>3. TemplateFacts(t, w) = AnnotationFactsOf(t, w) \cup VolumeFactsOf(t, w)
                                  \cup mounts(t, w) \cup variables(t, w)
      BY DEF TemplateFacts
    <3> HIDE DEF mounts, variables
    <3> QED
      BY <2>4, <2>5, <2>7, <2>8, <3>1, <3>2, <3>3 DEF p
  <2>9. CASE w = b.uid
    <3> DEFINE user == UserPart(base)
               bound == Abstract!Bound(b)
    <3>1. /\ DOMAIN user = {name(i) : i \in C}
          /\ \A i \in C : user[name(i)] = root(i)
      BY <1>1, UserPartRoots
    <3>2. bound = {c \in DOMAIN user : b.containers = {} \/ c \in b.containers \cup {"(nil)"}}
      BY DEF Abstract!Bound
    <3>3. \A i \in C : selected(i) <=> b.containers = {} \/ name(i) \in b.containers \cup {"(nil)"}
      BY <1>1, <2>3 DEF isContainerBindable, Unnamed
    <3> HIDE DEF user, bound, name, root, selected
    <3>4. bound = {name(i) : i \in {j \in C : selected(j)}}
      BY <3>1, <3>2, <3>3
    <3>5. mounts(p, w) = {<<"mount", c, <<user[c], b.name>>>> : c \in bound}
      <4>1. \A i \in C : MountFactsOf(p.containers[i], w) =
                           IF selected(i) THEN {<<"mount", name(i), <<user[name(i)], b.name>>>>} ELSE {}
        BY <1>4, <2>6, <2>9, <3>1
      <4> QED
        BY <3>4, <4>1
    <3>6. variables(p, w) = UNION {Abstract!EnvFacts(b, c) : c \in bound}
      <4>1. \A i \in C : VariableFactsOf(p.containers[i], w) =
                           IF selected(i)
                             THEN Abstract!EnvFacts(b, name(i)) ELSE {}
        BY <1>4, <2>6, <2>9
      <4> QED
        BY <3>4, <4>1
    <3>7. Abstract!Footprint(b) =
            Abstract!AnnotationFacts(b) \cup {Abstract!VolumeFact(b)}
              \cup {<<"mount", c, <<user[c], b.name>>>> : c \in bound}
              \cup (UNION {Abstract!EnvFacts(b, c) : c \in bound})
      BY <1>6 DEF Abstract!Footprint, Empty, user, bound
    <3> HIDE DEF mounts, variables
    <3> QED
      BY <2>4, <2>5, <2>7, <2>9, <3>5, <3>6, <3>7 DEF p
  <2> QED
    BY <2>8, <2>9
<1> QED
  BY <1>5, <1>6

\* A variable that lasts belongs to no binding.
LEMMA LastingIsNotOwned ==
  ASSUME NEW e, Lasting(e), NEW w
  PROVE  ~OwnEnv(w, e)
  BY DEF Lasting, OwnEnv, Secrets

\* A user's template exposes no facts (UserReplace).
LEMMA UserFacts ==
  ASSUME NEW t, UserTemplate(t), LastingTemplate(t), NEW w
  PROVE  TemplateFacts(t, w) = {}
<1>1. AnnotationFactsOf(t, w) = {}
  BY DEF UserTemplate, AnnotationFactsOf
<1>2. OwnVolume(w)[1] = "servicebinding"
  BY DEF OwnVolume
<1>3. VolumeFactsOf(t, w) = {}
  BY <1>2 DEF UserTemplate, VolumeFactsOf, HasVolumePrefix
<1>4. ASSUME NEW i \in DOMAIN t.containers
      PROVE  MountFactsOf(t.containers[i], w) = {} /\ VariableFactsOf(t.containers[i], w) = {}
  <2> DEFINE c == t.containers[i]
  <2>1. UserContainer(c) /\ \A e \in Range(c.env) : Lasting(e)
    BY DEF UserTemplate, LastingTemplate, Range
  <2> HIDE DEF c
  <2>2. MountFactsOf(c, w) = {}
    BY <1>2, <2>1 DEF UserContainer, MountFactsOf, HasVolumePrefix
  <2>3. VariableFactsOf(c, w) = {}
    BY <2>1, LastingIsNotOwned DEF VariableFactsOf
  <2> QED
    BY <2>2, <2>3 DEF c
<1> QED
  BY <1>1, <1>3, <1>4 DEF TemplateFacts

\* A variable the user adds is no fact of a binding (UserAppend).
LEMMA AppendedFacts ==
  ASSUME NEW t, NEW i \in DOMAIN t.containers, NEW e, Lasting(e), NEW r, HasAppended(t, i, e, r),
         NEW w
  PROVE  TemplateFacts(r, w) = TemplateFacts(t, w)
<1>1. DOMAIN r.containers = DOMAIN t.containers
  BY DEF HasAppended
<1>2. AnnotationFactsOf(r, w) = AnnotationFactsOf(t, w) /\ VolumeFactsOf(r, w) = VolumeFactsOf(t, w)
  BY DEF HasAppended, AnnotationFactsOf, VolumeFactsOf
<1>3. ASSUME NEW j \in DOMAIN t.containers
      PROVE  /\ MountFactsOf(r.containers[j], w) = MountFactsOf(t.containers[j], w)
             /\ VariableFactsOf(r.containers[j], w) = VariableFactsOf(t.containers[j], w)
  <2>1. CASE j # i
    BY <2>1 DEF HasAppended
  <2>2. CASE j = i
    <3> DEFINE c == t.containers[i]
               d == r.containers[i]
    <3>1. d.name = c.name /\ d.mounts = c.mounts /\ Range(d.env) = Range(c.env) \cup {e}
      BY DEF HasAppended
    <3>2. ~OwnEnv(w, e)
      BY LastingIsNotOwned
    <3> HIDE DEF c, d
    <3>3. {x \in Range(d.env) : OwnEnv(w, x)} = {x \in Range(c.env) : OwnEnv(w, x)}
      BY <3>1, <3>2
    <3>4. VariableFactsOf(d, w) = VariableFactsOf(c, w)
      BY <3>1, <3>3 DEF VariableFactsOf, VariableFact
    <3>5. MountFactsOf(d, w) = MountFactsOf(c, w)
      BY <3>1 DEF MountFactsOf
    <3> QED
      BY <2>2, <3>4, <3>5 DEF c, d
  <2> QED
    BY <2>1, <2>2
<1>4. {MountFactsOf(r.containers[j], w) : j \in DOMAIN r.containers} =
        {MountFactsOf(t.containers[j], w) : j \in DOMAIN t.containers}
  BY <1>1, <1>3
<1>5. {VariableFactsOf(r.containers[j], w) : j \in DOMAIN r.containers} =
        {VariableFactsOf(t.containers[j], w) : j \in DOMAIN t.containers}
  BY <1>1, <1>3
<1> QED
  BY <1>2, <1>4, <1>5 DEF TemplateFacts

\* Every step of the projector and of the user is a step of the abstract
\* specification, or changes nothing that it sees.
LEMMA NextRefines ==
  ASSUME Apart, WorkloadInv, FactsInv, [Next]_vars, WorkloadInv'
  PROVE  [Abstract!Next]_(Abstract!vars)
<1> DEFINE facts == [u \in Uids |-> FactsOf(u)]
           user == UserPart(base)
<1>1. \A u : FactsOf(u) = TemplateFacts(template, u)
  BY FactsByTemplate, FactsAreRead DEF WorkloadInv
<1>2. \A u : FactsOf(u)' = TemplateFacts(template', u)
  <2>1. SameContainers(template', base')
    BY DEF WorkloadInv
  <2> QED
    BY <2>1, FactsByTemplate, FactsAreRead
<1>3. ASSUME NEW b \in BindingVersions, Project(b) PROVE Abstract!Project(b)
  <2>1. \A u : FactsOf(u)' = IF u = b.uid THEN Abstract!Footprint(b) ELSE FactsOf(u)
    BY <1>1, <1>2, <1>3, ProjectFacts DEF Project
  <2>2. facts' = [facts EXCEPT ![b.uid] = Abstract!Footprint(b)]
    BY <2>1
  <2>3. user' = user
    BY <1>3 DEF Project, UserPart
  <2> QED
    BY <2>2, <2>3 DEF Abstract!Project
<1>4. ASSUME NEW b \in BindingVersions, Unproject(b) PROVE Abstract!Unproject(b)
  <2>1. \A u : FactsOf(u)' = IF u = b.uid THEN {} ELSE FactsOf(u)
    BY <1>1, <1>2, <1>4, UnprojectEmpties DEF Unproject
  <2>2. facts' = [facts EXCEPT ![b.uid] = {}]
    BY <2>1
  <2>3. user' = user
    BY <1>4 DEF Unproject, UserPart
  <2> QED
    BY <2>2, <2>3 DEF Abstract!Unproject
<1>5. ASSUME NEW t \in UserTemplates, UserReplace(t) PROVE Abstract!Replace(UserPart(t))
  <2>1. UserTemplate(t) /\ LastingTemplate(t)
    BY UserTemplatesAssumption DEF Apart
  <2>2. \A u : FactsOf(u)' = {}
    BY <1>2, <1>5, <2>1, UserFacts DEF UserReplace
  <2>3. facts' = Abstract!Nothing
    BY <2>2 DEF Abstract!Nothing
  <2>4. user' = UserPart(t)
    BY <1>5 DEF UserReplace, UserPart
  <2> QED
    BY <2>3, <2>4 DEF Abstract!Replace
<1>6. ASSUME NEW i \in DOMAIN base.containers, NEW e \in UserEnv, UserAppend(i, e)
      PROVE  UNCHANGED Abstract!vars
  <2>1. Lasting(e)
    BY DEF Apart
  <2>2. i \in DOMAIN template.containers /\ TemplateShape(template)
    BY DEF WorkloadInv, SameContainers
  <2>3. HasAppended(template, i, e, template')
    BY <1>6, <2>2, AppendedVariable DEF UserAppend, TemplateShape, ContainerShape
  <2>4. \A u : FactsOf(u)' = FactsOf(u)
    BY <1>1, <1>2, <2>1, <2>2, <2>3, AppendedFacts
  <2>5. facts' = facts
    BY <2>4
  <2>6. user' = user
    BY <1>6, UserAppendAccounted
  <2> QED
    BY <2>5, <2>6 DEF Abstract!vars
<1>7. CASE UNCHANGED vars
  <2>1. \A u : FactsOf(u)' = FactsOf(u)
    BY <1>1, <1>2, <1>7 DEF vars
  <2>2. facts' = facts
    BY <2>1
  <2>3. user' = user
    BY <1>7 DEF vars, UserPart
  <2> QED
    BY <2>2, <2>3 DEF Abstract!vars
<1>8. ASSUME NEW t \in UserTemplates, Abstract!Replace(UserPart(t)) PROVE Abstract!Next
  BY <1>8 DEF Abstract!Next
<1>9. ASSUME NEW b \in BindingVersions, Abstract!Project(b) \/ Abstract!Unproject(b)
      PROVE  Abstract!Next
  BY <1>9 DEF Abstract!Next
<1> QED
  BY <1>3, <1>4, <1>5, <1>6, <1>7, <1>8, <1>9 DEF Next

\* The account of the facts, in every state.
LEMMA FactsInvariant ==
  ASSUME Apart
  PROVE  Spec => []FactsInv
<1>1. Init => FactsInv
  BY UserTemplatesAssumption, UserAccounted DEF Init, Apart, FactsInv
<1>2. WorkloadInv /\ FactsInv /\ [Next]_vars => FactsInv'
  BY NextFactsInv
<1> QED
  BY <1>1, <1>2, WorkloadInvariant, PTL DEF Spec

\* As long as no two bindings share a secret, projecting and unprojecting do to a
\* workload exactly what the abstract specification says, for any number of
\* bindings, versions, containers and edits by the user in between: the lists,
\* the sorting and the secret read back from an annotation leave no trace
\* (project, unproject).
THEOREM ProjectionRefined ==
  ASSUME Apart
  PROVE  Spec => RefinesProjection
<1>1. Init => Abstract!Init
  <2> SUFFICES ASSUME Init PROVE Abstract!Init
    OBVIOUS
  <2>1. UserTemplate(base) /\ LastingTemplate(base) /\ template = base
    BY UserTemplatesAssumption DEF Init, Apart
  <2>2. \A u : FactsOf(u) = {}
    BY <2>1, FactsByTemplate, FactsAreRead, UserFacts DEF SameContainers
  <2>3. [u \in Uids |-> FactsOf(u)] = Abstract!Nothing
    BY <2>2 DEF Abstract!Nothing
  <2>4. UserPart(base) \in {UserPart(t) : t \in UserTemplates}
    BY DEF Init
  <2> QED
    BY <2>3, <2>4 DEF Abstract!Init
<1>2. WorkloadInv /\ FactsInv /\ [Next]_vars /\ WorkloadInv' => [Abstract!Next]_(Abstract!vars)
  BY NextRefines
<1> QED
  BY <1>1, <1>2, FactsInvariant, WorkloadInvariant, PTL DEF Spec, RefinesProjection, Abstract!Spec

----------------------------------------------------------------------------
(***************************************************************************)
(* The variables of a binding stay while others come and go.               *)
(***************************************************************************)
\* The containers b selects have its variables.
Supplied(b, t) ==
  \A i \in DOMAIN t.containers :
    isContainerBindable(b, t.containers[i]) => VariablesOf(b) \subseteq Range(t.containers[i].env)

SuppliedInv ==
  \A u \in Uids : last[u] # NotProjected =>
    last[u].uid = u /\ last[u].secret # Empty /\ Supplied(last[u], template)

\* Unprojecting one binding takes no variable from another (unprojectEnv).
LEMMA UnprojectSupplies ==
  ASSUME Apart, WorkloadInv, FactsInv, NEW b \in BindingVersions, NEW x \in BindingVersions,
         x.uid # b.uid, x.secret # Empty, Supplied(x, template)
  PROVE  Supplied(x, unproject(b, template))
<1> DEFINE t == template
           u == unproject(b, t)
<1>1. /\ TemplateShape(t) /\ AnnotationsOwned(t) /\ SecretsKnown(t) /\ VariablesResolve(t)
  BY DEF WorkloadInv, FactsInv, Accounted, Resolves
<1>2. DOMAIN u.containers = DOMAIN t.containers
      /\ \A i \in DOMAIN t.containers : u.containers[i] = unprojectContainer(b, t, t.containers[i])
  BY <1>1, UnprojectedTemplate
<1> HIDE DEF u
<1> SUFFICES ASSUME NEW i \in DOMAIN t.containers, isContainerBindable(x, u.containers[i]),
                    NEW e \in VariablesOf(x)
             PROVE  e \in Range(u.containers[i].env)
  BY <1>2 DEF Supplied, u
<1>3. PICK k \in DOMAIN x.env : e = EnvVar(x, x.env[k])
  BY DEF VariablesOf
<1>4. OwnEnv(x.uid, e)
  BY <1>3, ProjectedVariableFacts
<1> DEFINE c == t.containers[i]
<1>5. ContainerShape(c) /\ u.containers[i] = unprojectContainer(b, t, c)
  BY <1>1, <1>2 DEF TemplateShape
<1> HIDE DEF c
<1>6. /\ unprojectContainer(b, t, c).name = c.name
      /\ Range(unprojectContainer(b, t, c).env) = {y \in Range(c.env) : StaysVariable(b, t, y)}
  BY <1>5, UnprojectedContainer
<1>7. isContainerBindable(x, c)
  BY <1>5, <1>6 DEF isContainerBindable
<1>8. e \in Range(c.env)
  BY <1>7 DEF Supplied, c
<1>9. StaysVariable(b, t, e)
  BY <1>1, <1>4, <1>8, OwnVariablesGo DEF c
<1> QED
  BY <1>5, <1>6, <1>8, <1>9

\* Projecting a binding supplies it and takes no variable from another
\* (project).
LEMMA ProjectSupplies ==
  ASSUME Apart, WorkloadInv, FactsInv, NEW b \in BindingVersions, NEW x \in BindingVersions,
         b.secret # Empty,
         x = b \/ (x.uid # b.uid /\ x.secret # Empty /\ Supplied(x, template))
  PROVE  Supplied(x, project(b, template))
<1> DEFINE t == template
           u == unproject(b, t)
           v == projectVolume(b, u)
           p == project(b, t)
<1>1. IsVersion(b) /\ TemplateShape(t)
  BY VersionsAreValid DEF WorkloadInv
<1>2. TemplateShape(u) /\ DOMAIN u.containers = DOMAIN t.containers
  BY <1>1, UnprojectedTemplate
<1>3. DOMAIN p.containers = DOMAIN t.containers
      /\ \A i \in DOMAIN t.containers : p.containers[i] = projectContainer(b, v, u.containers[i])
  BY <1>1, ProjectedTemplate
<1>4. x = b \/ Supplied(x, u)
  BY UnprojectSupplies
<1> HIDE DEF u, v, p
<1> SUFFICES ASSUME NEW i \in DOMAIN t.containers, isContainerBindable(x, p.containers[i])
             PROVE  VariablesOf(x) \subseteq Range(p.containers[i].env)
  BY <1>3 DEF Supplied, p
<1> DEFINE c == u.containers[i]
           d == projectContainer(b, v, c)
<1>5. ContainerShape(c) /\ p.containers[i] = d
  BY <1>2, <1>3 DEF TemplateShape
<1>6. x # b /\ isContainerBindable(x, c) => VariablesOf(x) \subseteq Range(c.env)
  BY <1>2, <1>4 DEF Supplied
<1> HIDE DEF c
<1>7. CASE isContainerBindable(b, c)
  <2>1. d.name = c.name /\ Range(d.env) = Range(serviceBindingRoot(c).env) \cup VariablesOf(b)
    BY <1>1, <1>5, <1>7, ProjectedContainer
  <2>2. Range(c.env) \subseteq Range(serviceBindingRoot(c).env)
    BY <1>5, RootedContainer
  <2>3. isContainerBindable(x, c)
    BY <1>5, <2>1 DEF isContainerBindable
  <2> HIDE DEF d
  <2> QED
    BY <1>5, <1>6, <2>1, <2>2, <2>3
<1>8. CASE ~isContainerBindable(b, c)
  <2>1. d = c
    BY <1>8 DEF projectContainer
  <2> QED
    BY <1>5, <1>6, <1>8, <2>1
<1> QED
  BY <1>7, <1>8

\* Every step keeps the projected bindings supplied.
LEMMA NextSuppliedInv ==
  ASSUME Apart, WorkloadInv, FactsInv, SuppliedInv, [Next]_vars
  PROVE  SuppliedInv'
<1>0. last \in [Uids -> BindingVersions \cup {NotProjected}]
  BY DEF WorkloadInv
<1>1. ASSUME NEW b \in BindingVersions, Project(b) PROVE SuppliedInv'
  <2> SUFFICES ASSUME NEW u \in Uids, last'[u] # NotProjected
               PROVE  last'[u].uid = u /\ last'[u].secret # Empty /\ Supplied(last'[u], template')
    BY DEF SuppliedInv
  <2>1. b.uid \in Uids
    BY VersionsAreValid
  <2>2. CASE u = b.uid
    <3>1. b.secret # Empty /\ last'[u] = b
      BY <1>0, <1>1, <2>1, <2>2 DEF Project
    <3>2. Supplied(b, project(b, template))
      BY <3>1, ProjectSupplies
    <3> QED
      BY <1>1, <2>2, <3>1, <3>2 DEF Project
  <2>3. CASE u # b.uid
    <3> DEFINE x == last[u]
    <3>1. last'[u] = x
      BY <1>0, <1>1, <2>3 DEF Project
    <3>2. x \in BindingVersions /\ x.uid = u /\ x.secret # Empty /\ Supplied(x, template)
      BY <1>0, <3>1 DEF SuppliedInv
    <3> HIDE DEF x
    <3>3. CASE b.secret # Empty
      BY <1>1, <2>3, <3>1, <3>2, <3>3, ProjectSupplies DEF Project
    <3>4. CASE b.secret = Empty
      <4>1. project(b, template) = unproject(b, template)
        BY <3>4 DEF project
      <4>2. Supplied(x, unproject(b, template))
        BY <2>3, <3>2, UnprojectSupplies
      <4> QED
        BY <1>1, <3>1, <3>2, <4>1, <4>2 DEF Project
    <3> QED
      BY <3>3, <3>4
  <2> QED
    BY <2>2, <2>3
<1>2. ASSUME NEW b \in BindingVersions, Unproject(b) PROVE SuppliedInv'
  <2> SUFFICES ASSUME NEW u \in Uids, last'[u] # NotProjected
               PROVE  last'[u].uid = u /\ last'[u].secret # Empty /\ Supplied(last'[u], template')
    BY DEF SuppliedInv
  <2>1. u # b.uid /\ last'[u] = last[u]
    BY <1>0, <1>2 DEF Unproject
  <2>2. last[u] \in BindingVersions /\ last[u].uid = u /\ last[u].secret # Empty
        /\ Supplied(last[u], template)
    BY <1>0, <2>1 DEF SuppliedInv
  <2>3. Supplied(last[u], unproject(b, template))
    BY <2>1, <2>2, UnprojectSupplies
  <2> QED
    BY <1>2, <2>1, <2>2, <2>3 DEF Unproject
<1>3. ASSUME NEW t \in UserTemplates, UserReplace(t) PROVE SuppliedInv'
  BY <1>3 DEF UserReplace, SuppliedInv
<1>4. ASSUME NEW i \in DOMAIN base.containers, NEW e \in UserEnv, UserAppend(i, e)
      PROVE  SuppliedInv'
  <2>1. i \in DOMAIN template.containers /\ TemplateShape(template)
    BY DEF WorkloadInv, SameContainers
  <2>2. HasAppended(template, i, e, template') /\ last' = last
    BY <1>4, <2>1, AppendedVariable DEF UserAppend, TemplateShape, ContainerShape
  <2>3. DOMAIN template'.containers = DOMAIN template.containers
        /\ \A j \in DOMAIN template.containers :
             /\ template'.containers[j].name = template.containers[j].name
             /\ Range(template.containers[j].env) \subseteq Range(template'.containers[j].env)
    BY <2>2 DEF HasAppended
  <2>4. \A x : Supplied(x, template) => Supplied(x, template')
    BY <2>3 DEF Supplied, isContainerBindable
  <2> QED
    BY <2>2, <2>4 DEF SuppliedInv
<1>5. CASE UNCHANGED vars
  BY <1>5 DEF vars, SuppliedInv
<1> QED
  BY <1>1, <1>2, <1>3, <1>4, <1>5 DEF Next

\* As long as no two bindings share a secret, a binding keeps its variables while
\* others are projected and unprojected in any order: the run SharedSecret shows
\* that it loses them when they do (unprojectEnv).
THEOREM OthersKeepTheirVariables ==
  ASSUME Apart
  PROVE  Spec => []OtherBindingsPreserved
<1>1. Init => SuppliedInv
  BY DEF Init, SuppliedInv
<1>2. WorkloadInv /\ FactsInv /\ SuppliedInv /\ [Next]_vars => SuppliedInv'
  BY NextSuppliedInv
<1>3. WorkloadInv /\ SuppliedInv => OtherBindingsPreserved
  <2> SUFFICES ASSUME WorkloadInv, SuppliedInv, NEW u \in Uids, last[u] # NotProjected,
                      NEW i \in DOMAIN base.containers, NEW k \in DOMAIN last[u].env,
                      isContainerBindable(last[u], template.containers[i])
               PROVE  \E j \in DOMAIN template.containers[i].env :
                        template.containers[i].env[j] = EnvVar(last[u], last[u].env[k])
    BY DEF OtherBindingsPreserved
  <2>1. i \in DOMAIN template.containers
    BY DEF WorkloadInv, SameContainers
  <2>2. EnvVar(last[u], last[u].env[k]) \in VariablesOf(last[u])
    BY DEF VariablesOf
  <2>3. EnvVar(last[u], last[u].env[k]) \in Range(template.containers[i].env)
    BY <2>1, <2>2 DEF SuppliedInv, Supplied
  <2> QED
    BY <2>3 DEF Range
<1> QED
  BY <1>1, <1>2, <1>3, FactsInvariant, WorkloadInvariant, PTL DEF Spec

----------------------------------------------------------------------------
(***************************************************************************)
(* Lists in their order.  Filtering, sorting and putting one list behind   *)
(* another are arrangements, and an arrangement of an arrangement is one:  *)
(* the laws by which filters and stable sorts are exchanged and joined     *)
(* follow from one lemma about places that correspond (SameArrangement).   *)
(***************************************************************************)
\* An arrangement depends only on the items and on the order of their places:
\* two places lists that correspond, item by item and in order, give one list
\* (Arrange).
LEMMA SameArrangement ==
  ASSUME NEW s, NEW r, NEW before, NEW after, IsFiniteSet(DOMAIN before), Ordered(before),
         IsFiniteSet(DOMAIN after), Ordered(after),
         NEW f \in [DOMAIN before -> DOMAIN after],
         \A k \in DOMAIN after : \E i \in DOMAIN before : f[i] = k,
         \A i \in DOMAIN before : s[i] = r[f[i]],
         \A i, j \in DOMAIN before : j \in before[i] => f[j] \in after[f[i]]
  PROVE  Arrange(s, before) = Arrange(r, after)
<1> DEFINE P == DOMAIN before
           Q == DOMAIN after
           n == Cardinality(P)
           m == Cardinality(Q)
           rank(i) == Cardinality(before[i])
           place(k) == Cardinality(after[k])
<1>1. ASSUME NEW i \in P, NEW j \in P PROVE (f[i] = f[j] => i = j) /\ (f[j] \in after[f[i]] => j \in before[i])
  <2>1. i = j \/ i \in before[j] \/ j \in before[i]
    BY DEF Ordered
  <2>2. f[i] \notin after[f[i]] /\ f[j] \notin after[f[j]]
    BY DEF Ordered
  <2>3. f[j] \in after[f[i]] => after[f[j]] \subseteq after[f[i]]
    BY DEF Ordered
  <2> QED
    BY <2>1, <2>2, <2>3
<1>2. f \in Bijection(P, Q)
  BY <1>1 DEF Bijection, Injection, IsInjective, Surjection
<1>3. n = m
  BY <1>2, FS_Bijection DEF ExistsBijection
<1>4. ASSUME NEW i \in P PROVE rank(i) = place(f[i])
  <2> DEFINE A == before[i]
             B == after[f[i]]
             g == [j \in A |-> f[j]]
  <2>1. A \subseteq P /\ B \subseteq Q
    BY DEF Ordered
  <2>2. IsFiniteSet(A)
    BY <2>1, FS_Subset
  <2>3. g \in [A -> B]
    BY <2>1
  <2>4. \A a, b \in A : g[a] = g[b] => a = b
    BY <1>1, <2>1
  <2>5. \A k \in B : \E a \in A : g[a] = k
    BY <1>1, <2>1
  <2> HIDE DEF A, B, g
  <2>6. g \in Bijection(A, B)
    BY <2>3, <2>4, <2>5 DEF Bijection, Injection, IsInjective, Surjection
  <2>7. Cardinality(A) = Cardinality(B)
    BY <2>2, <2>6, FS_Bijection DEF ExistsBijection
  <2> QED
    BY <2>7 DEF A, B
<1>5. /\ n \in Nat
      /\ \A k \in 1..n : \E i \in P : rank(i) = k - 1
  BY RankIsOnto
<1>6. ASSUME NEW k \in Q, NEW l \in Q, place(k) = place(l) PROVE k = l
  <2>1. k = l \/ k \in after[l] \/ l \in after[k]
    BY DEF Ordered
  <2>2. /\ \A x, y \in Q : y \in after[x] => place(y) < place(x)
        /\ \A x \in Q : place(x) \in 0..(m - 1)
        /\ m \in Nat
    BY RankIsOnto
  <2>3. place(k) \in Nat /\ place(l) \in Nat
    BY <2>2
  <2> HIDE DEF place
  <2> QED
    BY <1>6, <2>1, <2>2, <2>3
<1> DEFINE at(k) == CHOOSE i \in P : rank(i) = k - 1
           there(k) == CHOOSE i \in Q : place(i) = k - 1
<1>7. Arrange(s, before) = [k \in 1..n |-> s[at(k)]] /\ Arrange(r, after) = [k \in 1..m |-> r[there(k)]]
  BY DEF Arrange
<1> HIDE DEF rank, place
<1>8. ASSUME NEW k \in 1..n PROVE s[at(k)] = r[there(k)]
  <2>1. at(k) \in P /\ rank(at(k)) = k - 1
    BY <1>5
  <2> HIDE DEF at
  <2>2. f[at(k)] \in Q /\ place(f[at(k)]) = k - 1
    BY <1>4, <2>1
  <2>3. there(k) \in Q /\ place(there(k)) = k - 1
    BY <2>2
  <2> HIDE DEF there
  <2>4. there(k) = f[at(k)]
    BY <1>6, <2>2, <2>3
  <2> QED
    BY <2>1, <2>4
<1> HIDE DEF at, there, n, m
<1> QED
  BY <1>3, <1>7, <1>8

\* The order that places have.
InPlace(P) == [i \in P |-> {j \in P : j < i}]

\* A list is the arrangement of its items in the order of their places.
LEMMA ListIsArranged ==
  ASSUME NEW s, List(s)
  PROVE  s = Arrange(s, InPlace(DOMAIN s))
<1> DEFINE n == Len(s)
           P == DOMAIN s
           before == InPlace(P)
           at(k) == CHOOSE i \in DOMAIN before : Cardinality(before[i]) = k - 1
<1>1. P = 1..n /\ n \in Nat /\ s = [k \in 1..n |-> s[k]]
  BY DEF List
<1>2. DOMAIN before = P /\ \A i \in P : before[i] = {j \in P : j < i}
  BY DEF InPlace
<1>3. Cardinality(DOMAIN before) = n
  <2>0. 1 \in Int /\ n \in Int
    BY <1>1
  <2> HIDE DEF n
  <2>1. Cardinality(1..n) = IF 1 > n THEN 0 ELSE n - 1 + 1
    BY <2>0, FS_Interval
  <2> QED
    BY <1>1, <1>2, <2>1
<1>4. ASSUME NEW i \in P PROVE Cardinality(before[i]) = i - 1
  <2>1. before[i] = 1..(i - 1)
    <3>1. before[i] = {j \in 1..n : j < i} /\ i \in 1..n
      BY <1>1, <1>2
    <3> HIDE DEF before, n
    <3>2. {j \in 1..n : j < i} = 1..(i - 1)
      BY <1>1, <3>1
    <3> QED
      BY <3>1, <3>2
  <2> DEFINE k == i - 1
  <2>0. 1 \in Int /\ k \in Int /\ k = i - 1 /\ i \in Nat /\ i >= 1
    BY <1>1
  <2> HIDE DEF k
  <2>2. Cardinality(1..k) = IF 1 > k THEN 0 ELSE k - 1 + 1
    BY <2>0, FS_Interval
  <2> QED
    BY <2>0, <2>1, <2>2
<1>5. ASSUME NEW k \in 1..n PROVE at(k) = k
  <2>1. k \in DOMAIN before /\ Cardinality(before[k]) = k - 1
    BY <1>1, <1>2, <1>4
  <2>2. at(k) \in P /\ Cardinality(before[at(k)]) = k - 1
    BY <1>2, <2>1
  <2> HIDE DEF at
  <2> QED
    BY <1>1, <1>4, <2>2
<1>6. Arrange(s, before) = [k \in 1..n |-> s[at(k)]]
  BY <1>3 DEF Arrange
<1> HIDE DEF at, before
<1> QED
  BY <1>1, <1>5, <1>6 DEF before

\* The order of some of the places of a list.
LEMMA PlacesAreOrdered ==
  ASSUME NEW s, List(s), NEW P \in SUBSET DOMAIN s
  PROVE  DOMAIN InPlace(P) = P /\ IsFiniteSet(DOMAIN InPlace(P)) /\ Ordered(InPlace(P))
  BY FilterIsOrdered DEF InPlace

\* In an arranged list the places follow the order, and only it.
LEMMA PlacesFollow ==
  ASSUME NEW s, NEW before, IsFiniteSet(DOMAIN before), Ordered(before)
  PROVE  LET r == Arrange(s, before)
         IN  /\ List(r)
             /\ DOMAIN r \subseteq Nat
             /\ \E pos \in [DOMAIN before -> DOMAIN r] :
                  /\ \A i \in DOMAIN before : r[pos[i]] = s[i]
                  /\ \A k \in DOMAIN r : \E i \in DOMAIN before : pos[i] = k
                  /\ \A i, j \in DOMAIN before : j \in before[i] <=> pos[j] < pos[i]
<1> DEFINE r == Arrange(s, before)
<1>1. List(r)
  BY ArrangedItems
<1>2. DOMAIN r \subseteq Nat
  BY <1>1 DEF List
<1>3. PICK pos \in [DOMAIN before -> DOMAIN r] :
           /\ \A i \in DOMAIN before : r[pos[i]] = s[i]
           /\ \A k \in DOMAIN r : \E i \in DOMAIN before : pos[i] = k
           /\ \A i \in DOMAIN before : pos[i] \in Nat
           /\ \A i, j \in DOMAIN before : j \in before[i] => pos[j] < pos[i]
  BY ArrangedPlaces
<1>4. ASSUME NEW i \in DOMAIN before, NEW j \in DOMAIN before, pos[j] < pos[i] PROVE j \in before[i]
  <2>1. i = j \/ i \in before[j] \/ j \in before[i]
    BY DEF Ordered
  <2> QED
    BY <1>3, <1>4, <2>1
<1> QED
  BY <1>1, <1>2, <1>3, <1>4

\* The items of a list that are in X, in the order they have (Kept).
Filtered(s, X) == Arrange(s, InPlace({i \in DOMAIN s : s[i] \in X}))

\* By rank, and where ranks are equal in the order before.
ByRank(s, before, rank) ==
  [i \in DOMAIN before |->
     {j \in DOMAIN before : \/ rank[s[j]] < rank[s[i]]
                            \/ rank[s[j]] = rank[s[i]] /\ j \in before[i]}]

\* A list sorted by rank (SliceStable).
Sorted(s, rank) == Arrange(s, ByRank(s, InPlace(DOMAIN s), rank))

\* Ordering by rank gives a strict linear order.
LEMMA RanksAreOrdered ==
  ASSUME NEW s, NEW before, IsFiniteSet(DOMAIN before), Ordered(before), NEW rank,
         \A i \in DOMAIN before : rank[s[i]] \in Nat
  PROVE  /\ DOMAIN ByRank(s, before, rank) = DOMAIN before
         /\ IsFiniteSet(DOMAIN ByRank(s, before, rank))
         /\ Ordered(ByRank(s, before, rank))
<1> DEFINE P == DOMAIN before
           after == ByRank(s, before, rank)
<1>1. DOMAIN after = P
  BY DEF ByRank
<1>2. \A i \in P : after[i] = {j \in P : \/ rank[s[j]] < rank[s[i]]
                                         \/ rank[s[j]] = rank[s[i]] /\ j \in before[i]}
  BY DEF ByRank
<1> HIDE DEF after
<1>3. \A i \in P : after[i] \subseteq P \ {i}
  BY <1>2 DEF Ordered
<1>4. ASSUME NEW i \in P, NEW j \in after[i], NEW k \in after[j] PROVE k \in after[i]
  <2>1. j \in P /\ k \in P
    BY <1>3
  <2>2. k \in before[j] /\ j \in before[i] => k \in before[i]
    BY <2>1 DEF Ordered
  <2> QED
    BY <1>2, <2>1, <2>2
<1>5. \A i, j \in P : i = j \/ i \in after[j] \/ j \in after[i]
  BY <1>2 DEF Ordered
<1> QED
  BY <1>1, <1>3, <1>4, <1>5 DEF Ordered, after

\* Filtering an arranged list arranges the items that are kept.
LEMMA FilteredArrangement ==
  ASSUME NEW s, NEW before, IsFiniteSet(DOMAIN before), Ordered(before), NEW X
  PROVE  LET P == {i \in DOMAIN before : s[i] \in X}
         IN  Filtered(Arrange(s, before), X) = Arrange(s, [i \in P |-> before[i] \cap P])
<1> DEFINE r == Arrange(s, before)
           P == {i \in DOMAIN before : s[i] \in X}
           Q == {k \in DOMAIN r : r[k] \in X}
           within == [i \in P |-> before[i] \cap P]
<1>1. List(r) /\ DOMAIN r \subseteq Nat
  BY PlacesFollow
<1>2. PICK pos \in [DOMAIN before -> DOMAIN r] :
                  /\ \A i \in DOMAIN before : r[pos[i]] = s[i]
                  /\ \A k \in DOMAIN r : \E i \in DOMAIN before : pos[i] = k
                  /\ \A i, j \in DOMAIN before : j \in before[i] <=> pos[j] < pos[i]
  BY PlacesFollow
<1> HIDE DEF r
<1> DEFINE f == [i \in P |-> pos[i]]
<1>3. DOMAIN InPlace(Q) = Q /\ IsFiniteSet(DOMAIN InPlace(Q)) /\ Ordered(InPlace(Q))
  <2>1. Q \in SUBSET DOMAIN r
    OBVIOUS
  <2> HIDE DEF Q
  <2> QED
    BY <1>1, <2>1, PlacesAreOrdered
<1>4. DOMAIN within = P /\ IsFiniteSet(P) /\ Ordered(within)
  <2>1. IsFiniteSet(P)
    BY FS_Subset
  <2>2. Ordered(within)
    BY DEF Ordered
  <2> QED
    BY <2>1, <2>2
<1>5. f \in [P -> Q]
  BY <1>2
<1>6. \A k \in Q : \E i \in P : f[i] = k
  BY <1>2
<1>7. \A i \in P : s[i] = r[f[i]]
  BY <1>2
<1>8. \A i, j \in P : j \in within[i] => f[j] \in InPlace(Q)[f[i]]
  BY <1>2, <1>5 DEF InPlace
<1> HIDE DEF within, P, Q, f
<1>9. Arrange(s, within) = Arrange(r, InPlace(Q))
  BY <1>3, <1>4, <1>5, <1>6, <1>7, <1>8, SameArrangement
<1> QED
  BY <1>9 DEF Filtered, within, P, Q, r

\* Sorting an arranged list arranges by rank, and where ranks are equal as it was.
LEMMA SortedArrangement ==
  ASSUME NEW s, NEW before, IsFiniteSet(DOMAIN before), Ordered(before), NEW rank,
         \A i \in DOMAIN before : rank[s[i]] \in Nat
  PROVE  Sorted(Arrange(s, before), rank) = Arrange(s, ByRank(s, before, rank))
<1> DEFINE r == Arrange(s, before)
           P == DOMAIN before
           Q == DOMAIN r
           after == ByRank(s, before, rank)
           sorted == ByRank(r, InPlace(Q), rank)
<1>1. List(r) /\ Q \subseteq Nat
  BY PlacesFollow
<1>2. PICK pos \in [P -> Q] :
                  /\ \A i \in P : r[pos[i]] = s[i]
                  /\ \A k \in Q : \E i \in P : pos[i] = k
                  /\ \A i, j \in P : j \in before[i] <=> pos[j] < pos[i]
  BY PlacesFollow
<1> HIDE DEF r
<1>3. DOMAIN InPlace(Q) = Q /\ IsFiniteSet(DOMAIN InPlace(Q)) /\ Ordered(InPlace(Q))
  BY <1>1, PlacesAreOrdered
<1>4. \A k \in Q : rank[r[k]] \in Nat
  BY <1>2
<1>5. DOMAIN sorted = Q /\ IsFiniteSet(DOMAIN sorted) /\ Ordered(sorted)
  BY <1>3, <1>4, RanksAreOrdered
<1>6. DOMAIN after = P /\ IsFiniteSet(DOMAIN after) /\ Ordered(after)
  BY RanksAreOrdered
<1>7. \A i, j \in P : j \in after[i] => pos[j] \in sorted[pos[i]]
  <2>1. \A i \in P : after[i] = {j \in P : \/ rank[s[j]] < rank[s[i]]
                                           \/ rank[s[j]] = rank[s[i]] /\ j \in before[i]}
    BY DEF ByRank
  <2>2. \A k \in Q : sorted[k] = {l \in Q : \/ rank[r[l]] < rank[r[k]]
                                            \/ rank[r[l]] = rank[r[k]] /\ l \in InPlace(Q)[k]}
    BY <1>3 DEF ByRank
  <2>3. \A k \in Q : InPlace(Q)[k] = {l \in Q : l < k}
    BY DEF InPlace
  <2> HIDE DEF after, sorted
  <2> QED
    BY <1>2, <2>1, <2>2, <2>3
<1> HIDE DEF after, sorted
<1>8. Arrange(s, after) = Arrange(r, sorted)
  BY <1>2, <1>5, <1>6, <1>7, SameArrangement
<1> QED
  BY <1>8 DEF Sorted, after, sorted, r

\* The list x is s with a behind it.
Concatenates(s, a, x) ==
  /\ List(x) /\ Len(s) \in Nat /\ Len(a) \in Nat
  /\ DOMAIN s = 1..Len(s) /\ DOMAIN a = 1..Len(a)
  /\ DOMAIN x = 1..(Len(s) + Len(a)) /\ Len(x) = Len(s) + Len(a)
  /\ \A i \in DOMAIN s : x[i] = s[i]
  /\ \A i \in DOMAIN a : x[Len(s) + i] = a[i]

\* The places of two lists one behind the other.
LEMMA ConcatenatedPlaces ==
  ASSUME NEW s, List(s), NEW a, List(a)
  PROVE  Concatenates(s, a, s \o a)
<1> DEFINE T == Range(s) \cup Range(a)
<1>1. s \in Seq(T) /\ a \in Seq(T)
  BY DEF List
<1>2. List(s \o a)
  BY AppendedItems
<1> HIDE DEF T
<1> QED
  BY <1>1, <1>2 DEF Concatenates

\* The order in which places of one list come ahead of all those of another that
\* is put behind its n places.
Joined(n, before, after) ==
  [i \in DOMAIN before \cup {n + k : k \in DOMAIN after} |->
     IF i \in DOMAIN before THEN before[i] ELSE DOMAIN before \cup {n + k : k \in after[i - n]}]

\* Two arranged lists one behind the other are an arranged list (append).
LEMMA JoinedArrangement ==
  ASSUME NEW s, List(s), NEW before, IsFiniteSet(DOMAIN before), Ordered(before),
         DOMAIN before \subseteq DOMAIN s,
         NEW a, List(a), NEW after, IsFiniteSet(DOMAIN after), Ordered(after),
         DOMAIN after \subseteq DOMAIN a
  PROVE  LET joined == Joined(Len(s), before, after)
         IN  /\ IsFiniteSet(DOMAIN joined) /\ Ordered(joined)
             /\ DOMAIN joined \subseteq DOMAIN (s \o a)
             /\ Arrange(s, before) \o Arrange(a, after) = Arrange(s \o a, joined)
<1> DEFINE n == Len(s)
           P == DOMAIN before
           Q == DOMAIN after
           D == P \cup {n + k : k \in Q}
           joined == Joined(n, before, after)
           r == Arrange(s, before)
           q == Arrange(a, after)
           l == Len(r)
           x == r \o q
           y == s \o a
<1>0. Concatenates(s, a, y)
  BY ConcatenatedPlaces
<1> HIDE DEF y
<1>1. /\ n \in Nat /\ DOMAIN s = 1..n /\ Len(a) \in Nat /\ DOMAIN a = 1..Len(a)
      /\ DOMAIN y = 1..(n + Len(a))
      /\ \A i \in DOMAIN s : y[i] = s[i]
      /\ \A i \in DOMAIN a : y[n + i] = a[i]
  BY <1>0 DEF Concatenates
<1>2. List(r) /\ List(q)
  BY PlacesFollow
<1>3. PICK pos \in [P -> DOMAIN r] :
        /\ \A i \in P : r[pos[i]] = s[i]
        /\ \A k \in DOMAIN r : \E i \in P : pos[i] = k
        /\ \A i, j \in P : j \in before[i] <=> pos[j] < pos[i]
  BY PlacesFollow
<1>4. PICK sop \in [Q -> DOMAIN q] :
        /\ \A i \in Q : q[sop[i]] = a[i]
        /\ \A k \in DOMAIN q : \E i \in Q : sop[i] = k
        /\ \A i, j \in Q : j \in after[i] <=> sop[j] < sop[i]
  BY PlacesFollow
<1> HIDE DEF r, q
<1>18. Concatenates(r, q, x)
  BY <1>2, ConcatenatedPlaces
<1> HIDE DEF x
<1>5. /\ l \in Nat /\ DOMAIN r = 1..l /\ Len(q) \in Nat /\ DOMAIN q = 1..Len(q)
      /\ DOMAIN x = 1..(l + Len(q)) /\ List(x)
      /\ \A i \in DOMAIN r : x[i] = r[i]
      /\ \A i \in DOMAIN q : x[l + i] = q[i]
  BY <1>18 DEF Concatenates
<1> HIDE DEF n, l
<1>6. \A k \in Q : n + k \notin P /\ n + k \in D /\ (n + k) - n = k /\ k \in Nat
  BY <1>1
<1>7. DOMAIN joined = D /\ (\A i \in P : joined[i] = before[i])
      /\ \A k \in Q : joined[n + k] = P \cup {n + h : h \in after[k]}
  BY <1>6 DEF Joined
<1>8. D \subseteq DOMAIN y /\ IsFiniteSet(D)
  <2>1. D \subseteq DOMAIN y
    BY <1>1
  <2> DEFINE m == n + Len(a)
  <2>2. 1 \in Int /\ m \in Int
    BY <1>1
  <2>3. DOMAIN y = 1..m
    BY <1>1
  <2> HIDE DEF m, D
  <2>4. IsFiniteSet(1..m)
    BY <2>2, FS_Interval
  <2> QED
    BY <2>1, <2>3, <2>4, FS_Subset
<1> HIDE DEF joined
<1>9. Ordered(joined)
  <2>1. ASSUME NEW i \in D PROVE joined[i] \subseteq D \ {i}
    <3>1. CASE i \in P
      BY <1>7, <3>1 DEF Ordered
    <3>2. ASSUME NEW k \in Q, i = n + k PROVE joined[i] \subseteq D \ {i}
      <4>1. after[k] \subseteq Q \ {k}
        BY DEF Ordered
      <4>2. \A h \in after[k] : n + h \in D /\ n + h # n + k
        BY <1>6, <4>1
      <4> QED
        BY <1>6, <1>7, <3>2, <4>2
    <3> QED
      BY <3>1, <3>2
  <2>2. ASSUME NEW i \in D, NEW j \in joined[i] PROVE joined[j] \subseteq joined[i]
    <3>1. CASE i \in P
      BY <1>7, <3>1 DEF Ordered
    <3>2. ASSUME NEW k \in Q, i = n + k PROVE joined[j] \subseteq joined[i]
      <4>1. CASE j \in P
        BY <1>7, <3>2, <4>1 DEF Ordered
      <4>2. ASSUME NEW h \in after[k], j = n + h PROVE joined[j] \subseteq joined[i]
        BY <1>7, <3>2, <4>2 DEF Ordered
      <4> QED
        BY <1>7, <3>2, <4>1, <4>2
    <3> QED
      BY <3>1, <3>2
  <2>3. ASSUME NEW i \in D, NEW j \in D PROVE i = j \/ i \in joined[j] \/ j \in joined[i]
    BY <1>7 DEF Ordered
  <2> QED
    BY <1>7, <2>1, <2>2, <2>3 DEF Ordered
<1> DEFINE f == [i \in D |-> IF i \in P THEN pos[i] ELSE l + sop[i - n]]
<1>10. (\A i \in P : f[i] = pos[i]) /\ \A k \in Q : f[n + k] = l + sop[k]
  BY <1>6
<1> HIDE DEF f
<1>11. f \in [D -> DOMAIN x]
  <2>1. \A i \in D : f[i] \in DOMAIN x
    <3>1. \A i \in P : f[i] \in DOMAIN x
      BY <1>3, <1>5, <1>10
    <3>2. \A k \in Q : f[n + k] \in DOMAIN x
      BY <1>4, <1>5, <1>10
    <3> QED
      BY <3>1, <3>2
  <2> QED
    BY <2>1 DEF f
<1>12. ASSUME NEW k \in DOMAIN x PROVE \E i \in D : f[i] = k
  <2>1. CASE k \in DOMAIN r
    BY <1>3, <1>10, <2>1
  <2>2. CASE k \notin DOMAIN r
    <3>1. k - l \in DOMAIN q /\ l + (k - l) = k
      BY <1>5, <2>2
    <3>2. PICK h \in Q : sop[h] = k - l
      BY <1>4, <3>1
    <3> QED
      BY <1>6, <1>10, <3>1, <3>2
  <2> QED
    BY <2>1, <2>2
<1>13. \A i \in D : y[i] = x[f[i]]
  <2>1. \A i \in P : y[i] = x[f[i]]
    BY <1>1, <1>3, <1>5, <1>10
  <2>2. \A k \in Q : y[n + k] = x[f[n + k]]
    BY <1>1, <1>4, <1>5, <1>10
  <2> QED
    BY <2>1, <2>2
<1>14. DOMAIN InPlace(DOMAIN x) = DOMAIN x /\ IsFiniteSet(DOMAIN InPlace(DOMAIN x)) /\ Ordered(InPlace(DOMAIN x))
  BY <1>5, PlacesAreOrdered
<1>15. ASSUME NEW i \in D, NEW j \in D, j \in joined[i] PROVE f[j] \in InPlace(DOMAIN x)[f[i]]
  <2>1. f[i] \in DOMAIN x /\ f[j] \in DOMAIN x
    BY <1>11
  <2>2. f[j] < f[i]
    <3>1. CASE i \in P
      <4>1. j \in before[i] /\ j \in P
        BY <1>7, <1>15, <3>1 DEF Ordered
      <4> QED
        BY <1>3, <1>10, <3>1, <4>1
    <3>2. ASSUME NEW k \in Q, i = n + k PROVE f[j] < f[i]
      <4>1. CASE j \in P
        <5>1. f[j] \in 1..l /\ f[i] = l + sop[k] /\ sop[k] \in 1..Len(q)
          BY <1>3, <1>4, <1>5, <1>10, <3>2, <4>1
        <5> QED
          BY <1>5, <5>1
      <4>2. ASSUME NEW h \in after[k], j = n + h PROVE f[j] < f[i]
        <5>1. h \in Q
          BY DEF Ordered
        <5>2. sop[h] < sop[k] /\ sop[h] \in 1..Len(q) /\ sop[k] \in 1..Len(q)
          BY <1>4, <1>5, <5>1
        <5>3. f[j] = l + sop[h] /\ f[i] = l + sop[k]
          BY <1>10, <3>2, <4>2, <5>1
        <5> QED
          BY <1>5, <5>2, <5>3
      <4> QED
        BY <1>7, <1>15, <3>2, <4>1, <4>2
    <3> QED
      BY <3>1, <3>2
  <2> QED
    BY <2>1, <2>2 DEF InPlace
<1>16. Arrange(y, joined) = Arrange(x, InPlace(DOMAIN x))
  <2> HIDE DEF D
  <2> QED
    BY <1>7, <1>8, <1>9, <1>11, <1>12, <1>13, <1>14, <1>15, SameArrangement
<1>17. x = Arrange(x, InPlace(DOMAIN x))
  BY <1>5, ListIsArranged
<1> QED
  BY <1>7, <1>8, <1>9, <1>16, <1>17 DEF joined, n, x, y, r, q

\* Filtering gives a list of the items that are kept.
LEMMA FilteredList ==
  ASSUME NEW s, List(s), NEW X
  PROVE  List(Filtered(s, X)) /\ Range(Filtered(s, X)) = Range(s) \cap X
<1> DEFINE P == {i \in DOMAIN s : s[i] \in X}
<1>1. P \in SUBSET DOMAIN s
  OBVIOUS
<1>2. {s[i] : i \in P} = Range(s) \cap X
  BY DEF Range
<1> HIDE DEF P
<1>3. DOMAIN InPlace(P) = P /\ IsFiniteSet(DOMAIN InPlace(P)) /\ Ordered(InPlace(P))
  BY <1>1, PlacesAreOrdered
<1>4. List(Arrange(s, InPlace(P))) /\ Range(Arrange(s, InPlace(P))) = {s[i] : i \in P}
  BY <1>3, ArrangedItems
<1> QED
  BY <1>2, <1>4 DEF Filtered, P

\* Sorting gives a list of the items there were.
LEMMA SortedList ==
  ASSUME NEW s, List(s), NEW rank, \A x \in Range(s) : rank[x] \in Nat
  PROVE  List(Sorted(s, rank)) /\ Range(Sorted(s, rank)) = Range(s)
<1> DEFINE before == ByRank(s, InPlace(DOMAIN s), rank)
<1>1. DOMAIN InPlace(DOMAIN s) = DOMAIN s /\ IsFiniteSet(DOMAIN InPlace(DOMAIN s)) /\ Ordered(InPlace(DOMAIN s))
  BY PlacesAreOrdered
<1>2. \A i \in DOMAIN s : rank[s[i]] \in Nat
  BY DEF Range
<1>3. DOMAIN before = DOMAIN s /\ IsFiniteSet(DOMAIN before) /\ Ordered(before)
  BY <1>1, <1>2, RanksAreOrdered
<1> HIDE DEF before
<1>4. List(Arrange(s, before)) /\ Range(Arrange(s, before)) = Range(s)
  BY <1>3, SortedItems
<1> QED
  BY <1>4 DEF Sorted, before

\* A filter that drops nothing.
LEMMA FilteredWhole ==
  ASSUME NEW s, List(s), NEW X, Range(s) \subseteq X
  PROVE  Filtered(s, X) = s
<1>1. {i \in DOMAIN s : s[i] \in X} = DOMAIN s
  BY DEF Range
<1> QED
  BY <1>1, ListIsArranged DEF Filtered

\* A filter that drops everything.
LEMMA FilteredNone ==
  ASSUME NEW s, List(s), NEW X, Range(s) \cap X = {}
  PROVE  Filtered(s, X) = <<>>
<1> DEFINE P == {i \in DOMAIN s : s[i] \in X}
           before == InPlace(P)
           at(k) == CHOOSE i \in DOMAIN before : Cardinality(before[i]) = k - 1
<1>1. P = {}
  BY DEF Range
<1>2. DOMAIN before = {}
  BY <1>1 DEF InPlace
<1>3. Cardinality(DOMAIN before) = 0
  BY <1>2, FS_EmptySet
<1>4. Filtered(s, X) = [k \in 1..0 |-> s[at(k)]]
  BY <1>3 DEF Filtered, Arrange
<1> HIDE DEF at
<1> QED
  BY <1>4

\* Two filters, one after the other.
LEMMA FilteredTwice ==
  ASSUME NEW s, List(s), NEW X, NEW Y
  PROVE  Filtered(Filtered(s, X), Y) = Filtered(s, X \cap Y)
<1> DEFINE P == {i \in DOMAIN s : s[i] \in X}
           Q == {i \in DOMAIN InPlace(P) : s[i] \in Y}
           R == {i \in DOMAIN s : s[i] \in X \cap Y}
           within == [i \in Q |-> InPlace(P)[i] \cap Q]
<1>1. P \in SUBSET DOMAIN s
  OBVIOUS
<1>2. DOMAIN InPlace(P) = P /\ IsFiniteSet(DOMAIN InPlace(P)) /\ Ordered(InPlace(P))
  <2> HIDE DEF P
  <2> QED
    BY <1>1, PlacesAreOrdered
<1>3. Filtered(Arrange(s, InPlace(P)), Y) = Arrange(s, within)
  <2> DEFINE before == InPlace(P)
  <2> HIDE DEF before, P
  <2>1. Filtered(Arrange(s, before), Y)
          = Arrange(s, [i \in {h \in DOMAIN before : s[h] \in Y} |->
                          before[i] \cap {h \in DOMAIN before : s[h] \in Y}])
    BY <1>2, FilteredArrangement DEF before
  <2> QED
    BY <2>1 DEF before
<1>4. Q = R
  BY <1>2
<1>5. within = InPlace(R)
  <2>1. \A i \in R : InPlace(P)[i] \cap R = {j \in R : j < i}
    BY <1>2, <1>4 DEF InPlace
  <2> HIDE DEF P, Q, R
  <2> QED
    BY <1>4, <2>1 DEF InPlace
<1> QED
  BY <1>3, <1>5 DEF Filtered

\* Filtering a list that is put together.
LEMMA FilteredConcatenation ==
  ASSUME NEW s, List(s), NEW a, List(a), NEW X
  PROVE  Filtered(s \o a, X) = Filtered(s, X) \o Filtered(a, X)
<1> DEFINE n == Len(s)
           P == {i \in DOMAIN s : s[i] \in X}
           Q == {i \in DOMAIN a : a[i] \in X}
           y == s \o a
           R == {i \in DOMAIN y : y[i] \in X}
           before == InPlace(P)
           after == InPlace(Q)
           joined == Joined(n, before, after)
<1>1. Concatenates(s, a, y)
  BY ConcatenatedPlaces
<1>2. DOMAIN before = P /\ IsFiniteSet(DOMAIN before) /\ Ordered(before) /\ P \subseteq DOMAIN s
  <2>1. P \in SUBSET DOMAIN s
    OBVIOUS
  <2> HIDE DEF P
  <2> QED
    BY <2>1, PlacesAreOrdered
<1>3. DOMAIN after = Q /\ IsFiniteSet(DOMAIN after) /\ Ordered(after) /\ Q \subseteq DOMAIN a
  <2>1. Q \in SUBSET DOMAIN a
    OBVIOUS
  <2> HIDE DEF Q
  <2> QED
    BY <2>1, PlacesAreOrdered
<1>4. Arrange(s, before) \o Arrange(a, after) = Arrange(y, joined)
  <2> HIDE DEF before, after, P, Q
  <2> QED
    BY <1>2, <1>3, JoinedArrangement
<1> HIDE DEF y, n
<1>5. /\ n \in Nat /\ Len(a) \in Nat /\ DOMAIN s = 1..n /\ DOMAIN a = 1..Len(a)
      /\ DOMAIN y = 1..(n + Len(a))
      /\ \A i \in DOMAIN s : y[i] = s[i]
      /\ \A i \in DOMAIN a : y[n + i] = a[i]
  BY <1>1 DEF Concatenates, n
<1>6. \A k \in Q : n + k \notin P /\ n + k \in R /\ (n + k) - n = k /\ k \in Nat
  BY <1>5
<1>7. R = P \cup {n + k : k \in Q}
  <2>1. ASSUME NEW i \in R PROVE i \in P \cup {n + k : k \in Q}
    <3>1. CASE i \in DOMAIN s
      BY <1>5, <3>1
    <3>2. CASE i \notin DOMAIN s
      <4>1. i - n \in DOMAIN a /\ i = n + (i - n)
        BY <1>5, <3>2
      <4> QED
        BY <1>5, <4>1
    <3> QED
      BY <3>1, <3>2
  <2>2. P \subseteq R
    BY <1>5
  <2> QED
    BY <1>6, <2>1, <2>2
<1>8. joined = InPlace(R)
  <2>1. DOMAIN joined = R
    BY <1>2, <1>3, <1>7 DEF Joined
  <2>2. ASSUME NEW i \in P PROVE joined[i] = {j \in R : j < i}
    <3>1. joined[i] = {j \in P : j < i}
      BY <1>2 DEF Joined, InPlace
    <3>2. \A k \in Q : ~(n + k < i)
      BY <1>5
    <3> QED
      BY <1>7, <3>1, <3>2
  <2>3. ASSUME NEW k \in Q PROVE joined[n + k] = {j \in R : j < n + k}
    <3>1. joined[n + k] = P \cup {n + h : h \in {j \in Q : j < k}}
      BY <1>2, <1>3, <1>6, <1>7 DEF Joined, InPlace
    <3>2. \A j \in P : j < n + k
      BY <1>5
    <3>3. \A h \in Q : n + h < n + k <=> h < k
      BY <1>6, <1>5
    <3> QED
      BY <1>7, <3>1, <3>2, <3>3
  <2>4. \A i \in R : joined[i] = {j \in R : j < i}
    BY <1>7, <2>2, <2>3
  <2>5. joined = [i \in R |-> joined[i]]
    BY <2>1 DEF Joined
  <2> HIDE DEF joined
  <2> QED
    BY <2>4, <2>5 DEF InPlace
<1> QED
  BY <1>4, <1>8 DEF Filtered, y

\* Filtering a sorted list sorts what is kept.
LEMMA FilteredSorted ==
  ASSUME NEW s, List(s), NEW rank, \A x \in Range(s) : rank[x] \in Nat, NEW X
  PROVE  Filtered(Sorted(s, rank), X) = Sorted(Filtered(s, X), rank)
<1> DEFINE D == DOMAIN s
           before == ByRank(s, InPlace(D), rank)
           P == {i \in D : s[i] \in X}
           Q == {i \in DOMAIN before : s[i] \in X}
           within == [i \in Q |-> before[i] \cap Q]
           after == ByRank(s, InPlace(P), rank)
<1>0. \A i \in D : rank[s[i]] \in Nat
  BY DEF Range
<1>1. DOMAIN InPlace(D) = D /\ IsFiniteSet(DOMAIN InPlace(D)) /\ Ordered(InPlace(D))
  BY PlacesAreOrdered
<1>2. DOMAIN InPlace(P) = P /\ IsFiniteSet(DOMAIN InPlace(P)) /\ Ordered(InPlace(P))
  <2>1. P \in SUBSET D
    OBVIOUS
  <2> HIDE DEF P
  <2> QED
    BY <2>1, PlacesAreOrdered
<1>3. DOMAIN before = D /\ IsFiniteSet(DOMAIN before) /\ Ordered(before)
  BY <1>0, <1>1, RanksAreOrdered
<1>4. Filtered(Arrange(s, before), X) = Arrange(s, within)
  <2> HIDE DEF before
  <2> QED
    BY <1>3, FilteredArrangement
<1>5. Sorted(Arrange(s, InPlace(P)), rank) = Arrange(s, after)
  <2>1. \A i \in P : rank[s[i]] \in Nat
    BY <1>0
  <2> HIDE DEF P
  <2> QED
    BY <1>2, <2>1, SortedArrangement
<1>6. within = after
  <2>1. Q = P
    BY <1>3
  <2>2. \A i \in P : before[i] = {j \in D : \/ rank[s[j]] < rank[s[i]]
                                            \/ rank[s[j]] = rank[s[i]] /\ j \in InPlace(D)[i]}
    BY <1>1 DEF ByRank
  <2>3. \A i \in P : InPlace(D)[i] \cap P = InPlace(P)[i]
    BY DEF InPlace
  <2>4. \A i \in P : before[i] \cap P = {j \in P : \/ rank[s[j]] < rank[s[i]]
                                                   \/ rank[s[j]] = rank[s[i]] /\ j \in InPlace(P)[i]}
    BY <2>2, <2>3
  <2>5. after = [i \in P |-> {j \in P : \/ rank[s[j]] < rank[s[i]]
                                        \/ rank[s[j]] = rank[s[i]] /\ j \in InPlace(P)[i]}]
    BY <1>2 DEF ByRank
  <2> HIDE DEF before, P, Q, after
  <2> QED
    BY <2>1, <2>4, <2>5
<1> QED
  BY <1>4, <1>5, <1>6 DEF Filtered, Sorted

\* Sorting looks only at the ranks of the items that are there.
LEMMA SortedAlike ==
  ASSUME NEW s, List(s), NEW rank, NEW other, \A x \in Range(s) : rank[x] = other[x]
  PROVE  Sorted(s, rank) = Sorted(s, other)
<1> DEFINE before == InPlace(DOMAIN s)
<1>1. DOMAIN before = DOMAIN s
  BY DEF InPlace
<1>2. \A i \in DOMAIN s : rank[s[i]] = other[s[i]]
  BY DEF Range
<1> HIDE DEF before
<1>3. ByRank(s, before, rank) = ByRank(s, before, other)
  BY <1>1, <1>2 DEF ByRank
<1> QED
  BY <1>3 DEF Sorted, before

\* Items of one rank stay as they are.
LEMMA SortedLevel ==
  ASSUME NEW s, List(s), NEW rank, NEW n \in Nat, \A x \in Range(s) : rank[x] = n
  PROVE  Sorted(s, rank) = s
<1> DEFINE before == InPlace(DOMAIN s)
<1>1. DOMAIN before = DOMAIN s /\ before = [i \in DOMAIN s |-> before[i]]
      /\ \A i \in DOMAIN s : before[i] \subseteq DOMAIN s
  BY DEF InPlace
<1>2. \A i \in DOMAIN s : rank[s[i]] = n
  BY DEF Range
<1> HIDE DEF before
<1>3. ByRank(s, before, rank) = before
  <2>1. \A i \in DOMAIN s : {j \in DOMAIN s : \/ rank[s[j]] < rank[s[i]]
                                              \/ rank[s[j]] = rank[s[i]] /\ j \in before[i]} = before[i]
    BY <1>1, <1>2
  <2> QED
    BY <1>1, <2>1 DEF ByRank
<1> QED
  BY <1>3, ListIsArranged DEF Sorted, before

\* Sorting once more, with something added behind, is sorting once.
LEMMA SortedAgain ==
  ASSUME NEW s, List(s), NEW a, List(a), NEW rank, NEW other,
         \A x \in Range(s) : other[x] = rank[x],
         \A x \in Range(s) \cup Range(a) : rank[x] \in Nat
  PROVE  Sorted(Sorted(s, other) \o a, rank) = Sorted(s \o a, rank)
<1> DEFINE n == Len(s)
           D == DOMAIN s
           A == DOMAIN a
           before == ByRank(s, InPlace(D), other)
           y == s \o a
           J == Joined(n, before, InPlace(A))
           E == DOMAIN y
<1>1. Concatenates(s, a, y)
  BY ConcatenatedPlaces
<1>2. DOMAIN InPlace(D) = D /\ IsFiniteSet(DOMAIN InPlace(D)) /\ Ordered(InPlace(D))
  BY PlacesAreOrdered
<1>3. DOMAIN InPlace(A) = A /\ IsFiniteSet(DOMAIN InPlace(A)) /\ Ordered(InPlace(A))
  BY PlacesAreOrdered
<1>4. \A i \in D : other[s[i]] = rank[s[i]] /\ other[s[i]] \in Nat
  BY DEF Range
<1>5. DOMAIN before = D /\ IsFiniteSet(DOMAIN before) /\ Ordered(before)
  BY <1>2, <1>4, RanksAreOrdered
<1>6. /\ IsFiniteSet(DOMAIN J) /\ Ordered(J)
      /\ Arrange(s, before) \o Arrange(a, InPlace(A)) = Arrange(y, J)
  <2> DEFINE after == InPlace(A)
  <2> HIDE DEF before, after
  <2>1. DOMAIN after = A /\ IsFiniteSet(DOMAIN after) /\ Ordered(after)
    BY <1>3 DEF after
  <2>2. /\ IsFiniteSet(DOMAIN Joined(n, before, after)) /\ Ordered(Joined(n, before, after))
        /\ Arrange(s, before) \o Arrange(a, after) = Arrange(y, Joined(n, before, after))
    BY <1>5, <2>1, JoinedArrangement
  <2> QED
    BY <2>2 DEF after
<1>7. Sorted(s, other) \o a = Arrange(y, J)
  BY <1>6, ListIsArranged DEF Sorted
<1> HIDE DEF y, n
<1>8. /\ n \in Nat /\ Len(a) \in Nat /\ D = 1..n /\ A = 1..Len(a)
      /\ E = 1..(n + Len(a)) /\ List(y)
      /\ \A i \in D : y[i] = s[i]
      /\ \A i \in A : y[n + i] = a[i]
  BY <1>1 DEF Concatenates, n
<1>9. \A k \in A : n + k \notin D /\ n + k \in E /\ (n + k) - n = k /\ k \in Nat
  BY <1>8
<1>10. E = D \cup {n + k : k \in A}
  <2>1. ASSUME NEW i \in E, i \notin D PROVE i \in {n + k : k \in A}
    <3>1. i - n \in A /\ i = n + (i - n)
      BY <1>8, <2>1
    <3> QED
      BY <3>1
  <2>2. D \subseteq E
    BY <1>8
  <2> QED
    BY <1>9, <2>1, <2>2
<1>11. DOMAIN J = E
  BY <1>3, <1>5, <1>10 DEF Joined
<1>12. ASSUME NEW i \in D, NEW j \in E
       PROVE  j \in J[i] <=> j \in D /\ (\/ rank[y[j]] < rank[y[i]]
                                         \/ rank[y[j]] = rank[y[i]] /\ j < i)
  <2>1. J[i] = before[i]
    BY <1>5 DEF Joined
  <2>2. before[i] = {h \in D : \/ other[s[h]] < other[s[i]]
                               \/ other[s[h]] = other[s[i]] /\ h \in InPlace(D)[i]}
    BY <1>2 DEF ByRank
  <2>3. InPlace(D)[i] = {h \in D : h < i}
    BY DEF InPlace
  <2> HIDE DEF before, J
  <2> QED
    BY <1>4, <1>8, <2>1, <2>2, <2>3
<1>13. ASSUME NEW k \in A, NEW j \in E PROVE j \in J[n + k] <=> j < n + k
  <2>1. J[n + k] = D \cup {n + h : h \in InPlace(A)[k]}
    BY <1>3, <1>5, <1>9, <1>10 DEF Joined
  <2>2. InPlace(A)[k] = {h \in A : h < k}
    BY DEF InPlace
  <2>3. CASE j \in D
    BY <1>8, <2>1, <2>3
  <2>4. ASSUME NEW h \in A, j = n + h PROVE j \in J[n + k] <=> j < n + k
    <3>1. j \in J[n + k] <=> h < k
      <4>1. ASSUME NEW g \in A, n + g = n + h PROVE g = h
        BY <1>8, <4>1
      <4> HIDE DEF J
      <4> QED
        BY <1>9, <2>1, <2>2, <2>4, <4>1
    <3> QED
      BY <1>8, <2>4, <3>1
  <2> QED
    BY <1>10, <2>3, <2>4
<1> HIDE DEF J
<1>14. \A i \in E : rank[y[i]] \in Nat
  <2>1. \A i \in D : rank[y[i]] \in Nat
    BY <1>4, <1>8
  <2>2. \A k \in A : rank[y[n + k]] \in Nat
    BY <1>8 DEF Range
  <2> QED
    BY <1>10, <2>1, <2>2
<1>15. ByRank(y, J, rank) = ByRank(y, InPlace(E), rank)
  <2>1. ASSUME NEW i \in E, NEW j \in E
        PROVE  (\/ rank[y[j]] < rank[y[i]]
                \/ rank[y[j]] = rank[y[i]] /\ j \in J[i])
               <=> (\/ rank[y[j]] < rank[y[i]]
                    \/ rank[y[j]] = rank[y[i]] /\ j < i)
    <3>1. CASE i \in D
      <4>1. CASE j \in D
        BY <1>12, <1>14, <3>1, <4>1
      <4>2. CASE j \notin D
        BY <1>8, <1>12, <3>1, <4>2
      <4> QED
        BY <4>1, <4>2
    <3>2. ASSUME NEW k \in A, i = n + k PROVE j \in J[i] <=> j < i
      BY <1>13, <3>2
    <3> QED
      BY <1>10, <3>1, <3>2
  <2>2. ByRank(y, J, rank) = [i \in E |-> {j \in E : \/ rank[y[j]] < rank[y[i]]
                                                     \/ rank[y[j]] = rank[y[i]] /\ j \in J[i]}]
    BY <1>11 DEF ByRank
  <2>3. ByRank(y, InPlace(E), rank) = [i \in E |-> {j \in E : \/ rank[y[j]] < rank[y[i]]
                                                              \/ rank[y[j]] = rank[y[i]] /\ j < i}]
    BY DEF ByRank, InPlace
  <2> QED
    BY <2>1, <2>2, <2>3
<1>16. Sorted(Arrange(y, J), rank) = Arrange(y, ByRank(y, J, rank))
  BY <1>6, <1>11, <1>14, SortedArrangement
<1> QED
  BY <1>7, <1>15, <1>16 DEF Sorted, y

\* Two blocks whose ranks have nothing in common may be added in either order.
LEMMA SortedSwapped ==
  ASSUME NEW s, List(s), NEW a, List(a), NEW c, List(c), NEW rank,
         \A x \in Range(s) \cup Range(a) \cup Range(c) : rank[x] \in Nat,
         \A x \in Range(a), z \in Range(c) : rank[x] # rank[z]
  PROVE  Sorted((s \o a) \o c, rank) = Sorted((s \o c) \o a, rank)
<1> DEFINE n == Len(s)
           p == Len(a)
           q == Len(c)
           sa == s \o a
           sc == s \o c
           y == sa \o c
           z == sc \o a
           E == 1..(n + p + q)
<1>1. Concatenates(s, a, sa) /\ Concatenates(s, c, sc)
  BY ConcatenatedPlaces
<1> HIDE DEF sa, sc
<1>2. List(sa) /\ List(sc)
  BY <1>1 DEF Concatenates
<1>3. Concatenates(sa, c, y) /\ Concatenates(sc, a, z)
  BY <1>2, ConcatenatedPlaces
<1> HIDE DEF y, z
<1>4. /\ n \in Nat /\ p \in Nat /\ q \in Nat
      /\ DOMAIN s = 1..n /\ DOMAIN a = 1..p /\ DOMAIN c = 1..q
      /\ DOMAIN sa = 1..(n + p) /\ Len(sa) = n + p /\ DOMAIN sc = 1..(n + q) /\ Len(sc) = n + q
      /\ List(y) /\ List(z)
  BY <1>1, <1>3 DEF Concatenates
<1>5. /\ DOMAIN y = 1..(Len(sa) + q) /\ DOMAIN z = 1..(Len(sc) + p)
      /\ \A i \in DOMAIN s : sa[i] = s[i] /\ sc[i] = s[i]
      /\ \A i \in DOMAIN a : sa[n + i] = a[i] /\ z[Len(sc) + i] = a[i]
      /\ \A i \in DOMAIN c : sc[n + i] = c[i] /\ y[Len(sa) + i] = c[i]
      /\ \A i \in DOMAIN sa : y[i] = sa[i]
      /\ \A i \in DOMAIN sc : z[i] = sc[i]
  BY <1>1, <1>3 DEF Concatenates
<1> HIDE DEF n, p, q
<1>6. DOMAIN y = E /\ DOMAIN z = E
  <2>1. (n + p) + q = n + p + q /\ (n + q) + p = n + p + q
    BY <1>4
  <2> QED
    BY <1>4, <1>5, <2>1
<1>7. ASSUME NEW i \in 1..n PROVE y[i] = s[i] /\ z[i] = s[i]
  <2>1. i \in 1..(n + p) /\ i \in 1..(n + q)
    BY <1>4
  <2> QED
    BY <1>4, <1>5, <2>1
<1>8. ASSUME NEW k \in 1..p PROVE y[n + k] = a[k] /\ z[(n + q) + k] = a[k]
  <2>1. n + k \in 1..(n + p)
    BY <1>4
  <2> QED
    BY <1>4, <1>5, <2>1
<1>9. ASSUME NEW k \in 1..q PROVE y[(n + p) + k] = c[k] /\ z[n + k] = c[k]
  <2>1. n + k \in 1..(n + q)
    BY <1>4
  <2> QED
    BY <1>4, <1>5, <2>1
<1> DEFINE f == [i \in E |-> IF i <= n THEN i ELSE IF i <= n + p THEN i + q ELSE i - p]
<1>10. /\ \A i \in E : i <= n => f[i] = i
       /\ \A i \in E : i > n /\ i <= n + p => f[i] = i + q
       /\ \A i \in E : i > n + p => f[i] = i - p
       /\ f \in [E -> E]
  BY <1>4
<1> HIDE DEF f
<1>11. ASSUME NEW i \in E PROVE y[i] = z[f[i]]
  <2>1. CASE i <= n
    BY <1>4, <1>7, <1>10, <2>1
  <2>2. CASE i > n /\ i <= n + p
    <3>1. i - n \in 1..p /\ n + (i - n) = i /\ (n + q) + (i - n) = i + q
      BY <1>4, <2>2
    <3> QED
      BY <1>8, <1>10, <2>2, <3>1
  <2>3. CASE i > n + p
    <3>1. i - (n + p) \in 1..q /\ (n + p) + (i - (n + p)) = i /\ n + (i - (n + p)) = i - p
      BY <1>4, <2>3
    <3> QED
      BY <1>9, <1>10, <2>3, <3>1
  <2> QED
    BY <1>4, <2>1, <2>2, <2>3
<1>12. ASSUME NEW k \in E PROVE \E i \in E : f[i] = k
  <2>1. CASE k <= n
    BY <1>10, <2>1
  <2>2. CASE k > n + q
    <3>1. k - q \in E /\ k - q > n /\ k - q <= n + p /\ (k - q) + q = k
      BY <1>4, <2>2
    <3> QED
      BY <1>10, <3>1
  <2>3. CASE k > n /\ k <= n + q
    <3>1. k + p \in E /\ k + p > n + p /\ (k + p) - p = k
      BY <1>4, <2>3
    <3> QED
      BY <1>10, <3>1
  <2> QED
    BY <1>4, <2>1, <2>2, <2>3
<1>13. \A i \in E : rank[y[i]] \in Nat /\ rank[z[i]] \in Nat
  <2>1. ASSUME NEW i \in E PROVE y[i] \in Range(s) \cup Range(a) \cup Range(c)
    <3>1. CASE i <= n
      <4>1. i \in 1..n
        BY <1>4, <3>1
      <4> QED
        BY <1>4, <1>7, <4>1 DEF Range
    <3>2. CASE i > n /\ i <= n + p
      <4>1. i - n \in 1..p /\ n + (i - n) = i
        BY <1>4, <3>2
      <4> QED
        BY <1>4, <1>8, <4>1 DEF Range
    <3>3. CASE i > n + p
      <4>1. i - (n + p) \in 1..q /\ (n + p) + (i - (n + p)) = i
        BY <1>4, <3>3
      <4> QED
        BY <1>4, <1>9, <4>1 DEF Range
    <3> QED
      BY <1>4, <3>1, <3>2, <3>3
  <2> QED
    BY <1>10, <1>11, <1>12, <2>1
<1> DEFINE before == ByRank(y, InPlace(E), rank)
           after == ByRank(z, InPlace(E), rank)
<1>14. DOMAIN InPlace(E) = E /\ IsFiniteSet(DOMAIN InPlace(E)) /\ Ordered(InPlace(E))
  BY <1>4, <1>6, PlacesAreOrdered
<1>15. DOMAIN before = E /\ IsFiniteSet(DOMAIN before) /\ Ordered(before)
  <2> HIDE DEF E
  <2> QED
    BY <1>13, <1>14, RanksAreOrdered
<1>16. DOMAIN after = E /\ IsFiniteSet(DOMAIN after) /\ Ordered(after)
  <2> HIDE DEF E
  <2> QED
    BY <1>13, <1>14, RanksAreOrdered
<1>17. ASSUME NEW i \in E, NEW j \in E, rank[y[j]] = rank[y[i]], j < i PROVE f[j] < f[i]
  <2>1. ~(j > n /\ j <= n + p /\ i > n + p)
    <3> SUFFICES ASSUME j > n, j <= n + p, i > n + p PROVE FALSE
      OBVIOUS
    <3>1. j - n \in 1..p /\ n + (j - n) = j /\ i - (n + p) \in 1..q /\ (n + p) + (i - (n + p)) = i
      BY <1>4
    <3>2. y[j] = a[j - n] /\ y[i] = c[i - (n + p)]
      <4>1. y[n + (j - n)] = a[j - n]
        BY <1>8, <3>1
      <4>2. y[(n + p) + (i - (n + p))] = c[i - (n + p)]
        BY <1>9, <3>1
      <4> QED
        BY <3>1, <4>1, <4>2
    <3>3. y[j] \in Range(a) /\ y[i] \in Range(c)
      BY <1>4, <3>1, <3>2 DEF Range
    <3> QED
      BY <1>17, <3>3
  <2>2. i \in Nat /\ j \in Nat
    BY <1>4
  <2>3. CASE i <= n
    BY <1>4, <1>10, <1>17, <2>2, <2>3
  <2>4. CASE i > n /\ i <= n + p
    <3>1. f[i] = i + q
      BY <1>10, <2>4
    <3>2. f[j] = j \/ f[j] = j + q
      <4>1. j <= n \/ (j > n /\ j <= n + p)
        BY <1>4, <1>17, <2>2, <2>4
      <4> QED
        BY <1>10, <4>1
    <3> QED
      BY <1>4, <1>17, <2>2, <3>1, <3>2
  <2>5. CASE i > n + p
    BY <1>4, <1>10, <1>17, <2>1, <2>2, <2>5
  <2> QED
    BY <1>4, <2>2, <2>3, <2>4, <2>5
<1>18. \A i, j \in E : j \in before[i] => f[j] \in after[f[i]]
  <2>1. \A i \in E : before[i] = {j \in E : \/ rank[y[j]] < rank[y[i]]
                                            \/ rank[y[j]] = rank[y[i]] /\ j \in InPlace(E)[i]}
    BY <1>14 DEF ByRank
  <2>2. \A i \in E : after[i] = {j \in E : \/ rank[z[j]] < rank[z[i]]
                                           \/ rank[z[j]] = rank[z[i]] /\ j \in InPlace(E)[i]}
    BY <1>14 DEF ByRank
  <2>3. \A i \in E : InPlace(E)[i] = {j \in E : j < i}
    BY DEF InPlace
  <2> HIDE DEF before, after, E
  <2> QED
    BY <1>10, <1>11, <1>17, <2>1, <2>2, <2>3
<1>19. Arrange(y, before) = Arrange(z, after)
  <2> HIDE DEF before, after, E
  <2> QED
    BY <1>10, <1>11, <1>12, <1>15, <1>16, <1>18, SameArrangement
<1> QED
  BY <1>6, <1>19 DEF Sorted, y, z, sa, sc

----------------------------------------------------------------------------
(***************************************************************************)
(* The projector's operations, seen as what they do to the lists: each is  *)
(* rebuilt, by taking out what is the binding's, adding what it has now    *)
(* and sorting by rank (project, unproject).                               *)
(***************************************************************************)
\* Filtering looks only at the items that are there.
LEMMA FilteredAlike ==
  ASSUME NEW s, NEW X, NEW Y, \A x \in Range(s) : x \in X <=> x \in Y
  PROVE  Filtered(s, X) = Filtered(s, Y)
<1>1. {i \in DOMAIN s : s[i] \in X} = {i \in DOMAIN s : s[i] \in Y}
  BY DEF Range
<1> QED
  BY <1>1 DEF Filtered

\* The rank of a volume or mount, and of a variable, among those of S.
VolumeRank(S) == [v \in S |-> IF HasVolumePrefix(v.name) THEN v.name[2] + 1 ELSE 0]

VariableRank(S, secrets) == [e \in S |-> IF isProjectedEnv(e, secrets) THEN e.name + 1 ELSE 0]

\* Uids, and names of variables, are numbers.
Ranked(S) == \A v \in S : HasVolumePrefix(v.name) => v.name[2] \in Nat

Named(S) == \A e \in S : e.name \in Nat

\* Volumes and mounts are sorted by rank (VolumeLess).
LEMMA VolumesSorted ==
  ASSUME NEW S, Ranked(S), NEW s, List(s), Range(s) \subseteq S
  PROVE  SliceStable(s, VolumeLess) = Sorted(s, VolumeRank(S))
<1> DEFINE D == DOMAIN s
           rank == VolumeRank(S)
<1>1. \A i \in D : s[i] \in S
  BY DEF Range
<1>2. \A i \in D : rank[s[i]] = IF HasVolumePrefix(s[i].name) THEN s[i].name[2] + 1 ELSE 0
  BY <1>1 DEF VolumeRank
<1>3. \A i \in D : HasVolumePrefix(s[i].name) => s[i].name[2] \in Nat
  BY <1>1 DEF Ranked
<1> HIDE DEF rank
<1>4. \A i, j \in D : VolumeLess(s[i], s[j]) <=> rank[s[i]] < rank[s[j]]
  BY <1>2, <1>3 DEF VolumeLess, ProjectedLast
<1>5. \A i \in D : rank[s[i]] \in Nat
  BY <1>2, <1>3
<1> DEFINE stable == [i \in D |-> {j \in D : VolumeLess(s[j], s[i]) \/ (~VolumeLess(s[i], s[j]) /\ j < i)}]
<1>6. ByRank(s, InPlace(D), rank) = [i \in D |-> {j \in D : \/ rank[s[j]] < rank[s[i]]
                                                            \/ rank[s[j]] = rank[s[i]] /\ j < i}]
  BY DEF ByRank, InPlace
<1>7. stable = ByRank(s, InPlace(D), rank)
  <2>1. \A i, j \in D : (VolumeLess(s[j], s[i]) \/ (~VolumeLess(s[i], s[j]) /\ j < i))
                        <=> (rank[s[j]] < rank[s[i]] \/ (rank[s[j]] = rank[s[i]] /\ j < i))
    BY <1>4, <1>5
  <2> DEFINE p(i, j) == VolumeLess(s[j], s[i]) \/ (~VolumeLess(s[i], s[j]) /\ j < i)
             q(i, j) == rank[s[j]] < rank[s[i]] \/ (rank[s[j]] = rank[s[i]] /\ j < i)
  <2>2. \A i, j \in D : p(i, j) <=> q(i, j)
    BY <2>1
  <2>3. ByRank(s, InPlace(D), rank) = [i \in D |-> {j \in D : q(i, j)}]
    BY <1>6
  <2>4. stable = [i \in D |-> {j \in D : p(i, j)}]
    OBVIOUS
  <2> HIDE DEF stable, p, q, D
  <2> QED
    BY <2>2, <2>3, <2>4
<1>8. SliceStable(s, VolumeLess) = Arrange(s, stable)
  BY DEF SliceStable
<1> HIDE DEF stable
<1> QED
  BY <1>7, <1>8 DEF Sorted, rank

\* Variables are sorted by rank (projectEnv).
LEMMA VariablesSorted ==
  ASSUME NEW S, Named(S), NEW s, List(s), Range(s) \subseteq S, NEW secrets
  PROVE  Arrange(s, VariableOrder(s, secrets)) = Sorted(s, VariableRank(S, secrets))
<1> DEFINE D == DOMAIN s
           rank == VariableRank(S, secrets)
           Less(e, f) == ProjectedLast(isProjectedEnv(e, secrets), isProjectedEnv(f, secrets),
                                       e.name < f.name)
<1>1. \A i \in D : s[i] \in S
  BY DEF Range
<1>2. \A i \in D : rank[s[i]] = IF isProjectedEnv(s[i], secrets) THEN s[i].name + 1 ELSE 0
  BY <1>1 DEF VariableRank
<1>3. \A i \in D : s[i].name \in Nat
  BY <1>1 DEF Named
<1> HIDE DEF rank
<1>4. \A i, j \in D : Less(s[i], s[j]) <=> rank[s[i]] < rank[s[j]]
  BY <1>2, <1>3 DEF ProjectedLast
<1>5. \A i \in D : rank[s[i]] \in Nat
  BY <1>2, <1>3
<1> DEFINE stable == [i \in D |-> {j \in D : Less(s[j], s[i]) \/ (~Less(s[i], s[j]) /\ j < i)}]
<1>6. ByRank(s, InPlace(D), rank) = [i \in D |-> {j \in D : \/ rank[s[j]] < rank[s[i]]
                                                            \/ rank[s[j]] = rank[s[i]] /\ j < i}]
  BY DEF ByRank, InPlace
<1>7. VariableOrder(s, secrets) = stable
  BY DEF VariableOrder
<1>8. stable = ByRank(s, InPlace(D), rank)
  <2> HIDE DEF Less
  <2>1. \A i, j \in D : (Less(s[j], s[i]) \/ (~Less(s[i], s[j]) /\ j < i))
                        <=> (rank[s[j]] < rank[s[i]] \/ (rank[s[j]] = rank[s[i]] /\ j < i))
    BY <1>4, <1>5
  <2> DEFINE p(i, j) == Less(s[j], s[i]) \/ (~Less(s[i], s[j]) /\ j < i)
             q(i, j) == rank[s[j]] < rank[s[i]] \/ (rank[s[j]] = rank[s[i]] /\ j < i)
  <2>2. \A i, j \in D : p(i, j) <=> q(i, j)
    BY <2>1
  <2>3. ByRank(s, InPlace(D), rank) = [i \in D |-> {j \in D : q(i, j)}]
    BY <1>6
  <2>4. stable = [i \in D |-> {j \in D : p(i, j)}]
    OBVIOUS
  <2> HIDE DEF stable, p, q, D
  <2> QED
    BY <2>2, <2>3, <2>4
<1> HIDE DEF stable
<1> QED
  BY <1>7, <1>8 DEF Sorted, rank

\* Ranks are numbers.
LEMMA RanksAreNumbers ==
  ASSUME NEW S
  PROVE  /\ Ranked(S) => \A v \in S : VolumeRank(S)[v] \in Nat
         /\ \A secrets : Named(S) => \A e \in S : VariableRank(S, secrets)[e] \in Nat
<1>1. Ranked(S) => \A v \in S : VolumeRank(S)[v] \in Nat
  BY DEF Ranked, VolumeRank
<1>2. ASSUME NEW secrets, Named(S) PROVE \A e \in S : VariableRank(S, secrets)[e] \in Nat
  BY <1>2 DEF Named, VariableRank
<1> QED
  BY <1>1, <1>2

\* The items of S that are not the binding's, and the variables that stay.
Others(S, b) == {x \in S : x.name # VolumeName(b)}

Staying(S, b, t) == {e \in S : StaysVariable(b, t, e)}

\* A list from which the binding's items are taken out, and to which, if it adds
\* any, its new ones are added and which is sorted then.
Rebuilt(s, K, adds, a, rank) ==
  IF adds THEN Sorted(Filtered(s, K) \o a, rank) ELSE Filtered(s, K)

\* The root variable, where a container has none.
Rooting(s) ==
  IF \E i \in DOMAIN s : s[i].name = ServiceBindingRootEnv THEN <<>> ELSE <<RootVariable>>

\* A list of one has that one item.
LEMMA OneIsListed ==
  \A x : List(<<x>>) /\ Range(<<x>>) = {x}
<1> SUFFICES ASSUME NEW x PROVE List(<<x>>) /\ Range(<<x>>) = {x}
  OBVIOUS
<1>1. Range(<<x>>) = {x}
  BY DEF Range
<1>2. <<x>> \in Seq({x})
  OBVIOUS
<1> QED
  BY <1>1, <1>2 DEF List

\* Appending an item is putting a list of one behind.
LEMMA AppendedIsConcatenated ==
  ASSUME NEW s, List(s), NEW x
  PROVE  Append(s, x) = s \o <<x>>
<1> DEFINE T == Range(s) \cup {x}
<1>1. s \in Seq(T) /\ x \in T
  BY DEF List
<1> HIDE DEF T
<1> QED
  BY <1>1

\* Nothing added is nothing changed.
LEMMA NoneIsListed ==
  /\ List(<<>>) /\ Range(<<>>) = {}
  /\ \A s : List(s) => s \o <<>> = s
<1>1. Range(<<>>) = {}
  BY DEF Range
<1>2. <<>> \in Seq({})
  OBVIOUS
<1>3. ASSUME NEW s, List(s) PROVE s \o <<>> = s
  <2> DEFINE T == Range(s)
  <2>1. s \in Seq(T)
    BY <1>3 DEF List
  <2> HIDE DEF T
  <2> QED
    BY <2>1
<1> QED
  BY <1>1, <1>2, <1>3 DEF List

\* Adding is associative.
LEMMA ConcatenationsAssociate ==
  ASSUME NEW s, List(s), NEW a, List(a), NEW c, List(c)
  PROVE  (s \o a) \o c = s \o (a \o c)
<1> DEFINE T == Range(s) \cup Range(a) \cup Range(c)
<1>1. s \in Seq(T) /\ a \in Seq(T) /\ c \in Seq(T)
  BY DEF List
<1> HIDE DEF T
<1> QED
  BY <1>1

\* A list that is rebuilt has what was kept and what was added.
LEMMA RebuiltList ==
  ASSUME NEW s, List(s), NEW K, NEW adds, NEW a, List(a), NEW rank,
         \A v \in Range(s) \cup Range(a) : rank[v] \in Nat
  PROVE  /\ List(Rebuilt(s, K, adds, a, rank))
         /\ adds => Range(Rebuilt(s, K, adds, a, rank)) = (Range(s) \cap K) \cup Range(a)
         /\ ~adds => Range(Rebuilt(s, K, adds, a, rank)) = Range(s) \cap K
<1> DEFINE y == Filtered(s, K)
           z == y \o a
<1>1. List(y) /\ Range(y) = Range(s) \cap K
  BY FilteredList
<1> HIDE DEF y
<1>2. List(z) /\ Range(z) = (Range(s) \cap K) \cup Range(a)
  BY <1>1, AppendedItems
<1> HIDE DEF z
<1>3. \A v \in Range(z) : rank[v] \in Nat
  BY <1>2
<1>4. List(Sorted(z, rank)) /\ Range(Sorted(z, rank)) = Range(z)
  BY <1>2, <1>3, SortedList
<1>5. CASE adds
  BY <1>2, <1>4, <1>5 DEF Rebuilt, y, z
<1>6. CASE ~adds
  BY <1>1, <1>6 DEF Rebuilt, y
<1> QED
  BY <1>5, <1>6

\* A sorted list with something added, as seen through a filter.
LEMMA FilteredAddition ==
  ASSUME NEW y, List(y), NEW a, List(a), NEW rank,
         \A v \in Range(y) \cup Range(a) : rank[v] \in Nat, NEW X
  PROVE  Filtered(Sorted(y \o a, rank), X) = Sorted(Filtered(y, X) \o Filtered(a, X), rank)
<1> DEFINE z == y \o a
<1>1. List(z) /\ Range(z) = Range(y) \cup Range(a)
  BY AppendedItems
<1>2. Filtered(z, X) = Filtered(y, X) \o Filtered(a, X)
  BY FilteredConcatenation
<1> HIDE DEF z
<1>3. Filtered(Sorted(z, rank), X) = Sorted(Filtered(z, X), rank)
  BY <1>1, FilteredSorted
<1> QED
  BY <1>2, <1>3 DEF z

\* A list with another behind it, and the same if there is anything to add.
Added(s, a) == s \o a

Extended(s, adds, a) == IF adds THEN s \o a ELSE s

\* Items that are kept and all have rank 0 stay as they are, ahead of what is
\* added of their kind.
LEMMA RebuiltBesides ==
  ASSUME NEW s, List(s), NEW K, NEW adds, NEW a, List(a), NEW rank,
         \A v \in Range(s) \cup Range(a) : rank[v] \in Nat,
         NEW U, U \subseteq K, \A v \in U \cap (Range(s) \cup Range(a)) : rank[v] = 0
  PROVE  Filtered(Rebuilt(s, K, adds, a, rank), U) = Extended(Filtered(s, U), adds, Filtered(a, U))
<1> DEFINE y == Filtered(s, K)
           z == Filtered(y, U) \o Filtered(a, U)
<1>1. List(y) /\ Range(y) = Range(s) \cap K
  BY FilteredList
<1>2. Filtered(y, U) = Filtered(s, U)
  <2>1. K \cap U = U
    OBVIOUS
  <2> QED
    BY <2>1, FilteredTwice
<1> HIDE DEF y
<1>3. \A v \in Range(y) \cup Range(a) : rank[v] \in Nat
  BY <1>1
<1>4. Filtered(Sorted(y \o a, rank), U) = Sorted(z, rank)
  BY <1>1, <1>3, FilteredAddition
<1>5. Sorted(z, rank) = z
  <2>1. List(Filtered(y, U)) /\ Range(Filtered(y, U)) = Range(y) \cap U
    BY <1>1, FilteredList
  <2>2. List(Filtered(a, U)) /\ Range(Filtered(a, U)) = Range(a) \cap U
    BY FilteredList
  <2>3. List(z) /\ Range(z) = (Range(y) \cap U) \cup (Range(a) \cap U)
    BY <2>1, <2>2, AppendedItems
  <2> HIDE DEF z
  <2>4. \A v \in Range(z) : rank[v] = 0
    BY <1>1, <2>3
  <2>5. 0 \in Nat
    OBVIOUS
  <2> QED
    BY <2>3, <2>4, <2>5, SortedLevel
<1>6. CASE adds
  BY <1>2, <1>4, <1>5, <1>6 DEF Rebuilt, Extended, y
<1>7. CASE ~adds
  BY <1>2, <1>7 DEF Rebuilt, Extended, y
<1> QED
  BY <1>6, <1>7

\* Rebuilding a list once more, when what is taken out is what was added and d,
\* which was added with it, is there by now, changes nothing.
LEMMA RebuiltAgain ==
  ASSUME NEW s, List(s), NEW K, NEW adds, NEW d, List(d), NEW c, List(c), NEW rank,
         \A v \in Range(s) \cup Range(d) \cup Range(c) : rank[v] \in Nat,
         NEW L, Range(s) \cap K \subseteq L, Range(d) \subseteq L, Range(c) \cap L = {}
  PROVE  Rebuilt(Rebuilt(s, K, adds, Added(d, c), rank), L, adds, c, rank)
           = Rebuilt(s, K, adds, Added(d, c), rank)
<1> DEFINE y == Filtered(s, K)
           yd == y \o d
<1>1. List(y) /\ Range(y) = Range(s) \cap K
  BY FilteredList
<1>2. Filtered(y, L) = y
  BY <1>1, FilteredWhole
<1> HIDE DEF y
<1>3. List(yd) /\ Range(yd) = Range(y) \cup Range(d)
  BY <1>1, AppendedItems
<1>4. y \o (d \o c) = yd \o c
  BY <1>1, ConcatenationsAssociate
<1> HIDE DEF yd
<1>5. \A v \in Range(yd) \cup Range(c) : rank[v] \in Nat
  BY <1>1, <1>3
<1>6. Filtered(Sorted(yd \o c, rank), L) = Sorted(yd, rank)
  <2>1. Filtered(yd, L) = yd
    BY <1>1, <1>3, FilteredWhole
  <2>2. Filtered(c, L) = <<>>
    BY FilteredNone
  <2>3. yd \o <<>> = yd
    BY <1>3, NoneIsListed
  <2>4. Filtered(Sorted(yd \o c, rank), L) = Sorted(Filtered(yd, L) \o Filtered(c, L), rank)
    BY <1>3, <1>5, FilteredAddition
  <2> QED
    BY <2>1, <2>2, <2>3, <2>4
<1>7. Sorted(Sorted(yd, rank) \o c, rank) = Sorted(yd \o c, rank)
  BY <1>3, <1>5, SortedAgain
<1>8. CASE adds
  BY <1>4, <1>6, <1>7, <1>8 DEF Rebuilt, Added, y
<1>9. CASE ~adds
  BY <1>2, <1>9 DEF Rebuilt, y
<1> QED
  BY <1>8, <1>9

\* The list r is stay with a behind it, if that was added first, and c behind it,
\* if that was added second, sorted once.
SortedOnce(r, stay, first, a, second, c, rank) ==
  /\ first /\ second => r = Sorted(Added(Added(stay, a), c), rank)
  /\ first /\ ~second => r = Sorted(Added(stay, a), rank)
  /\ ~first /\ second => r = Sorted(Added(stay, c), rank)
  /\ ~first /\ ~second => r = stay

\* Rebuilding a list twice is taking out all that goes and sorting once, when the
\* second filter keeps what was added first and the ranks agree.
LEMMA RebuiltTwice ==
  ASSUME NEW s, List(s), NEW K, NEW L, NEW first, NEW second, NEW a, List(a), NEW c, List(c),
         NEW rank, NEW other,
         \A v \in Range(s) \cup Range(a) : rank[v] \in Nat,
         \A v \in Range(s) \cup Range(a) \cup Range(c) : other[v] \in Nat,
         first => Range(a) \subseteq L,
         first => \A v \in (Range(s) \cap K \cap L) \cup Range(a) : rank[v] = other[v]
  PROVE  SortedOnce(Rebuilt(Rebuilt(s, K, first, a, rank), L, second, c, other),
                    Filtered(s, K \cap L), first, a, second, c, other)
<1> DEFINE y == Filtered(s, K)
           stay == Filtered(s, K \cap L)
           z == stay \o a
           r == Rebuilt(Rebuilt(s, K, first, a, rank), L, second, c, other)
<1>1. List(y) /\ Range(y) = Range(s) \cap K
  BY FilteredList
<1>2. List(stay) /\ Range(stay) = Range(s) \cap K \cap L
  BY FilteredList
<1>3. Filtered(y, L) = stay
  BY FilteredTwice
<1>4. CASE ~first
  <2>1. r = Rebuilt(y, L, second, c, other)
    BY <1>4 DEF Rebuilt
  <2> HIDE DEF y, stay, r
  <2>2. /\ second => r = Sorted(Added(stay, c), other)
        /\ ~second => r = stay
    BY <1>3, <2>1 DEF Rebuilt, Added
  <2> QED
    BY <1>4, <2>2 DEF SortedOnce, stay, r
<1>5. CASE first
  <2> HIDE DEF y, stay
  <2>1. List(z) /\ Range(z) = Range(stay) \cup Range(a)
    BY <1>2, AppendedItems
  <2>2. Filtered(Sorted(y \o a, rank), L) = Sorted(z, rank)
    <3>1. Filtered(a, L) = a
      BY <1>5, FilteredWhole
    <3>2. \A v \in Range(y) \cup Range(a) : rank[v] \in Nat
      BY <1>1
    <3>3. Filtered(Sorted(y \o a, rank), L) = Sorted(Filtered(y, L) \o Filtered(a, L), rank)
      BY <1>1, <3>2, FilteredAddition
    <3> QED
      BY <1>3, <3>1, <3>3
  <2> HIDE DEF z
  <2>3. \A v \in Range(z) : rank[v] = other[v]
    BY <1>2, <1>5, <2>1
  <2>4. \A v \in Range(z) \cup Range(c) : other[v] \in Nat
    BY <1>2, <2>1
  <2>5. Sorted(Sorted(z, rank) \o c, other) = Sorted(z \o c, other)
    BY <2>1, <2>3, <2>4, SortedAgain
  <2>6. Sorted(z, rank) = Sorted(z, other)
    BY <2>1, <2>3, SortedAlike
  <2>7. r = Rebuilt(Sorted(y \o a, rank), L, second, c, other)
    BY <1>5 DEF Rebuilt, y
  <2> HIDE DEF r
  <2>8. /\ second => r = Sorted(z \o c, other)
        /\ ~second => r = Sorted(z, other)
    BY <2>2, <2>5, <2>6, <2>7 DEF Rebuilt
  <2> QED
    BY <1>5, <2>8 DEF SortedOnce, Added, z, stay, r
<1> QED
  BY <1>4, <1>5

\* The variables a binding adds, in the order it lists them.
AddedList(b) == [i \in DOMAIN b.env |-> EnvVar(b, b.env[i])]

\* Taking a binding out of a container filters its lists (unprojectContainer).
LEMMA UnprojectedLists ==
  ASSUME NEW b, NEW t, NEW c, ContainerShape(c)
  PROVE  LET d == unprojectContainer(b, t, c)
         IN  /\ d = [name |-> d.name, env |-> d.env, mounts |-> d.mounts]
             /\ \A S : Range(c.mounts) \subseteq S => d.mounts = Filtered(c.mounts, Others(S, b))
             /\ \A S : Range(c.env) \subseteq S => d.env = Filtered(c.env, Staying(S, b, t))
<1> DEFINE KeepMount(m) == m.name # VolumeName(b)
           mounts == Kept(c.mounts, KeepMount)
           KeepEnv(e) == StaysVariable(b, t, e)
           env == Kept(c.env, KeepEnv)
           d == unprojectContainer(b, t, c)
<1>1. d = [[c EXCEPT !.mounts = mounts] EXCEPT !.env = env]
  BY DEF unprojectContainer, unprojectEnv, unprojectVolumeMount, StaysVariable, ContainerShape
<1>2. ASSUME NEW S, Range(c.mounts) \subseteq S PROVE mounts = Filtered(c.mounts, Others(S, b))
  <2>1. {i \in DOMAIN c.mounts : KeepMount(c.mounts[i])}
          = {i \in DOMAIN c.mounts : c.mounts[i] \in Others(S, b)}
    BY <1>2 DEF Others, Range
  <2> QED
    BY <2>1 DEF Kept, Filtered, InPlace
<1>3. ASSUME NEW S, Range(c.env) \subseteq S PROVE env = Filtered(c.env, Staying(S, b, t))
  <2>1. {i \in DOMAIN c.env : KeepEnv(c.env[i])} = {i \in DOMAIN c.env : c.env[i] \in Staying(S, b, t)}
    BY <1>3 DEF Staying, Range
  <2> QED
    BY <2>1 DEF Kept, Filtered, InPlace
<1> HIDE DEF mounts, env, d
<1>4. d.mounts = mounts /\ d.env = env /\ d = [name |-> d.name, env |-> d.env, mounts |-> d.mounts]
  BY <1>1 DEF ContainerShape
<1> QED
  BY <1>2, <1>3, <1>4 DEF d

\* Projecting into a container sorts its lists with what is added behind
\* (projectContainer).
LEMMA ProjectedLists ==
  ASSUME NEW b, IsVersion(b), NEW t, NEW c, ContainerShape(c), isContainerBindable(b, c)
  PROVE  LET d == projectContainer(b, t, c)
         IN  /\ d = [name |-> d.name, env |-> d.env, mounts |-> d.mounts]
             /\ d.mounts = SliceStable(Append(c.mounts, MountOf(b, c)), VolumeLess)
             /\ d.env = Arrange(serviceBindingRoot(c).env \o AddedList(b),
                                VariableOrder(serviceBindingRoot(c).env \o AddedList(b),
                                              knownProjectedSecrets(t)))
<1> DEFINE r == serviceBindingRoot(c)
           d == projectContainer(b, t, c)
           mounts == SliceStable(Append(c.mounts, MountOf(b, c)), VolumeLess)
           s == r.env \o AddedList(b)
           env == Arrange(s, VariableOrder(s, knownProjectedSecrets(t)))
<1>1. ContainerShape(r) /\ r.name = c.name /\ r.mounts = c.mounts
  BY RootedContainer
<1>2. d = [[r EXCEPT !.mounts = mounts] EXCEPT !.env = env]
  <2>1. d = projectEnv(b, t, projectVolumeMount(b, c))
    BY DEF projectContainer
  <2>2. projectVolumeMount(b, c) = [r EXCEPT !.mounts = mounts]
    BY <1>1 DEF projectVolumeMount, MountOf
  <2>3. [r EXCEPT !.mounts = mounts].env = r.env
    BY <1>1 DEF ContainerShape
  <2> QED
    BY <2>1, <2>2, <2>3 DEF projectEnv, SliceStable, VariableOrder, AddedList
<1> HIDE DEF r, mounts, env, d
<1>3. d.mounts = mounts /\ d.env = env /\ d = [name |-> d.name, env |-> d.env, mounts |-> d.mounts]
  BY <1>1, <1>2 DEF ContainerShape
<1> QED
  BY <1>3 DEF d, mounts, env, r

\* Reading the root adds the root variable where there is none.
LEMMA RootingAdds ==
  ASSUME NEW c, ContainerShape(c)
  PROVE  serviceBindingRoot(c).env = c.env \o Rooting(c.env)
<1>1. List(c.env)
  BY DEF ContainerShape
<1>2. CASE \E i \in DOMAIN c.env : c.env[i].name = ServiceBindingRootEnv
  BY <1>1, <1>2, NoneIsListed DEF serviceBindingRoot, Rooting
<1>3. CASE ~ \E i \in DOMAIN c.env : c.env[i].name = ServiceBindingRootEnv
  <2>1. serviceBindingRoot(c).env = Append(c.env, RootVariable)
    BY <1>3 DEF serviceBindingRoot, RootVariable, ContainerShape
  <2>2. Rooting(c.env) = <<RootVariable>>
    BY <1>3 DEF Rooting
  <2> QED
    BY <1>1, <2>1, <2>2, AppendedIsConcatenated
<1> QED
  BY <1>2, <1>3

\* What is added so is the root variable or nothing.
LEMMA RootingListed ==
  ASSUME NEW s
  PROVE  List(Rooting(s)) /\ Range(Rooting(s)) \subseteq {RootVariable}
  BY OneIsListed, NoneIsListed DEF Rooting

\* A binding binds a container when it has a secret and selects it.
Binds(b, c) == b.secret # Empty /\ isContainerBindable(b, c)

\* What Project makes of the mounts of a container c of t.
LEMMA MountsRebuilt ==
  ASSUME NEW b, IsVersion(b), NEW t, NEW v, NEW c, ContainerShape(c),
         isContainerBindable(b, c), NEW S, Ranked(S), Range(c.mounts) \subseteq S,
         MountOf(b, unprojectContainer(b, t, c)) \in S
  PROVE  LET u == unprojectContainer(b, t, c)
         IN  projectContainer(b, v, u).mounts
               = Sorted(Filtered(c.mounts, Others(S, b)) \o <<MountOf(b, u)>>, VolumeRank(S))
<1> DEFINE u == unprojectContainer(b, t, c)
           m == MountOf(b, u)
           y == Filtered(c.mounts, Others(S, b))
<1>1. ContainerShape(u) /\ u.name = c.name
  BY UnprojectedContainer
<1>2. u.mounts = y
  BY UnprojectedLists
<1>3. isContainerBindable(b, u)
  BY <1>1 DEF isContainerBindable
<1> HIDE DEF u
<1>4. projectContainer(b, v, u).mounts = SliceStable(Append(u.mounts, m), VolumeLess)
  BY <1>1, <1>3, ProjectedLists
<1>5. List(y) /\ Range(y) \subseteq S
  <2>1. List(c.mounts)
    BY DEF ContainerShape
  <2> QED
    BY <2>1, FilteredList
<1> HIDE DEF y, m
<1> DEFINE z == y \o <<m>>
<1>6. Append(y, m) = z
  BY <1>5, AppendedIsConcatenated
<1>7. List(z) /\ Range(z) \subseteq S
  <2> DEFINE a == <<m>>
  <2>1. List(a) /\ Range(a) = {m}
    BY OneIsListed
  <2>2. m \in S
    BY DEF m, u
  <2> HIDE DEF a
  <2>3. List(y \o a) /\ Range(y \o a) = Range(y) \cup Range(a)
    BY <1>5, <2>1, AppendedItems
  <2> QED
    BY <1>5, <2>1, <2>2, <2>3 DEF a
<1> HIDE DEF z
<1>8. SliceStable(z, VolumeLess) = Sorted(z, VolumeRank(S))
  BY <1>7, VolumesSorted
<1> QED
  BY <1>2, <1>4, <1>6, <1>8 DEF u, m, y, z

\* What Project makes of the variables of a container c of t.
LEMMA VariablesRebuilt ==
  ASSUME NEW b, IsVersion(b), NEW t, NEW v, NEW c, ContainerShape(c),
         isContainerBindable(b, c), NEW S, Named(S), Range(c.env) \subseteq S,
         RootVariable \in S, VariablesOf(b) \subseteq S
  PROVE  LET stay == Filtered(c.env, Staying(S, b, t))
         IN  projectContainer(b, v, unprojectContainer(b, t, c)).env
               = Sorted(stay \o (Rooting(stay) \o AddedList(b)),
                        VariableRank(S, knownProjectedSecrets(v)))
<1> DEFINE u == unprojectContainer(b, t, c)
           stay == Filtered(c.env, Staying(S, b, t))
           root == Rooting(stay)
           added == AddedList(b)
           secrets == knownProjectedSecrets(v)
<1>1. ContainerShape(u) /\ u.name = c.name
  BY UnprojectedContainer
<1>2. u.env = stay
  BY UnprojectedLists
<1>3. isContainerBindable(b, u)
  BY <1>1 DEF isContainerBindable
<1> HIDE DEF u
<1>4. serviceBindingRoot(u).env = stay \o root
  BY <1>1, <1>2, RootingAdds
<1>5. List(stay) /\ Range(stay) \subseteq S
  <2>1. List(c.env)
    BY DEF ContainerShape
  <2> QED
    BY <2>1, FilteredList
<1>6. List(root) /\ Range(root) \subseteq S
  BY RootingListed
<1>7. List(added) /\ Range(added) \subseteq S
  BY VariablesAreListed DEF AddedList
<1> HIDE DEF stay, root, added
<1> DEFINE z == (stay \o root) \o added
<1>8. projectContainer(b, v, u).env = Arrange(z, VariableOrder(z, secrets))
  BY <1>1, <1>3, <1>4, ProjectedLists DEF added
<1>9. List(z) /\ Range(z) \subseteq S
  <2>1. List(stay \o root) /\ Range(stay \o root) \subseteq S
    BY <1>5, <1>6, AppendedItems
  <2> DEFINE y == stay \o root
  <2> HIDE DEF y
  <2>2. List(y \o added) /\ Range(y \o added) \subseteq S
    BY <1>7, <2>1, AppendedItems DEF y
  <2> QED
    BY <2>2 DEF y
<1>10. z = stay \o (root \o added)
  BY <1>5, <1>6, <1>7, ConcatenationsAssociate
<1> HIDE DEF z, secrets
<1>11. Arrange(z, VariableOrder(z, secrets)) = Sorted(z, VariableRank(S, secrets))
  BY <1>9, VariablesSorted
<1> QED
  BY <1>8, <1>10, <1>11 DEF u, stay, root, added, secrets

\* The containers of a template are records, and so is the template.
TemplateRecord(t) ==
  /\ t = [annotations |-> t.annotations, containers |-> t.containers, volumes |-> t.volumes]
  /\ t.containers = [i \in DOMAIN t.containers |->
                       [name |-> t.containers[i].name, env |-> t.containers[i].env,
                        mounts |-> t.containers[i].mounts]]

\* Templates that have the same annotations and lists are the same.
LEMMA TemplatesAgree ==
  ASSUME NEW p, TemplateRecord(p), NEW q, TemplateRecord(q),
         p.annotations = q.annotations, p.volumes = q.volumes,
         DOMAIN p.containers = DOMAIN q.containers,
         \A i \in DOMAIN p.containers :
           /\ p.containers[i].name = q.containers[i].name
           /\ p.containers[i].env = q.containers[i].env
           /\ p.containers[i].mounts = q.containers[i].mounts
  PROVE  p = q
<1> DEFINE x(i) == [name |-> p.containers[i].name, env |-> p.containers[i].env,
                    mounts |-> p.containers[i].mounts]
           y(i) == [name |-> q.containers[i].name, env |-> q.containers[i].env,
                    mounts |-> q.containers[i].mounts]
           D == DOMAIN p.containers
<1>1. p.containers = [i \in D |-> x(i)]
  BY DEF TemplateRecord
<1>2. q.containers = [i \in D |-> y(i)]
  BY DEF TemplateRecord
<1>3. \A i \in D : x(i) = y(i)
  OBVIOUS
<1>4. p.containers = q.containers
  <2> HIDE DEF x, y, D
  <2> QED
    BY <1>1, <1>2, <1>3
<1> QED
  BY <1>4 DEF TemplateRecord

\* Unprojecting filters the lists of the template (unproject).
LEMMA UnprojectedRecord ==
  ASSUME NEW b, NEW t, TemplateShape(t)
  PROVE  LET u == unproject(b, t)
         IN  /\ TemplateRecord(u)
             /\ u.annotations = Restrict(t.annotations,
                  DOMAIN t.annotations \ {SecretAnnotationName(b), TypeAnnotationName(b),
                                          ProviderAnnotationName(b)})
             /\ \A S : Range(t.volumes) \subseteq S => u.volumes = Filtered(t.volumes, Others(S, b))
<1> DEFINE KeepVolume(v) == v.name # VolumeName(b)
           volumes == Kept(t.volumes, KeepVolume)
           containers == [i \in DOMAIN t.containers |-> unprojectContainer(b, t, t.containers[i])]
           annotations == Restrict(t.annotations,
             DOMAIN t.annotations \ {SecretAnnotationName(b), TypeAnnotationName(b),
                                     ProviderAnnotationName(b)})
           v == [t EXCEPT !.volumes = volumes]
           c == [v EXCEPT !.containers = containers]
           u == unproject(b, t)
<1>1. u = cleanupAnnotations(b, c)
  <2>1. unprojectVolume(b, t) = v
    BY DEF unprojectVolume
  <2>2. v.containers = t.containers
    BY DEF TemplateShape
  <2> QED
    BY <2>1, <2>2 DEF unproject
<1>2. ASSUME NEW S, Range(t.volumes) \subseteq S PROVE volumes = Filtered(t.volumes, Others(S, b))
  <2>1. {i \in DOMAIN t.volumes : KeepVolume(t.volumes[i])}
          = {i \in DOMAIN t.volumes : t.volumes[i] \in Others(S, b)}
    BY <1>2 DEF Others, Range
  <2> QED
    BY <2>1 DEF Kept, Filtered, InPlace
<1> HIDE DEF volumes, containers
<1>3. DOMAIN c = DOMAIN t /\ c.annotations = t.annotations /\ c.containers = containers
      /\ c.volumes = volumes
  BY DEF TemplateShape
<1> HIDE DEF c, u
<1>4. u = [c EXCEPT !.annotations = annotations]
  BY <1>1, <1>3 DEF cleanupAnnotations
<1> HIDE DEF annotations
<1>5. u = [annotations |-> annotations, containers |-> containers, volumes |-> volumes]
  BY <1>3, <1>4 DEF TemplateShape
<1>6. u.annotations = annotations /\ u.containers = containers /\ u.volumes = volumes
  BY <1>5
<1>7. TemplateRecord(u)
  <2> DEFINE x(i) == unprojectContainer(b, t, t.containers[i])
             y(i) == [name |-> x(i).name, env |-> x(i).env, mounts |-> x(i).mounts]
             D == DOMAIN t.containers
  <2>1. \A i \in D : x(i) = y(i)
    BY UnprojectedLists DEF TemplateShape
  <2>2. containers = [i \in D |-> x(i)]
    BY DEF containers
  <2> HIDE DEF x, D
  <2>3. containers = [i \in DOMAIN containers |->
           [name |-> containers[i].name, env |-> containers[i].env, mounts |-> containers[i].mounts]]
    BY <2>1, <2>2
  <2> QED
    BY <1>5, <1>6, <2>3 DEF TemplateRecord
<1> QED
  BY <1>2, <1>6, <1>7 DEF u, annotations

\* Projecting sorts the volumes with the binding's behind (project).
LEMMA ProjectedRecord ==
  ASSUME NEW b, IsVersion(b), b.secret # Empty, NEW t, TemplateShape(t)
  PROVE  LET u == unproject(b, t)
             p == project(b, t)
         IN  /\ TemplateRecord(p)
             /\ p.volumes = SliceStable(Append(u.volumes, VolumeOf(b)), VolumeLess)
             /\ projectVolume(b, u).annotations = p.annotations
<1> DEFINE u == unproject(b, t)
           v == projectVolume(b, u)
           p == project(b, t)
           volumes == SliceStable(Append(u.volumes, VolumeOf(b)), VolumeLess)
           containers == [i \in DOMAIN u.containers |-> projectContainer(b, v, u.containers[i])]
           annotations == annotate(b, u.annotations)
<1>1. TemplateShape(u) /\ TemplateRecord(u)
  BY UnprojectedTemplate, UnprojectedRecord
<1> HIDE DEF u
<1>2. v = [u EXCEPT !.annotations = annotations, !.volumes = volumes]
  BY DEF projectVolume, VolumeOf
<1> HIDE DEF volumes, annotations, v
<1>3. DOMAIN v = DOMAIN u /\ v.containers = u.containers /\ v.volumes = volumes
      /\ v.annotations = annotations
  BY <1>1, <1>2 DEF TemplateShape
<1>4. p = [v EXCEPT !.containers = containers]
  BY <1>3 DEF project, u, v
<1> HIDE DEF p, containers
<1>5. p = [annotations |-> annotations, containers |-> containers, volumes |-> volumes]
  BY <1>1, <1>3, <1>4 DEF TemplateShape
<1>6. p.annotations = annotations /\ p.containers = containers /\ p.volumes = volumes
  BY <1>5
<1>7. TemplateRecord(p)
  <2> DEFINE w(i) == u.containers[i]
             x(i) == projectContainer(b, v, w(i))
             y(i) == [name |-> x(i).name, env |-> x(i).env, mounts |-> x(i).mounts]
             D == DOMAIN u.containers
  <2>1. ASSUME NEW i \in D PROVE x(i) = y(i)
    <3>1. ContainerShape(w(i)) /\ w(i) = [name |-> w(i).name, env |-> w(i).env, mounts |-> w(i).mounts]
      BY <1>1 DEF TemplateShape, TemplateRecord
    <3> HIDE DEF w
    <3>2. CASE isContainerBindable(b, w(i))
      BY <3>1, <3>2, ProjectedLists
    <3>3. CASE ~isContainerBindable(b, w(i))
      <4>1. x(i) = w(i)
        BY <3>3 DEF projectContainer
      <4> QED
        BY <3>1, <4>1
    <3> QED
      BY <3>2, <3>3
  <2>2. containers = [i \in D |-> x(i)]
    BY DEF containers
  <2> HIDE DEF x, D
  <2>3. containers = [i \in DOMAIN containers |->
           [name |-> containers[i].name, env |-> containers[i].env, mounts |-> containers[i].mounts]]
    BY <2>1, <2>2
  <2> QED
    BY <1>5, <1>6, <2>3 DEF TemplateRecord
<1> QED
  BY <1>3, <1>6, <1>7 DEF u, v, p, volumes, annotations

\* What Project makes of the volumes.
LEMMA VolumesRebuilt ==
  ASSUME NEW b, IsVersion(b), NEW t, TemplateShape(t), NEW S, Ranked(S),
         Range(t.volumes) \subseteq S, VolumeOf(b) \in S
  PROVE  project(b, t).volumes
           = Rebuilt(t.volumes, Others(S, b), b.secret # Empty, <<VolumeOf(b)>>, VolumeRank(S))
<1> DEFINE u == unproject(b, t)
           m == VolumeOf(b)
           y == Filtered(t.volumes, Others(S, b))
<1>1. u.volumes = y
  BY UnprojectedRecord
<1>2. CASE b.secret = Empty
  BY <1>1, <1>2 DEF project, Rebuilt
<1>3. CASE b.secret # Empty
  <2>1. project(b, t).volumes = SliceStable(Append(y, m), VolumeLess)
    BY <1>1, <1>3, ProjectedRecord
  <2>2. List(y) /\ Range(y) \subseteq S
    <3>1. List(t.volumes)
      BY DEF TemplateShape
    <3> QED
      BY <3>1, FilteredList
  <2>3. m \in S
    OBVIOUS
  <2> HIDE DEF y, m
  <2> DEFINE z == y \o <<m>>
  <2>4. Append(y, m) = z
    BY <2>2, AppendedIsConcatenated
  <2>5. List(z) /\ Range(z) \subseteq S
    <3> DEFINE a == <<m>>
    <3>1. List(a) /\ Range(a) = {m}
      BY OneIsListed
    <3> HIDE DEF a
    <3>2. List(y \o a) /\ Range(y \o a) = Range(y) \cup Range(a)
      BY <2>2, <3>1, AppendedItems
    <3> QED
      BY <2>2, <2>3, <3>1, <3>2 DEF a
  <2> HIDE DEF z
  <2>6. SliceStable(z, VolumeLess) = Sorted(z, VolumeRank(S))
    BY <2>5, VolumesSorted
  <2> QED
    BY <1>3, <2>1, <2>4, <2>6 DEF Rebuilt, m, y, z
<1> QED
  BY <1>2, <1>3

\* The variables s as Project rebuilds them from the template t.
RebuiltVariables(E, b, t, s, adds, secrets) ==
  LET K == Staying(E, b, t)
  IN  Rebuilt(s, K, adds, Added(Rooting(Filtered(s, K)), AddedList(b)), VariableRank(E, secrets))

\* What Project makes of the containers.
LEMMA ContainersRebuilt ==
  ASSUME NEW b, IsVersion(b), NEW t, TemplateShape(t), NEW i \in DOMAIN t.containers,
         NEW M, Ranked(M), Range(t.containers[i].mounts) \subseteq M,
         MountOf(b, unproject(b, t).containers[i]) \in M,
         NEW E, Named(E), Range(t.containers[i].env) \subseteq E, RootVariable \in E,
         VariablesOf(b) \subseteq E
  PROVE  LET c == t.containers[i]
             p == project(b, t)
         IN  /\ p.containers[i].name = c.name
             /\ p.containers[i].mounts
                  = Rebuilt(c.mounts, Others(M, b), Binds(b, c),
                            <<MountOf(b, unproject(b, t).containers[i])>>, VolumeRank(M))
             /\ p.containers[i].env
                  = RebuiltVariables(E, b, t, c.env, Binds(b, c), knownProjectedSecrets(p))
<1> DEFINE c == t.containers[i]
           u == unproject(b, t)
           w == unprojectContainer(b, t, c)
           v == projectVolume(b, u)
           p == project(b, t)
<1>1. ContainerShape(c)
  BY DEF TemplateShape
<1>2. u.containers[i] = w
  BY UnprojectedTemplate
<1>3. MountOf(b, w) \in M
  BY <1>2
<1>0. Range(c.mounts) \subseteq M /\ Range(c.env) \subseteq E
  OBVIOUS
<1> HIDE DEF c
<1>4. ContainerShape(w) /\ w.name = c.name
  BY <1>1, UnprojectedContainer
<1>5. w.mounts = Filtered(c.mounts, Others(M, b)) /\ w.env = Filtered(c.env, Staying(E, b, t))
  BY <1>0, <1>1, UnprojectedLists
<1>6. CASE b.secret = Empty
  <2>1. p.containers[i] = w /\ ~Binds(b, c)
    BY <1>2, <1>6 DEF project, Binds
  <2> QED
    BY <1>2, <1>4, <1>5, <2>1 DEF RebuiltVariables, Rebuilt, c
<1>7. CASE b.secret # Empty
  <2>1. p.containers[i] = projectContainer(b, v, w) /\ v.annotations = p.annotations
    BY <1>2, <1>7, ProjectedTemplate, ProjectedRecord
  <2>2. knownProjectedSecrets(v) = knownProjectedSecrets(p)
    BY <2>1 DEF knownProjectedSecrets
  <2> HIDE DEF u, v, p
  <2>3. CASE isContainerBindable(b, c)
    <3>1. Binds(b, c)
      BY <1>7, <2>3 DEF Binds
    <3>2. projectContainer(b, v, w).mounts
            = Sorted(Filtered(c.mounts, Others(M, b)) \o <<MountOf(b, w)>>, VolumeRank(M))
      BY <1>0, <1>1, <1>3, <2>3, MountsRebuilt
    <3>3. projectContainer(b, v, w).env
            = Sorted(Filtered(c.env, Staying(E, b, t))
                       \o (Rooting(Filtered(c.env, Staying(E, b, t))) \o AddedList(b)),
                     VariableRank(E, knownProjectedSecrets(v)))
      BY <1>0, <1>1, <2>3, VariablesRebuilt
    <3>4. isContainerBindable(b, w)
      BY <1>4, <2>3 DEF isContainerBindable
    <3> HIDE DEF w
    <3>5. projectContainer(b, v, w).name = w.name
      BY <1>4, <3>4, ProjectedContainer
    <3> QED
      BY <1>2, <1>4, <2>1, <2>2, <3>1, <3>2, <3>3, <3>5 DEF RebuiltVariables, Rebuilt, Added, u, p, c
  <2>4. CASE ~isContainerBindable(b, c)
    <3>1. ~Binds(b, c)
      BY <2>4 DEF Binds
    <3>2. ~isContainerBindable(b, w)
      BY <1>4, <2>4 DEF isContainerBindable
    <3> HIDE DEF w
    <3>3. projectContainer(b, v, w) = w
      BY <3>2 DEF projectContainer
    <3> QED
      BY <1>2, <1>4, <1>5, <2>1, <3>1, <3>3 DEF RebuiltVariables, Rebuilt, u, p, c
  <2> QED
    BY <2>3, <2>4
<1> QED
  BY <1>6, <1>7

----------------------------------------------------------------------------
(***************************************************************************)
(* The user's content.  It needs nothing of the instance: the annotations  *)
(* name secrets of bindings, and what lasts reads none of them.            *)
(***************************************************************************)
\* Unprojecting leaves the annotations of other bindings (cleanupAnnotations).
LEMMA UnprojectOwned ==
  ASSUME NEW b, NEW t, TemplateShape(t), AnnotationsOwned(t)
  PROVE  AnnotationsOwned(unproject(b, t))
<1> DEFINE u == unproject(b, t)
<1>1. DOMAIN u.annotations \subseteq DOMAIN t.annotations
      /\ \A a \in DOMAIN u.annotations : u.annotations[a] = t.annotations[a]
  BY UnprojectedTemplate
<1> HIDE DEF u
<1> QED
  BY <1>1 DEF AnnotationsOwned, u

\* Projecting sets annotations to what the version gives them (projectVolume).
LEMMA ProjectOwned ==
  ASSUME NEW b \in BindingVersions, NEW t, TemplateShape(t), AnnotationsOwned(t)
  PROVE  AnnotationsOwned(project(b, t))
<1> DEFINE u == unproject(b, t)
           p == project(b, t)
<1>1. AnnotationsOwned(u)
  BY UnprojectOwned
<1>2. CASE b.secret = Empty
  BY <1>1, <1>2 DEF project
<1>3. CASE b.secret # Empty
  <2>1. p.annotations = annotate(b, u.annotations)
    BY <1>3, VersionsAreValid, ProjectedTemplate
  <2> HIDE DEF u, p
  <2> SUFFICES ASSUME NEW a \in DOMAIN p.annotations, InGroup(a)
               PROVE  \E c \in BindingVersions :
                        /\ c.secret # Empty
                        /\ a \in ProjectedAnnotations(c)
                        /\ p.annotations[a] = AnnotationValue(c, a)
    BY DEF AnnotationsOwned, p
  <2>2. CASE a \in ProjectedAnnotations(b)
    BY <1>3, <2>1, <2>2 DEF annotate
  <2>3. CASE a \notin ProjectedAnnotations(b)
    <3>1. a \in DOMAIN u.annotations /\ p.annotations[a] = u.annotations[a]
      BY <2>1, <2>3 DEF annotate
    <3> QED
      BY <1>1, <3>1 DEF AnnotationsOwned
  <2> QED
    BY <2>2, <2>3
<1> QED
  BY <1>2, <1>3

\* The items of S that the user wrote.
UserItemsOf(S) == {x \in S : ~HasVolumePrefix(x.name)}
UserVariablesOf(S) == {e \in S : Lasting(e) /\ e.name # ServiceBindingRootEnv}
UserRootsOf(S) == {e \in S : Lasting(e) /\ e.name = ServiceBindingRootEnv}

\* The user's part of a list is a filter of it.
LEMMA UserPartsFiltered ==
  ASSUME NEW s, NEW S, Range(s) \subseteq S
  PROVE  /\ UserItems(s) = Filtered(s, UserItemsOf(S))
         /\ UserVariables(s) = Filtered(s, UserVariablesOf(S))
         /\ UserRoots(s) = Filtered(s, UserRootsOf(S))
<1>1. \A i \in DOMAIN s : s[i] \in S
  BY DEF Range
<1>2. UserItems(s) = Filtered(s, UserItemsOf(S))
  <2>1. {i \in DOMAIN s : ~HasVolumePrefix(s[i].name)} = {i \in DOMAIN s : s[i] \in UserItemsOf(S)}
    BY <1>1 DEF UserItemsOf
  <2> QED
    BY <2>1 DEF UserItems, Kept, Filtered, InPlace
<1>3. UserVariables(s) = Filtered(s, UserVariablesOf(S))
  <2>1. {i \in DOMAIN s : Lasting(s[i]) /\ s[i].name # ServiceBindingRootEnv}
          = {i \in DOMAIN s : s[i] \in UserVariablesOf(S)}
    BY <1>1 DEF UserVariablesOf
  <2> QED
    BY <2>1 DEF UserVariables, Kept, Filtered, InPlace
<1>4. UserRoots(s) = Filtered(s, UserRootsOf(S))
  <2>1. {i \in DOMAIN s : Lasting(s[i]) /\ s[i].name = ServiceBindingRootEnv}
          = {i \in DOMAIN s : s[i] \in UserRootsOf(S)}
    BY <1>1 DEF UserRootsOf
  <2> QED
    BY <2>1 DEF UserRoots, Kept, Filtered, InPlace
<1> QED
  BY <1>2, <1>3, <1>4

\* None of the variables that projecting adds, but the root, is the user's
\* (projectEnv).
LEMMA AddedDoNotLast ==
  ASSUME NEW b \in BindingVersions, NEW e \in VariablesOf(b)
  PROVE  ~Lasting(e)
<1>1. PICK i \in DOMAIN b.env : e = EnvVar(b, b.env[i])
  BY DEF VariablesOf
<1>2. \/ e.from = FieldRef(TypeAnnotationName(b))
      \/ e.from = FieldRef(ProviderAnnotationName(b))
      \/ e.from = SecretKeyRef(b.secret, b.env[i].key)
  BY <1>1 DEF EnvVar
<1>3. b.secret \in Secrets
  BY DEF Secrets
<1> QED
  BY <1>2, <1>3 DEF Lasting, IsSecretKeyRef, IsFieldRef, FieldRef, SecretKeyRef, InGroup,
                    TypeAnnotationName, ProviderAnnotationName

\* Projecting and unprojecting leave a container c the user's part it has, but
\* that the root may be added where there is none.
SameUserContainer(c, d) ==
  /\ UserItems(c.mounts) = UserItems(d.mounts)
  /\ UserVariables(c.env) = UserVariables(d.env)
  /\ \/ UserRoots(c.env) = UserRoots(d.env)
     \/ UserRoots(d.env) = <<>> /\ UserRoots(c.env) = <<RootVariable>>

SameUserPart(p, t) ==
  /\ Restrict(p.annotations, {a \in DOMAIN p.annotations : ~InGroup(a)})
       = Restrict(t.annotations, {a \in DOMAIN t.annotations : ~InGroup(a)})
  /\ UserItems(p.volumes) = UserItems(t.volumes)
  /\ DOMAIN p.containers = DOMAIN t.containers
  /\ \A i \in DOMAIN t.containers : SameUserContainer(p.containers[i], t.containers[i])

\* The names that the projector gives are its own.
LEMMA GroupNames ==
  \A b : /\ InGroup(SecretAnnotationName(b))
         /\ InGroup(TypeAnnotationName(b))
         /\ InGroup(ProviderAnnotationName(b))
         /\ HasVolumePrefix(VolumeName(b))
  BY DEF InGroup, SecretAnnotationName, TypeAnnotationName, ProviderAnnotationName,
         HasVolumePrefix, VolumeName

\* Unprojecting leaves the user's part (unproject).
LEMMA UnprojectLeaves ==
  ASSUME NEW b, NEW t, TemplateShape(t), AnnotationsOwned(t)
  PROVE  SameUserPart(unproject(b, t), t)
<1> DEFINE u == unproject(b, t)
           own == {SecretAnnotationName(b), TypeAnnotationName(b), ProviderAnnotationName(b)}
<1>1. /\ TemplateShape(u)
      /\ DOMAIN u.containers = DOMAIN t.containers
      /\ \A i \in DOMAIN t.containers : u.containers[i] = unprojectContainer(b, t, t.containers[i])
      /\ DOMAIN u.annotations = DOMAIN t.annotations \ own
      /\ \A a \in DOMAIN u.annotations : u.annotations[a] = t.annotations[a]
  BY UnprojectedTemplate
<1>2. UserItems(u.volumes) = UserItems(t.volumes)
  <2> DEFINE s == t.volumes
             S == Range(s)
             U == UserItemsOf(S)
             K == Others(S, b)
  <2>1. List(s)
    BY DEF TemplateShape
  <2>2. u.volumes = Filtered(s, K)
    BY UnprojectedRecord
  <2>3. K \cap U = U
    BY GroupNames DEF Others, UserItemsOf
  <2>4. Range(Filtered(s, K)) \subseteq S
    BY <2>1, FilteredList
  <2> HIDE DEF s, S, U, K, u
  <2>5. Filtered(Filtered(s, K), U) = Filtered(s, U)
    BY <2>1, <2>3, FilteredTwice
  <2> QED
    BY <2>2, <2>4, <2>5, UserPartsFiltered DEF s, S, U
<1>3. Restrict(u.annotations, {a \in DOMAIN u.annotations : ~InGroup(a)})
        = Restrict(t.annotations, {a \in DOMAIN t.annotations : ~InGroup(a)})
  <2> DEFINE A == {a \in DOMAIN u.annotations : ~InGroup(a)}
             B == {a \in DOMAIN t.annotations : ~InGroup(a)}
  <2>1. A = B
    BY <1>1, GroupNames
  <2>2. \A a \in A : u.annotations[a] = t.annotations[a]
    BY <1>1
  <2> HIDE DEF A, B, u
  <2> QED
    BY <2>1, <2>2 DEF Restrict, A, B
<1>4. ASSUME NEW i \in DOMAIN t.containers
      PROVE  SameUserContainer(u.containers[i], t.containers[i])
  <2> DEFINE c == t.containers[i]
             d == unprojectContainer(b, t, c)
  <2>1. ContainerShape(c) /\ u.containers[i] = d
    BY <1>1 DEF TemplateShape
  <2> HIDE DEF c, u
  <2>2. UserItems(d.mounts) = UserItems(c.mounts)
    <3> DEFINE s == c.mounts
               S == Range(s)
               U == UserItemsOf(S)
               K == Others(S, b)
    <3>1. List(s)
      BY <2>1 DEF ContainerShape
    <3>2. d.mounts = Filtered(s, K)
      BY <2>1, UnprojectedLists
    <3>3. K \cap U = U
      BY GroupNames DEF Others, UserItemsOf
    <3>4. Range(Filtered(s, K)) \subseteq S
      BY <3>1, FilteredList
    <3> HIDE DEF s, S, U, K, d
    <3>5. Filtered(Filtered(s, K), U) = Filtered(s, U)
      BY <3>1, <3>3, FilteredTwice
    <3> QED
      BY <3>2, <3>4, <3>5, UserPartsFiltered DEF s, S, U
  <2>3. UserVariables(d.env) = UserVariables(c.env) /\ UserRoots(d.env) = UserRoots(c.env)
    <3> DEFINE s == c.env
               S == Range(s)
               U == UserVariablesOf(S)
               R == UserRootsOf(S)
               K == Staying(S, b, t)
    <3>1. List(s)
      BY <2>1 DEF ContainerShape
    <3>2. d.env = Filtered(s, K)
      BY <2>1, UnprojectedLists
    <3>3. K \cap U = U /\ K \cap R = R
      BY LastingIsNotProjected DEF Staying, UserVariablesOf, UserRootsOf
    <3>4. Range(Filtered(s, K)) \subseteq S
      BY <3>1, FilteredList
    <3> HIDE DEF s, S, U, R, K, d
    <3>5. Filtered(Filtered(s, K), U) = Filtered(s, U) /\ Filtered(Filtered(s, K), R) = Filtered(s, R)
      BY <3>1, <3>3, FilteredTwice
    <3> QED
      BY <3>2, <3>4, <3>5, UserPartsFiltered DEF s, S, U, R
  <2> QED
    BY <2>1, <2>2, <2>3 DEF SameUserContainer, c
<1> QED
  BY <1>1, <1>2, <1>3, <1>4 DEF SameUserPart, u

\* What is added to volumes or mounts is not the user's.
LEMMA ItemsRebuilt ==
  ASSUME NEW b, NEW s, List(s), NEW x, x.name = VolumeName(b), NEW S, Ranked(S),
         Range(s) \subseteq S, x \in S, NEW adds
  PROVE  LET r == Rebuilt(s, Others(S, b), adds, <<x>>, VolumeRank(S))
         IN  Range(r) \subseteq S /\ Filtered(r, UserItemsOf(S)) = Filtered(s, UserItemsOf(S))
<1> DEFINE a == <<x>>
           K == Others(S, b)
           U == UserItemsOf(S)
           rank == VolumeRank(S)
           r == Rebuilt(s, K, adds, a, rank)
<1>1. List(a) /\ Range(a) = {x}
  BY OneIsListed
<1>2. \A v \in S : rank[v] \in Nat
  BY RanksAreNumbers
<1>3. U \subseteq K /\ \A v \in U : rank[v] = 0
  BY GroupNames DEF Others, UserItemsOf, VolumeRank
<1>4. x \notin U
  BY GroupNames DEF UserItemsOf
<1>5. K \subseteq S
  BY DEF Others
<1> HIDE DEF a, K, U, rank
<1>6. \A v \in Range(s) \cup Range(a) : rank[v] \in Nat
  BY <1>1, <1>2
<1>7. Range(r) \subseteq S
  BY <1>1, <1>5, <1>6, RebuiltList
<1>8. Filtered(a, U) = <<>>
  BY <1>1, <1>4, FilteredNone
<1>9. Filtered(r, U) = Extended(Filtered(s, U), adds, Filtered(a, U))
  <2>1. \A v \in U \cap (Range(s) \cup Range(a)) : rank[v] = 0
    BY <1>3
  <2> QED
    BY <1>1, <1>3, <1>6, <2>1, RebuiltBesides
<1>10. Filtered(s, U) \o <<>> = Filtered(s, U)
  BY FilteredList, NoneIsListed
<1> HIDE DEF r
<1> QED
  BY <1>7, <1>8, <1>9, <1>10 DEF Extended, a, K, U, rank, r

\* The variables of a container that a binding is projected into.
VariablesWith(c, b) == Range(c.env) \cup {RootVariable} \cup VariablesOf(b)

\* The root variable is one that lasts.
LEMMA RootVariableLasts == Lasting(RootVariable) /\ RootVariable.name = ServiceBindingRootEnv
  BY DEF Lasting, RootVariable, Value, IsSecretKeyRef, IsFieldRef

\* All of them have names.
LEMMA VariablesNamed ==
  ASSUME NEW b, IsVersion(b), NEW c, ContainerShape(c)
  PROVE  Named(VariablesWith(c, b))
<1>1. \A e \in VariablesOf(b) : e.name \in Nat
  BY DEF VariablesOf, EnvVar, IsVersion
<1>2. RootVariable.name \in Nat
  BY RootVariableLasts DEF ServiceBindingRootEnv
<1> QED
  BY <1>1, <1>2 DEF Named, VariablesWith, ContainerShape

\* What is added to variables is not the user's, but for the root (projectEnv).
LEMMA UserVariablesRebuilt ==
  ASSUME NEW b \in BindingVersions, NEW t, AnnotationsOwned(t), NEW p, AnnotationsOwned(p),
         NEW c, ContainerShape(c), NEW adds
  PROVE  LET E == VariablesWith(c, b)
             r == RebuiltVariables(E, b, t, c.env, adds, knownProjectedSecrets(p))
         IN  /\ UserVariables(r) = UserVariables(c.env)
             /\ \/ UserRoots(r) = UserRoots(c.env)
                \/ UserRoots(c.env) = <<>> /\ UserRoots(r) = <<RootVariable>>
<1> DEFINE E == VariablesWith(c, b)
           K == Staying(E, b, t)
           s == c.env
           stay == Filtered(s, K)
           root == Rooting(stay)
           added == AddedList(b)
           a == Added(root, added)
           rank == VariableRank(E, knownProjectedSecrets(p))
           r == Rebuilt(s, K, adds, a, rank)
           U == UserVariablesOf(E)
           R == UserRootsOf(E)
<1>1. List(s) /\ Range(s) \subseteq E
  BY DEF ContainerShape, VariablesWith
<1>2. List(root) /\ Range(root) \subseteq {RootVariable}
  BY RootingListed
<1>3. List(added) /\ Range(added) = VariablesOf(b)
  BY VersionsAreValid, VariablesAreListed DEF AddedList
<1>4. RootVariable \in E /\ VariablesOf(b) \subseteq E
  BY DEF VariablesWith
<1>5. \A e \in E : rank[e] \in Nat
  BY VersionsAreValid, VariablesNamed, RanksAreNumbers
<1>6. K \subseteq E /\ \A e \in E : Lasting(e) => e \in K /\ rank[e] = 0
  BY LastingIsNotProjected DEF Staying, VariableRank
<1>7. /\ U \subseteq E /\ R \subseteq E /\ \A e \in U \cup R : Lasting(e)
      /\ RootVariable \notin U /\ RootVariable \in R
      /\ \A e \in E : Lasting(e) /\ e.name = ServiceBindingRootEnv => e \in R
      /\ \A e \in R : e.name = ServiceBindingRootEnv
  BY <1>4, RootVariableLasts DEF UserVariablesOf, UserRootsOf
<1>8. \A e \in VariablesOf(b) : ~Lasting(e)
  BY AddedDoNotLast
<1>9. List(stay) /\ Range(stay) = Range(s) \cap K
  BY <1>1, FilteredList
<1>10. root = <<>> \/ (root = <<RootVariable>> /\ \A e \in Range(stay) : e.name # ServiceBindingRootEnv)
  BY DEF Rooting, Range
<1> HIDE DEF E, K, s, stay, root, added, rank, U, R
<1>11. List(a) /\ Range(a) = Range(root) \cup Range(added)
  BY <1>2, <1>3, AppendedItems DEF Added
<1>12. Filtered(a, U) = <<>>
  <2>1. Range(a) \cap U = {}
    BY <1>2, <1>3, <1>7, <1>8, <1>11
  <2> HIDE DEF a
  <2> QED
    BY <1>11, <2>1, FilteredNone
<1>13. Filtered(a, R) = root
  <2>1. Filtered(a, R) = Filtered(root, R) \o Filtered(added, R)
    BY <1>2, <1>3, FilteredConcatenation DEF Added
  <2>2. Filtered(root, R) = root
    BY <1>2, <1>7, FilteredWhole
  <2>3. Range(added) \cap R = {}
    BY <1>3, <1>7, <1>8
  <2>4. Filtered(added, R) = <<>>
    BY <1>3, <2>3, FilteredNone
  <2> QED
    BY <1>2, <2>1, <2>2, <2>4, NoneIsListed
<1> HIDE DEF a
<1>14. \A e \in Range(s) \cup Range(a) : e \in E /\ rank[e] \in Nat
  BY <1>1, <1>2, <1>3, <1>4, <1>5, <1>11
<1>15. Range(r) \subseteq E
  BY <1>1, <1>6, <1>11, <1>14, RebuiltList
<1>16. ASSUME NEW X, X \subseteq E, \A e \in X : Lasting(e)
       PROVE  Filtered(r, X) = Extended(Filtered(s, X), adds, Filtered(a, X))
  <2>1. X \subseteq K /\ \A e \in X \cap (Range(s) \cup Range(a)) : rank[e] = 0
    BY <1>6, <1>16
  <2> QED
    BY <1>1, <1>11, <1>14, <2>1, RebuiltBesides
<1> HIDE DEF r
<1>17. /\ UserVariables(r) = Filtered(r, U) /\ UserRoots(r) = Filtered(r, R)
       /\ UserVariables(s) = Filtered(s, U) /\ UserRoots(s) = Filtered(s, R)
  BY <1>1, <1>15, UserPartsFiltered DEF U, R
<1>18. List(Filtered(s, U)) /\ List(Filtered(s, R)) /\ Range(Filtered(s, R)) = Range(s) \cap R
  BY <1>1, FilteredList
<1>19. UserVariables(r) = UserVariables(s)
  BY <1>7, <1>12, <1>16, <1>17, <1>18, NoneIsListed DEF Extended
<1>20. UserRoots(r) = IF adds THEN Filtered(s, R) \o root ELSE Filtered(s, R)
  BY <1>7, <1>13, <1>16, <1>17 DEF Extended
<1>21. CASE root = <<>>
  BY <1>17, <1>18, <1>19, <1>20, <1>21, NoneIsListed DEF RebuiltVariables, r, E, K, s, stay, root, added, a, rank
<1>22. CASE root = <<RootVariable>> /\ \A e \in Range(stay) : e.name # ServiceBindingRootEnv
  <2>1. Range(s) \cap R = {}
    BY <1>6, <1>7, <1>9, <1>22
  <2>2. Filtered(s, R) = <<>>
    BY <1>1, <2>1, FilteredNone
  <2>3. <<>> \o <<RootVariable>> = <<RootVariable>>
    OBVIOUS
  <2>4. UserRoots(s) = <<>> /\ (UserRoots(r) = <<>> \/ UserRoots(r) = <<RootVariable>>)
    BY <1>17, <1>20, <1>22, <2>2, <2>3
  <2> QED
    BY <1>19, <2>4 DEF RebuiltVariables, r, E, K, s, stay, root, added, a, rank
<1> QED
  BY <1>10, <1>21, <1>22

\* Projecting leaves the user's part (project).
LEMMA ProjectLeaves ==
  ASSUME NEW b \in BindingVersions, NEW t, TemplateShape(t), AnnotationsOwned(t)
  PROVE  SameUserPart(project(b, t), t)
<1> DEFINE u == unproject(b, t)
           p == project(b, t)
<1>1. IsVersion(b)
  BY VersionsAreValid
<1>2. CASE b.secret = Empty
  BY <1>2, UnprojectLeaves DEF project
<1>3. CASE b.secret # Empty
  <2>1. DOMAIN p.containers = DOMAIN t.containers /\ p.annotations = annotate(b, u.annotations)
    BY <1>1, <1>3, ProjectedTemplate
  <2>2. AnnotationsOwned(p)
    BY ProjectOwned
  <2>3. SameUserPart(u, t)
    BY UnprojectLeaves
  <2>4. Restrict(p.annotations, {a \in DOMAIN p.annotations : ~InGroup(a)})
          = Restrict(u.annotations, {a \in DOMAIN u.annotations : ~InGroup(a)})
    <3> DEFINE A == {a \in DOMAIN p.annotations : ~InGroup(a)}
               B == {a \in DOMAIN u.annotations : ~InGroup(a)}
    <3>1. DOMAIN p.annotations = DOMAIN u.annotations \cup ProjectedAnnotations(b)
          /\ \A a \in DOMAIN u.annotations \ ProjectedAnnotations(b) :
               p.annotations[a] = u.annotations[a]
      BY <2>1 DEF annotate
    <3>2. \A a \in ProjectedAnnotations(b) : InGroup(a)
      BY NamesCarryUid, GroupNames
    <3> HIDE DEF p, u
    <3>3. A = B /\ \A a \in A : p.annotations[a] = u.annotations[a]
      BY <3>1, <3>2
    <3> HIDE DEF A, B
    <3> QED
      BY <3>3 DEF Restrict, A, B
  <2>5. UserItems(p.volumes) = UserItems(t.volumes)
    <3> DEFINE S == Range(t.volumes) \cup {VolumeOf(b)}
               x == VolumeOf(b)
    <3>1. Ranked(S) /\ x.name = VolumeName(b) /\ List(t.volumes)
      BY <1>1 DEF Ranked, TemplateShape, VolumeOf, VolumeName, IsVersion
    <3>2. Range(t.volumes) \subseteq S /\ x \in S
      OBVIOUS
    <3> HIDE DEF S, x
    <3>3. p.volumes = Rebuilt(t.volumes, Others(S, b), b.secret # Empty, <<x>>, VolumeRank(S))
      BY <1>1, <3>1, <3>2, VolumesRebuilt DEF x
    <3>4. Range(p.volumes) \subseteq S
          /\ Filtered(p.volumes, UserItemsOf(S)) = Filtered(t.volumes, UserItemsOf(S))
      BY <3>1, <3>2, <3>3, ItemsRebuilt
    <3> HIDE DEF p
    <3> QED
      BY <3>2, <3>4, UserPartsFiltered
  <2>6. ASSUME NEW i \in DOMAIN t.containers
        PROVE  SameUserContainer(p.containers[i], t.containers[i])
    <3> DEFINE c == t.containers[i]
               m == MountOf(b, u.containers[i])
               M == Range(c.mounts) \cup {m}
               E == VariablesWith(c, b)
               q == p.containers[i]
    <3>1. ContainerShape(c)
      BY DEF TemplateShape
    <3>2. Ranked(M) /\ m.name = VolumeName(b)
      BY <1>1, <3>1 DEF Ranked, ContainerShape, MountOf, VolumeName, IsVersion
    <3>3. Named(E)
      BY <1>1, <3>1, VariablesNamed
    <3>4. Range(c.mounts) \subseteq M /\ m \in M
      OBVIOUS
    <3>5. Range(c.env) \subseteq E /\ RootVariable \in E /\ VariablesOf(b) \subseteq E
      BY DEF VariablesWith
    <3> HIDE DEF M, E
    <3>6. /\ q.mounts = Rebuilt(c.mounts, Others(M, b), Binds(b, c), <<m>>, VolumeRank(M))
          /\ q.env = RebuiltVariables(E, b, t, c.env, Binds(b, c), knownProjectedSecrets(p))
      BY <1>1, <3>2, <3>3, <3>4, <3>5, ContainersRebuilt
    <3> HIDE DEF p, q, c, m
    <3>7. UserItems(q.mounts) = UserItems(c.mounts)
      <4>1. List(c.mounts)
        BY <3>1 DEF ContainerShape
      <4>2. Range(q.mounts) \subseteq M
            /\ Filtered(q.mounts, UserItemsOf(M)) = Filtered(c.mounts, UserItemsOf(M))
        BY <3>2, <3>4, <3>6, <4>1, ItemsRebuilt
      <4> QED
        BY <3>4, <4>2, UserPartsFiltered
    <3>8. /\ UserVariables(q.env) = UserVariables(c.env)
          /\ \/ UserRoots(q.env) = UserRoots(c.env)
             \/ UserRoots(c.env) = <<>> /\ UserRoots(q.env) = <<RootVariable>>
      BY <2>2, <3>1, <3>6, UserVariablesRebuilt DEF E
    <3> QED
      BY <3>7, <3>8 DEF SameUserContainer, q, c
  <2> QED
    BY <2>1, <2>3, <2>4, <2>5, <2>6 DEF SameUserPart, p
<1> QED
  BY <1>2, <1>3

\* A container c has what the user wrote in d, and the root perhaps.
ContainerContent(c, d) ==
  /\ UserItems(c.mounts) = d.mounts
  /\ UserVariables(c.env) = UserVariables(d.env)
  /\ UserRoots(c.env) \in {UserRoots(d.env), <<RootVariable>> \o UserRoots(d.env)}

Content(t, d) ==
  /\ Restrict(t.annotations, {a \in DOMAIN t.annotations : ~InGroup(a)}) = d.annotations
  /\ UserItems(t.volumes) = d.volumes
  /\ \A i \in DOMAIN d.containers : ContainerContent(t.containers[i], d.containers[i])

\* UserContentPreserved, with what it takes to be inductive.
ContentInv == AnnotationsOwned(template) /\ Content(template, base)

\* What the user wrote has the user's content (UserReplace).
LEMMA UserHasContent ==
  ASSUME NEW t, UserTemplate(t)
  PROVE  AnnotationsOwned(t) /\ Content(t, t)
<1>1. AnnotationsOwned(t)
  BY DEF UserTemplate, AnnotationsOwned
<1>2. Restrict(t.annotations, {a \in DOMAIN t.annotations : ~InGroup(a)}) = t.annotations
  <2> DEFINE A == {a \in DOMAIN t.annotations : ~InGroup(a)}
  <2>1. A = DOMAIN t.annotations
    BY DEF UserTemplate
  <2>2. t.annotations \in [DOMAIN t.annotations -> STRING]
    BY DEF UserTemplate
  <2> HIDE DEF A
  <2> QED
    BY <2>1, <2>2 DEF Restrict, A
<1>3. ASSUME NEW s, List(s), \A x \in Range(s) : ~HasVolumePrefix(x.name) PROVE UserItems(s) = s
  <2> DEFINE S == Range(s)
  <2>1. UserItems(s) = Filtered(s, UserItemsOf(S))
    BY UserPartsFiltered
  <2>2. Range(s) \subseteq UserItemsOf(S)
    BY <1>3 DEF UserItemsOf
  <2> HIDE DEF S
  <2> QED
    BY <1>3, <2>1, <2>2, FilteredWhole
<1>4. UserItems(t.volumes) = t.volumes
  BY <1>3 DEF UserTemplate
<1>5. ASSUME NEW i \in DOMAIN t.containers PROVE ContainerContent(t.containers[i], t.containers[i])
  <2>1. UserContainer(t.containers[i])
    BY DEF UserTemplate, Range
  <2> QED
    BY <1>3, <2>1 DEF UserContainer, ContainerContent
<1> QED
  BY <1>1, <1>2, <1>4, <1>5 DEF Content

\* Content is kept where the user's part is.
LEMMA ContentStays ==
  ASSUME NEW p, NEW t, NEW d, SameUserPart(p, t), Content(t, d),
         DOMAIN t.containers = DOMAIN d.containers,
         \A i \in DOMAIN d.containers : List(d.containers[i].env)
  PROVE  Content(p, d)
<1>1. ASSUME NEW i \in DOMAIN d.containers PROVE ContainerContent(p.containers[i], d.containers[i])
  <2> DEFINE c == t.containers[i]
             q == p.containers[i]
             e == d.containers[i]
             s == UserRoots(e.env)
  <2>1. SameUserContainer(q, c) /\ ContainerContent(c, e)
    BY DEF SameUserPart, Content
  <2>2. List(s)
    <3>1. List(e.env)
      OBVIOUS
    <3>2. s = Filtered(e.env, UserRootsOf(Range(e.env)))
      BY UserPartsFiltered
    <3> QED
      BY <3>1, <3>2, FilteredList
  <2> SUFFICES ContainerContent(q, e)
    OBVIOUS
  <2> HIDE DEF c, q, e
  <2>3. CASE UserRoots(q.env) = UserRoots(c.env)
    BY <2>1, <2>3 DEF SameUserContainer, ContainerContent
  <2>4. CASE UserRoots(c.env) = <<>> /\ UserRoots(q.env) = <<RootVariable>>
    <3> HIDE DEF s
    <3>1. s = <<>> \/ <<RootVariable>> \o s = <<>>
      BY <2>1, <2>4 DEF ContainerContent, s
    <3>2. <<RootVariable>> \o s # <<>>
      <4> DEFINE T == Range(s) \cup {RootVariable}
      <4>1. s \in Seq(T) /\ <<RootVariable>> \in Seq(T) /\ Len(s) \in Nat
        BY <2>2 DEF List
      <4> HIDE DEF T
      <4>2. Len(<<RootVariable>> \o s) = 1 + Len(s)
        BY <4>1
      <4> QED
        BY <4>1, <4>2
    <3>3. <<RootVariable>> \o <<>> = <<RootVariable>>
      OBVIOUS
    <3>4. UserRoots(q.env) = <<RootVariable>> \o s
      BY <2>4, <3>1, <3>2, <3>3
    <3> QED
      BY <2>1, <3>4 DEF SameUserContainer, ContainerContent, s
  <2> QED
    BY <2>1, <2>3, <2>4 DEF SameUserContainer
<1> QED
  BY <1>1 DEF SameUserPart, Content

\* A variable the user adds is added to the content (UserAppend).
LEMMA AppendedContent ==
  ASSUME NEW c, NEW d, List(c.env), List(d.env), ContainerContent(c, d), NEW e,
         NEW q, q.mounts = c.mounts, q.env = Append(c.env, e),
         NEW f, f.mounts = d.mounts, f.env = Append(d.env, e)
  PROVE  ContainerContent(q, f)
<1> DEFINE S == Range(c.env) \cup Range(d.env) \cup {e}
           U == UserVariablesOf(S)
           R == UserRootsOf(S)
           x == <<e>>
<1>1. List(x) /\ Range(x) = {e}
  BY OneIsListed
<1>2. q.env = c.env \o x /\ f.env = d.env \o x
  BY AppendedIsConcatenated
<1> HIDE DEF x
<1>3. Range(q.env) \subseteq S /\ Range(f.env) \subseteq S
  <2>1. Range(c.env \o x) = Range(c.env) \cup Range(x) /\ Range(d.env \o x) = Range(d.env) \cup Range(x)
    BY <1>1, AppendedItems
  <2> QED
    BY <1>1, <1>2, <2>1
<1>4. Range(c.env) \subseteq S /\ Range(d.env) \subseteq S
  OBVIOUS
<1> HIDE DEF S
<1>5. ASSUME NEW X
      PROVE  Filtered(q.env, X) = Filtered(c.env, X) \o Filtered(x, X)
             /\ Filtered(f.env, X) = Filtered(d.env, X) \o Filtered(x, X)
  BY <1>1, <1>2, FilteredConcatenation
<1>6. /\ UserVariables(q.env) = Filtered(q.env, U) /\ UserRoots(q.env) = Filtered(q.env, R)
      /\ UserVariables(f.env) = Filtered(f.env, U) /\ UserRoots(f.env) = Filtered(f.env, R)
  BY <1>3, UserPartsFiltered
<1>7. /\ UserVariables(c.env) = Filtered(c.env, U) /\ UserRoots(c.env) = Filtered(c.env, R)
      /\ UserVariables(d.env) = Filtered(d.env, U) /\ UserRoots(d.env) = Filtered(d.env, R)
  BY <1>4, UserPartsFiltered
<1> HIDE DEF U, R
<1>8. UserVariables(q.env) = UserVariables(f.env)
  BY <1>5, <1>6, <1>7 DEF ContainerContent
<1>9. UserRoots(q.env) \in {UserRoots(f.env), <<RootVariable>> \o UserRoots(f.env)}
  <2> DEFINE r == <<RootVariable>>
             y == Filtered(d.env, R)
             z == Filtered(x, R)
  <2>1. List(r) /\ List(y) /\ List(z)
    BY <1>1, OneIsListed, FilteredList
  <2>2. Filtered(c.env, R) = y \/ Filtered(c.env, R) = r \o y
    BY <1>7 DEF ContainerContent
  <2>3. UserRoots(q.env) = Filtered(c.env, R) \o z /\ UserRoots(f.env) = y \o z
    <3>1. Filtered(q.env, R) = Filtered(c.env, R) \o z
      BY <1>1, <1>2, FilteredConcatenation
    <3>2. Filtered(f.env, R) = y \o z
      BY <1>1, <1>2, FilteredConcatenation
    <3> QED
      BY <1>6, <3>1, <3>2
  <2> HIDE DEF r, y, z
  <2>4. (r \o y) \o z = r \o (y \o z)
    <3> DEFINE T == Range(r) \cup Range(y) \cup Range(z)
    <3>1. r \in Seq(T) /\ y \in Seq(T) /\ z \in Seq(T)
      BY <2>1 DEF List
    <3> HIDE DEF T
    <3> QED
      BY <3>1
  <2>5. UserRoots(q.env) = UserRoots(f.env) \/ UserRoots(q.env) = r \o UserRoots(f.env)
    BY <2>2, <2>3, <2>4
  <2> QED
    BY <2>5 DEF r
<1> QED
  BY <1>8, <1>9 DEF ContainerContent

\* Every step of the projector and of the user keeps the content.
LEMMA NextContentInv ==
  ASSUME WorkloadInv, ContentInv, [Next]_vars
  PROVE  ContentInv'
<1>1. /\ TemplateShape(template)
      /\ DOMAIN template.containers = DOMAIN base.containers
      /\ \A i \in DOMAIN base.containers : UserContainer(base.containers[i])
      /\ DOMAIN base = {"annotations", "containers", "volumes"}
  BY DEF WorkloadInv, SameContainers, UserTemplate, Range
<1>2. \A i \in DOMAIN base.containers : List(base.containers[i].env)
  BY <1>1 DEF UserContainer
<1>3. ASSUME NEW b \in BindingVersions, Project(b) PROVE ContentInv'
  <2>1. template' = project(b, template) /\ base' = base
    BY <1>3 DEF Project
  <2>2. AnnotationsOwned(project(b, template)) /\ SameUserPart(project(b, template), template)
    BY <1>1, ProjectOwned, ProjectLeaves DEF ContentInv
  <2>3. Content(project(b, template), base)
    BY <1>1, <1>2, <2>2, ContentStays DEF ContentInv
  <2> QED
    BY <2>1, <2>2, <2>3 DEF ContentInv
<1>4. ASSUME NEW b \in BindingVersions, Unproject(b) PROVE ContentInv'
  <2>1. template' = unproject(b, template) /\ base' = base
    BY <1>4 DEF Unproject
  <2>2. AnnotationsOwned(unproject(b, template)) /\ SameUserPart(unproject(b, template), template)
    BY <1>1, UnprojectOwned, UnprojectLeaves DEF ContentInv
  <2>3. Content(unproject(b, template), base)
    BY <1>1, <1>2, <2>2, ContentStays DEF ContentInv
  <2> QED
    BY <2>1, <2>2, <2>3 DEF ContentInv
<1>5. ASSUME NEW t \in UserTemplates, UserReplace(t) PROVE ContentInv'
  BY <1>5, UserTemplatesAssumption, UserHasContent DEF ContentInv, UserReplace
<1>6. ASSUME NEW i \in DOMAIN base.containers, NEW e \in UserEnv, UserAppend(i, e)
      PROVE  ContentInv'
  <2>1. HasAppended(base, i, e, base')
    BY <1>1, <1>6, AppendedVariable DEF UserAppend, UserContainer
  <2>2. HasAppended(template, i, e, template')
    BY <1>1, <1>6, AppendedVariable DEF UserAppend, TemplateShape, ContainerShape
  <2>3. ContainerContent(template'.containers[i], base'.containers[i])
    <3>1. ContainerContent(template.containers[i], base.containers[i])
      BY DEF ContentInv, Content
    <3>2. List(template.containers[i].env) /\ List(base.containers[i].env)
      BY <1>1, <1>2 DEF TemplateShape, ContainerShape
    <3> DEFINE c == template.containers[i]
               d == base.containers[i]
               q == template'.containers[i]
               f == base'.containers[i]
    <3>3. q.mounts = c.mounts /\ q.env = Append(c.env, e) /\ f.mounts = d.mounts /\ f.env = Append(d.env, e)
      BY <2>1, <2>2 DEF HasAppended
    <3>4. List(c.env) /\ List(d.env) /\ ContainerContent(c, d)
      BY <3>1, <3>2
    <3> HIDE DEF c, d, q, f
    <3>5. ContainerContent(q, f)
      BY <3>3, <3>4, AppendedContent
    <3> QED
      BY <3>5 DEF q, f
  <2>4. \A j \in DOMAIN base'.containers : ContainerContent(template'.containers[j], base'.containers[j])
    BY <1>1, <2>1, <2>2, <2>3 DEF HasAppended, ContentInv, Content
  <2>5. AnnotationsOwned(template')
    BY <2>2 DEF HasAppended, ContentInv, AnnotationsOwned
  <2>6. Content(template', base')
    BY <2>1, <2>2, <2>4 DEF HasAppended, ContentInv, Content
  <2> QED
    BY <2>5, <2>6 DEF ContentInv
<1>7. CASE UNCHANGED vars
  BY <1>7 DEF vars, ContentInv
<1> QED
  BY <1>3, <1>4, <1>5, <1>6, <1>7 DEF Next

\* Whatever is projected and unprojected, in whatever versions and order, what the
\* user wrote stays in the template and in the order it was written; all that a
\* container may be left with is one root variable ahead of the user's own
\* (project, unproject).
THEOREM UserContentStays == Spec => []UserContentPreserved
<1>1. Init => ContentInv
  BY UserTemplatesAssumption, UserHasContent DEF Init, ContentInv
<1>2. WorkloadInv /\ ContentInv /\ [Next]_vars => ContentInv'
  BY NextContentInv
<1>3. ContentInv => UserContentPreserved
  BY DEF ContentInv, Content, ContainerContent, UserContentPreserved, RootVariable
<1> QED
  BY <1>1, <1>2, <1>3, WorkloadInvariant, PTL DEF Spec

----------------------------------------------------------------------------
(***************************************************************************)
(* Projecting once more.  The binding's items go and come back, and the    *)
(* sort finds every other item where it was.                               *)
(***************************************************************************)
\* A volume or mount that is rebuilt once more is the same.
LEMMA ItemsRebuiltAgain ==
  ASSUME NEW b, NEW s, List(s), NEW x, x.name = VolumeName(b), NEW S, Ranked(S),
         Range(s) \subseteq S, x \in S, NEW adds
  PROVE  LET r == Rebuilt(s, Others(S, b), adds, <<x>>, VolumeRank(S))
         IN  Rebuilt(r, Others(S, b), adds, <<x>>, VolumeRank(S)) = r
<1> DEFINE a == <<x>>
           none == <<>>
           K == Others(S, b)
           rank == VolumeRank(S)
<1>1. List(a) /\ Range(a) = {x}
  BY OneIsListed
<1>2. List(none) /\ Range(none) = {} /\ Added(none, a) = a
  BY NoneIsListed DEF Added
<1>3. \A v \in S : rank[v] \in Nat
  BY RanksAreNumbers
<1>4. x \notin K
  BY DEF Others
<1> HIDE DEF a, none, K, rank
<1>5. \A v \in Range(s) \cup Range(none) \cup Range(a) : rank[v] \in Nat
  BY <1>1, <1>2, <1>3
<1>6. Range(s) \cap K \subseteq K /\ Range(none) \subseteq K /\ Range(a) \cap K = {}
  BY <1>1, <1>2, <1>4
<1>7. Rebuilt(Rebuilt(s, K, adds, Added(none, a), rank), K, adds, a, rank)
        = Rebuilt(s, K, adds, Added(none, a), rank)
  BY <1>1, <1>2, <1>5, <1>6, RebuiltAgain
<1> QED
  BY <1>2, <1>7 DEF a, K, rank

\* The secret that the annotation of a binding names, if it has one (unprojectEnv).
SecretOf(b, t) ==
  IF SecretAnnotationName(b) \in DOMAIN t.annotations
    THEN t.annotations[SecretAnnotationName(b)] ELSE Empty

\* What Project makes of the annotations.
LEMMA AnnotationsRebuilt ==
  ASSUME NEW b, IsVersion(b), NEW t, TemplateShape(t)
  PROVE  LET p == project(b, t)
             own == {SecretAnnotationName(b), TypeAnnotationName(b), ProviderAnnotationName(b)}
             set == IF b.secret # Empty THEN ProjectedAnnotations(b) ELSE {}
         IN  /\ p.annotations = [a \in (DOMAIN t.annotations \ own) \cup set |->
                                   IF a \in set THEN AnnotationValue(b, a) ELSE t.annotations[a]]
             /\ set \subseteq own
             /\ SecretOf(b, p) = b.secret
<1> DEFINE p == project(b, t)
           u == unproject(b, t)
           own == {SecretAnnotationName(b), TypeAnnotationName(b), ProviderAnnotationName(b)}
           set == IF b.secret # Empty THEN ProjectedAnnotations(b) ELSE {}
<1>1. u.annotations = [a \in DOMAIN t.annotations \ own |-> t.annotations[a]]
  BY UnprojectedRecord DEF Restrict
<1>2. set \subseteq own
  BY NamesCarryUid
<1>3. CASE b.secret = Empty
  <2>1. p = u /\ set = {}
    BY <1>3 DEF project
  <2>2. SecretAnnotationName(b) \notin DOMAIN u.annotations
    BY <1>1
  <2> HIDE DEF u, p, own
  <2>3. SecretOf(b, p) = b.secret
    BY <1>3, <2>1, <2>2 DEF SecretOf
  <2>4. p.annotations = [a \in (DOMAIN t.annotations \ own) \cup {} |->
                           IF a \in {} THEN AnnotationValue(b, a) ELSE t.annotations[a]]
    BY <1>1, <2>1
  <2> QED
    BY <1>2, <2>1, <2>3, <2>4 DEF p, own
<1>4. CASE b.secret # Empty
  <2>1. p.annotations = annotate(b, u.annotations) /\ set = ProjectedAnnotations(b)
    BY <1>4, ProjectedTemplate
  <2>2. SecretAnnotationName(b) \in ProjectedAnnotations(b)
        /\ AnnotationValue(b, SecretAnnotationName(b)) = b.secret
    BY DEF ProjectedAnnotations, AnnotationValue, SecretAnnotationName
  <2> HIDE DEF p, u, own, set
  <2>3. p.annotations = [a \in (DOMAIN t.annotations \ own) \cup set |->
                           IF a \in set THEN AnnotationValue(b, a) ELSE t.annotations[a]]
    BY <1>1, <2>1 DEF annotate
  <2>4. SecretOf(b, p) = b.secret
    BY <2>1, <2>2, <2>3 DEF SecretOf
  <2> QED
    BY <1>2, <2>3, <2>4 DEF p, own, set
<1> QED
  BY <1>3, <1>4

\* Which variables stay depends on the secret that the annotation names.
LEMMA StaysBySecret ==
  ASSUME NEW b, NEW t, NEW e
  PROVE  StaysVariable(b, t, e) <=>
           /\ ~(IsSecretKeyRef(e) /\ e.from[2] = SecretOf(b, t))
           /\ ~(IsFieldRef(e) /\ e.from[2] \in {TypeAnnotationName(b), ProviderAnnotationName(b)})
  BY DEF StaysVariable, SecretOf

\* A binding's variables are those that its next projection takes out.
LEMMA AddedVariablesGo ==
  ASSUME NEW b, NEW p, SecretOf(b, p) = b.secret, NEW e \in VariablesOf(b)
  PROVE  ~StaysVariable(b, p, e)
<1>1. PICK i \in DOMAIN b.env : e = EnvVar(b, b.env[i])
  BY DEF VariablesOf
<1>2. \/ e.from = FieldRef(TypeAnnotationName(b))
      \/ e.from = FieldRef(ProviderAnnotationName(b))
      \/ e.from = SecretKeyRef(b.secret, b.env[i].key)
  BY <1>1 DEF EnvVar
<1> QED
  BY <1>2, StaysBySecret DEF IsSecretKeyRef, IsFieldRef, FieldRef, SecretKeyRef

\* The annotation names the secret that the variables of c read (SecretsKnown).
SecretsKnownIn(c, b, t) ==
  \A e \in Range(c.env) : IsSecretKeyRef(e) =>
    e.from[2] # Empty /\ (e.from[2] = b.secret => SecretOf(b, t) = b.secret)

\* Variables that are rebuilt once more are the same: the binding's own go and
\* come back, the root is there by now.
LEMMA VariablesRebuiltAgain ==
  ASSUME NEW b, IsVersion(b), NEW t, NEW p, SecretOf(b, p) = b.secret,
         NEW c, ContainerShape(c), SecretsKnownIn(c, b, t), NEW adds, NEW secrets,
         NEW r, r = RebuiltVariables(VariablesWith(c, b), b, t, c.env, adds, secrets)
  PROVE  /\ Range(r) \subseteq VariablesWith(c, b)
         /\ RebuiltVariables(VariablesWith(c, b), b, p, r, adds, secrets) = r
<1> DEFINE E == VariablesWith(c, b)
           K == Staying(E, b, t)
           L == Staying(E, b, p)
           rank == VariableRank(E, secrets)
           s == c.env
           stay == Filtered(s, K)
           root == Rooting(stay)
           added == AddedList(b)
           a == Added(root, added)
           again == Rooting(Filtered(r, L))
<1>1. List(s) /\ Range(s) \subseteq E
  BY DEF ContainerShape, VariablesWith
<1>2. List(root) /\ Range(root) \subseteq {RootVariable}
  BY RootingListed
<1>3. List(added) /\ Range(added) = VariablesOf(b)
  BY VariablesAreListed DEF AddedList
<1>4. RootVariable \in E /\ VariablesOf(b) \subseteq E
  BY DEF VariablesWith
<1>5. \A e \in E : rank[e] \in Nat
  BY VariablesNamed, RanksAreNumbers
<1>6. K \subseteq E /\ L \subseteq E
  BY DEF Staying
<1>7. RootVariable \in L /\ RootVariable.name = ServiceBindingRootEnv
  <2>1. ~IsSecretKeyRef(RootVariable) /\ ~IsFieldRef(RootVariable)
    BY DEF RootVariable, Value, IsSecretKeyRef, IsFieldRef
  <2> QED
    BY <1>4, <2>1, StaysBySecret, RootVariableLasts DEF Staying
<1>8. VariablesOf(b) \cap L = {}
  BY AddedVariablesGo DEF Staying
<1>9. Range(s) \cap K \subseteq L
  <2> SUFFICES ASSUME NEW e \in Range(s), e \in K PROVE e \in L
    OBVIOUS
  <2>1. StaysVariable(b, t, e) /\ e \in E
    BY DEF Staying
  <2>2. IsSecretKeyRef(e) => e.from[2] # b.secret
    BY <2>1, StaysBySecret DEF SecretsKnownIn
  <2>3. StaysVariable(b, p, e)
    BY <2>1, <2>2, StaysBySecret
  <2> QED
    BY <2>1, <2>3 DEF Staying
<1>10. List(stay) /\ Range(stay) = Range(s) \cap K
  BY <1>1, FilteredList
<1>11. root = <<RootVariable>> \/ \E e \in Range(stay) : e.name = ServiceBindingRootEnv
  BY DEF Rooting, Range
<1>12. Range(root) = {RootVariable} \/ \E e \in Range(stay) : e.name = ServiceBindingRootEnv
  BY <1>11, OneIsListed
<1>0. r = Rebuilt(s, K, adds, a, rank)
  BY DEF RebuiltVariables
<1> HIDE DEF E, K, L, rank, s, stay, root, added
<1>13. List(a) /\ Range(a) = Range(root) \cup Range(added)
  BY <1>2, <1>3, AppendedItems DEF Added
<1>14. \A e \in Range(s) \cup Range(root) \cup Range(added) : e \in E /\ rank[e] \in Nat
  BY <1>1, <1>2, <1>3, <1>4, <1>5
<1>15. Rebuilt(Rebuilt(s, K, adds, Added(root, added), rank), L, adds, added, rank)
         = Rebuilt(s, K, adds, Added(root, added), rank)
  <2>1. Range(root) \subseteq L /\ Range(added) \cap L = {}
    BY <1>2, <1>3, <1>7, <1>8
  <2> QED
    BY <1>1, <1>2, <1>3, <1>9, <1>14, <2>1, RebuiltAgain
<1> HIDE DEF a
<1>16. /\ List(r)
       /\ adds => Range(r) = (Range(s) \cap K) \cup Range(a)
       /\ ~adds => Range(r) = Range(s) \cap K
  BY <1>0, <1>1, <1>13, <1>14, RebuiltList
<1>17. Rebuilt(r, L, adds, added, rank) = r
  BY <1>0, <1>15 DEF a
<1>18. Range(r) \subseteq E
  BY <1>6, <1>13, <1>14, <1>16
<1>19. CASE adds
  <2>1. Range(Filtered(r, L)) = Range(r) \cap L
    BY <1>16, FilteredList
  <2>2. \E e \in Range(Filtered(r, L)) : e.name = ServiceBindingRootEnv
    BY <1>7, <1>9, <1>10, <1>12, <1>13, <1>16, <1>19, <2>1
  <2>3. again = <<>>
    BY <2>2 DEF Rooting, Range
  <2>4. Added(<<>>, added) = added
    <3> DEFINE T == Range(added)
    <3>1. added \in Seq(T)
      BY <1>3 DEF List
    <3> HIDE DEF T
    <3> QED
      BY <3>1 DEF Added
  <2> HIDE DEF again
  <2>5. Rebuilt(r, L, adds, Added(again, added), rank) = r
    BY <1>17, <2>3, <2>4
  <2> QED
    BY <1>18, <2>5 DEF RebuiltVariables, again, added, E, L, rank
<1>20. CASE ~adds
  <2>1. Rebuilt(r, L, adds, Added(again, added), rank) = r
    BY <1>17, <1>20 DEF Rebuilt
  <2> QED
    BY <1>18, <2>1 DEF RebuiltVariables, again, added, E, L, rank
<1> QED
  BY <1>19, <1>20

\* A projection gives a template, as records (project).
LEMMA ProjectGivesRecord ==
  ASSUME NEW b, IsVersion(b), NEW t, TemplateShape(t)
  PROVE  LET p == project(b, t)
         IN  /\ TemplateShape(p) /\ TemplateRecord(p)
             /\ DOMAIN p.containers = DOMAIN t.containers
             /\ \A i \in DOMAIN t.containers : p.containers[i].name = t.containers[i].name
<1> DEFINE p == project(b, t)
           u == unproject(b, t)
<1>1. /\ TemplateShape(u) /\ TemplateRecord(u) /\ DOMAIN u.containers = DOMAIN t.containers
      /\ \A i \in DOMAIN t.containers : u.containers[i] = unprojectContainer(b, t, t.containers[i])
  <2>1. TemplateRecord(u)
    BY UnprojectedRecord
  <2> QED
    BY <2>1, UnprojectedTemplate
<1>2. \A i \in DOMAIN t.containers : u.containers[i].name = t.containers[i].name
  BY <1>1, UnprojectedContainer DEF TemplateShape
<1>3. CASE b.secret = Empty
  BY <1>1, <1>2, <1>3 DEF project
<1>4. CASE b.secret # Empty
  <2> DEFINE v == projectVolume(b, u)
  <2>1. /\ TemplateShape(p) /\ TemplateRecord(p)
        /\ DOMAIN p.containers = DOMAIN t.containers
        /\ \A i \in DOMAIN t.containers : p.containers[i] = projectContainer(b, v, u.containers[i])
    BY <1>4, ProjectedTemplate, ProjectedRecord
  <2> HIDE DEF p, u, v
  <2>2. ASSUME NEW i \in DOMAIN t.containers PROVE p.containers[i].name = t.containers[i].name
    <3>1. ContainerShape(u.containers[i])
      BY <1>1 DEF TemplateShape
    <3>2. projectContainer(b, v, u.containers[i]).name = u.containers[i].name
      <4>1. CASE isContainerBindable(b, u.containers[i])
        BY <3>1, <4>1, ProjectedContainer
      <4>2. CASE ~isContainerBindable(b, u.containers[i])
        BY <4>2 DEF projectContainer
      <4> QED
        BY <4>1, <4>2
    <3> QED
      BY <1>2, <2>1, <3>2
  <2> QED
    BY <2>1, <2>2 DEF p
<1> QED
  BY <1>3, <1>4

\* The mount is the same in whatever accounted template the binding is projected
\* into: the root of a container stays (serviceBindingRoot).
LEMMA MountsAgree ==
  ASSUME NEW b, NEW t, TemplateShape(t), NEW d, DOMAIN t.containers = DOMAIN d.containers,
         Accounted(t, d), NEW i \in DOMAIN d.containers
  PROVE  MountOf(b, unproject(b, t).containers[i])
           = MountOf(b, d.containers[i])
<1> DEFINE u == unproject(b, t)
<1>1. Accounted(u, d)
  BY UnprojectAccounted
<1>2. TemplateShape(u) /\ i \in DOMAIN u.containers
  BY UnprojectedTemplate
<1> HIDE DEF u
<1> DEFINE env == u.containers[i].env
<1>3. Rooted(env, RootValue(d.containers[i].env))
  BY <1>1 DEF Accounted, RootsKept
<1>4. DOMAIN env \subseteq Nat
  BY <1>2 DEF TemplateShape, ContainerShape, List
<1> HIDE DEF env
<1>5. RootValue(env) = RootValue(d.containers[i].env)
  BY <1>3, <1>4, RootedValue
<1> QED
  BY <1>5 DEF MountOf, env, u

\* An accounted template knows the secrets that its variables read.
LEMMA SecretsAreKnown ==
  ASSUME NEW t, SecretsKnown(t), NEW i \in DOMAIN t.containers, NEW b \in BindingVersions
  PROVE  SecretsKnownIn(t.containers[i], b, t)
  BY DEF SecretsKnown, SecretsKnownIn, SecretOf

\* Projecting a binding twice is projecting it once (project).
LEMMA ProjectAgain ==
  ASSUME Apart, NEW b \in BindingVersions, NEW t, TemplateShape(t), NEW d,
         DOMAIN t.containers = DOMAIN d.containers, Accounted(t, d)
  PROVE  project(b, project(b, t)) = project(b, t)
<1> DEFINE p == project(b, t)
           q == project(b, p)
<1>1. IsVersion(b)
  BY VersionsAreValid
<1>2. /\ TemplateShape(p) /\ TemplateRecord(p) /\ DOMAIN p.containers = DOMAIN t.containers
      /\ \A i \in DOMAIN t.containers : p.containers[i].name = t.containers[i].name
  BY <1>1, ProjectGivesRecord
<1>3. Accounted(p, d)
  BY ProjectAccounted
<1>4. SecretOf(b, p) = b.secret
  BY <1>1, AnnotationsRebuilt
<1>5. q.annotations = p.annotations
  <2> DEFINE own == {SecretAnnotationName(b), TypeAnnotationName(b), ProviderAnnotationName(b)}
             set == IF b.secret # Empty THEN ProjectedAnnotations(b) ELSE {}
             value(a) == AnnotationValue(b, a)
  <2>1. /\ p.annotations = [a \in (DOMAIN t.annotations \ own) \cup set |->
                              IF a \in set THEN value(a) ELSE t.annotations[a]]
        /\ set \subseteq own
    BY <1>1, AnnotationsRebuilt
  <2> HIDE DEF p
  <2>2. q.annotations = [a \in (DOMAIN p.annotations \ own) \cup set |->
                           IF a \in set THEN value(a) ELSE p.annotations[a]]
    BY <1>1, <1>2, AnnotationsRebuilt
  <2> HIDE DEF q, own, set, value
  <2> DEFINE D == (DOMAIN t.annotations \ own) \cup set
  <2>3. (DOMAIN p.annotations \ own) \cup set = D
    BY <2>1
  <2>4. q.annotations = [a \in D |-> IF a \in set THEN value(a) ELSE p.annotations[a]]
    BY <2>2, <2>3
  <2>5. \A a \in D : p.annotations[a] = IF a \in set THEN value(a) ELSE t.annotations[a]
    BY <2>1
  <2> QED
    BY <2>1, <2>4, <2>5
<1>6. q.volumes = p.volumes
  <2> DEFINE s == t.volumes
             x == VolumeOf(b)
             S == Range(s) \cup {x}
             K == Others(S, b)
             rank == VolumeRank(S)
             adds == b.secret # Empty
  <2>1. List(s) /\ Ranked(S) /\ x.name = VolumeName(b)
    BY <1>1 DEF Ranked, TemplateShape, VolumeOf, VolumeName, IsVersion
  <2>2. Range(s) \subseteq S /\ x \in S
    OBVIOUS
  <2> HIDE DEF S, x
  <2>3. p.volumes = Rebuilt(s, K, adds, <<x>>, rank)
    BY <1>1, <2>1, <2>2, VolumesRebuilt DEF x
  <2> HIDE DEF s
  <2>4. Range(p.volumes) \subseteq S
    BY <2>1, <2>2, <2>3, ItemsRebuilt
  <2> HIDE DEF p
  <2>5. q.volumes = Rebuilt(p.volumes, K, adds, <<x>>, rank)
    BY <1>1, <1>2, <2>1, <2>2, <2>4, VolumesRebuilt DEF x
  <2>6. Rebuilt(Rebuilt(s, K, adds, <<x>>, rank), K, adds, <<x>>, rank)
          = Rebuilt(s, K, adds, <<x>>, rank)
    BY <2>1, <2>2, ItemsRebuiltAgain
  <2> QED
    BY <2>3, <2>5, <2>6
<1>7. /\ TemplateRecord(q) /\ DOMAIN q.containers = DOMAIN p.containers
      /\ \A i \in DOMAIN p.containers : q.containers[i].name = p.containers[i].name
  BY <1>1, <1>2, ProjectGivesRecord
<1>8. ASSUME NEW i \in DOMAIN t.containers
      PROVE  /\ q.containers[i].mounts = p.containers[i].mounts
             /\ q.containers[i].env = p.containers[i].env
  <2> DEFINE c == t.containers[i]
             f == p.containers[i]
             m == MountOf(b, d.containers[i])
             M == Range(c.mounts) \cup {m}
             N == Others(M, b)
             E == VariablesWith(c, b)
             adds == Binds(b, c)
             rank == VolumeRank(M)
             secrets == knownProjectedSecrets(p)
  <2>1. ContainerShape(c) /\ f.name = c.name
    BY <1>2 DEF TemplateShape
  <2>2. MountOf(b, unproject(b, t).containers[i]) = m /\ MountOf(b, unproject(b, p).containers[i]) = m
    <3> HIDE DEF p
    <3> QED
      BY <1>2, <1>3, MountsAgree
  <2>3. Ranked(M) /\ m.name = VolumeName(b) /\ List(c.mounts)
    BY <1>1, <2>1 DEF Ranked, ContainerShape, MountOf, VolumeName, IsVersion
  <2>4. Named(E)
    BY <1>1, <2>1, VariablesNamed
  <2>5. Range(c.mounts) \subseteq M /\ m \in M
    OBVIOUS
  <2>6. Range(c.env) \subseteq E /\ RootVariable \in E /\ VariablesOf(b) \subseteq E
    BY DEF VariablesWith
  <2>7. SecretsKnownIn(c, b, t)
    BY SecretsAreKnown DEF Accounted
  <2>8. Binds(b, f) <=> adds
    BY <2>1 DEF Binds, isContainerBindable
  <2>9. knownProjectedSecrets(q) = knownProjectedSecrets(p)
    BY <1>5 DEF knownProjectedSecrets
  <2> HIDE DEF m, M, E
  <2>10. /\ f.mounts = Rebuilt(c.mounts, N, adds, <<m>>, rank)
         /\ f.env = RebuiltVariables(E, b, t, c.env, adds, secrets)
    BY <1>1, <2>2, <2>3, <2>4, <2>5, <2>6, ContainersRebuilt
  <2> HIDE DEF c, p
  <2>11. Range(f.mounts) \subseteq M
    BY <2>3, <2>5, <2>10, ItemsRebuilt
  <2>12. /\ Range(f.env) \subseteq E
         /\ RebuiltVariables(E, b, p, f.env, adds, secrets) = f.env
    <3>1. f.env = RebuiltVariables(VariablesWith(c, b), b, t, c.env, adds, secrets)
      BY <2>10 DEF E
    <3> HIDE DEF f, adds, secrets
    <3> QED
      BY <1>1, <1>4, <2>1, <2>7, <3>1, VariablesRebuiltAgain DEF E
  <2>13. Rebuilt(f.mounts, N, adds, <<m>>, rank) = f.mounts
    BY <2>3, <2>5, <2>10, ItemsRebuiltAgain
  <2>14. /\ q.containers[i].mounts = Rebuilt(f.mounts, N, Binds(b, f), <<m>>, rank)
         /\ q.containers[i].env = RebuiltVariables(E, b, p, f.env, Binds(b, f), secrets)
    <3>1. TemplateShape(p) /\ i \in DOMAIN p.containers /\ MountOf(b, unproject(b, p).containers[i]) \in M
      BY <1>2, <2>2, <2>5
    <3>2. /\ q.containers[i].mounts
               = Rebuilt(f.mounts, N, Binds(b, f), <<MountOf(b, unproject(b, p).containers[i])>>, rank)
          /\ q.containers[i].env
               = RebuiltVariables(E, b, p, f.env, Binds(b, f), knownProjectedSecrets(q))
      BY <1>1, <2>3, <2>4, <2>6, <2>11, <2>12, <3>1, ContainersRebuilt
    <3> QED
      BY <2>2, <2>9, <3>2
  <2> HIDE DEF f
  <2>15. CASE adds
    BY <2>8, <2>12, <2>13, <2>14, <2>15 DEF RebuiltVariables, Rebuilt, f
  <2>16. CASE ~adds
    BY <2>8, <2>12, <2>13, <2>14, <2>16 DEF RebuiltVariables, Rebuilt, f
  <2> QED
    BY <2>15, <2>16
<1> HIDE DEF p, q
<1>9. q = p
  BY <1>2, <1>5, <1>6, <1>7, <1>8, TemplatesAgree
<1> QED
  BY <1>9 DEF p, q

\* Where the bindings share no secret, a projection that is repeated changes
\* nothing, whatever version is there and whatever else was projected (project).
THEOREM ProjectionIsIdempotent ==
  ASSUME Apart
  PROVE  Spec => []Idempotent
<1>1. WorkloadInv /\ FactsInv => Idempotent
  <2> SUFFICES ASSUME WorkloadInv, FactsInv PROVE Idempotent
    OBVIOUS
  <2>1. TemplateShape(template) /\ DOMAIN template.containers = DOMAIN base.containers
        /\ Accounted(template, base)
    BY DEF WorkloadInv, SameContainers, FactsInv
  <2> QED
    BY <2>1, ProjectAgain DEF Idempotent
<1> QED
  BY <1>1, WorkloadInvariant, FactsInvariant, PTL

----------------------------------------------------------------------------
(***************************************************************************)
(* Projecting two bindings.  Both orders come to one sort of what stays of *)
(* both, the root and the items of both, whose ranks differ.               *)
(***************************************************************************)
\* Blocks whose ranks have nothing in common may be added in either order.
LEMMA AddedSwapped ==
  ASSUME NEW s, List(s), NEW a, List(a), NEW c, List(c), NEW rank,
         \A x \in Range(s) \cup Range(a) \cup Range(c) : rank[x] \in Nat,
         \A x \in Range(a), z \in Range(c) : rank[x] # rank[z]
  PROVE  Sorted(Added(Added(s, a), c), rank) = Sorted(Added(Added(s, c), a), rank)
  BY SortedSwapped DEF Added

\* Volumes and mounts of two bindings may be added in either order.
LEMMA ItemsCommute ==
  ASSUME NEW b, IsVersion(b), NEW c, IsVersion(c), b.uid # c.uid,
         NEW s, List(s), NEW x, x.name = VolumeName(b), NEW y, y.name = VolumeName(c),
         NEW S, Ranked(S), Range(s) \subseteq S, x \in S, y \in S, NEW f, NEW g
  PROVE  LET rank == VolumeRank(S)
         IN  Rebuilt(Rebuilt(s, Others(S, c), g, <<y>>, rank), Others(S, b), f, <<x>>, rank)
               = Rebuilt(Rebuilt(s, Others(S, b), f, <<x>>, rank), Others(S, c), g, <<y>>, rank)
<1> DEFINE rank == VolumeRank(S)
           K == Others(S, c)
           L == Others(S, b)
           d == <<x>>
           a == <<y>>
           cb == Rebuilt(Rebuilt(s, K, g, a, rank), L, f, d, rank)
           bc == Rebuilt(Rebuilt(s, L, f, d, rank), K, g, a, rank)
           stay == Filtered(s, K \cap L)
<1>1. List(a) /\ Range(a) = {y} /\ List(d) /\ Range(d) = {x}
  BY OneIsListed
<1>2. \A v \in S : rank[v] \in Nat
  BY RanksAreNumbers
<1>3. y \in L /\ x \in K
  BY NamesDiffer DEF Others
<1>4. rank[x] = b.uid + 1 /\ rank[y] = c.uid + 1 /\ b.uid \in Nat /\ c.uid \in Nat
  <2>1. HasVolumePrefix(x.name) /\ HasVolumePrefix(y.name)
    BY GroupNames
  <2>2. x.name[2] = b.uid /\ y.name[2] = c.uid
    BY DEF VolumeName
  <2> QED
    BY <2>1, <2>2 DEF VolumeRank, IsVersion
<1>5. rank[y] # rank[x]
  BY <1>4
<1>6. K \cap L = L \cap K
  OBVIOUS
<1> HIDE DEF rank, K, L, d, a
<1>7. \A v \in Range(s) \cup Range(a) \cup Range(d) : rank[v] \in Nat
  BY <1>1, <1>2
<1>8. Range(a) \subseteq L /\ Range(d) \subseteq K
  BY <1>1, <1>3
<1>9. SortedOnce(cb, stay, g, a, f, d, rank)
  BY <1>1, <1>7, <1>8, RebuiltTwice
<1>10. SortedOnce(bc, stay, f, d, g, a, rank)
  BY <1>1, <1>6, <1>7, <1>8, RebuiltTwice
<1>11. List(stay) /\ Range(stay) \subseteq Range(s)
  BY FilteredList
<1> HIDE DEF stay, cb, bc
<1>12. Sorted(Added(Added(stay, a), d), rank) = Sorted(Added(Added(stay, d), a), rank)
  <2>1. \A v \in Range(stay) \cup Range(a) \cup Range(d) : rank[v] \in Nat
    BY <1>7, <1>11
  <2>2. \A v \in Range(a), w \in Range(d) : rank[v] # rank[w]
    BY <1>1, <1>5
  <2> QED
    BY <1>1, <1>11, <2>1, <2>2, AddedSwapped
<1>13. cb = bc
  BY <1>9, <1>10, <1>12 DEF SortedOnce
<1> QED
  BY <1>13 DEF cb, bc, a, d, K, L, rank

\* Whether a container has a root does not depend on what is projected: the root
\* lasts (serviceBindingRoot).
LEMMA RootingStays ==
  ASSUME NEW s, List(s), NEW value, Rooted(s, value),
         NEW X, \A e \in Range(s) : Lasting(e) => e \in X
  PROVE  /\ Rooting(Filtered(s, X)) = Rooting(s)
         /\ \/ Rooting(s) = <<RootVariable>>
            \/ \E e \in Range(s) : Lasting(e) /\ e.name = ServiceBindingRootEnv
<1> DEFINE y == Filtered(s, X)
<1>1. List(y) /\ Range(y) = Range(s) \cap X
  BY FilteredList
<1>2. \/ \A e \in Range(s) : e.name # ServiceBindingRootEnv
      \/ \E e \in Range(s) : Lasting(e) /\ e.name = ServiceBindingRootEnv
  BY DEF Rooted, FirstRoot, Range
<1> HIDE DEF y
<1>3. CASE \A e \in Range(s) : e.name # ServiceBindingRootEnv
  <2>1. \A e \in Range(y) : e.name # ServiceBindingRootEnv
    BY <1>1, <1>3
  <2>2. Rooting(s) = <<RootVariable>>
    BY <1>3 DEF Rooting, Range
  <2>3. Rooting(y) = <<RootVariable>>
    BY <2>1 DEF Rooting, Range
  <2> QED
    BY <2>2, <2>3 DEF y
<1>4. CASE \E e \in Range(s) : Lasting(e) /\ e.name = ServiceBindingRootEnv
  <2>1. \E e \in Range(y) : e.name = ServiceBindingRootEnv
    BY <1>1, <1>4
  <2>2. Rooting(s) = <<>>
    BY <1>4 DEF Rooting, Range
  <2>3. Rooting(y) = <<>>
    BY <2>1 DEF Rooting, Range
  <2> QED
    BY <1>4, <2>2, <2>3 DEF y
<1> QED
  BY <1>2, <1>3, <1>4

\* Adding is associative, and adding nothing ahead changes nothing.
LEMMA AddedLists ==
  ASSUME NEW s, List(s), NEW a, List(a), NEW c, List(c)
  PROVE  /\ List(Added(a, c)) /\ Range(Added(a, c)) = Range(a) \cup Range(c)
         /\ Added(s, Added(a, c)) = Added(Added(s, a), c)
         /\ Added(<<>>, a) = a
<1>1. Added(<<>>, a) = a
  <2> DEFINE T == Range(a)
  <2>1. a \in Seq(T)
    BY DEF List
  <2> HIDE DEF T
  <2> QED
    BY <2>1 DEF Added
<1> QED
  BY <1>1, AppendedItems, ConcatenationsAssociate DEF Added

\* A rank for which it makes no difference what secrets are known.
AlikeKnown(S, old, new) == \A e \in S : isProjectedEnv(e, old) <=> isProjectedEnv(e, new)

\* The variables s after c and then b were projected, each if it binds the
\* container: those that stay of both, the root if there was none, and the
\* variables of both, sorted once.
VariablesOnce(E, b, c, t, s, r, first, second, new) ==
  LET stay == Filtered(s, Staying(E, c, t) \cap Staying(E, b, t))
  IN  /\ first \/ second => SortedOnce(r, Added(stay, Rooting(s)), first, AddedList(c),
                                       second, AddedList(b), VariableRank(E, new))
      /\ ~first /\ ~second => r = stay

\* The first projection leaves nothing that the second takes out or ranks anew.
Undisturbed(E, b, c, t, s, old, new) ==
  /\ VariablesOf(c) \subseteq Staying(E, b, t)
  /\ AlikeKnown((Range(s) \cap Staying(E, c, t) \cap Staying(E, b, t)) \cup VariablesOf(c), old, new)

\* Variables that are rebuilt for c and then for b (projectEnv, unprojectEnv).
LEMMA VariablesTwice ==
  ASSUME NEW b, IsVersion(b), NEW c, IsVersion(c), NEW t, AnnotationsOwned(t),
         NEW p, SecretOf(b, p) = SecretOf(b, t),
         NEW s, List(s), NEW value, Rooted(s, value),
         NEW E, Named(E), Range(s) \subseteq E, RootVariable \in E,
         VariablesOf(b) \subseteq E, VariablesOf(c) \subseteq E,
         NEW first, NEW second, NEW old, NEW new,
         first => Undisturbed(E, b, c, t, s, old, new)
  PROVE  VariablesOnce(E, b, c, t, s,
           RebuiltVariables(E, b, p, RebuiltVariables(E, c, t, s, first, old), second, new),
           first, second, new)
<1> DEFINE K == Staying(E, c, t)
           L == Staying(E, b, t)
           rank == VariableRank(E, old)
           other == VariableRank(E, new)
           root == Rooting(s)
           ac == AddedList(c)
           ab == AddedList(b)
           a == Added(root, ac)
           w == Rebuilt(s, K, first, a, rank)
           again == Rooting(Filtered(w, L))
           z == Added(again, ab)
           r == Rebuilt(w, L, second, z, other)
           stay == Filtered(s, K \cap L)
<1>1. \A e \in E : Lasting(e) => e \in K /\ e \in L
  BY LastingIsNotProjected DEF Staying
<1>2. Rooting(Filtered(s, K)) = root
      /\ (root = <<RootVariable>> \/ \E e \in Range(s) : Lasting(e) /\ e.name = ServiceBindingRootEnv)
  <2>1. \A e \in Range(s) : Lasting(e) => e \in K
    BY <1>1
  <2> HIDE DEF K
  <2> QED
    BY <2>1, RootingStays
<1>3. Rooting(stay) = root
  <2> DEFINE X == K \cap L
  <2>1. \A e \in Range(s) : Lasting(e) => e \in X
    BY <1>1
  <2> HIDE DEF X
  <2>2. Rooting(Filtered(s, X)) = root
    BY <2>1, RootingStays
  <2> QED
    BY <2>2 DEF X
<1>4. Staying(E, b, p) = L
  BY StaysBySecret DEF Staying
<1>5. r = RebuiltVariables(E, b, p, RebuiltVariables(E, c, t, s, first, old), second, new)
  <2>1. RebuiltVariables(E, c, t, s, first, old) = w
    BY <1>2 DEF RebuiltVariables
  <2> HIDE DEF w
  <2> QED
    BY <1>4, <2>1 DEF RebuiltVariables
<1>6. List(ac) /\ Range(ac) = VariablesOf(c) /\ List(ab) /\ Range(ab) = VariablesOf(b)
  BY VariablesAreListed DEF AddedList
<1>7. List(root) /\ Range(root) \subseteq {RootVariable} /\ List(again) /\ Range(again) \subseteq {RootVariable}
  BY RootingListed
<1>8. \A e \in E : rank[e] \in Nat /\ other[e] \in Nat
  BY RanksAreNumbers
<1>9. K \subseteq E /\ L \subseteq E /\ RootVariable \in K /\ RootVariable \in L
      /\ RootVariable.name = ServiceBindingRootEnv
  BY <1>1, RootVariableLasts DEF Staying
<1>10. \A e \in E : (isProjectedEnv(e, old) <=> isProjectedEnv(e, new)) => rank[e] = other[e]
  BY DEF VariableRank
<1>11. ~isProjectedEnv(RootVariable, old) /\ ~isProjectedEnv(RootVariable, new)
  BY DEF isProjectedEnv, RootVariable, Value, IsSecretKeyRef, IsFieldRef
<1>12. root = <<RootVariable>> => Range(root) = {RootVariable}
  BY OneIsListed
<1>13. first => Range(ac) \subseteq L
  BY <1>6 DEF Undisturbed
<1>14. first => \A e \in (Range(s) \cap K \cap L) \cup Range(ac) :
                  isProjectedEnv(e, old) <=> isProjectedEnv(e, new)
  BY <1>6 DEF Undisturbed, AlikeKnown
<1> SUFFICES /\ first \/ second => SortedOnce(r, Added(stay, root), first, ac, second, ab, other)
             /\ ~first /\ ~second => r = stay
  BY <1>5 DEF VariablesOnce
<1> HIDE DEF K, L, rank, other, root, ac, ab, again
<1>15. List(a) /\ Range(a) = Range(root) \cup Range(ac)
  BY <1>6, <1>7, AddedLists
<1>16. List(z) /\ Range(z) = Range(again) \cup Range(ab)
  BY <1>6, <1>7, AddedLists
<1> HIDE DEF a, z
<1>17. \A e \in Range(s) \cup Range(a) \cup Range(z) : e \in E /\ rank[e] \in Nat /\ other[e] \in Nat
  BY <1>6, <1>7, <1>8, <1>15, <1>16
<1>18. first => Range(a) \subseteq L
  BY <1>7, <1>9, <1>13, <1>15
<1>19. first => \A e \in (Range(s) \cap K \cap L) \cup Range(a) : rank[e] = other[e]
  <2> SUFFICES ASSUME first, NEW e \in (Range(s) \cap K \cap L) \cup Range(a)
               PROVE  rank[e] = other[e]
    OBVIOUS
  <2>1. e \in E
    BY <1>17
  <2>2. isProjectedEnv(e, old) <=> isProjectedEnv(e, new)
    BY <1>7, <1>11, <1>14, <1>15
  <2> QED
    BY <1>10, <2>1, <2>2
<1>20. SortedOnce(r, stay, first, a, second, z, other)
  BY <1>15, <1>16, <1>17, <1>18, <1>19, RebuiltTwice
<1>21. List(stay)
  BY FilteredList
<1>22. CASE first
  <2>0. \A e \in Range(s) \cup Range(a) : rank[e] \in Nat
    BY <1>17
  <2>1. Range(w) = (Range(s) \cap K) \cup Range(a) /\ List(w)
    <3>1. List(w) /\ (first => Range(w) = (Range(s) \cap K) \cup Range(a))
      BY <1>15, <2>0, RebuiltList
    <3> QED
      BY <1>22, <3>1
  <2> HIDE DEF w
  <2>2. Range(Filtered(w, L)) = Range(w) \cap L
    BY <2>1, FilteredList
  <2>3. \E e \in Range(Filtered(w, L)) : e.name = ServiceBindingRootEnv
    <3>1. CASE root = <<RootVariable>>
      BY <1>9, <1>12, <1>15, <2>1, <2>2, <3>1
    <3>2. CASE \E e \in Range(s) : Lasting(e) /\ e.name = ServiceBindingRootEnv
      BY <1>1, <2>1, <2>2, <3>2
    <3> QED
      BY <1>2, <3>1, <3>2
  <2>4. again = <<>>
    BY <2>3 DEF Rooting, Range, again
  <2>5. z = ab
    BY <1>6, <2>4, AddedLists DEF z
  <2> HIDE DEF stay
  <2>6. Added(stay, a) = Added(Added(stay, root), ac)
    BY <1>6, <1>7, <1>21, AddedLists DEF a
  <2> HIDE DEF r
  <2> QED
    BY <1>20, <1>22, <2>5, <2>6 DEF SortedOnce
<1>23. CASE ~first
  <2>1. w = Filtered(s, K)
    BY <1>23 DEF Rebuilt
  <2>2. Filtered(w, L) = stay
    BY <2>1, FilteredTwice
  <2>3. again = root
    BY <1>3, <2>2 DEF again
  <2> HIDE DEF stay, w
  <2>4. Added(stay, z) = Added(Added(stay, root), ab)
    BY <1>6, <1>7, <1>21, <2>3, AddedLists DEF z
  <2> HIDE DEF r
  <2> QED
    BY <1>20, <1>23, <2>4 DEF SortedOnce
<1> QED
  BY <1>22, <1>23

\* The annotations of two bindings have nothing in common, so that they may be
\* set in either order (annotate, cleanupAnnotations).
LEMMA AnnotationsCommute ==
  ASSUME NEW b, IsVersion(b), NEW c, IsVersion(c), b.uid # c.uid, NEW t, TemplateShape(t)
  PROVE  project(b, project(c, t)).annotations = project(c, project(b, t)).annotations
<1> DEFINE p == project(c, t)
           q == project(b, t)
           pb == project(b, p)
           qc == project(c, q)
           ob == {SecretAnnotationName(b), TypeAnnotationName(b), ProviderAnnotationName(b)}
           oc == {SecretAnnotationName(c), TypeAnnotationName(c), ProviderAnnotationName(c)}
           sb == IF b.secret # Empty THEN ProjectedAnnotations(b) ELSE {}
           sc == IF c.secret # Empty THEN ProjectedAnnotations(c) ELSE {}
           vb(a) == AnnotationValue(b, a)
           vc(a) == AnnotationValue(c, a)
           D == DOMAIN t.annotations
<1>1. ob \cap oc = {}
  BY NamesDiffer
<1>2. /\ p.annotations = [a \in (D \ oc) \cup sc |-> IF a \in sc THEN vc(a) ELSE t.annotations[a]]
      /\ sc \subseteq oc
  BY AnnotationsRebuilt
<1>3. /\ q.annotations = [a \in (D \ ob) \cup sb |-> IF a \in sb THEN vb(a) ELSE t.annotations[a]]
      /\ sb \subseteq ob
  BY AnnotationsRebuilt
<1>4. TemplateShape(p) /\ TemplateShape(q)
  BY ProjectGivesRecord
<1> HIDE DEF p, q
<1>5. pb.annotations = [a \in (DOMAIN p.annotations \ ob) \cup sb |->
                          IF a \in sb THEN vb(a) ELSE p.annotations[a]]
  BY <1>4, AnnotationsRebuilt
<1>6. qc.annotations = [a \in (DOMAIN q.annotations \ oc) \cup sc |->
                          IF a \in sc THEN vc(a) ELSE q.annotations[a]]
  BY <1>4, AnnotationsRebuilt
<1> HIDE DEF pb, qc, ob, oc, sb, sc, vb, vc, D
<1> DEFINE all == (((D \ oc) \ ob) \cup sb) \cup sc
           value(a) == IF a \in sb THEN vb(a) ELSE IF a \in sc THEN vc(a) ELSE t.annotations[a]
<1>7. DOMAIN p.annotations = (D \ oc) \cup sc /\ DOMAIN q.annotations = (D \ ob) \cup sb
  BY <1>2, <1>3
<1>8. (DOMAIN p.annotations \ ob) \cup sb = all /\ (DOMAIN q.annotations \ oc) \cup sc = all
  BY <1>1, <1>2, <1>3, <1>7
<1> HIDE DEF all
<1>9. pb.annotations = [a \in all |-> value(a)]
  <2>1. pb.annotations = [a \in all |-> IF a \in sb THEN vb(a) ELSE p.annotations[a]]
    BY <1>5, <1>8
  <2>2. \A a \in all : a \notin sb => p.annotations[a] = IF a \in sc THEN vc(a) ELSE t.annotations[a]
    BY <1>2, <1>7, <1>8
  <2> QED
    BY <2>1, <2>2
<1>10. qc.annotations = [a \in all |-> value(a)]
  <2>1. qc.annotations = [a \in all |-> IF a \in sc THEN vc(a) ELSE q.annotations[a]]
    BY <1>6, <1>8
  <2>2. \A a \in all : a \notin sc => q.annotations[a] = IF a \in sb THEN vb(a) ELSE t.annotations[a]
    BY <1>3, <1>7, <1>8
  <2>3. \A a \in all : a \in sc => a \notin sb
    BY <1>1, <1>2, <1>3
  <2> QED
    BY <2>1, <2>2, <2>3
<1> QED
  BY <1>9, <1>10 DEF pb, qc, p, q

\* Projecting c leaves the secret that the annotation of b names, and whether a
\* secret is known that neither c has nor its annotation named.
LEMMA SecretsStay ==
  ASSUME NEW c, IsVersion(c), NEW t, TemplateShape(t)
  PROVE  LET p == project(c, t)
         IN  /\ \A b : b.uid # c.uid => SecretOf(b, p) = SecretOf(b, t)
             /\ c.secret # Empty => c.secret \in knownProjectedSecrets(p)
             /\ \A x : x # c.secret /\ x # SecretOf(c, t) =>
                  (x \in knownProjectedSecrets(t) <=> x \in knownProjectedSecrets(p))
<1> DEFINE p == project(c, t)
           own == {SecretAnnotationName(c), TypeAnnotationName(c), ProviderAnnotationName(c)}
           set == IF c.secret # Empty THEN ProjectedAnnotations(c) ELSE {}
           value(a) == AnnotationValue(c, a)
           D == DOMAIN t.annotations
           name == SecretAnnotationName(c)
<1>1. /\ p.annotations = [a \in (D \ own) \cup set |-> IF a \in set THEN value(a) ELSE t.annotations[a]]
      /\ set \subseteq own
      /\ SecretOf(c, p) = c.secret
  BY AnnotationsRebuilt
<1>2. \A b : b.uid # c.uid => SecretAnnotationName(b) \notin own
  BY NamesDiffer
<1>3. \A a \in own : a[1] = "secret" => a = name
  BY DEF SecretAnnotationName, TypeAnnotationName, ProviderAnnotationName
<1>4. value(name) = c.secret /\ name[1] = "secret"
  BY DEF AnnotationValue, SecretAnnotationName
<1>5. SecretOf(c, t) = IF name \in D THEN t.annotations[name] ELSE Empty
  BY DEF SecretOf
<1>6. SecretOf(c, p) = IF name \in DOMAIN p.annotations THEN p.annotations[name] ELSE Empty
  BY DEF SecretOf
<1> HIDE DEF p, own, set, value, D
<1>7. /\ DOMAIN p.annotations = (D \ own) \cup set
      /\ \A a \in set : p.annotations[a] = value(a)
      /\ \A a \in D \ own : p.annotations[a] = t.annotations[a]
  BY <1>1
<1>8. ASSUME NEW b, b.uid # c.uid PROVE SecretOf(b, p) = SecretOf(b, t)
  <2>1. SecretAnnotationName(b) \notin own
    BY <1>2, <1>8
  <2>2. SecretAnnotationName(b) \in DOMAIN p.annotations <=> SecretAnnotationName(b) \in D
    BY <1>1, <1>7, <2>1
  <2> QED
    BY <1>7, <2>1, <2>2 DEF SecretOf, D
<1>9. ASSUME c.secret # Empty PROVE c.secret \in knownProjectedSecrets(p)
  <2>1. name \in DOMAIN p.annotations /\ p.annotations[name] = c.secret
    BY <1>1, <1>6, <1>9
  <2> QED
    BY <1>4, <2>1 DEF knownProjectedSecrets
<1>10. ASSUME NEW x, x # c.secret, x # SecretOf(c, t)
       PROVE  x \in knownProjectedSecrets(t) <=> x \in knownProjectedSecrets(p)
  <2>1. ASSUME x \in knownProjectedSecrets(t) PROVE x \in knownProjectedSecrets(p)
    <3>1. PICK a \in D : a[1] = "secret" /\ t.annotations[a] = x
      BY <2>1 DEF knownProjectedSecrets, D
    <3>2. a \notin own
      BY <1>3, <1>5, <1>10, <3>1
    <3> QED
      BY <1>7, <3>1, <3>2 DEF knownProjectedSecrets
  <2>2. ASSUME x \in knownProjectedSecrets(p) PROVE x \in knownProjectedSecrets(t)
    <3>1. PICK a \in DOMAIN p.annotations : a[1] = "secret" /\ p.annotations[a] = x
      BY <2>2 DEF knownProjectedSecrets
    <3>2. a \notin set
      BY <1>1, <1>3, <1>4, <1>7, <1>10, <3>1
    <3> QED
      BY <1>7, <3>1, <3>2 DEF knownProjectedSecrets, D
  <2> QED
    BY <2>1, <2>2
<1> QED
  BY <1>8, <1>9, <1>10 DEF p

\* Where the bindings share no secret, projecting b leaves the variables of c,
\* which read another secret than the annotation of b names (unprojectEnv).
LEMMA OthersStay ==
  ASSUME Apart, NEW b \in BindingVersions, NEW c \in BindingVersions, b.uid # c.uid,
         c.secret # Empty, NEW t, AnnotationsOwned(t)
  PROVE  /\ c.secret # b.secret /\ c.secret # SecretOf(b, t)
         /\ \A e \in VariablesOf(c) : StaysVariable(b, t, e)
<1>1. c.secret # b.secret
  BY DEF Apart
<1>2. c.secret # SecretOf(b, t)
  <2> SUFFICES ASSUME c.secret = SecretOf(b, t) PROVE FALSE
    OBVIOUS
  <2> DEFINE name == SecretAnnotationName(b)
  <2>1. name \in DOMAIN t.annotations /\ t.annotations[name] = c.secret
    BY DEF SecretOf
  <2>2. InGroup(name) /\ name[1] = "secret" /\ name[2] = b.uid
    BY DEF InGroup, SecretAnnotationName
  <2>3. PICK x \in BindingVersions :
          name \in ProjectedAnnotations(x) /\ t.annotations[name] = AnnotationValue(x, name)
    BY <2>1, <2>2 DEF AnnotationsOwned
  <2>4. x.uid = b.uid
    BY <2>2, <2>3, NamesCarryUid
  <2>5. x.secret = c.secret
    BY <2>1, <2>2, <2>3 DEF AnnotationValue
  <2> QED
    BY <2>4, <2>5 DEF Apart
<1>3. ASSUME NEW e \in VariablesOf(c) PROVE StaysVariable(b, t, e)
  <2>1. PICK i \in DOMAIN c.env : e = EnvVar(c, c.env[i])
    BY DEF VariablesOf
  <2>2. \/ e.from = FieldRef(TypeAnnotationName(c))
        \/ e.from = FieldRef(ProviderAnnotationName(c))
        \/ e.from = SecretKeyRef(c.secret, c.env[i].key)
    BY <2>1 DEF EnvVar
  <2>3. CASE e.from = SecretKeyRef(c.secret, c.env[i].key)
    BY <1>2, <2>3, StaysBySecret DEF IsSecretKeyRef, IsFieldRef, SecretKeyRef
  <2>4. ASSUME NEW a, a \in {TypeAnnotationName(c), ProviderAnnotationName(c)}, e.from = FieldRef(a)
        PROVE  StaysVariable(b, t, e)
    <3>1. a \notin {TypeAnnotationName(b), ProviderAnnotationName(b)}
      BY <2>4, NamesDiffer
    <3> QED
      BY <2>4, <3>1, StaysBySecret DEF IsSecretKeyRef, IsFieldRef, FieldRef
  <2> QED
    BY <2>2, <2>3, <2>4
<1> QED
  BY <1>1, <1>2, <1>3

\* A binding's variables are sorted by their names once its secret is known.
LEMMA AddedAreRanked ==
  ASSUME NEW b, NEW secrets, b.secret \in secrets, NEW E, VariablesOf(b) \subseteq E
  PROVE  \A e \in VariablesOf(b) :
           \E i \in DOMAIN b.env : VariableRank(E, secrets)[e] = b.env[i].name + 1
<1> SUFFICES ASSUME NEW e \in VariablesOf(b)
             PROVE  \E i \in DOMAIN b.env : VariableRank(E, secrets)[e] = b.env[i].name + 1
  OBVIOUS
<1>1. PICK i \in DOMAIN b.env : e = EnvVar(b, b.env[i])
  BY DEF VariablesOf
<1>2. e.name = b.env[i].name
  BY <1>1 DEF EnvVar
<1>3. \/ e.from = FieldRef(TypeAnnotationName(b))
      \/ e.from = FieldRef(ProviderAnnotationName(b))
      \/ e.from = SecretKeyRef(b.secret, b.env[i].key)
  BY <1>1 DEF EnvVar
<1>4. isProjectedEnv(e, secrets)
  BY <1>3, GroupNames DEF isProjectedEnv, IsSecretKeyRef, IsFieldRef, SecretKeyRef, FieldRef
<1> QED
  BY <1>2, <1>4 DEF VariableRank

\* Projecting b does not change which of the variables that stay, or that c added,
\* count as projected (knownProjectedSecrets).
LEMMA KnownAlike ==
  ASSUME Apart, NEW b \in BindingVersions, NEW c \in BindingVersions, b.uid # c.uid,
         c.secret # Empty, NEW t, TemplateShape(t), AnnotationsOwned(t),
         NEW k, SecretsKnownIn(k, b, t), NEW E
  PROVE  LET p == project(c, t)
         IN  AlikeKnown((Range(k.env) \cap Staying(E, c, t) \cap Staying(E, b, t)) \cup VariablesOf(c),
                        knownProjectedSecrets(p), knownProjectedSecrets(project(b, p)))
<1> DEFINE p == project(c, t)
           old == knownProjectedSecrets(p)
           new == knownProjectedSecrets(project(b, p))
<1>1. IsVersion(b) /\ IsVersion(c)
  BY VersionsAreValid
<1>2. TemplateShape(p)
  BY <1>1, ProjectGivesRecord
<1>3. SecretOf(b, p) = SecretOf(b, t)
  BY <1>1, SecretsStay
<1> HIDE DEF p
<1>4. \A x : x # b.secret /\ x # SecretOf(b, t) => (x \in old <=> x \in new)
  BY <1>1, <1>2, <1>3, SecretsStay
<1> HIDE DEF old, new
<1>5. ASSUME NEW e, e \in Range(k.env), e \in Staying(E, b, t), IsSecretKeyRef(e)
      PROVE  e.from[2] # b.secret /\ e.from[2] # SecretOf(b, t)
  <2>1. StaysVariable(b, t, e)
    BY <1>5 DEF Staying
  <2>2. e.from[2] # SecretOf(b, t)
    BY <1>5, <2>1, StaysBySecret
  <2> QED
    BY <1>5, <2>2 DEF SecretsKnownIn
<1>6. ASSUME NEW e \in VariablesOf(c), IsSecretKeyRef(e)
      PROVE  e.from[2] # b.secret /\ e.from[2] # SecretOf(b, t)
  BY <1>6, AddedSecrets, OthersStay
<1>7. ASSUME NEW e \in (Range(k.env) \cap Staying(E, c, t) \cap Staying(E, b, t)) \cup VariablesOf(c)
      PROVE  isProjectedEnv(e, old) <=> isProjectedEnv(e, new)
  <2>1. IsSecretKeyRef(e) => (e.from[2] \in old <=> e.from[2] \in new)
    BY <1>4, <1>5, <1>6
  <2> QED
    BY <2>1 DEF isProjectedEnv
<1> QED
  BY <1>7 DEF AlikeKnown, p, old, new

\* Variables that are rebuilt are those there were, the root and the binding's.
LEMMA VariablesWithin ==
  ASSUME NEW b, IsVersion(b), NEW t, NEW s, List(s), NEW E, Named(E), Range(s) \subseteq E,
         RootVariable \in E, VariablesOf(b) \subseteq E, NEW adds, NEW secrets
  PROVE  Range(RebuiltVariables(E, b, t, s, adds, secrets)) \subseteq E
<1> DEFINE K == Staying(E, b, t)
           root == Rooting(Filtered(s, K))
           added == AddedList(b)
           a == Added(root, added)
           rank == VariableRank(E, secrets)
           r == Rebuilt(s, K, adds, a, rank)
<1>1. List(root) /\ Range(root) \subseteq E
  BY RootingListed
<1>2. List(added) /\ Range(added) \subseteq E
  BY VariablesAreListed DEF AddedList
<1>3. \A e \in E : rank[e] \in Nat
  BY RanksAreNumbers
<1> HIDE DEF K, root, added, rank
<1>4. List(a) /\ Range(a) \subseteq E
  BY <1>1, <1>2, AddedLists
<1> HIDE DEF a
<1>5. \A e \in Range(s) \cup Range(a) : rank[e] \in Nat
  BY <1>3, <1>4
<1>6. /\ adds => Range(r) = (Range(s) \cap K) \cup Range(a)
      /\ ~adds => Range(r) = Range(s) \cap K
  BY <1>4, <1>5, RebuiltList
<1> HIDE DEF r
<1>7. Range(r) \subseteq E
  BY <1>4, <1>6
<1> QED
  BY <1>7 DEF RebuiltVariables, r, a, K, root, added, rank

\* What projecting c and then b makes of the variables of a container.
LEMMA VariablesOfTwo ==
  ASSUME Apart, NEW b \in BindingVersions, NEW c \in BindingVersions, b.uid # c.uid,
         NEW t, TemplateShape(t), NEW d, DOMAIN t.containers = DOMAIN d.containers,
         Accounted(t, d), NEW i \in DOMAIN t.containers,
         NEW E, Named(E), Range(t.containers[i].env) \subseteq E, RootVariable \in E,
         VariablesOf(b) \subseteq E, VariablesOf(c) \subseteq E
  PROVE  LET k == t.containers[i]
             q == project(b, project(c, t))
         IN  VariablesOnce(E, b, c, t, k.env, q.containers[i].env, Binds(c, k), Binds(b, k),
                           knownProjectedSecrets(q))
<1> DEFINE k == t.containers[i]
           p == project(c, t)
           q == project(b, p)
           s == k.env
           f == p.containers[i].env
           r == q.containers[i].env
           first == Binds(c, k)
           second == Binds(b, k)
           old == knownProjectedSecrets(p)
           new == knownProjectedSecrets(q)
           value == RootValue(d.containers[i].env)
<1>1. IsVersion(b) /\ IsVersion(c)
  BY VersionsAreValid
<1>2. /\ TemplateShape(p) /\ DOMAIN p.containers = DOMAIN t.containers
      /\ p.containers[i].name = k.name
  BY <1>1, ProjectGivesRecord
<1>3. AnnotationsOwned(t) /\ SecretsKnownIn(k, b, t) /\ Rooted(s, value)
  BY SecretsAreKnown DEF Accounted, RootsKept
<1>4. SecretOf(b, p) = SecretOf(b, t)
  BY <1>1, SecretsStay
<1>5. ContainerShape(k) /\ List(s)
  BY DEF TemplateShape, ContainerShape
<1>6. first => Undisturbed(E, b, c, t, s, old, new)
  <2> SUFFICES ASSUME first PROVE Undisturbed(E, b, c, t, s, old, new)
    OBVIOUS
  <2>1. c.secret # Empty
    BY DEF Binds
  <2>2. VariablesOf(c) \subseteq Staying(E, b, t)
    BY <1>3, <2>1, OthersStay DEF Staying
  <2>3. AlikeKnown((Range(s) \cap Staying(E, c, t) \cap Staying(E, b, t)) \cup VariablesOf(c), old, new)
    BY <1>3, <2>1, KnownAlike
  <2> QED
    BY <2>2, <2>3 DEF Undisturbed
<1>8. f = RebuiltVariables(E, c, t, s, first, old)
  <2> DEFINE M == Range(k.mounts) \cup {MountOf(c, unproject(c, t).containers[i])}
  <2>1. Ranked(M)
    BY <1>1, <1>5 DEF Ranked, ContainerShape, MountOf, VolumeName, IsVersion
  <2>2. Range(k.mounts) \subseteq M /\ MountOf(c, unproject(c, t).containers[i]) \in M
    OBVIOUS
  <2> HIDE DEF M
  <2> QED
    BY <1>1, <2>1, <2>2, ContainersRebuilt
<1>9. Binds(b, p.containers[i]) <=> second
  BY <1>2 DEF Binds, isContainerBindable
<1>0. Range(s) \subseteq E
  OBVIOUS
<1> HIDE DEF p, k, s
<1>10. Range(f) \subseteq E
  <2> HIDE DEF f, first, old
  <2> QED
    BY <1>0, <1>1, <1>5, <1>8, VariablesWithin
<1>11. r = RebuiltVariables(E, b, p, f, Binds(b, p.containers[i]), new)
  <2> DEFINE M == Range(p.containers[i].mounts) \cup {MountOf(b, unproject(b, p).containers[i])}
  <2>1. Ranked(M)
    BY <1>1, <1>2 DEF Ranked, TemplateShape, ContainerShape, MountOf, VolumeName, IsVersion
  <2>2. Range(p.containers[i].mounts) \subseteq M /\ MountOf(b, unproject(b, p).containers[i]) \in M
        /\ i \in DOMAIN p.containers
    BY <1>2
  <2> HIDE DEF M
  <2> QED
    BY <1>1, <1>2, <1>10, <2>1, <2>2, ContainersRebuilt
<1>12. r = RebuiltVariables(E, b, p, f, second, new)
  <2>1. CASE second
    BY <1>9, <1>11, <2>1 DEF RebuiltVariables, Rebuilt
  <2>2. CASE ~second
    BY <1>9, <1>11, <2>2 DEF RebuiltVariables, Rebuilt
  <2> QED
    BY <2>1, <2>2
<1> HIDE DEF q, f, r, first, second, old, new, value
<1>13. VariablesOnce(E, b, c, t, s,
         RebuiltVariables(E, b, p, RebuiltVariables(E, c, t, s, first, old), second, new),
         first, second, new)
  BY <1>0, <1>1, <1>3, <1>4, <1>5, <1>6, VariablesTwice
<1>14. VariablesOnce(E, b, c, t, s, r, first, second, new)
  BY <1>8, <1>12, <1>13
<1> QED
  BY <1>14 DEF p, k, s, q, r, first, second, new

\* Variables of two bindings that are sorted once may be added in either order,
\* when no two have one name and both secrets are known (projectEnv).
LEMMA VariablesSwapped ==
  ASSUME DifferentVariables, NEW b \in BindingVersions, NEW c \in BindingVersions,
         b.uid # c.uid, NEW t, NEW s, List(s),
         NEW E, Named(E), Range(s) \subseteq E, RootVariable \in E,
         VariablesOf(b) \subseteq E, VariablesOf(c) \subseteq E,
         NEW f, NEW g, NEW secrets, f => b.secret \in secrets, g => c.secret \in secrets,
         NEW x, VariablesOnce(E, b, c, t, s, x, g, f, secrets),
         NEW y, VariablesOnce(E, c, b, t, s, y, f, g, secrets)
  PROVE  x = y
<1> DEFINE stay == Filtered(s, Staying(E, c, t) \cap Staying(E, b, t))
           root == Rooting(s)
           z == Added(stay, root)
           ab == AddedList(b)
           ac == AddedList(c)
           rank == VariableRank(E, secrets)
<1>1. Filtered(s, Staying(E, b, t) \cap Staying(E, c, t)) = stay
  <2>1. Staying(E, b, t) \cap Staying(E, c, t) = Staying(E, c, t) \cap Staying(E, b, t)
    OBVIOUS
  <2> QED
    BY <2>1
<1>2. /\ f \/ g => SortedOnce(x, z, g, ac, f, ab, rank)
      /\ ~f /\ ~g => x = stay
  BY DEF VariablesOnce
<1>3. /\ f \/ g => SortedOnce(y, z, f, ab, g, ac, rank)
      /\ ~f /\ ~g => y = stay
  BY <1>1 DEF VariablesOnce
<1>4. List(stay) /\ Range(stay) \subseteq E
  BY FilteredList
<1>5. List(root) /\ Range(root) \subseteq E
  BY RootingListed
<1>6. List(ab) /\ Range(ab) = VariablesOf(b) /\ List(ac) /\ Range(ac) = VariablesOf(c)
  BY VersionsAreValid, VariablesAreListed DEF AddedList
<1>7. \A e \in E : rank[e] \in Nat
  BY RanksAreNumbers
<1>8. f /\ g => \A e \in VariablesOf(b), w \in VariablesOf(c) : rank[e] # rank[w]
  <2> SUFFICES ASSUME f, g, NEW e \in VariablesOf(b), NEW w \in VariablesOf(c)
               PROVE  rank[e] # rank[w]
    OBVIOUS
  <2>1. PICK i \in DOMAIN b.env : rank[e] = b.env[i].name + 1
    BY AddedAreRanked
  <2>2. PICK j \in DOMAIN c.env : rank[w] = c.env[j].name + 1
    BY AddedAreRanked
  <2>3. b.env[i].name # c.env[j].name
    BY DEF DifferentVariables
  <2>4. b.env[i].name \in Nat /\ c.env[j].name \in Nat
    BY VersionsAreValid DEF IsVersion
  <2> HIDE DEF rank
  <2> QED
    BY <2>1, <2>2, <2>3, <2>4
<1> HIDE DEF stay, root, ab, ac, rank
<1>9. List(z) /\ Range(z) \subseteq E
  BY <1>4, <1>5, AddedLists
<1> HIDE DEF z
<1>10. f /\ g => Sorted(Added(Added(z, ac), ab), rank) = Sorted(Added(Added(z, ab), ac), rank)
  <2>1. \A v \in Range(z) \cup Range(ab) \cup Range(ac) : rank[v] \in Nat
    BY <1>6, <1>7, <1>9
  <2>2. f /\ g => \A v \in Range(ab), w \in Range(ac) : rank[v] # rank[w]
    BY <1>6, <1>8
  <2> QED
    BY <1>6, <1>9, <2>1, <2>2, AddedSwapped
<1> QED
  BY <1>2, <1>3, <1>10 DEF SortedOnce

\* The variables of a container do not depend on which binding was projected
\* first (projectEnv).
LEMMA VariablesCommute ==
  ASSUME Apart, DifferentVariables, NEW b \in BindingVersions, NEW c \in BindingVersions,
         b.uid # c.uid, NEW t, TemplateShape(t), NEW d,
         DOMAIN t.containers = DOMAIN d.containers, Accounted(t, d), NEW i \in DOMAIN t.containers
  PROVE  project(b, project(c, t)).containers[i].env = project(c, project(b, t)).containers[i].env
<1> DEFINE k == t.containers[i]
           s == k.env
           E == Range(s) \cup {RootVariable} \cup VariablesOf(b) \cup VariablesOf(c)
           p == project(b, project(c, t))
           q == project(c, project(b, t))
           secrets == knownProjectedSecrets(p)
           f == Binds(b, k)
           g == Binds(c, k)
<1>1. IsVersion(b) /\ IsVersion(c)
  BY VersionsAreValid
<1>2. List(s) /\ Named(E)
  <2>1. ContainerShape(k)
    BY DEF TemplateShape
  <2>2. Named(VariablesWith(k, b)) /\ Named(VariablesWith(k, c))
    BY <1>1, <2>1, VariablesNamed
  <2> QED
    BY <2>1, <2>2 DEF ContainerShape, VariablesWith, Named
<1>3. Range(s) \subseteq E /\ RootVariable \in E /\ VariablesOf(b) \subseteq E /\ VariablesOf(c) \subseteq E
  OBVIOUS
<1>4. knownProjectedSecrets(q) = secrets
  BY <1>1, AnnotationsCommute DEF knownProjectedSecrets
<1>5. TemplateShape(project(b, t)) /\ TemplateShape(project(c, t))
  BY <1>1, ProjectGivesRecord
<1>6. f => b.secret \in secrets
  BY <1>1, <1>5, SecretsStay DEF Binds
<1>7. g => c.secret \in knownProjectedSecrets(q)
  BY <1>1, <1>5, SecretsStay DEF Binds
<1> HIDE DEF E
<1>8. VariablesOnce(E, b, c, t, s, p.containers[i].env, g, f, secrets)
  BY <1>2, <1>3, VariablesOfTwo
<1>9. VariablesOnce(E, c, b, t, s, q.containers[i].env, f, g, knownProjectedSecrets(q))
  BY <1>2, <1>3, VariablesOfTwo
<1> HIDE DEF k, s, p, q, secrets, f, g
<1>10. p.containers[i].env = q.containers[i].env
  BY <1>2, <1>3, <1>4, <1>6, <1>7, <1>8, <1>9, VariablesSwapped
<1> QED
  BY <1>10 DEF p, q

\* The mounts of a container after c and then b were projected: b finds the root
\* that c found (projectVolumeMount).
LEMMA MountsOfTwo ==
  ASSUME Apart, NEW b \in BindingVersions, NEW c \in BindingVersions,
         NEW t, TemplateShape(t), NEW d,
         DOMAIN t.containers = DOMAIN d.containers, Accounted(t, d), NEW i \in DOMAIN t.containers,
         NEW M, Ranked(M), Range(t.containers[i].mounts) \subseteq M,
         MountOf(b, d.containers[i]) \in M, MountOf(c, d.containers[i]) \in M
  PROVE  LET k == t.containers[i]
             x == MountOf(b, d.containers[i])
             y == MountOf(c, d.containers[i])
         IN  project(b, project(c, t)).containers[i].mounts
               = Rebuilt(Rebuilt(k.mounts, Others(M, c), Binds(c, k), <<y>>, VolumeRank(M)),
                         Others(M, b), Binds(b, k), <<x>>, VolumeRank(M))
<1> DEFINE k == t.containers[i]
           p == project(c, t)
           h == p.containers[i]
           r == project(b, p).containers[i].mounts
           rank == VolumeRank(M)
           x == MountOf(b, d.containers[i])
           y == MountOf(c, d.containers[i])
<1>1. IsVersion(b) /\ IsVersion(c)
  BY VersionsAreValid
<1>2. /\ TemplateShape(p) /\ DOMAIN p.containers = DOMAIN t.containers
      /\ h.name = k.name
  BY <1>1, ProjectGivesRecord
<1>3. Accounted(p, d)
  BY ProjectAccounted
<1>4. ContainerShape(k) /\ List(k.mounts)
  BY DEF TemplateShape, ContainerShape
<1>5. MountOf(c, unproject(c, t).containers[i]) = y
  BY MountsAgree
<1>6. Binds(b, h) <=> Binds(b, k)
  BY <1>2 DEF Binds, isContainerBindable
<1>0. y.name = VolumeName(c) /\ x \in M /\ y \in M
  BY DEF MountOf
<1> HIDE DEF x, y
<1>7. h.mounts = Rebuilt(k.mounts, Others(M, c), Binds(c, k), <<y>>, rank)
  <2> DEFINE E == VariablesWith(k, c)
  <2>1. Named(E)
    BY <1>1, <1>4, VariablesNamed
  <2>2. Range(k.env) \subseteq E /\ RootVariable \in E /\ VariablesOf(c) \subseteq E
    BY DEF VariablesWith
  <2> HIDE DEF E
  <2> QED
    BY <1>1, <1>5, <1>0, <2>1, <2>2, ContainersRebuilt
<1>9. Range(h.mounts) \subseteq M
  <2> DEFINE s == k.mounts
             adds == Binds(c, k)
  <2>1. List(s) /\ Range(s) \subseteq M
    BY <1>4
  <2> HIDE DEF s, adds
  <2>2. Range(Rebuilt(s, Others(M, c), adds, <<y>>, VolumeRank(M))) \subseteq M
    BY <1>0, <2>1, ItemsRebuilt
  <2> QED
    BY <1>7, <2>2 DEF s, adds
<1> HIDE DEF p
<1>10. MountOf(b, unproject(b, p).containers[i]) = x
  BY <1>2, <1>3, MountsAgree DEF x
<1>11. r = Rebuilt(h.mounts, Others(M, b), Binds(b, h), <<x>>, rank)
  <2> DEFINE E == VariablesWith(h, b)
  <2>1. Named(E)
    BY <1>1, <1>2, VariablesNamed DEF TemplateShape
  <2>2. Range(h.env) \subseteq E /\ RootVariable \in E /\ VariablesOf(b) \subseteq E
    BY DEF VariablesWith
  <2>3. i \in DOMAIN p.containers
    BY <1>2
  <2> HIDE DEF E
  <2> QED
    BY <1>1, <1>0, <1>2, <1>9, <1>10, <2>1, <2>2, <2>3, ContainersRebuilt
<1>12. r = Rebuilt(h.mounts, Others(M, b), Binds(b, k), <<x>>, rank)
  <2> HIDE DEF h, r, k
  <2>1. CASE Binds(b, k)
    BY <1>6, <1>11, <2>1 DEF Rebuilt
  <2>2. CASE ~Binds(b, k)
    BY <1>6, <1>11, <2>2 DEF Rebuilt
  <2> QED
    BY <2>1, <2>2
<1> HIDE DEF h, r
<1> QED
  BY <1>7, <1>12 DEF p, r, x, y

\* The volumes after c and then b were projected (projectVolume).
LEMMA VolumesOfTwo ==
  ASSUME NEW b, IsVersion(b), NEW c, IsVersion(c), NEW t, TemplateShape(t),
         NEW S, Ranked(S), Range(t.volumes) \subseteq S, VolumeOf(b) \in S, VolumeOf(c) \in S
  PROVE  project(b, project(c, t)).volumes
           = Rebuilt(Rebuilt(t.volumes, Others(S, c), c.secret # Empty, <<VolumeOf(c)>>, VolumeRank(S)),
                     Others(S, b), b.secret # Empty, <<VolumeOf(b)>>, VolumeRank(S))
<1> DEFINE p == project(c, t)
           s == t.volumes
           y == VolumeOf(c)
           adds == c.secret # Empty
<1>1. TemplateShape(p)
  BY ProjectGivesRecord
<1>2. p.volumes = Rebuilt(s, Others(S, c), adds, <<y>>, VolumeRank(S))
  BY VolumesRebuilt
<1>3. List(s) /\ Range(s) \subseteq S /\ y.name = VolumeName(c) /\ y \in S
  BY DEF TemplateShape, VolumeOf
<1> HIDE DEF p, s, y, adds
<1>4. Range(p.volumes) \subseteq S
  BY <1>2, <1>3, ItemsRebuilt
<1>5. project(b, p).volumes
        = Rebuilt(p.volumes, Others(S, b), b.secret # Empty, <<VolumeOf(b)>>, VolumeRank(S))
  BY <1>1, <1>4, VolumesRebuilt
<1> QED
  BY <1>2, <1>5 DEF p, s, y, adds

\* It makes no difference which of two bindings is projected first (project).
LEMMA ProjectCommutes ==
  ASSUME Apart, DifferentVariables, NEW b \in BindingVersions, NEW c \in BindingVersions,
         b.uid # c.uid, NEW t, TemplateShape(t), NEW d,
         DOMAIN t.containers = DOMAIN d.containers, Accounted(t, d)
  PROVE  project(b, project(c, t)) = project(c, project(b, t))
<1> DEFINE p == project(b, project(c, t))
           q == project(c, project(b, t))
<1>1. IsVersion(b) /\ IsVersion(c)
  BY VersionsAreValid
<1>2. ASSUME NEW x, IsVersion(x), NEW y, IsVersion(y)
      PROVE  LET r == project(x, project(y, t))
             IN  /\ TemplateRecord(r) /\ DOMAIN r.containers = DOMAIN t.containers
                 /\ \A i \in DOMAIN t.containers : r.containers[i].name = t.containers[i].name
  <2> DEFINE w == project(y, t)
  <2>1. /\ TemplateShape(w) /\ DOMAIN w.containers = DOMAIN t.containers
        /\ \A i \in DOMAIN t.containers : w.containers[i].name = t.containers[i].name
    BY <1>2, ProjectGivesRecord
  <2> HIDE DEF w
  <2>2. LET r == project(x, w)
        IN  /\ TemplateRecord(r) /\ DOMAIN r.containers = DOMAIN w.containers
            /\ \A i \in DOMAIN w.containers : r.containers[i].name = w.containers[i].name
    BY <1>2, <2>1, ProjectGivesRecord
  <2> QED
    BY <2>1, <2>2 DEF w
<1>3. /\ TemplateRecord(p) /\ DOMAIN p.containers = DOMAIN t.containers
      /\ \A i \in DOMAIN t.containers : p.containers[i].name = t.containers[i].name
  BY <1>1, <1>2
<1>4. /\ TemplateRecord(q) /\ DOMAIN q.containers = DOMAIN t.containers
      /\ \A i \in DOMAIN t.containers : q.containers[i].name = t.containers[i].name
  BY <1>1, <1>2
<1>5. p.annotations = q.annotations
  BY <1>1, AnnotationsCommute
<1>6. p.volumes = q.volumes
  <2> DEFINE s == t.volumes
             x == VolumeOf(b)
             y == VolumeOf(c)
             S == Range(s) \cup {x, y}
             f == b.secret # Empty
             g == c.secret # Empty
             rank == VolumeRank(S)
  <2>1. List(s) /\ Ranked(S) /\ x.name = VolumeName(b) /\ y.name = VolumeName(c)
    BY <1>1 DEF Ranked, TemplateShape, VolumeOf, VolumeName, IsVersion
  <2>2. Range(s) \subseteq S /\ x \in S /\ y \in S
    OBVIOUS
  <2> HIDE DEF S
  <2>3. p.volumes = Rebuilt(Rebuilt(s, Others(S, c), g, <<y>>, rank), Others(S, b), f, <<x>>, rank)
    BY <1>1, <2>1, <2>2, VolumesOfTwo
  <2>4. q.volumes = Rebuilt(Rebuilt(s, Others(S, b), f, <<x>>, rank), Others(S, c), g, <<y>>, rank)
    BY <1>1, <2>1, <2>2, VolumesOfTwo
  <2> HIDE DEF s, x, y, f, g, p, q
  <2> QED
    BY <1>1, <2>1, <2>2, <2>3, <2>4, ItemsCommute
<1>7. ASSUME NEW i \in DOMAIN t.containers
      PROVE  p.containers[i].mounts = q.containers[i].mounts
  <2> DEFINE k == t.containers[i]
             s == k.mounts
             x == MountOf(b, d.containers[i])
             y == MountOf(c, d.containers[i])
             M == Range(s) \cup {x, y}
             f == Binds(b, k)
             g == Binds(c, k)
             rank == VolumeRank(M)
  <2>1. List(s) /\ Ranked(M) /\ x.name = VolumeName(b) /\ y.name = VolumeName(c)
    BY <1>1 DEF Ranked, TemplateShape, ContainerShape, MountOf, VolumeName, IsVersion
  <2>2. Range(s) \subseteq M /\ x \in M /\ y \in M
    OBVIOUS
  <2> HIDE DEF M
  <2>3. p.containers[i].mounts
          = Rebuilt(Rebuilt(s, Others(M, c), g, <<y>>, rank), Others(M, b), f, <<x>>, rank)
    BY <2>1, <2>2, MountsOfTwo
  <2>4. q.containers[i].mounts
          = Rebuilt(Rebuilt(s, Others(M, b), f, <<x>>, rank), Others(M, c), g, <<y>>, rank)
    BY <2>1, <2>2, MountsOfTwo
  <2> HIDE DEF k, s, x, y, f, g, p, q
  <2> QED
    BY <1>1, <2>1, <2>2, <2>3, <2>4, ItemsCommute
<1>8. \A i \in DOMAIN t.containers : p.containers[i].env = q.containers[i].env
  BY VariablesCommute
<1> HIDE DEF p, q
<1>9. p = q
  BY <1>3, <1>4, <1>5, <1>6, <1>7, <1>8, TemplatesAgree
<1> QED
  BY <1>9 DEF p, q

\* Where the bindings share neither a secret nor the name of a variable, the
\* template does not depend on the order in which they are projected: replicas
\* and retries of the webhook and of the controller agree on one spec (project).
THEOREM ProjectionsCommute ==
  ASSUME Apart, DifferentVariables
  PROVE  Spec => []OrderIndependent
<1>1. WorkloadInv /\ FactsInv => OrderIndependent
  <2> SUFFICES ASSUME WorkloadInv, FactsInv PROVE OrderIndependent
    OBVIOUS
  <2>1. TemplateShape(template) /\ DOMAIN template.containers = DOMAIN base.containers
        /\ Accounted(template, base)
    BY DEF WorkloadInv, SameContainers, FactsInv
  <2> QED
    BY <2>1, ProjectCommutes DEF OrderIndependent
<1> QED
  BY <1>1, WorkloadInvariant, FactsInvariant, PTL
=============================================================================
