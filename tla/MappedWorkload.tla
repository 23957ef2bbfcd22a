-------------------------- MODULE MappedWorkload ---------------------------
(***************************************************************************)
(* One workload of some custom type, the mapping of that type and the      *)
(* bindings projected through it: Project and Unproject of                 *)
(* projector/binding.go from the lookup of the mapping to the workload     *)
(* they leave.  Users write the mapping and the workload.  Nothing is      *)
(* reconciled because a mapping changes, so the mapping a binding is       *)
(* unprojected through need not be the one it was projected through.       *)
(*                                                                         *)
(* Where an operation fails the workload stays as it is: the reconciler    *)
(* and the webhook return the error, or metapodtemplate.go panics, on a    *)
(* string on the way or a null container, and the process is restarted.    *)
(***************************************************************************)
EXTENDS WorkloadMapping, MetaPodTemplate

CONSTANTS
  WorkloadVersion,  \* the version in which the workload is read and written
  BindingVersions,  \* every binding, in every version it is ever projected in
  UserObjects,      \* workloads that users write
  MaxRemaps         \* bound on the changes of the mapping a projected binding sees

ASSUME MappedAssumption ==
  /\ WorkloadVersion \in Versions
  /\ MaxRemaps \in Nat
  /\ \A o \in UserObjects : Root \in DOMAIN o /\ o[Root] = <<"map">>

\* No path of a template leads below the value of another.
ASSUME PathsApart ==
  \A p, q \in DOMAIN Fields : p # q => ~IsPrefix(Fields[p], Fields[q])

VARIABLES
  object,  \* the workload
  via,     \* history: uid -> the templates it went through since it was not there
  remaps   \* history: changes of the mapping while a binding was there

workloadVars == <<stored, object, via, remaps>>

Uids == {b.uid : b \in BindingVersions}

----------------------------------------------------------------------------
Mapping == LookupMapping(stored, WorkloadVersion)

\* Project and Unproject return no error.
Serves(m, o) == Readable(m, o) /\ Writable(m, o)

Projected(b, m, o) == WriteToWorkload(m, project(b, NewMetaPodTemplate(m, o)), o)
Unprojected(b, m, o) == WriteToWorkload(m, unproject(b, NewMetaPodTemplate(m, o)), o)

\* The binding is gone if it only ever went through this template.
Leaves(u, m) == IF via[u] \subseteq {m} THEN {} ELSE via[u] \cup {m}

\* Without a secret a projection only removes what is there.
Project(b) ==
  LET m == Mapping
  IN  /\ Serves(m, object)
      /\ object' = Projected(b, m, object)
      /\ via' = [via EXCEPT ![b.uid] = IF b.secret = Empty THEN Leaves(b.uid, m) ELSE @ \cup {m}]
      /\ UNCHANGED <<stored, remaps>>

Unproject(b) ==
  LET m == Mapping
  IN  /\ Serves(m, object)
      /\ object' = Unprojected(b, m, object)
      /\ via' = [via EXCEPT ![b.uid] = Leaves(b.uid, m)]
      /\ UNCHANGED <<stored, remaps>>

\* A user writes the workload anew.
Replace(o) ==
  /\ object' = o
  /\ via' = [u \in Uids |-> {}]
  /\ remaps' = 0
  /\ UNCHANGED stored

\* A user creates, updates or deletes the mapping.
Remap ==
  /\ \/ \E spec \in BoundedSeq(Templates, MaxVersions) : Apply(spec)
     \/ Delete
  /\ remaps' = IF \A u \in Uids : via[u] = {} THEN remaps ELSE remaps + 1
  /\ remaps' <= MaxRemaps
  /\ UNCHANGED <<object, via>>

WorkloadInit ==
  /\ Init
  /\ object \in UserObjects
  /\ via = [u \in Uids |-> {}]
  /\ remaps = 0

WorkloadNext ==
  \/ \E b \in BindingVersions : Project(b)
  \/ \E b \in BindingVersions : Unproject(b)
  \/ \E o \in UserObjects : Replace(o)
  \/ Remap

WorkloadSpec == WorkloadInit /\ [][WorkloadNext]_workloadVars

----------------------------------------------------------------------------
\* What is read of the workload afterwards is the template the projector made,
\* whatever shape the mapping gives the workload and whichever of its parts
\* were not there: the projector may be reasoned about on templates alone
\* (NewMetaPodTemplate after WriteToWorkload).
ReadsBack ==
  LET m == Mapping IN Serves(m, object) =>
    \A b \in BindingVersions :
      LET t == project(b, NewMetaPodTemplate(m, object))
          o == WriteToWorkload(m, t, object)
      IN  Serves(m, o) /\ NewMetaPodTemplate(m, o) = t

\* PatchWorkloads does not write a workload over and over: the empty maps, lists
\* and names that setAt leaves are written once, and a second projection finds
\* nothing to change.  It takes one more where the binding was projected through
\* another mapping before: the first projection does not know the variables it
\* finds for its own until it has written its annotations (setAt, unprojectEnv).
Settles ==
  LET m == Mapping IN Serves(m, object) =>
    \A b \in BindingVersions :
      LET first == Projected(b, m, object)
          second == Projected(b, m, first)
          without == Unprojected(b, m, object)
      IN  /\ Projected(b, m, second) = second
          /\ via[b.uid] \subseteq {m} => second = first
          /\ Unprojected(b, m, without) = without

\* A projection changes what stands where the mapping says and nothing else of
\* the workload; it adds no more than the maps that lead there (find, setAt).
RestUntouched ==
  LET m == Mapping IN Serves(m, object) =>
    \A b \in BindingVersions :
      LET o == Projected(b, m, object)
          own == {p.from \o p.keys : p \in Places(m, object)}
          ways == UNION {Way(p.from, p.keys) : p \in Places(m, object)}
      IN  /\ DOMAIN object \subseteq DOMAIN o
          /\ DOMAIN o \subseteq DOMAIN object \cup own \cup ways
          /\ \A p \in DOMAIN object \ own :
               o[p] # object[p] => p \in ways /\ object[p] = Null

IsTrace(b, item) ==
  IF "from" \in DOMAIN item
    THEN \/ IsFieldRef(item) /\ item.from[2] \in {TypeAnnotationName(b), ProviderAnnotationName(b)}
         \/ IsSecretKeyRef(item) /\ item.from[2] = b.secret
    ELSE item.name = VolumeName(b)

\* What a binding left somewhere in a workload.
HasTrace(b, v) ==
  \/ v[1] = "strings" /\ \E k \in DOMAIN v[2] : InGroup(k) /\ k[2] = b.uid
  \/ v[1] = "items" /\ \E i \in DOMAIN v[2] : IsTrace(b, v[2][i])

\* A binding is found in a workload only while it is projected, or when it was
\* projected through a mapping that had changed before it was unprojected:
\* SetupWithManager watches the mappings and enqueues nothing for them
\* (ServiceBindingReconciler, Unproject).
ResidueNeedsRemapping ==
  \A b \in BindingVersions :
    via[b.uid] = {} => \A p \in DOMAIN object : ~HasTrace(b, object[p])
=============================================================================
