-------------------------- MODULE MetaPodTemplate --------------------------
(***************************************************************************)
(* The pod template in a workload of any shape:                            *)
(* projector/metapodtemplate.go.  A mapping's paths say where the parts of *)
(* the template are; NewMetaPodTemplate reads them and WriteToWorkload     *)
(* writes them back.                                                       *)
(*                                                                         *)
(* Data.  A workload is a tree, a function from the places it has (the     *)
(* sequence of keys that leads there) to what is found there:              *)
(*                                                                         *)
(*   <<"map">>, <<"list", n>>   a value with values below it               *)
(*   <<"strings", f>>           a map of strings: annotations              *)
(*   <<"items", s>>             a list of variables, volumes or mounts     *)
(*   <<"string", x>>, <<"null">>                                           *)
(*                                                                         *)
(* An item is the projector's record of it, with a field Unknown when it   *)
(* has anything that is not in the Go type.  A path below annotations or   *)
(* below items is not followed; PathsApart says that no template has one.  *)
(***************************************************************************)
EXTENDS Projector, SequencesExt

CONSTANTS
  Fields,   \* path of plain fields -> its keys (keys and fieldKeys)
  Queries   \* path of containers -> [keys, each], each for a trailing [*]

\* Where a workload starts.
Root == <<>>

Null == <<"null">>
Unknown == "unknown"

\* The key of an element of a list.
Index(i) == <<"0", "1", "2", "3">>[i]

Node(o, place) == IF place \in DOMAIN o THEN o[place] ELSE Null
Kind(o, place) == Node(o, place)[1]

\* The places find goes through, from where it starts to the parent.
Way(from, keys) == {from \o SubSeq(keys, 1, k) : k \in 0..(Len(keys) - 1)}

\* find gets to the end of the keys.  It goes through maps, stops at nothing
\* when it reads and makes a map of it when it writes; a list on the way is an
\* error, a string panics.
Passable(o, from, keys) == \A p \in Way(from, keys) : Kind(o, p) \in {"map", "null"}

\* json.Unmarshal keeps the fields of the Go type.
Typed(s) == [i \in DOMAIN s |-> Restrict(s[i], DOMAIN s[i] \ {Unknown})]

\* getAt neither fails nor panics: there is nothing, or a value of the target's type.
Gettable(o, from, keys, kind) ==
  Passable(o, from, keys) /\ Kind(o, from \o keys) \in {"null", kind}

\* getAt.
getAt(o, place, default) ==
  LET v == Node(o, place)
  IN  CASE v = Null -> default
        [] v[1] = "items" -> Typed(v[2])
        [] OTHER -> v[2]

Made(from, keys) == [p \in Way(from, keys) |-> <<"map">>]

\* Mutant: an empty value is not written.
setAtUnlessEmpty(o, from, keys, v) ==
  IF v[1] # "string" /\ v[2] = <<>> THEN o ELSE (from \o keys :> v) @@ Made(from, keys) @@ o

\* Mutant: the maps on the way are made whether they are there or not.
setAtAfresh(o, from, keys, v) ==
  LET below == {p \in DOMAIN o : IsStrictPrefix(Append(from, keys[1]), p)}
  IN  (from \o keys :> v) @@ Made(from, keys) @@ Restrict(o, DOMAIN o \ below)

\* Mutant: a list is added to the one that is there.
setAtMerged(o, from, keys, v) ==
  IF v[1] = "items" /\ Kind(o, from \o keys) = "items"
    THEN [o EXCEPT ![from \o keys] = <<"items", @[2] \o v[2]>>]
    ELSE (from \o keys :> v) @@ Made(from, keys) @@ o

\* setAt, and find with createIfNil.  The value is written also when it is
\* empty and nothing was there.
setAt(o, from, keys, v) == (from \o keys :> v) @@ Made(from, keys) @@ o

----------------------------------------------------------------------------
\* FindResults of a container path: the places of the containers, none when
\* the path is not found.
FindResults(o, path) ==
  LET q == Queries[path]
  IN  CASE \E p \in Way(Root, q.keys) : Kind(o, p) # "map" -> <<>>
        [] q.each -> IF Kind(o, q.keys) = "list"
                       THEN [i \in 1..Node(o, q.keys)[2] |-> Append(q.keys, Index(i))]
                       ELSE <<>>
        [] OTHER -> IF q.keys \in DOMAIN o THEN <<q.keys>> ELSE <<>>

\* Where a container keeps what a field of its mapping names.
In(place, path) == place \o Fields[path]

ContainerReadable(c, o, place) ==
  /\ c.name # Empty => Gettable(o, place, Fields[c.name], "string")
  /\ Gettable(o, place, Fields[c.env], "items")
  /\ Gettable(o, place, Fields[c.volumeMounts], "items")

\* NewMetaPodTemplate neither fails nor panics.
Readable(m, o) ==
  /\ Gettable(o, Root, Fields[m.annotations], "strings")
  /\ \A i \in DOMAIN m.containers :
       \A place \in Range(FindResults(o, m.containers[i].path)) :
         ContainerReadable(m.containers[i], o, place)
  /\ Gettable(o, Root, Fields[m.volumes], "items")

\* The name is optional in the mapping, and the zero string when the container
\* has none.
ReadContainer(c, o, place) ==
  [name |-> IF c.name = Empty THEN Unnamed ELSE getAt(o, In(place, c.name), Empty),
   env |-> getAt(o, In(place, c.env), <<>>),
   mounts |-> getAt(o, In(place, c.volumeMounts), <<>>)]

NewMetaPodTemplate(m, o) ==
  LET Found(i) == FindResults(o, m.containers[i].path)
      Read(i) == [k \in DOMAIN Found(i) |-> ReadContainer(m.containers[i], o, Found(i)[k])]
  IN  [annotations |-> getAt(o, Fields[m.annotations], <<>>),
       containers |-> FlattenSeq([i \in DOMAIN m.containers |-> Read(i)]),
       volumes |-> getAt(o, Fields[m.volumes], <<>>)]

----------------------------------------------------------------------------
\* WriteToWorkload gets through on a workload that was readable.  A container
\* that is null has no parent to make a map in: find panics.
Writable(m, o) ==
  \A i \in DOMAIN m.containers :
    \A place \in Range(FindResults(o, m.containers[i].path)) : Node(o, place) # Null

WriteContainer(c, o, place, mc) ==
  LET named == IF c.name # Empty /\ mc.name # Unnamed
                 THEN setAt(o, place, Fields[c.name], <<"string", mc.name>>) ELSE o
      withEnv == setAt(named, place, Fields[c.env], <<"items", mc.env>>)
  IN  setAt(withEnv, place, Fields[c.volumeMounts], <<"items", mc.mounts>>)

\* Mutant: the count of containers starts again with every path.
WriteContainersRestarted(c, w, mcs) ==
  LET found == FindResults(w.o, c.path)
      Write(o, i) == WriteContainer(c, o, found[i], mcs[i])
  IN  [o |-> FoldLeft(Write, w.o, [i \in DOMAIN found |-> i]), ci |-> w.ci]

\* The containers of one path, the ones after the first w.ci of the template.
WriteContainers(c, w, mcs) ==
  LET found == FindResults(w.o, c.path)
      Write(o, i) == WriteContainer(c, o, found[i], mcs[w.ci + i])
  IN  [o |-> FoldLeft(Write, w.o, [i \in DOMAIN found |-> i]), ci |-> w.ci + Len(found)]

WriteToWorkload(m, t, o) ==
  LET annotated == setAt(o, Root, Fields[m.annotations], <<"strings", t.annotations>>)
      Write(w, c) == WriteContainers(c, w, t.containers)
      written == FoldLeft(Write, [o |-> annotated, ci |-> 0], m.containers)
  IN  setAt(written.o, Root, Fields[m.volumes], <<"items", t.volumes>>)

----------------------------------------------------------------------------
\* Where a mapping says the parts of the template are: [from, keys].
ContainerPlaces(c, o) ==
  {[from |-> place, keys |-> Fields[path]] :
     place \in Range(FindResults(o, c.path)), path \in {c.name, c.env, c.volumeMounts} \ {Empty}}

Places(m, o) ==
  {[from |-> Root, keys |-> Fields[path]] : path \in {m.annotations, m.volumes}}
    \cup UNION {ContainerPlaces(m.containers[i], o) : i \in DOMAIN m.containers}
=============================================================================
