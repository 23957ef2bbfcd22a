-------------------------- MODULE MCMappedWorkload -------------------------
(***************************************************************************)
(* A workload with a pod template in the usual place or parts of it        *)
(* elsewhere, through mappings of up to two templates that agree and       *)
(* disagree about the places.                                              *)
(***************************************************************************)
EXTENDS MappedWorkload

MCVersions == {"v1", "v2"}
MCMalformed == {"..["}
MCGeneral == {".items[0]"}

MCFields ==
  (".spec.template.metadata.annotations" :> <<"spec", "template", "metadata", "annotations">>)
    @@ (".spec.template.spec.volumes" :> <<"spec", "template", "spec", "volumes">>)
    @@ (".notes" :> <<"notes">>)
    @@ (".name" :> <<"name">>)
    @@ (".env" :> <<"env">>)
    @@ (".volumeMounts" :> <<"volumeMounts">>)
    @@ (".run.variables" :> <<"run", "variables">>)

Query(keys, each) == [keys |-> keys, each |-> each]

MCQueries ==
  (".spec.template.spec.initContainers[*]" :>
     Query(<<"spec", "template", "spec", "initContainers">>, TRUE))
    @@ (".spec.template.spec.containers[*]" :>
     Query(<<"spec", "template", "spec", "containers">>, TRUE))
    @@ (".task" :> Query(<<"task">>, FALSE))

Task == [path |-> ".task", name |-> Unset, env |-> ".run.variables", volumeMounts |-> Unset]
Refused == [Task EXCEPT !.env = ".items[0]"]

Template(version, annotations, containers) ==
  [version |-> version, annotations |-> annotations, containers |-> containers, volumes |-> Unset]

MCTemplates ==
  {Template("v1", ".notes", <<Task, PodSpecableContainers[2]>>),
   Template("v2", ".notes", <<>>),
   Template(Wildcard, Unset, <<>>),
   Template(Wildcard, Unset, <<Task>>),
   Template("v2", Unset, <<Refused>>),
   Template("v1", "..[", <<>>),
   Template(Unset, Unset, <<>>)}

Binding(type, secret, containers) ==
  [uid |-> 1, name |-> "db", type |-> type, provider |-> Empty, secret |-> secret,
   env |-> <<[name |-> 2, key |-> "password"], [name |-> 3, key |-> "type"]>>,
   containers |-> containers]

\* One binding, whose secret is rotated and taken away.
MCBindingVersions ==
  {Binding("mysql", "db-1", {}), Binding(Empty, "db-2", {"app"}), Binding(Empty, Empty, {})}

Tree(places) == (<<>> :> <<"map">>) @@ places

Pod == <<"spec", "template", "spec">>

\* A pod template in the usual place, next to values that are nobody's.
Deployment ==
  Tree((<<"spec">> :> <<"map">>)
    @@ (<<"spec", "replicas">> :> <<"string", "3">>)
    @@ (<<"spec", "template">> :> <<"map">>)
    @@ (Pod :> <<"map">>)
    @@ (Append(Pod, "containers") :> <<"list", 2>>)
    @@ (Pod \o <<"containers", "0">> :> <<"map">>)
    @@ (Pod \o <<"containers", "0", "name">> :> <<"string", "app">>)
    @@ (Pod \o <<"containers", "0", "image">> :> <<"string", "x">>)
    @@ (Pod \o <<"containers", "1">> :> <<"map">>)
    @@ (Pod \o <<"containers", "1", "env">> :>
          <<"items", <<[name |-> 4, from |-> Value("on"), unknown |-> "x"]>>>>)
    @@ (Append(Pod, "initContainers") :> Null))

\* One container that is no element of a list, and nothing where the pod
\* template usually is.
TaskOnly ==
  Tree((<<"notes">> :> <<"strings", <<"user", "team">> :> "blue">>)
    @@ (<<"task">> :> <<"map">>)
    @@ (<<"task", "run">> :> Null)
    @@ (<<"task", "name">> :> <<"string", "app">>))

\* Both.
Mixed == (<<"task">> :> <<"map">>) @@ Deployment

\* A list where a map is expected, or a container that is null.
Odd == Tree(<<"spec">> :> <<"list", 0>>)
NullContainer == Tree(<<"task">> :> Null)

MCUserObjects == {TaskOnly, Mixed, Odd, NullContainer}
=============================================================================
