------------------------ MODULE MCProjectedWorkload ------------------------
(***************************************************************************)
(* Instances of ProjectedWorkload for TLC.  Binding 1 is submitted in      *)
(* versions that differ in name, type, provider, variables and containers; *)
(* binding 2 in versions whose variables interleave with those of binding  *)
(* 1 in the sort order.  Each secret can be absent, first or rotated.      *)
(***************************************************************************)
EXTENDS ProjectedWorkload

Var(n, k) == [name |-> n, key |-> k]

Service == [apiVersion |-> "v1", kind |-> "Database", name |-> "db"]
ByName == [apiVersion |-> "apps/v1", kind |-> "Deployment", name |-> "w", selector |-> NoSelector]
BySelector == [ByName EXCEPT !.name = Blank, !.selector = {}]

Submission(u, name, type, provider, env, containers) ==
  [uid |-> u, metadataName |-> "own", name |-> name, type |-> type, provider |-> provider,
   env |-> env, containers |-> containers, service |-> Service, workload |-> ByName]

MySql ==
  Submission(1, "db", "mysql", "bitnami", <<Var(6, "type"), Var(2, "provider")>>, {"app"})

\* What the webhook refuses.
Refused ==
  {[MySql EXCEPT !.env = <<Var(NoVariable, "type")>>],
   [MySql EXCEPT !.env = <<Var(2, Blank)>>],
   [MySql EXCEPT !.service.name = Blank],
   [MySql EXCEPT !.workload = [ByName EXCEPT !.selector = {}]],
   [MySql EXCEPT !.workload = [BySelector EXCEPT !.selector = BadSelector]],
   [MySql EXCEPT !.workload.name = Blank]}

MCSubmissions ==
  {Submission(1, Blank, Empty, Empty, <<Var(2, "password")>>, {}),
   MySql,
   [Submission(2, "mq", "rabbit", Empty,
               <<Var(5, "host"), Var(3, "type"), Var(7, "provider")>>, {})
      EXCEPT !.workload = BySelector],
   Submission(2, "queue", Empty, "cloud", <<>>, {"side"})}
  \cup Refused

MCUids == {1, 2}

MCSecrets == <<{Empty, "db-1", "db-2"}, {Empty, "mq-1", "mq-2"}>>

\* Both bindings resolve to one secret.
MCSharedSecrets == <<{"shared"}, {"shared"}>>

Container(n, env, mounts) == [name |-> n, env |-> env, mounts |-> mounts]

\* A deployment with two containers, one of which defines its own root, a bare
\* workload whose mapping gives its container no name, and one whose root comes
\* from a secret.
MCUserTemplates ==
  {[annotations |-> (<<"user", "team">> :> "blue"),
    containers |-> <<Container("app", <<[name |-> 4, from |-> Value("on")]>>,
                               <<[name |-> <<"user", "tmp">>, path |-> <<"/tmp">>]>>),
                     Container("side", <<[name |-> 10, from |-> SecretKeyRef("own", "password")],
                                         [name |-> ServiceBindingRootEnv,
                                          from |-> Value("/custom")]>>, <<>>)>>,
    volumes |-> <<[name |-> <<"user", "tmp">>, sources |-> <<>>]>>],
   [annotations |-> <<>>, containers |-> <<Container(Unnamed, <<>>, <<>>)>>, volumes |-> <<>>],
   [annotations |-> <<>>, volumes |-> <<>>,
    containers |-> <<Container("app", <<[name |-> ServiceBindingRootEnv,
                                         from |-> SecretKeyRef("own", "root")]>>, <<>>)>>]}

MCUserEnv == {[name |-> 8, from |-> Value("off")]}

\* With secrets of their own the bindings of this instance are apart, which is
\* what the refinement is proved from; their variables have different names.
ASSUME ApartAssumption == BoundSecrets = MCSecrets => Apart
ASSUME DifferentVariablesAssumption == DifferentVariables
=============================================================================
