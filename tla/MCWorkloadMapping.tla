------------------------- MODULE MCWorkloadMapping -------------------------
(***************************************************************************)
(* Mappings of up to three templates, over those that leave paths out, give *)
(* their own or give one that is refused.                                  *)
(***************************************************************************)
EXTENDS WorkloadMapping

MCVersions == {"v1", "v2"}
MCMalformed == {"..["}
MCGeneral == {".items[0]"}

Custom == [path |-> ".spec.pods[*]", name |-> Unset, env |-> ".variables", volumeMounts |-> Unset]
Refused == [Custom EXCEPT !.env = ".items[0]"]

Template(version, annotations, containers) ==
  [version |-> version, annotations |-> annotations, containers |-> containers, volumes |-> Unset]

MCTemplates ==
  {Template(v, a, c) : v \in MCVersions \cup {Wildcard},
                       a \in {Unset, ".spec.notes"},
                       c \in {<<>>, <<Custom>>}}
  \cup {Template("v1", "..[", <<>>), Template("v2", Unset, <<Refused>>),
        Template(Unset, Unset, <<>>)}
=============================================================================
