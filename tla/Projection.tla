----------------------------- MODULE Projection -----------------------------
(***************************************************************************)
(* What projecting bindings into one workload promises, with no sequence,  *)
(* no sorting and no bookkeeping annotation to read back: the workload     *)
(* exposes, for each binding uid, a set of facts.  Projecting a binding    *)
(* replaces exactly the facts of its uid by its footprint, unprojecting it *)
(* empties them, and neither touches what the user wrote.                  *)
(*                                                                         *)
(* A fact is an annotation, the volume, a mount in a container or an       *)
(* environment variable in a container.                                    *)
(***************************************************************************)
EXTENDS Naturals, Sequences

CONSTANTS
  Uids,            \* uids of the bindings
  BindingVersions, \* every binding, in every version it is ever projected in
  Users            \* what the user may write: container name -> mount root

VARIABLES
  user,            \* the user's part of the workload
  facts            \* uid -> the facts the workload exposes for it

vars == <<user, facts>>

Nothing == [u \in Uids |-> {}]

\* A container without a name cannot be excluded by name.
Bound(b) ==
  {c \in DOMAIN user : b.containers = {} \/ c \in b.containers \cup {"(nil)"}}

AnnotationFacts(b) ==
  {<<"annotation", "secret", b.secret>>}
    \cup {<<"annotation", "type", b.type>> : x \in {y \in {b.type} : y # ""}}
    \cup {<<"annotation", "provider", b.provider>> : x \in {y \in {b.provider} : y # ""}}

\* The volume serves the secret, and the overrides of its type and provider.
VolumeFact(b) ==
  <<"volume", {<<"secret", b.secret>>}
                \cup {<<"annotation", "type">> : x \in {y \in {b.type} : y # ""}}
                \cup {<<"annotation", "provider">> : x \in {y \in {b.provider} : y # ""}}>>

\* A variable asking for an overridden entry gets the override, not the secret's.
EnvFact(b, c, e) ==
  IF (e.key = "type" /\ b.type # "") \/ (e.key = "provider" /\ b.provider # "")
    THEN <<"env", c, e.name, <<"annotation", e.key>>>>
    ELSE <<"env", c, e.name, <<"secret", b.secret, e.key>>>>

EnvFacts(b, c) == {EnvFact(b, c, b.env[i]) : i \in DOMAIN b.env}

Footprint(b) ==
  IF b.secret = "" THEN {}
  ELSE AnnotationFacts(b)
         \cup {VolumeFact(b)}
         \cup {<<"mount", c, <<user[c], b.name>>>> : c \in Bound(b)}
         \cup (UNION {EnvFacts(b, c) : c \in Bound(b)})

Project(b) ==
  /\ facts' = [facts EXCEPT ![b.uid] = Footprint(b)]
  /\ UNCHANGED user

Unproject(b) ==
  /\ facts' = [facts EXCEPT ![b.uid] = {}]
  /\ UNCHANGED user

\* The user writes a template of their own over the workload.
Replace(u) ==
  /\ user' = u
  /\ facts' = Nothing

Init == user \in Users /\ facts = Nothing

Next ==
  \/ \E b \in BindingVersions : Project(b) \/ Unproject(b)
  \/ \E u \in Users : Replace(u)

Spec == Init /\ [][Next]_vars
=============================================================================
