--------------------------- MODULE MCWebhookRules ---------------------------
(***************************************************************************)
(* Two versions of one workload kind share a resource; secrets can be      *)
(* referred to directly.                                                   *)
(***************************************************************************)
EXTENDS WebhookRules

CONSTANT b1

MCKinds == {"apps/v1 Deployment", "apps/v1beta1 Deployment", "v1 Secret"}
MCResources == {"deployments", "secrets"}
MCSecretKind == "v1 Secret"
MCResource == [k \in MCKinds |-> IF k = MCSecretKind THEN "secrets" ELSE "deployments"]
=============================================================================
