CONSTANTS
  Uids <- MCUids
  Submissions <- MCSubmissions
  BoundSecrets <- MCSecrets
  UserTemplates <- MCUserTemplates
  UserEnv <- MCUserEnv
SPECIFICATION Spec
INVARIANTS
  TypeOK
  Idempotent
  OrderIndependent
  NoDanglingReference
  UserContentPreserved
  ProjectedIsWellFormed
  OtherBindingsPreserved
PROPERTIES
  RefinesProjection
