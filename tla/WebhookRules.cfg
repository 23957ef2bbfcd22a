CONSTANTS
  b1 = b1
  Bindings = {b1}
  Kinds <- MCKinds
  Resources <- MCResources
  Resource <- MCResource
  SecretKind <- MCSecretKind
  NoReference = NoReference
  TTL = 2
  MaxEdits = 2
  MaxFaults = 1
SPECIFICATION FairSpec
INVARIANTS
  RestingRulesAreComplete
  AnswerIsRecent
PROPERTIES
  RulesSettle
