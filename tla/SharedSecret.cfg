CONSTANTS
  Uids <- MCUids
  Submissions <- MCSubmissions
  BoundSecrets <- MCSharedSecrets
  UserTemplates <- MCUserTemplates
  UserEnv <- MCUserEnv
SPECIFICATION Spec
INVARIANT OtherBindingsPreserved
