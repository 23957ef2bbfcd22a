CONSTANTS
  Versions <- MCVersions
  Templates <- MCTemplates
  MaxVersions = 3
  Malformed <- MCMalformed
  General <- MCGeneral
SPECIFICATION Spec
INVARIANT ExactVersionIsMatched
