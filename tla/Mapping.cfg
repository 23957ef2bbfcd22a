CONSTANTS
  Versions <- MCVersions
  Templates <- MCTemplates
  MaxVersions = 2
  Malformed <- MCMalformed
  General <- MCGeneral
  Fields <- MCFields
  Queries <- MCQueries
  WorkloadVersion = "v1"
  BindingVersions <- MCBindingVersions
  UserObjects <- MCUserObjects
  MaxRemaps = 2
SPECIFICATION WorkloadSpec
INVARIANTS
  WildcardServesTheRest
  LookupIsUsable
  ReadsBack
  Settles
  RestUntouched
  ResidueNeedsRemapping
