\* Identifiers that contain slashes.
SPECIFICATION TargetSpec
CONSTANTS
  IdCharacters = {"a", "b", "/"}
  Ids <- ShortIds
  ServiceTypes = {"t1"}
INVARIANTS
  AlwaysUnambiguous
