SPECIFICATION Spec
CONSTANTS
  Failures <- MCNoneFail
  MaxStale = 0
INVARIANTS
  MetadataOutlivesPort
