SPECIFICATION FairSpec
CONSTANTS
  Failures <- MCAllFail
  MaxStale = 2
INVARIANTS
  TypeOK
  AnsweredMeansDone
  StateAgrees
  LoadedIsQuiet
  SemaphoresClear
  HandleFreed
PROPERTIES
  OperationsEnd
