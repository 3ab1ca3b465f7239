SPECIFICATION Spec
CONSTANTS
  AppCalls <- MCFocusCalls
  Failures <- MCFailures
  ZOOM_STAGES = 1
  MaxFocusMsgs = 1
  MaxEndMsgs = 1
INVARIANTS
  TypeOK
  Settled
  RecordingMatchesState
  FocusToldOnce
PROPERTIES
  CommandsAtomic
