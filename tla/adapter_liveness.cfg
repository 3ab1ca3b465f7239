SPECIFICATION FairSpec
CONSTANTS
  AppCalls <- MCLiveCalls
  Failures <- MCFailures
  ZOOM_STAGES = 1
  MaxFocusMsgs = 1
  MaxEndMsgs = 1
PROPERTIES
  EverySetStateCommits
  AutoFocusEnds
  CallsReturn
