SPECIFICATION FairSpec
CONSTANTS
  AppCalls <- MCOnlyZoom
  Failures = {}
  ZOOM_STAGES = 2
  MaxFocusMsgs = 1
  MaxEndMsgs = 1
CHECK_DEADLOCK FALSE
PROPERTIES
  EverySetStateCommits
