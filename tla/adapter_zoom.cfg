SPECIFICATION Spec
CONSTANTS
  AppCalls <- MCZoomCalls
  Failures <- MCFailures
  ZOOM_STAGES = 3
  MaxFocusMsgs = 1
  MaxEndMsgs = 1
CHECK_DEADLOCK FALSE
INVARIANTS
  Settled
  ZoomOvershootsByOne
PROPERTIES
  ZoomHeadsForTarget
