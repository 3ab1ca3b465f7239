SPECIFICATION Spec
CONSTANTS
  AppCalls <- MCFocusOnly
  Failures = {}
  ZOOM_STAGES = 1
  MaxFocusMsgs = 1
  MaxEndMsgs = 1
INVARIANTS
  PreviewEnabledTells
