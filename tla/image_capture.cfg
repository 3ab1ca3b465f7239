SPECIFICATION FairSpec
CONSTANTS
  PreviewBuffers = {p1}
  ImageBuffers = {i1}
  Modes <- MCBoth
  CancelOnce = TRUE
  EarlyFrames = FALSE
  MaxTakes = 2
CHECK_DEADLOCK FALSE
INVARIANTS
  TypeOK
  SnapshotHeld
  EndMeansDelivered
  NoReferenceLeft
PROPERTIES
  AnswersInOrder
  CallsReturn
  CaptureEnds
