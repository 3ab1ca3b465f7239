SPECIFICATION Spec
CONSTANTS
  Buffers = {1, 2}
  Queueable = {1}
  Cookies = {1, 2}
  DisplayCookie = 2
  Returners = {r1}
  Subscribed <- MCSubscribed
  Toggled <- MCVideo
  MaxHeld = 1
  Incomplete = FALSE
  EarlyFrames = FALSE
INVARIANTS
  TypeOK
  SumIsTotal
  EveryRefOwed
  NoBufferLost
