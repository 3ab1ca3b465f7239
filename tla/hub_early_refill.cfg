SPECIFICATION Spec
CONSTANTS
  Buffers = {1}
  Queueable = {1}
  Cookies = {1, 2}
  DisplayCookie = 2
  Returners = {r1}
  Subscribed <- MCSubscribed
  Toggled <- MCToggled
  MaxHeld = 1
  Incomplete = TRUE
  EarlyFrames = FALSE
INVARIANTS
  FilledOnlyAfterReturn
