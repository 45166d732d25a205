CONSTANTS
  rs = rs
  col = col
  Timers = {rs, col}
  None = None
  Startups <- NoStartup
  Delays = {0, 1, 2}
  MaxEvents = 4
  MaxClock = 0
  RealTime = FALSE
SPECIFICATION FairTimerSpec
INVARIANTS TypeOK NotBackwards PendingIffQueued
PROPERTIES InOrder ExpiresWhenAsked PendingExpires
CHECK_DEADLOCK FALSE
