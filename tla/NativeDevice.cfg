SPECIFICATION Spec
CHECK_DEADLOCK FALSE
CONSTANTS
  EventCount = 3
  Starters = {t1, t2}
  Bitrates = {83333, 500000, 800000, 999}
  Clocks = {48000000, 24000000}
  NoTiming = NoTiming
  MaxLeaks = 2
INVARIANTS
  TypeOK
  HandlesHeld
  EventsClosedOnce
  RunsAtAskedRate
PROPERTIES
  OpenReports
