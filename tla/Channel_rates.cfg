SPECIFICATION Spec
CONSTANTS
  IdLimit = 4
  AppFrames <- MCAppFrames
  SecondMs = 2
  MaxSends = 2
  MaxTime = 3
INVARIANT
  RatesArePerSecond
