\* Two charge rates and none, meters that may be a watt off, three samples.
SPECIFICATION Spec
CONSTANTS
  Rates = {0, 1, 3}
  Load = 10
  Offset = 1
  Slope = 1
  Glitch = 1
  MaxPoints = 3
  Window = 6
  Parts = 2
  None = None
INVARIANTS
  TypeOK
  ShowsTheTruth
  BestFit
