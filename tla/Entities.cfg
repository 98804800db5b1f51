SPECIFICATION Spec
CONSTANTS
  None = None
  Products <- MCProducts
  SettingsOf <- MCSettingsOf
  StatesOf <- MCStatesOf
  Gates <- MCGates
  Numerals <- MCNumerals
  FaultGroups <- MCFaultGroups
  LitSets <- MCLitSets
  FaultSets <- MCFaultSets
  Spans <- MCSpans
  Thresholds <- MCThresholds
  Currents <- MCCurrents
  Delays <- MCDelays
  PanelVersions <- MCPanelVersions
  MaxMoves = 2
INVARIANTS
  TypeOK
  NoControlIsRefused
  DoesWhatWasAsked
  SelectsShowTheStation
  SensorsTellTheTruth
  GateHonoured
PROPERTY
  WritesStayPermitted
