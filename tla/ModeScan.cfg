SPECIFICATION ScanSpec
CONSTANTS
  r1 = r1
  r2 = r2
  r3 = r3
  eDP = eDP
  HDMI = HDMI
  Empty = Empty
  MaxModes = 3
  Names <- MCNames
  Resolutions <- MCResolutions
  Pixels <- MCPixels
  ModeIds <- MCModeIds
  Reports <- MCReports
INVARIANTS ScanTypeOK KeepsHighestRate ScanComputesParse
CHECK_DEADLOCK FALSE
