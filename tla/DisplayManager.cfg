SPECIFICATION Spec
CONSTANTS
  r1 = r1
  r2 = r2
  DP = DP
  HDMI = HDMI
  Empty = Empty
  Names = {DP, HDMI}
  Resolutions <- MCResolutions
  Pixels <- MCPixels
  ModeIds = {1, 2, 3, 4}
  Screens <- MCScreens
  Procs = {p1, p2}
  Starts = {TRUE, FALSE}
SYMMETRY Symmetry
INVARIANTS TypeOK BusyForAReason SettledPageIsFresh ChoiceIsShown
PROPERTIES ListsStayWhileEnabled
