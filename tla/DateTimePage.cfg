SPECIFICATION Spec
CONSTANTS
  Zones = {1, 2, 3}
  Spots = {1, 2, 3}
  Distance <- MCDistance
  Largest = 100
  NoZone = none
  MaxCalls = 2
INVARIANTS SwitchIsService LabelIsZone NamedIsNear
