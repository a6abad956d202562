SPECIFICATION Spec
CONSTANTS
  MaxText = 4
  Samples = {1117, 1118}
  SenderSets = {{"plain", "runtime", "power_on"}}
INVARIANT
  DebugTellsWhy
