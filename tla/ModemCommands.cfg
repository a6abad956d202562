SPECIFICATION Spec
CONSTANTS
  MaxText = 4
  Samples = {1117, 1118}
  SenderSets = {{"plain"}, {"power_on"}, {"plain", "runtime", "power_on"}}
INVARIANTS
  ParsersAgree
  SentAsTyped
  StateIsTrue
  SentOnlyPowered
