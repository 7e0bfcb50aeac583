SPECIFICATION FairSpec
CONSTANTS
  Calls = {c1, c2}
  Scenarios <- SomeScenarios
  MaxFaults = 1
  None = none
INVARIANTS TypeOK OkIsOwnWork ScriptsRunAsAllowed NoConnectionOutlivesCall

PROPERTIES EveryGuiCallReturns
