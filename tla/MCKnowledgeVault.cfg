SPECIFICATION Spec
CONSTANTS
  Servers = {s1, s2}
  Ids = {i1}
  Decisions <- SomeDecisions
  Modes <- SomeModes
  MaxCalls = 3
  MaxEdits = 1
  MaxFaults = 1
  None = none
INVARIANTS TypeOK EntryKeepsWhatItWasGiven RecallIsObeyed RecallFindsUses
PROPERTIES ServersLeaveCuratedAlone
