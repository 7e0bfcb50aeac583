SPECIFICATION Spec
CONSTANTS
  Calls = {c1, c2, c3}
  c1 = c1
  c2 = c2
  c3 = c3
  Versions = {good, wrong, bad, counts, broken}
  good = good
  wrong = wrong
  bad = bad
  counts = counts
  broken = broken
  list1 = list1
  list2 = list2
  Listed <- Lists
  Result <- Results
  Trace <- Traces
  Scenarios <- SomeScenarios
  None = none
INVARIANTS TypeOK PassedRunIsOwn HitRestsOnPass WaveformsAreReadRight
