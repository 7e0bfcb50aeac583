SPECIFICATION MCSpec
CONSTANTS
  Calls = {1, 2}
  Devices = {a, b}
  A = a
  Local = local
  Hosts = {h1}
  Choices <- AllTools
  Retries = 1
  MaxSwaps = 1
  None = none
INVARIANTS TypeOK WritesAreGated WrongDeviceOnlyBySwap OkMeansWhole NoScriptOutlivesCall GuiLeftOnlyByFailure
PROPERTIES EveryCallReturns
