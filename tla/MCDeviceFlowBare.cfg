SPECIFICATION Spec
CONSTANTS
  Calls = {1}
  Devices = {a, b}
  A = a
  Local = local
  Hosts = {h1}
  Choices <- BareOnly
  Retries = 1
  MaxSwaps = 1
  None = none
INVARIANTS ReplayStopsAtIdcode
