SPECIFICATION Spec
CONSTANTS
  Calls = {1}
  Devices = {a, b}
  A = a
  Local = local
  Hosts = {h1}
  Choices <- RemoteCdt
  Retries = 1
  MaxSwaps = 0
  None = none
INVARIANTS RemoteCdtOkMeansWhole
