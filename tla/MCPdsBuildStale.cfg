SPECIFICATION Spec
CONSTANTS
  Runs = {r1, r2, r3}
  r1 = r1
  r2 = r2
  r3 = r3
  Versions = {v1, v2}
  Met = {v1, v2}
  Local = local
  Hosts = {h1}
  p1 = p1
  p2 = p2
  Releases = {p1, p2}
  Scenarios <- Edited
  None = none
INVARIANTS HitServesItsInputs
