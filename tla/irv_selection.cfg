SPECIFICATION Spec
CONSTANTS
  r1 = r1
  r2 = r2
  c1 = c1
  c2 = c2
  d1 = d1
  d2 = d2
  Racks = {r1, r2}
  Chassis = {c1, c2}
  Devices = {d1, d2}
  Complex = {c1}
  Parent <- MCParent
  Enclosed <- MCEnclosed
  PresetLevels = {"chassis", "all"}
  None = None
INVARIANT Safety
PROPERTIES UpdateKeepsSelection PollKeepsSelection
