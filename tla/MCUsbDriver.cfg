SPECIFICATION Spec
CONSTANTS
  Controller = {c1, c2, c3}
  Broken = {c3}
  MaxPlugs = 2
INVARIANTS TypeOK RemovedFromListed
CHECK_DEADLOCK FALSE
