SPECIFICATION Spec
CONSTANTS
  Volumes = {v}
  UNITY = u
  Gains = {g}
  NoGains = ng
  Emitters = {e1, e2}
  MaxEqs = 1
INVARIANTS
  FaultMutes
CHECK_DEADLOCK FALSE
