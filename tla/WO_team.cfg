\* Working-on signals: see the README for what this run asks.
CONSTANTS
  Staff = {anna, ben}
  Nobody = Nobody
  Requests = {r1, r2}
  OtherStatuses = {"closed"}
  MaxSignals = 3
  MaxCrashes = 1
SPECIFICATION Spec
INVARIANTS TypeOK AssignedHasNote SignalsLimited
PROPERTIES AssigneeSettles
SYMMETRY SymmetricSignals
CHECK_DEADLOCK FALSE
