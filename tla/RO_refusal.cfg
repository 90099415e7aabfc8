\* Replacement order: see the README for what this run asks.
CONSTANTS
  c1 = c1
  c2 = c2
  q1 = q1
  q2 = q2
  p1 = p1
  p2 = p2
  p3 = p3
  d1 = d1
  d2 = d2
  e1 = e1
  agent = agent
  finance = finance
  Claims <- OneClaim
  Quantities = {1}
  Pushers <- TwoPushers
  Deleters <- Nobody
  Editors <- Nobody
  Actors <- Agent
  Privileged <- Nobody
  Exposures = {5}
  Threshold = 5
  StaffStatuses = {}
  MaxAttempts = 1
  MaxActs = 1
  LostReplies = FALSE
  Crashes = FALSE
SPECIFICATION Spec
INVARIANTS RefusalAsksForApproval
CHECK_DEADLOCK FALSE
