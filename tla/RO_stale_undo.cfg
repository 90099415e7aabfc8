\* Replacement order: see the README for what this run asks.
CONSTANTS
  c1 = c1
  c2 = c2
  q1 = q1
  q2 = q2
  p1 = p1
  p2 = p2
  p3 = p3
  d1 = d1
  d2 = d2
  e1 = e1
  agent = agent
  finance = finance
  Claims <- OneClaim
  Quantities = {1}
  Pushers <- TwoPushers
  Deleters <- TwoDeleters
  Editors <- Nobody
  Actors <- Finance
  Privileged <- Finance
  Exposures = {5}
  Threshold = 5
  StaffStatuses = {}
  MaxAttempts = 2
  MaxActs = 2
  LostReplies = FALSE
  Crashes = FALSE
SPECIFICATION Spec
PROPERTIES RealNumberStays
CHECK_DEADLOCK FALSE
