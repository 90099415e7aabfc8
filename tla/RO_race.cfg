\* Replacement order: see the README for what this run asks.
CONSTANTS
  c1 = c1
  c2 = c2
  q1 = q1
  q2 = q2
  p1 = p1
  p2 = p2
  p3 = p3
  d1 = d1
  d2 = d2
  e1 = e1
  agent = agent
  finance = finance
  Claims <- OneClaim
  Quantities = {1}
  Pushers <- TwoPushers
  Deleters <- OneDeleter
  Editors <- Nobody
  Actors <- Staff
  Privileged <- Finance
  Exposures = {4, 5}
  Threshold = 5
  StaffStatuses = {"closed"}
  MaxAttempts = 3
  MaxActs = 3
  LostReplies = FALSE
  Crashes = FALSE
SPECIFICATION FairSpec
INVARIANTS OneOrderPerFingerprint OrdersAccountedFor RecordsAgree
PROPERTIES ImplementsLedger PushAnswered
CHECK_DEADLOCK FALSE
