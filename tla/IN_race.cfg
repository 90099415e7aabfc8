\* Portal intake: see the README for what this run asks.
CONSTANTS
  Requests = {r1, r2}
  Seeds = {seed}
  Forms <- SampleForms
  Rules <- SampleRules
  Costs = {1250, 4160}
  SeedCost = 9000
  MaxExposure = 130
  MaxQuantity = 3
  StaffStatuses = {"closed"}
  Unset = Unset
  Amounts <- SampleAmounts
  MaxSubmissions = 3
  MaxDisturbances = 1
SPECIFICATION Spec
INVARIANTS TypeOK OneRuleApplied StaffHasLastWord ExposureNearest
PROPERTIES DuplicatesFromOverlap ErrorsExplained
SYMMETRY SymmetricRequests
CHECK_DEADLOCK FALSE
