\* Telegram alerts: see the README for what this run asks.
CONSTANTS
  NumUsers = 2
  p1 = p1
  p2 = p2
  g = g
  Private = {p1, p2}
  Groups = {g}
  Env <- TwiceTheGroup
  Teams <- SampleTeams
  Inboxes <- SampleInboxes
  Garbage = Garbage
  Tickets = {t1, t2}
  Texts = {Nothing, t1, t2}
  Roles = {"distributor"}
  Nothing = Nothing
  Workers = {w1, w2}
  MaxAlerts = 2
  MaxUpdates = 1
  MaxMishaps = 1
SPECIFICATION Spec
INVARIANTS TypeOK PickupsMeant
PROPERTIES TeamToldOnce SteadyChatsTried AlertsAnswered
SYMMETRY SymmetricWork
CHECK_DEADLOCK FALSE
