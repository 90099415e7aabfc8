\* Hot batch watch: see the README for what this run asks.
CONSTANTS
  Claims = {c1, c2, c3}
  Requests = {r1, r2}
  Threshold = 2
  MaxForms = 1
SPECIFICATION FairSpec
INVARIANTS TypeOK OneOpenIncident CountsAreFiled ThresholdNoticed
PROPERTIES CommitNotices SaveEnds
