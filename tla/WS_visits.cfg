\* Workspaces: see the README for what this run asks.
CONSTANTS
  dan = dan
  sam = sam
  Users = {dan, sam}
  Requester = dan
  Rows <- SampleRows
  Statuses = {"new", "closed"}
  Polls = {1, 2}
  Nobody = Nobody
  None = None
SPECIFICATION FairSpec
INVARIANTS TypeOK LandsInWorkspace
PROPERTIES VisitEnds ReaderMayRead StatusCatchesUp
CHECK_DEADLOCK FALSE
