\* Two jobs, two requests between commits, crashes; payloads for every line
\* of the verdict table.
SPECIFICATION VSpec
CONSTANTS
  Ref = {r1, r2}
  Cid = {"a", "b", "x"}
  Point = {"a", "b"}
  Payload <- MCPayloads
  Decision = {"pass", "review"}
  Verdicts = {"pass", "fail", "review_required", "review", "reject", "escalate"}
  MaxInflight = 2
  MayCrash = TRUE
  MinSample = 2
  Interval = 1
  Num = 9
  Den = 10
  NoRow = NoRow
  NoSub = NoSub
  Worker = {w1, w2}
  Idle = Idle
SYMMETRY MCSymmetry
INVARIANTS
  VerdictFollowsTable
  CountedPairStands
  CountersNeverAhead
PROPERTIES
  VerdictDrivesProbation
CHECK_DEADLOCK FALSE
