\* Decisions on an active probation, without crashes.
SPECIFICATION OnProbationSpec
CONSTANTS
  Ref = {r1, r2}
  Cid = {"a", "x"}
  Point = {"a"}
  Payload <- MCFewPayloads
  Decision = {"pass", "fail"}
  Verdicts = {"pass", "fail", "review_required", "review", "reject", "escalate"}
  MaxInflight = 2
  MayCrash = FALSE
  MinSample = 2
  Interval = 1
  Num = 9
  Den = 10
  NoRow = NoRow
  NoSub = NoSub
  Worker = {w1, w2}
  Idle = Idle
PROPERTIES
  DecisionAdvancesProbation
CHECK_DEADLOCK FALSE
