\* One job, two points: every order of the calls of both clients.
SPECIFICATION InspSpec
CONSTANTS
  Ref = {j1}
  Point = {p1, p2}
  Verdicts = {"pass", "fail", "review_required"}
  MinSample = 1
  Interval = 1
  Num = 9
  Den = 10
  NoRow = NoRow
  Worker = {w1, w2}
  Idle = Idle
SYMMETRY MCSymmetry
INVARIANTS
  RecordedPairStands
  ReportStandsOnResults
PROPERTIES
  InspectionDrivesProbation
CHECK_DEADLOCK FALSE
