\* One request at a time; checks at 2, 4 and 6 jobs, threshold 2/3.
SPECIFICATION TxSpec
CONSTANTS
  Ref = {r1, r2, r3, r4, r5, r6}
  Worker = {w1}
  Verdicts = {"pass", "fail"}
  MinSample = 2
  Interval = 2
  Num = 2
  Den = 3
  NoRow = NoRow
  Idle = Idle
SYMMETRY MCSymmetry
INVARIANTS
  FirstPassedCheckQualifies
PROPERTIES
  ImplementsProbation
CHECK_DEADLOCK FALSE
