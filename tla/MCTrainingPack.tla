--------------------------- MODULE MCTrainingPack ---------------------------
EXTENDS TrainingPack
CONSTANTS p1, m1, m2
OneCode == [x \in {p1, m1, m2} |-> "C1"]
TwoTypes == [x \in {m1, m2} |-> IF x = m1 THEN "positive" ELSE "defect"]
=============================================================================
