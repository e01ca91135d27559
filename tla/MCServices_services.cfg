SPECIFICATION Spec
SYMMETRY Alike
CONSTANTS
 i1=i1 j1=j1 p1=p1 p2=p2 m1=m1 m2=m2
 LearnJob={j1} AuthorJob={k1} Prop={p1,p2} Category={"visual_defect","physical_measurement"}
 Role={"","record_only"} Applier={a1}
 Memory={m1,m2} SampleType<-TwoTypes Feature={"f"} Content={"x","y"} Uncertain={} CodeOf<-OneCode Run={r1}
 Incident={i1} Point={"A","B"} PointOf<-Points Qualification={q1,q2} Clerk={c1,c2}
INVARIANTS
 PointIsOnce PassIsInspected
 FalsePassIsAnswered ApprovedMeets
CHECK_DEADLOCK FALSE
