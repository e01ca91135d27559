SPECIFICATION TPSpec
CONSTANTS
 p1=p1 m1=m1 m2=m2
 LearnJob={} AuthorJob={k1} Prop={p1} Category={"visual_defect","physical_measurement"} Role={"","record_only"} Applier={a1}
 Memory={m1,m2} SampleType<-TwoTypes Feature={"f"} Content={"x","y"} Uncertain={} CodeOf<-OneCode Run={r1}
INVARIANT MockNeverInspects
CHECK_DEADLOCK FALSE
