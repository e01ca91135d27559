SPECIFICATION Spec
CONSTANTS
 WifiReading={"down","slow","fast"} CellReading={TRUE,FALSE} Photo={q1,q2}
 Reviewed={a1,a2} HumanDecision={"accept","reject"}
 Caller={c1,c2} RequestId={i1,i2} Digest={d1,d2} CacheMax=1 PairPad={p1,p2} MaxKey=3
 Station={w1,w2} Runner={r1,r2} FloorPad={f1} Bundle={b1} Binder={n1}
INVARIANTS
 DecidedIsNotQueued JobHoldsNetwork UploadedIsStored RecognizedOnce PairedPadIsServed OneRunnerPerStation
PROPERTY QueuedIsAnswered
CHECK_DEADLOCK FALSE
