CONSTANTS
    w1 = w1
    w2 = w2
    i1 = i1
    Worker = {w1, w2}
    Intake = {i1}
    MaxRevisions = 2
    MaxJudgments = 2
    MaxEdits = 1
    MaxBundles = 1
    Window = 2
    MinCorrect = 1
    WriterLock = TRUE
SPECIFICATION StdSpec
SYMMETRY Requests
INVARIANTS OneActive PublishedWasTrained 
PROPERTY ImplementsLifecycle
CHECK_DEADLOCK FALSE
