CONSTANTS
    w1 = w1  w2 = w2  planner = planner  send = send  trash = trash
    Workers = {w1, w2}
    Specialists = {planner}
    Effects = {send, trash}
    NoWorker = NoWorker  NoSpecialist = NoSpecialist  NoEffect = NoEffect
    TaskCount = 1
    ApprovalCount = 2
    MaxAttempts = 2
    LeaseLength = 1
    RetryDelay = 1
    ApprovalTTL = 1
    ScanLimit = 2
SPECIFICATION Spec
INVARIANTS TypeOK ParkedAwaitsPending WaitingHasAttempt SpecialistBound TallyIsExact LiveIsNewest OneShot
PROPERTIES RunEndsRightly OutcomeIsFinal KeepsLedger
SYMMETRY WorkerSymmetry
