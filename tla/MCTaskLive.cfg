CONSTANTS
    w1 = w1  w2 = w2  planner = planner  send = send  trash = trash
    Workers = {w1, w2}
    Specialists = {}
    Effects = {send}
    NoWorker = NoWorker  NoSpecialist = NoSpecialist  NoEffect = NoEffect
    TaskCount = 1
    ApprovalCount = 1
    MaxAttempts = 2
    LeaseLength = 1
    RetryDelay = 1
    ApprovalTTL = 1
    ScanLimit = 1
SPECIFICATION FairSpec
PROPERTY EveryTaskSettles
