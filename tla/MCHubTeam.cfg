SPECIFICATION FairSpec
CONSTANTS
    a1 = a1  a2 = a2  a3 = a3  p1 = p1  p2 = p2  None = None
    Agents = {a1, a2, a3}  ProjectOf <- OneProject
    MaxRequests = 1
INVARIANTS TypeOK LockHolds ChainsHangTogether NoCircularWait
PROPERTY AsksAreSettled
CHECK_DEADLOCK FALSE
