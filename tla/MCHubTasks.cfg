SPECIFICATION FairSpec
CONSTANTS
    a1 = a1  a2 = a2  p1 = p1
    TaskCount = 2  Agents = {a1}  AgentOf <- OneAgent
    ProjectOf <- OneProject  Writers = {a1}
    MaxResumes = 1  Requests = 2  FollowUps = 1  Delays = 1  Troubles = 1
INVARIANTS TypeOK NoSilentStall
PROPERTIES KeepsQueue QueuedIsServed
CHECK_DEADLOCK FALSE
