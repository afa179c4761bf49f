SPECIFICATION Spec
CONSTANTS
    a1 = a1  a2 = a2  p1 = p1
    TaskCount = 1  Agents = {a1}  AgentOf <- OneAgent
    ProjectOf <- OneProject  Writers = {a1}
    MaxResumes = 1  Requests = 1  FollowUps = 1  Delays = 1  Troubles = 0
PROPERTY CancelHolds
CHECK_DEADLOCK FALSE
