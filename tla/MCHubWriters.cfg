SPECIFICATION Spec
CONSTANTS
    a1 = a1  a2 = a2  a3 = a3  p1 = p1  p2 = p2  None = None
    Agents = {a1, a2, a3}  ProjectOf <- OneProject
    MaxRequests = 1
INVARIANT OneWriterPerProject
CHECK_DEADLOCK FALSE
