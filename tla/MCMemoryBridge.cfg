CONSTANTS
    w1 = w1  w2 = w2  room = room  depend = depend  p = p
    Workers = {w1, w2}
    Families = {room, depend}
    Projects = {p}
    Family <- FamilyOf
    Project <- ProjectOf
    Malformed = {3}
    FirstContract = {room}
    MaxEvents = 3
    MaxGenerations = 2
    Batch = 2
    LeaseLength = 1
    Asks = 2
    Troubles = 1
    Nobody = Nobody  Dead = Dead  NoProject = NoProject
SPECIFICATION FairSpec
INVARIANTS TypeOK RowsAreReplay
PROPERTIES HaltsAreEarned SuppressedStaysOut FollowsTheStream FollowsOrHalts

\* A halted bridge stops until the operator, whose requests are bounded, resumes it.
CHECK_DEADLOCK FALSE
