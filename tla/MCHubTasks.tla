---------------------------- MODULE MCHubTasks ----------------------------
EXTENDS HubTasks
CONSTANTS a1, a2, p1
OneAgent == [t \in Tasks |-> a1]
AgentEach == [t \in Tasks |-> IF t = 1 THEN a1 ELSE a2]
OneProject == [t \in Tasks |-> p1]
=============================================================================
