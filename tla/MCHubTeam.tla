------------------------------ MODULE MCHubTeam ------------------------------
EXTENDS HubTeam
CONSTANTS a1, a2, a3, p1, p2
OneProject == [a \in Agents |-> p1]
TwoProjects == [a \in Agents |-> IF a = a3 THEN p2 ELSE p1]
=============================================================================
