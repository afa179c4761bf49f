-------------------------- MODULE MCApprovalGrants --------------------------
EXTENDS ApprovalGrants, TLC
CONSTANTS read, send, job1, cli
=============================================================================
