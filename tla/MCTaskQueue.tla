---------------------------- MODULE MCTaskQueue ----------------------------
EXTENDS TaskQueue, TLC
CONSTANTS w1, w2, planner, send, trash
WorkerSymmetry == Permutations(Workers)
=============================================================================
