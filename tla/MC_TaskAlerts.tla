---------------------------- MODULE MC_TaskAlerts ----------------------------
EXTENDS TaskAlerts, TLC

WorkerSymmetry == Permutations(Workers)
=============================================================================
