---------------------------- MODULE MC_Progress ----------------------------
EXTENDS Progress
=============================================================================
