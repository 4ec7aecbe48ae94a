---------------------------- MODULE MC_RunQueue ----------------------------
EXTENDS RunQueue

\* The first task retries once, the others never.
MCRetries == [t \in Tasks |-> IF t = 1 THEN 1 ELSE 0]
=============================================================================
