---------------------------- MODULE MC_Retention ----------------------------
EXTENDS Retention

KeepLast(n) == [NoPolicy EXCEPT !.last = n]

\* Nothing configured, the tightest policy, and one that needs every rule.
SomePolicies == {NoPolicy, KeepLast(1), [last |-> 0, daily |-> 2, weekly |-> 1, monthly |-> 2]}

OnlyKeepLast == {KeepLast(1)}
=============================================================================
