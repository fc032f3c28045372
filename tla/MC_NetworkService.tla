-------------------------- MODULE MC_NetworkService --------------------------
EXTENDS NetworkService

CONSTANTS p1, p2, m1, m2, m3, t1

=============================================================================
