------------------------ MODULE MC_CoreSubscriptions ------------------------
EXTENDS CoreSubscriptions

CONSTANTS blocks, attestations, m1, p1

=============================================================================
