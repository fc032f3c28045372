----------------------- MODULE MC_GossipSubscriptions -----------------------
EXTENDS GossipSubscriptions

CONSTANTS blocks, attestations, d0, d1

=============================================================================
