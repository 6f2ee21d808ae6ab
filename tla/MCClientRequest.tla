--------------------------- MODULE MCClientRequest ---------------------------
EXTENDS ClientRequest, TLC

CONSTANTS p1, p2, p3

MCPeers == {p1, p2, p3}

Symmetry == Permutations(MCPeers)
=============================================================================
