--------------------------- MODULE MCClientCache ---------------------------
(* Constants of the model-checking run of ClientCache. *)
EXTENDS ClientCache, TLC

CONSTANTS f1, f2, d1, p1, w1, w2, w3, c1, c2, c3

MCFactories == {f1, f2}
MCDataThreads == {d1}
MCPeers == {p1}
MCWrappers == {w1, w2, w3}
MCChans == {c1, c2, c3}

\* Objects of one pool are interchangeable, and so are the two groups.
Symmetry ==
  Permutations(MCWrappers) \cup Permutations(MCChans)
    \cup Permutations(MCFactories)
=============================================================================
