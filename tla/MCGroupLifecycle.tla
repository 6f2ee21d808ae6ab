-------------------------- MODULE MCGroupLifecycle --------------------------
(* Constants of the model-checking runs of GroupLifecycle. *)
EXTENDS GroupLifecycle

CONSTANTS a1, a2, n1, n2, g1, m1, m2, m3, s1, s2, s3

OneApp == {a1}
TwoApps == {a1, a2}
OneGrpc == {n1}
TwoGrpc == {n1, n2}
NoThreads == {}
OneGroup == {g1}
TwoSmgrs == {m1, m2}
ThreeSmgrs == {m1, m2, m3}
TwoServers == {s1, s2}
ThreeServers == {s1, s2, s3}
NoOverlap == {}
JoinJoin == {"join/join"}
JoinLeave == {"join/leave"}
=============================================================================
