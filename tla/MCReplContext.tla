---------------------------- MODULE MCReplContext ----------------------------
(* Two callers and a state machine thread at one server of up to two (or      *)
(* three) members.                                                            *)
EXTENDS ReplContext, TLC

CONSTANTS c1, c2

MCMixes ==
  {c1 :> Kinds @@ c2 :> {} @@ Asker :> {},
   c1 :> {"become"} @@ c2 :> {"add"} @@ Asker :> {},
   c1 :> {"create"} @@ c2 :> {"become"} @@ Asker :> {},
   c1 :> {} @@ c2 :> {} @@ Asker :> {"LEADER", "status"}}
=============================================================================
