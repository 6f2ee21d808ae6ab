----------------------------- MODULE ReplContext -----------------------------
(***************************************************************************)
(* repl_service_ctx beside the raft server it asks: get_peer_id (for the   *)
(* destination LEADER) and get_raft_status read the role, the leader, the  *)
(* peer list and the config one after the other and without a lock, while  *)
(* GroupCommands' raft server changes them.                                *)
(***************************************************************************)
EXTENDS GroupCommands

CONSTANT Asker         \* a thread of the state machine

\* No peer id is one of the words that stand for an answer without a peer.
ASSUME AnswersAssumption ==
         {"none", "BAD_REQUEST", "SERVER_NOT_FOUND", "throws"} \cap Servers = {}

VARIABLES dropping,    \* removed from the leader's peer list, still in the config
          ask          \* the asker's call, and what was true during it

askVars == <<dropping, ask>>

NotAsking == [pc |-> "idle", op |-> "none", at |-> None, left |-> {}, got |-> {},
              ans |-> "none", leads |-> {}, ever |-> {}, always |-> {}]

InitAll == Init /\ dropping = {} /\ ask = NotAsking

\* get_peer_info_all (external): nothing unless this server leads.
Peers == IF leader = Self THEN members \ ({Self} \cup dropping) ELSE {}

\* NuRaft's leader (external) takes a peer off its list before the config that
\* leaves it out is there, as a comment in get_raft_status says.
Drop(p) ==
  /\ registered /\ event = Quiet /\ p \in Peers
  /\ dropping' = dropping \cup {p}
  /\ UNCHANGED vars

\* History: what the raft server has been like since the call began.
Watch ==
  ask' = IF ask.pc = "idle" THEN ask
         ELSE [ask EXCEPT !.leads = @ \cup {leader'}, !.ever = @ \cup members',
                          !.always = @ \cap (members' \ dropping')]

Begin(op) ==
  /\ ask.pc = "idle" /\ op \in calls[Asker]
  /\ ask' = [NotAsking EXCEPT !.pc = "role", !.op = op, !.leads = {leader},
                              !.ever = members, !.always = members \ dropping]

Answer(a) == ask' = [ask EXCEPT !.pc = "idle", !.ans = a]

\* MUTANT: get_peer_id does not ask whether this server is the leader.
is_raft_leaderUnasked ==
  /\ ask.pc = "role"
  /\ IF ask.op = "LEADER" THEN ask' = [ask EXCEPT !.pc = "get"]
     ELSE ask' = [ask EXCEPT !.pc = IF leader = Self THEN "peers" ELSE "self"]

\* is_raft_leader(), with which both calls begin.
is_raft_leader ==
  /\ ask.pc = "role"
  /\ IF ask.op = "LEADER"
     THEN IF leader = Self THEN Answer("BAD_REQUEST")
          ELSE ask' = [ask EXCEPT !.pc = "get"]
     ELSE ask' = [ask EXCEPT !.pc = IF leader = Self THEN "peers" ELSE "self"]

\* get_peer_id: get_leader().
get_leader ==
  /\ ask.pc = "get"
  /\ IF leader = None THEN Answer("SERVER_NOT_FOUND")
     ELSE ask' = [ask EXCEPT !.pc = "name", !.at = leader]

\* id_to_str(): the uuid of the endpoint; string_generator throws if there is
\* no such server in the config any more.
id_to_str ==
  /\ ask.pc = "name"
  /\ Answer(IF ask.at \in members THEN ask.at ELSE "throws")

\* get_raft_status on a leader: get_peer_info_all(),
get_peer_info_all ==
  /\ ask.pc = "peers"
  /\ ask' = [ask EXCEPT !.pc = "each", !.left = Peers]

\* then each peer's config, if it still has one,
EachPeer ==
  /\ ask.pc = "each"
  /\ \/ \E p \in ask.left :
          ask' = [ask EXCEPT !.left = @ \ {p}, !.got = @ \cup ({p} \cap members)]
     \/ ask.left = {} /\ ask' = [ask EXCEPT !.pc = "self"]

\* MUTANT: only a leader adds itself.
OwnInfoLeader ==
  /\ ask.pc = "self"
  /\ ask' = [ask EXCEPT !.pc = "idle",
             !.got = @ \cup (IF leader = Self THEN {Self} \cap members ELSE {})]

\* and on leader and follower the server itself, unless it was removed.
OwnInfo ==
  /\ ask.pc = "self"
  /\ ask' = [ask EXCEPT !.pc = "idle", !.got = @ \cup ({Self} \cap members)]

NextAll ==
  \/ /\ Next
     /\ dropping' = dropping \cap members'
     /\ Watch
  \/ (\E p \in Others : Drop(p)) /\ Watch
  \/ /\ \/ \E op \in {"LEADER", "status"} : Begin(op)
        \/ is_raft_leader \/ get_leader \/ id_to_str
        \/ get_peer_info_all \/ EachPeer \/ OwnInfo
     /\ UNCHANGED <<vars, dropping>>

SpecAll == InitAll /\ [][NextAll]_<<vars, askVars>> /\ Fairness

-----------------------------------------------------------------------------
(* Properties.                                                             *)

\* The answer to a request for the leader is right for some moment of the
\* call, although role, leader and config are read at three: BAD_REQUEST and
\* SERVER_NOT_FOUND when this server or nobody led, a member that led, this
\* server itself only if it was elected in between, and an exception only if
\* somebody led who was not a member all the time.
LeaderAnswer ==
  (ask.pc = "idle" /\ ask.op = "LEADER") =>
    /\ ask.ans = "BAD_REQUEST" => Self \in ask.leads
    /\ ask.ans = "SERVER_NOT_FOUND" => None \in ask.leads
    /\ ask.ans = "throws" => ask.leads \ ({None} \cup ask.always) # {}
    /\ ask.ans \notin {"BAD_REQUEST", "SERVER_NOT_FOUND", "throws"} =>
         /\ ask.ans \in ask.leads \cap ask.ever
         /\ ask.ans = Self => ask.leads # {Self}

\* get_raft_status lists members only, with itself among them; a server that
\* led all along lists every member that was one all along, and a follower
\* lists nobody else, however leader and config change between the reads.
StatusAnswer ==
  (ask.pc = "idle" /\ ask.op = "status") =>
    /\ ask.got \subseteq ask.ever
    /\ Self \in ask.always => Self \in ask.got
    /\ ask.leads = {Self} => ask.always \subseteq ask.got
    /\ Self \notin ask.leads => ask.got \subseteq {Self}
=============================================================================
