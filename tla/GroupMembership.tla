--------------------------- MODULE GroupMembership ---------------------------
(***************************************************************************)
(* What ManagerImpl and msg_service promise together about one server's    *)
(* membership of Raft groups, without threads, locks or reference counts.  *)
(*                                                                         *)
(* A group's storage (its mesg_state_mgr: RAFT log, vote, configuration)   *)
(* encloses the life of the raft_server that uses it: storage first, then  *)
(* a server, then the server stops, and only then is the storage destroyed.*)
(* A server that stopped never serves again, and storage that was destroyed*)
(* never comes back.  GroupLifecycle implements this module.               *)
(***************************************************************************)
CONSTANTS Groups,    \* the Raft groups
          Smgrs,     \* state managers: one stands for one log store
          Servers,   \* raft_server objects
          None

VARIABLES storage,   \* the state manager of each group, or None
          serving,   \* the raft_server registered for each group, or None
          used,      \* state managers that were ever a group's storage
          gone,      \* state managers whose files are to be deleted
          stopped    \* raft_servers that were shut down

gvars == <<storage, serving, used, gone, stopped>>

GInit ==
  /\ storage = [g \in Groups |-> None]
  /\ serving = [g \in Groups |-> None]
  /\ used = {}
  /\ gone = {}
  /\ stopped = {}

Provision(g, m) ==
  /\ storage[g] = None
  /\ serving[g] = None
  /\ m \notin used
  /\ storage' = [storage EXCEPT ![g] = m]
  /\ used' = used \cup {m}
  /\ UNCHANGED <<serving, gone, stopped>>

Start(g, s) ==
  /\ storage[g] # None
  /\ serving[g] = None
  /\ s \notin stopped
  /\ \A h \in Groups : serving[h] # s
  /\ serving' = [serving EXCEPT ![g] = s]
  /\ UNCHANGED <<storage, used, gone, stopped>>

Stop(g) ==
  /\ serving[g] # None
  /\ serving' = [serving EXCEPT ![g] = None]
  /\ stopped' = stopped \cup {serving[g]}
  /\ UNCHANGED <<storage, used, gone>>

\* leave_group: the files go only once nothing serves from them.
Destroy(g) ==
  /\ storage[g] # None
  /\ serving[g] = None
  /\ gone' = gone \cup {storage[g]}
  /\ storage' = [storage EXCEPT ![g] = None]
  /\ UNCHANGED <<serving, used, stopped>>

\* join_group whose raft_server could not be created: the entry is withdrawn.
Discard(g) ==
  /\ storage[g] # None
  /\ serving[g] = None
  /\ storage' = [storage EXCEPT ![g] = None]
  /\ UNCHANGED <<serving, used, gone, stopped>>

GNext ==
  \E g \in Groups :
    \/ \E m \in Smgrs : Provision(g, m)
    \/ \E s \in Servers : Start(g, s)
    \/ Stop(g)
    \/ Destroy(g)
    \/ Discard(g)

GSpec == GInit /\ [][GNext]_gvars
=============================================================================
