--------------------------- MODULE GroupLifecycle ---------------------------
(***************************************************************************)
(* The life of Raft groups on one server: ManagerImpl (create_group,       *)
(* join_group, leave_group, group_init, the raft event handler and the     *)
(* destructor) together with msg_service (joinRaftGroup, shutdown_for,     *)
(* leave_group, shutdown).                                                 *)
(*                                                                         *)
(* A region under _manager_lock is one action, and so is one operation on  *)
(* the concurrent map _raft_servers; everything between two of them may    *)
(* interleave with other threads.                                          *)
(***************************************************************************)
EXTENDS FiniteSets, Naturals

CONSTANTS AppThreads,   \* threads that call the Manager API
          GrpcThreads,  \* gRPC server threads delivering join_cluster_request
          Groups,
          Smgrs,        \* pool of mesg_state_mgr objects (a bound)
          Servers,      \* pool of raft_server objects (a bound)
          None,
          DataService,  \* msg_service::_data_service_enabled
          Overlaps      \* bound: the overlaps on ONE group that are explored

ASSUME NoneAssumption == None \notin Smgrs \cup Servers \cup Groups
ASSUME ThreadsAssumption == AppThreads \cap GrpcThreads = {}
ASSUME OverlapsAssumption == Overlaps \subseteq {"join/join", "join/leave"}

Threads == AppThreads \cup GrpcThreads

VARIABLES mgr,             \* the ManagerImpl object
          state_managers,  \* ManagerImpl::_state_managers
          is_leader,       \* ManagerImpl::_is_leader (absent reads as FALSE)
          raft_servers,    \* msg_service::_raft_servers
          smgr,            \* each state manager: "free", "live", "destroyed"
          repl_ctx,        \* the server a state manager's repl_service_ctx has
          srv,             \* each raft_server with its context
          exiting,         \* the manager that a server's exit_group has found
          th,              \* each thread's program counter and locals
          elected,         \* history: servers that raised an event as leader
          overlap          \* history: which calls on one group overlapped

history == <<elected, overlap>>
vars == <<mgr, state_managers, is_leader, raft_servers, smgr, repl_ctx, srv,
          exiting, th, history>>

JoinPCs == {"find", "init", "construct", "emplace", "ctx", "end", "unwind",
            "joined"}
LeavePCs == {"part", "stop", "shutdown", "destroy"}
Kinds == {"none", "create", "join", "step", "leave"}
Results == {"none", "OK", "CANCELLED", "SERVER_NOT_FOUND", "NOT_FOUND",
            "not_member"}

Thread == [pc : {"idle", "wait"} \cup JoinPCs \cup LeavePCs, kind : Kinds,
           g : Groups \cup {None}, m : Smgrs \cup {None},
           s : Servers \cup {None}, r : Results]

\* ctx->rpc_listener_ is held until raft_server::shutdown() or the destructor
\* releases it; stop_server() ("stopped") does not.
Server == [st : {"free", "running", "stopped", "shutdown", "destroyed"},
           g : Groups \cup {None}, m : Smgrs \cup {None}]

Up(s) == srv[s].st \in {"running", "stopped"}

Init ==
  /\ mgr = "up"
  /\ state_managers = [g \in Groups |-> None]
  /\ is_leader = [g \in Groups |-> FALSE]
  /\ raft_servers = [g \in Groups |-> None]
  /\ smgr = [m \in Smgrs |-> "free"]
  /\ repl_ctx = [m \in Smgrs |-> None]
  /\ srv = [s \in Servers |-> [st |-> "free", g |-> None, m |-> None]]
  /\ exiting = [s \in Servers |-> None]
  /\ th = [t \in Threads |-> [pc |-> "idle", kind |-> "none", g |-> None,
                              m |-> None, s |-> None, r |-> "none"]]
  /\ elected = {}
  /\ overlap = {}

-----------------------------------------------------------------------------
(* Callers.                                                                *)

Joiners(g) == {t \in Threads : th[t].g = g /\ th[t].pc \in JoinPCs}
Leavers(g) == {t \in Threads : th[t].g = g /\ th[t].pc \in LeavePCs}

\* Nothing in the code keeps calls on one group apart: history remembers which
\* ones overlapped.
JoinOverlaps(g) ==
  overlap' = overlap \cup (IF Joiners(g) = {} THEN {} ELSE {"join/join"})
                     \cup (IF Leavers(g) = {} THEN {} ELSE {"join/leave"})
LeaveOverlaps(g) ==
  overlap' = overlap \cup (IF Joiners(g) = {} THEN {} ELSE {"join/leave"})
Explored == overlap \subseteq Overlaps

\* Bound: a join starts only while the pools can serve every join in flight.
Room ==
  LET joiners == {t \in Threads : th[t].pc \in JoinPCs}
  IN /\ Cardinality({s \in Servers : srv[s].st = "free"}) > Cardinality(joiners)
     /\ Cardinality({m \in Smgrs : smgr[m] = "free"}) > Cardinality(joiners)

\* Fresh objects are interchangeable: each is as good as another.
FreshServer == CHOOSE s \in Servers : srv[s].st = "free"
FreshSmgr == CHOOSE m \in Smgrs : smgr[m] = "free"

Begin(t, k, g, pc) ==
  /\ th[t].pc = "idle"
  /\ th' = [th EXCEPT ![t] = [pc |-> pc, kind |-> k, g |-> g, m |-> None,
                              s |-> None, r |-> "none"]]

\* A call returns with a code: its locals are gone.
Return(t, code) ==
  th' = [th EXCEPT ![t] = [pc |-> "idle", kind |-> "none", g |-> None,
                           m |-> None, s |-> None, r |-> code]]

\* create_group: _is_leader.insert never overwrites a value that is there.
CreateGroup(t, g) ==
  /\ mgr = "up" /\ Room
  /\ Begin(t, "create", g, "find")
  /\ JoinOverlaps(g)
  /\ UNCHANGED <<mgr, state_managers, is_leader, raft_servers, smgr, repl_ctx,
                 srv, exiting, elected>>

\* join_group with the caller's state manager m; emplace keeps an old entry.
JoinGroup(t, g, m) ==
  /\ mgr = "up" /\ Room
  /\ smgr[m] = "free" /\ m = FreshSmgr
  /\ Begin(t, "join", g, "find")
  /\ JoinOverlaps(g)
  /\ IF state_managers[g] = None
     THEN /\ state_managers' = [state_managers EXCEPT ![g] = m]
          /\ smgr' = [smgr EXCEPT ![m] = "live"]
     ELSE UNCHANGED <<state_managers, smgr>>
  /\ UNCHANGED <<mgr, is_leader, raft_servers, repl_ctx, srv, exiting, elected>>

\* proto_service::raftStep on a join_cluster_request, on a gRPC thread.
RaftStepJoin(t, g) ==
  /\ mgr \in {"up", "destroying"} /\ Room
  /\ Begin(t, "step", g, "find")
  /\ JoinOverlaps(g)
  /\ UNCHANGED <<mgr, state_managers, is_leader, raft_servers, smgr, repl_ctx,
                 srv, exiting, elected>>

\* leave_group: the membership check under the lock, then the rest unlocked.
LeaveGroup(t, g) ==
  /\ mgr = "up"
  /\ IF state_managers[g] = None
     THEN th[t].pc = "idle" /\ Return(t, "not_member") /\ UNCHANGED overlap
     ELSE Begin(t, "leave", g, "part") /\ LeaveOverlaps(g)
  /\ UNCHANGED <<mgr, state_managers, is_leader, raft_servers, smgr, repl_ctx,
                 srv, exiting, elected>>

-----------------------------------------------------------------------------
(* msg_service::joinRaftGroup.                                             *)

Goto(t, pc) == th' = [th EXCEPT ![t].pc = pc]
Joined(t, code) == th' = [th EXCEPT ![t].pc = "joined", ![t].r = code]

\* MUTANT: the quick check for a duplicate is missing.
JoinFindNoCheck(t) ==
  /\ th[t].pc = "find"
  /\ IF mgr # "up" THEN Joined(t, "CANCELLED") ELSE Goto(t, "init")
  /\ UNCHANGED <<mgr, state_managers, is_leader, raft_servers, smgr, repl_ctx,
                 srv, exiting, history>>

\* _manager.lock(), then the quick check for a duplicate.
JoinFind(t) ==
  /\ th[t].pc = "find"
  /\ IF mgr # "up" THEN Joined(t, "CANCELLED")
     ELSE IF raft_servers[th[t].g] # None THEN Joined(t, "OK")
     ELSE Goto(t, "init")
  /\ UNCHANGED <<mgr, state_managers, is_leader, raft_servers, smgr, repl_ctx,
                 srv, exiting, history>>

\* MUTANT: the error of group_init is not passed on.
GroupInitErrorLost(t) ==
  /\ th[t].pc = "init"
  /\ Joined(t, "OK")
  /\ UNCHANGED <<mgr, state_managers, is_leader, raft_servers, smgr, repl_ctx,
                 srv, exiting, history>>

\* group_init under _manager_lock.  Whether the group's type is registered is
\* the application's choice.
GroupInitNoType(t) ==
  /\ th[t].pc = "init"
  /\ Joined(t, "SERVER_NOT_FOUND")
  /\ UNCHANGED <<mgr, state_managers, is_leader, raft_servers, smgr, repl_ctx,
                 srv, exiting, history>>

GroupInit(t) ==
  LET g == th[t].g
  IN /\ th[t].pc = "init"
     /\ \/ /\ state_managers[g] # None
           /\ th' = [th EXCEPT ![t].pc = "construct",
                               ![t].m = state_managers[g]]
           /\ UNCHANGED <<state_managers, smgr>>
        \/ /\ state_managers[g] = None
           /\ \E m \in Smgrs :
                /\ smgr[m] = "free" /\ m = FreshSmgr
                /\ smgr' = [smgr EXCEPT ![m] = "live"]
                /\ state_managers' = [state_managers EXCEPT ![g] = m]
                /\ th' = [th EXCEPT ![t].pc = "construct", ![t].m = m]
     /\ UNCHANGED <<mgr, is_leader, raft_servers, repl_ctx, srv, exiting,
                    history>>

\* std::make_shared<raft_server>(ctx): it runs, and raises events, from here.
Construct(t) ==
  /\ th[t].pc = "construct"
  /\ \E s \in Servers :
       /\ srv[s].st = "free" /\ s = FreshServer
       /\ srv' = [srv EXCEPT ![s] = [st |-> "running", g |-> th[t].g,
                                     m |-> th[t].m]]
       /\ th' = [th EXCEPT ![t].pc = "emplace", ![t].s = s]
  /\ UNCHANGED <<mgr, state_managers, is_leader, raft_servers, smgr, repl_ctx,
                 exiting, history>>

\* MUTANT: make_repl_ctx is never called.
TryEmplaceNoCtx(t) ==
  /\ th[t].pc = "emplace"
  /\ IF raft_servers[th[t].g] = None
     THEN /\ raft_servers' = [raft_servers EXCEPT ![th[t].g] = th[t].s]
          /\ Goto(t, "end")
     ELSE Goto(t, "unwind") /\ UNCHANGED raft_servers
  /\ UNCHANGED <<mgr, state_managers, is_leader, smgr, repl_ctx, srv, exiting,
                 history>>

\* try_emplace: from here raftStep finds the winner's server.
TryEmplace(t) ==
  /\ th[t].pc = "emplace"
  /\ IF raft_servers[th[t].g] = None
     THEN /\ raft_servers' = [raft_servers EXCEPT ![th[t].g] = th[t].s]
          /\ Goto(t, IF DataService THEN "ctx" ELSE "end")
     ELSE Goto(t, "unwind") /\ UNCHANGED raft_servers
  /\ UNCHANGED <<mgr, state_managers, is_leader, smgr, repl_ctx, srv, exiting,
                 history>>

\* The winner then gives the state manager a context on its server.
MakeReplCtx(t) ==
  /\ th[t].pc = "ctx"
  /\ repl_ctx' = [repl_ctx EXCEPT ![th[t].m] = th[t].s]
  /\ Goto(t, "end")
  /\ UNCHANGED <<mgr, state_managers, is_leader, raft_servers, smgr, srv,
                 exiting, history>>

\* msg_group_listner's destructor calls shutdown_for: it erases by group id.
shutdown_for(g) == raft_servers' = [raft_servers EXCEPT ![g] = None]

\* The winner returns: its new_listner was the last one if shutdown() has
\* released the context's meanwhile.
JoinEnd(t) ==
  /\ th[t].pc = "end"
  /\ IF Up(th[t].s) THEN UNCHANGED raft_servers ELSE shutdown_for(th[t].g)
  /\ Joined(t, "OK")
  /\ UNCHANGED <<mgr, state_managers, is_leader, smgr, repl_ctx, srv, exiting,
                 history>>

\* MUTANT: the listener keeps its server alive (a reference cycle).
DestructLeaks(s) ==
  /\ exiting[s] = None
  /\ srv' = srv
  /\ shutdown_for(srv[s].g)

\* The server s dies, when no handler runs on its threads any more, and with it
\* its context's listener.
Destruct(s) ==
  /\ exiting[s] = None
  /\ srv' = [srv EXCEPT ![s].st = "destroyed"]
  /\ IF Up(s) THEN shutdown_for(srv[s].g) ELSE UNCHANGED raft_servers

\* The loser of try_emplace returns: server, then new_listner go out of scope.
Unwind(t) ==
  /\ th[t].pc = "unwind"
  /\ Destruct(th[t].s)
  /\ Joined(t, "OK")
  /\ UNCHANGED <<mgr, state_managers, is_leader, smgr, repl_ctx, exiting,
                 history>>

\* What each caller of joinRaftGroup does with its result.
CreateJoined(t) ==
  /\ th[t].pc = "joined" /\ th[t].kind = "create"
  /\ IF th[t].r = "OK" THEN Goto(t, "wait") ELSE Return(t, th[t].r)
  /\ UNCHANGED <<mgr, state_managers, is_leader, raft_servers, smgr, repl_ctx,
                 srv, exiting, history>>

JoinGroupJoined(t) ==
  /\ th[t].pc = "joined" /\ th[t].kind = "join"
  /\ state_managers' = IF th[t].r = "OK" THEN state_managers
                       ELSE [state_managers EXCEPT ![th[t].g] = None]
  /\ Return(t, th[t].r)
  /\ UNCHANGED <<mgr, is_leader, raft_servers, smgr, repl_ctx, srv, exiting,
                 history>>

\* raftStep ignores the code and looks the server up.
StepJoined(t) ==
  /\ th[t].pc = "joined" /\ th[t].kind = "step"
  /\ Return(t, IF raft_servers[th[t].g] = None THEN "NOT_FOUND" ELSE "OK")
  /\ UNCHANGED <<mgr, state_managers, is_leader, raft_servers, smgr, repl_ctx,
                 srv, exiting, history>>

\* create_group waits on _config_change: the predicate decides the result,
\* when notified and when the timeout expires.
WaitLeader(t) ==
  /\ th[t].pc = "wait"
  /\ Return(t, IF is_leader[th[t].g] THEN "OK" ELSE "CANCELLED")
  /\ UNCHANGED <<mgr, state_managers, is_leader, raft_servers, smgr, repl_ctx,
                 srv, exiting, history>>

-----------------------------------------------------------------------------
(* leave_group, after the membership check.                                *)

\* MUTANT: leave_group never asks msg_service to part.
LeavePartSkipped(t) ==
  /\ th[t].pc = "part"
  /\ Goto(t, "destroy")
  /\ UNCHANGED <<mgr, state_managers, is_leader, raft_servers, smgr, repl_ctx,
                 srv, exiting, history>>

LeavePart(t) ==
  /\ th[t].pc = "part"
  /\ IF raft_servers[th[t].g] = None THEN Goto(t, "destroy")
     ELSE th' = [th EXCEPT ![t].pc = "stop", ![t].s = raft_servers[th[t].g]]
  /\ UNCHANGED <<mgr, state_managers, is_leader, raft_servers, smgr, repl_ctx,
                 srv, exiting, history>>

\* stop_server(): the server takes no more messages, but is still registered.
StopServer(s) ==
  srv' = IF srv[s].st = "running" THEN [srv EXCEPT ![s].st = "stopped"] ELSE srv

LeaveStop(t) ==
  /\ th[t].pc = "stop"
  /\ StopServer(th[t].s)
  /\ Goto(t, "shutdown")
  /\ UNCHANGED <<mgr, state_managers, is_leader, raft_servers, smgr, repl_ctx,
                 exiting, history>>

\* joinRaftGroup still has its new_listner.
JoinHolds(s) ==
  \E t \in Threads : th[t].pc \in {"emplace", "ctx", "end", "unwind"}
                     /\ th[t].s = s

\* shutdown() waits for a handler that runs (external: both need NuRaft's lock)
\* and lets go of the listener.
ShutdownServer(s) ==
  /\ exiting[s] = None
  /\ srv' = IF Up(s) THEN [srv EXCEPT ![s].st = "shutdown"] ELSE srv
  /\ IF Up(s) /\ ~JoinHolds(s)
     THEN shutdown_for(srv[s].g) ELSE UNCHANGED raft_servers

\* MUTANT: the entry is erased, the server goes on running.
LeaveShutdownErases(t) ==
  /\ th[t].pc = "shutdown"
  /\ shutdown_for(th[t].g)
  /\ Goto(t, "destroy")
  /\ UNCHANGED <<mgr, state_managers, is_leader, smgr, repl_ctx, srv, exiting,
                 history>>

LeaveShutdown(t) ==
  /\ th[t].pc = "shutdown"
  /\ ShutdownServer(th[t].s)
  /\ Goto(t, "destroy")
  /\ UNCHANGED <<mgr, state_managers, is_leader, smgr, repl_ctx, exiting,
                 history>>

\* MUTANT: permanent_destroy() without erasing the entry.
LeaveDestroyKeeps(t) ==
  LET m == state_managers[th[t].g]
  IN /\ th[t].pc = "destroy"
     /\ smgr' = IF m # None THEN [smgr EXCEPT ![m] = "destroyed"] ELSE smgr
     /\ Return(t, "OK")
     /\ UNCHANGED <<mgr, state_managers, is_leader, raft_servers, repl_ctx, srv,
                    exiting, history>>

LeaveDestroy(t) ==
  LET g == th[t].g
  IN /\ th[t].pc = "destroy"
     /\ IF state_managers[g] # None
        THEN /\ smgr' = [smgr EXCEPT ![state_managers[g]] = "destroyed"]
             /\ state_managers' = [state_managers EXCEPT ![g] = None]
        ELSE UNCHANGED <<smgr, state_managers>>
     /\ Return(t, "OK")
     /\ UNCHANGED <<mgr, is_leader, raft_servers, repl_ctx, srv, exiting,
                    history>>

-----------------------------------------------------------------------------
(* The rest of the system.                                                 *)

\* Nothing refers to a server that is neither registered nor in use: the map
\* reclaims it, and its destructor releases what it still holds.
Held(s) ==
  \/ \E g \in Groups : raft_servers[g] = s
  \/ JoinHolds(s)
  \/ \E t \in Threads : th[t].pc \in {"stop", "shutdown"} /\ th[t].s = s

Reclaim(s) ==
  /\ srv[s].st \notin {"free", "destroyed"}
  /\ ~Held(s)
  /\ Destruct(s)
  /\ UNCHANGED <<mgr, state_managers, is_leader, smgr, repl_ctx, exiting,
                 th, history>>

\* generic_raft_event_handler, reached while the manager can be locked; a
\* handler that stop_server() overtakes still takes effect.
BecomeLeader(s) ==
  /\ Up(s) /\ mgr = "up"
  /\ is_leader' = [is_leader EXCEPT ![srv[s].g] = TRUE]
  /\ elected' = elected \cup {s}
  /\ UNCHANGED <<mgr, state_managers, raft_servers, smgr, repl_ctx, srv,
                 exiting, th, overlap>>

BecomeFollower(s) ==
  /\ Up(s) /\ mgr = "up"
  /\ is_leader' = [is_leader EXCEPT ![srv[s].g] = FALSE]
  /\ UNCHANGED <<mgr, state_managers, raft_servers, smgr, repl_ctx, srv,
                 exiting, th, history>>

\* JoinedCluster: leader says whether leader_id == my_id.
JoinedCluster(s, leader) ==
  /\ Up(s) /\ mgr = "up"
  /\ is_leader' = [is_leader EXCEPT ![srv[s].g] = leader]
  /\ elected' = IF leader THEN elected \cup {s} ELSE elected
  /\ UNCHANGED <<mgr, state_managers, raft_servers, smgr, repl_ctx, srv,
                 exiting, th, overlap>>

\* RemovedFromCluster: exit_group looks the manager up under the lock ...
RemovedFromCluster(s) ==
  /\ Up(s) /\ mgr = "up" /\ exiting[s] = None
  /\ exiting' = [exiting EXCEPT ![s] = state_managers[srv[s].g]]
  /\ UNCHANGED <<mgr, state_managers, is_leader, raft_servers, smgr, repl_ctx,
                 srv, th, history>>

\* ... and calls leave() on what it found, without the lock.
ExitGroup(s) ==
  /\ exiting[s] # None
  /\ exiting' = [exiting EXCEPT ![s] = None]
  /\ UNCHANGED <<mgr, state_managers, is_leader, raft_servers, smgr, repl_ctx,
                 srv, th, history>>

\* MUTANT: joinRaftGroup does not keep the manager it locked.
HoldsManagerWeakly(t) == t \in AppThreads /\ th[t].pc # "idle"

\* The last shared_ptr to the manager goes.  A call of the application, a
\* joinRaftGroup past _manager.lock() and an event handler each hold one.
HoldsManager(t) ==
  \/ t \in AppThreads /\ th[t].pc # "idle"
  \/ th[t].pc \in {"init", "construct", "emplace", "ctx", "end", "unwind"}

ManagerDestroy ==
  /\ mgr = "up"
  /\ \A t \in Threads : ~HoldsManager(t)
  /\ \A s \in Servers : exiting[s] = None
  /\ mgr' = "destroying"
  /\ UNCHANGED <<state_managers, is_leader, raft_servers, smgr, repl_ctx, srv,
                 exiting, th, history>>

\* ~ManagerImpl: _mesg_service->shutdown() visits every registered server,
ServiceStop(g) ==
  /\ mgr = "destroying"
  /\ raft_servers[g] # None /\ srv[raft_servers[g]].st = "running"
  /\ StopServer(raft_servers[g])
  /\ UNCHANGED <<mgr, state_managers, is_leader, raft_servers, smgr, repl_ctx,
                 exiting, th, history>>

\* MUTANT: the servers are shut down but stay registered.
ServiceShutdownKeeps(g) ==
  /\ mgr = "destroying"
  /\ raft_servers[g] # None /\ srv[raft_servers[g]].st # "running"
  /\ srv' = [srv EXCEPT ![raft_servers[g]].st = "shutdown"]
  /\ UNCHANGED <<mgr, state_managers, is_leader, raft_servers, smgr, repl_ctx,
                 exiting, th, history>>

\* which its listener erases when it is shut down,
ServiceShutdown(g) ==
  /\ mgr = "destroying"
  /\ raft_servers[g] # None /\ srv[raft_servers[g]].st # "running"
  /\ ShutdownServer(raft_servers[g])
  /\ UNCHANGED <<mgr, state_managers, is_leader, smgr, repl_ctx, exiting, th,
                 history>>

\* then _grpc_server->shutdown() accepts no more and drains its threads.
GrpcShutdown ==
  /\ \/ /\ mgr = "destroying"
        /\ \A g \in Groups : raft_servers[g] = None
        /\ mgr' = "draining"
     \/ /\ mgr = "draining"
        /\ \A t \in GrpcThreads : th[t].pc = "idle"
        /\ mgr' = "down"
  /\ UNCHANGED <<state_managers, is_leader, raft_servers, smgr, repl_ctx, srv,
                 exiting, th, history>>

\* After the destructor nothing is left to run.
Terminated == mgr = "down" /\ UNCHANGED vars

JoinStep(t) ==
  \/ JoinFind(t) \/ GroupInitNoType(t) \/ GroupInit(t) \/ Construct(t)
  \/ TryEmplace(t) \/ MakeReplCtx(t) \/ JoinEnd(t) \/ Unwind(t)
  \/ CreateJoined(t) \/ JoinGroupJoined(t) \/ StepJoined(t)

LeaveStep(t) ==
  LeavePart(t) \/ LeaveStop(t) \/ LeaveShutdown(t) \/ LeaveDestroy(t)

ThreadStep(t) == JoinStep(t) \/ WaitLeader(t) \/ LeaveStep(t)

Next ==
  \/ \E t \in AppThreads, g \in Groups : CreateGroup(t, g) /\ Explored'
  \/ \E t \in AppThreads, g \in Groups, m \in Smgrs :
       JoinGroup(t, g, m) /\ Explored'
  \/ \E t \in AppThreads, g \in Groups : LeaveGroup(t, g) /\ Explored'
  \/ \E t \in GrpcThreads, g \in Groups : RaftStepJoin(t, g) /\ Explored'
  \/ \E t \in Threads : ThreadStep(t)
  \/ \E s \in Servers : Reclaim(s)
  \/ \E s \in Servers : BecomeLeader(s)
  \/ \E s \in Servers : BecomeFollower(s)
  \/ \E s \in Servers, leader \in BOOLEAN : JoinedCluster(s, leader)
  \/ \E s \in Servers : RemovedFromCluster(s) \/ ExitGroup(s)
  \/ ManagerDestroy
  \/ \E g \in Groups : ServiceStop(g) \/ ServiceShutdown(g)
  \/ GrpcShutdown
  \/ Terminated

Spec == Init /\ [][Next]_vars

\* Threads are scheduled, the application's leave() returns, a destructor that
\* started goes on, and the map reclaims what nothing refers to.  NuRaft's lock
\* goes to a shutdown() that waits for it in the end.
Fairness ==
  /\ \A s \in Servers : WF_vars(Reclaim(s)) /\ WF_vars(ExitGroup(s))
  /\ \A t \in Threads : SF_vars(ThreadStep(t))
  /\ \A g \in Groups : WF_vars(ServiceStop(g)) /\ WF_vars(ServiceShutdown(g))
  /\ WF_vars(GrpcShutdown)

FairSpec == Spec /\ Fairness

-----------------------------------------------------------------------------
(* Properties.                                                             *)

\* Type invariant of the maps, objects and thread locals above.
TypeOK ==
  /\ mgr \in {"up", "destroying", "draining", "down"}
  /\ state_managers \in [Groups -> Smgrs \cup {None}]
  /\ is_leader \in [Groups -> BOOLEAN]
  /\ raft_servers \in [Groups -> Servers \cup {None}]
  /\ smgr \in [Smgrs -> {"free", "live", "destroyed"}]
  /\ repl_ctx \in [Smgrs -> Servers \cup {None}]
  /\ srv \in [Servers -> Server]
  /\ exiting \in [Servers -> Smgrs \cup {None}]
  /\ th \in [Threads -> Thread]
  /\ elected \in SUBSET Servers
  /\ overlap \in SUBSET {"join/join", "join/leave"}

\* Unless calls on a group overlapped: what raftStep finds for a group is a
\* server of that group, stopped only while somebody leaves or the manager
\* goes, on the state manager the manager has for it, which is neither
\* withdrawn nor destroyed; with the data service, that state manager's
\* repl_service_ctx (a raw pointer) points at this very server, once the join
\* that registered it has made the context.
RegisteredServerServes ==
  overlap = {} =>
    \A g \in Groups :
      LET s == raft_servers[g]
      IN s # None =>
           /\ Up(s)
           /\ srv[s].st = "stopped" => Leavers(g) # {} \/ mgr # "up"
           /\ srv[s].g = g
           /\ srv[s].m = state_managers[g]
           /\ srv[s].m # None
           /\ smgr[srv[s].m] = "live"
           /\ DataService => \/ repl_ctx[srv[s].m] = s
                             \/ \E t \in Threads :
                                  th[t].pc = "ctx" /\ th[t].g = g

\* Two raft_servers are never up on one state manager, i.e. one log store is
\* written by one server, unless joins of the group overlapped (the duplicate
\* check and try_emplace of joinRaftGroup).
OneServerPerStorage ==
  "join/join" \notin overlap =>
    \A s1, s2 \in Servers :
      Up(s1) /\ Up(s2) /\ srv[s1].m = srv[s2].m => s1 = s2

\* permanent_destroy() is called on a state manager only after the server
\* that runs on it was shut down (the order of leave_group).
NoServerOnDestroyedStorage ==
  \A s \in Servers : Up(s) => smgr[srv[s].m] # "destroyed"

\* ... which holds unless calls on the group overlapped.
DestroyedAfterShutdown == overlap = {} => NoServerOnDestroyedStorage

\* joinRaftGroup that answered OK has left a server in _raft_servers, for as
\* long as its caller has not gone on and nobody leaves the group.
JoinRegisters ==
  \A t \in Threads :
    (th[t].pc = "joined" /\ th[t].r = "OK" /\ mgr = "up" /\ Leavers(th[t].g) = {})
      => raft_servers[th[t].g] # None

\* ... which holds unless calls on the group overlapped.
JoinAloneRegisters == overlap = {} => JoinRegisters

\* Once ~ManagerImpl is done no raft_server runs, unless joins overlapped:
\* joinRaftGroup keeps the manager alive while it creates one, so none slips
\* past the shutdown loop.
NoServerOutlivesManager ==
  ("join/join" \notin overlap /\ mgr = "down") => \A s \in Servers : ~Up(s)

\* The flag create_group waits for was set by the server it created: its
\* caller is told OK because THIS incarnation of the group elected us.
LeaderFlagIsFresh ==
  \A t \in Threads :
    (th[t].pc = "wait" /\ is_leader[th[t].g] /\ raft_servers[th[t].g] # None)
      => raft_servers[th[t].g] \in elected

\* exit_group finds a state manager by group id and calls leave() on it after
\* it released the lock: unless calls on the group overlapped, that is still
\* the evicted server's own storage, and it is not destroyed.
EvictionReachesOwnStorage ==
  overlap = {} =>
    \A s \in Servers :
      exiting[s] # None => exiting[s] = srv[s].m /\ smgr[exiting[s]] = "live"

\* The life cycle keeps the promise of GroupMembership.
Membership == INSTANCE GroupMembership WITH
  storage <- state_managers,
  serving <- raft_servers,
  used <- {m \in Smgrs : smgr[m] # "free"},
  gone <- {m \in Smgrs : smgr[m] = "destroyed"},
  stopped <- {s \in Servers : srv[s].st \in {"shutdown", "destroyed"}}

\* Storage encloses the server that uses it, and what was shut down stays so,
\* for as long as no calls on a group overlapped.
ImplementsMembership ==
  /\ Membership!GInit
  /\ [][overlap' = {} => Membership!GNext]_(Membership!gvars)

\* A leave_group that passed its check finishes with the group gone from both
\* maps, whatever other threads leave the same group.
LeaveCompletes ==
  \A g \in Groups :
    Leavers(g) # {} ~> (state_managers[g] = None /\ raft_servers[g] = None)

\* "it will quickly be destroyed" (joinRaftGroup, service.cpp:148): when
\* overlapping joins made two servers run on one state manager, all but one
\* of them stop again.
DuplicatesGoAway ==
  \A m \in Smgrs :
    Cardinality({s \in Servers : Up(s) /\ srv[s].m = m}) > 1
      ~> Cardinality({s \in Servers : Up(s) /\ srv[s].m = m}) < 2

\* A destructor that started finishes, although join requests still arrive.
ShutdownCompletes == mgr = "destroying" ~> mgr = "down"
=============================================================================
