------------------------------- MODULE RaftStep -------------------------------
(***************************************************************************)
(* proto_service: how the RaftStep RPCs of several groups are validated    *)
(* and routed on gRPC threads, queued in the Raft pool or in the I/O pool  *)
(* they share, stepped by execute_step under NuRaft's lock and answered,   *)
(* while groups are joined and left and until the service is destroyed.    *)
(*                                                                         *)
(* Of a join and a leave this module has what a message can meet: servers  *)
(* that stop while their entry is still there, and entries that go while   *)
(* their server still runs.  GroupLifecycle has all their steps.           *)
(***************************************************************************)
EXTENDS Integers, FiniteSets, Sequences

CONSTANTS Groups,         \* the groups whose messages share the pools
          Joined,         \* those that were joined before
          Rpcs,           \* the messages of one behaviour (a bound)
          Kind,           \* what each of them is
          Group,          \* and the group it is for
          RaftThreads,    \* raft_append_entries_thread_cnt
          IoThreads,      \* calculate_io_pool_size()
          MaxServers      \* bound on the incarnations of a group

MsgKinds == {"vote", "join", "append", "heartbeat", "snapshot"}

ASSUME JoinedAssumption == Joined \subseteq Groups
ASSUME RpcsAssumption == IsFiniteSet(Rpcs)
ASSUME KindAssumption == Kind \in [Rpcs -> MsgKinds]
ASSUME GroupAssumption == Group \in [Rpcs -> Groups]
ASSUME PoolsAssumption == {RaftThreads, IoThreads} \subseteq Nat \ {0}
ASSUME ServersAssumption == MaxServers \in Nat \ {0}

Pools == {"raft", "io"}
Threads(p) == IF p = "raft" THEN RaftThreads ELSE IoThreads

VARIABLES service,    \* "up", "stopping", "closing", "closed", "destroyed"
          server,     \* each group's entry in _raft_servers (0: none)
          life,       \* of each incarnation of each group's raft_server
          rpc,        \* where each message is
          held,       \* the raft_server that a join built, a lambda captured
          status,     \* what execute_step gave, until its lambda returns
          responses,  \* how often each message was answered
          queue,      \* what was posted to each pool
          active      \* _raft_pool_active_threads, _io_pool_active_threads

registry == <<server, life>>
answers == <<status, responses>>
pools == <<queue, active>>
vars == <<service, registry, rpc, held, answers, pools>>

Incarnations == 1..MaxServers
Lives == {"none", "running", "stopped", "gone"}
Statuses == {"none", "OK", "NOT_FOUND", "CANCELLED"}

Init ==
  /\ service = "up"
  /\ server = [g \in Groups |-> IF g \in Joined THEN 1 ELSE 0]
  /\ life = [g \in Groups |-> [s \in Incarnations |->
               IF s = server[g] THEN "running" ELSE "none"]]
  /\ rpc = [r \in Rpcs |-> "unsent"]
  /\ held = [r \in Rpcs |-> 0]
  /\ status = [r \in Rpcs |-> "none"]
  /\ responses = [r \in Rpcs |-> 0]
  /\ queue = [p \in Pools |-> <<>>]
  /\ active = [p \in Pools |-> 0]

Goto(r, at) == rpc' = [rpc EXCEPT ![r] = at]

Respond(r) == responses' = [responses EXCEPT ![r] = @ + 1]

\* ~msg_group_listner -> shutdown_for(): the group's entry goes, whichever
\* server it is of.
Erase(g, s) ==
  /\ server' = [server EXCEPT ![g] = 0]
  /\ life' = [life EXCEPT ![g][s] = "gone"]

-----------------------------------------------------------------------------
(* raftStep, on a gRPC thread.                                             *)

\* The gRPC server calls raftStep until it shuts down.
Arrive(r) ==
  /\ service \in {"up", "stopping"}
  /\ rpc[r] = "unsent"
  /\ Goto(r, "arrived")
  /\ UNCHANGED <<service, registry, held, answers, pools>>

\* An id that is no UUID, or a message for another service: INVALID_ARGUMENT.
Reject(r) ==
  /\ rpc[r] = "arrived"
  /\ Goto(r, "done")
  /\ Respond(r)
  /\ UNCHANGED <<service, registry, held, status, pools>>

\* A valid message; joinRaftGroup of a join_cluster_request finds a server,
\* or has no manager any more, or fails, and raftStep ignores its code.
Accept(r) ==
  /\ rpc[r] = "arrived"
  /\ Goto(r, "valid")
  /\ UNCHANGED <<service, registry, held, answers, pools>>

\* joinRaftGroup finds no server and builds one, which runs at once ...
Construct(r, s) ==
  /\ rpc[r] = "arrived" /\ Kind[r] = "join"
  /\ service = "up" /\ server[Group[r]] = 0
  /\ life[Group[r]][s] = "none"
  /\ life' = [life EXCEPT ![Group[r]][s] = "running"]
  /\ held' = [held EXCEPT ![r] = s]
  /\ Goto(r, "joining")
  /\ UNCHANGED <<service, server, answers, pools>>

\* ... and registers it; or another join was first, the server just built is
\* destroyed, and its listener erases the entry of the other.
TryEmplace(r) ==
  /\ rpc[r] = "joining"
  /\ \/ /\ server[Group[r]] = 0
        /\ server' = [server EXCEPT ![Group[r]] = held[r]]
        /\ UNCHANGED life
     \/ server[Group[r]] # 0 /\ Erase(Group[r], held[r])
  /\ held' = [held EXCEPT ![r] = 0]
  /\ Goto(r, "valid")
  /\ UNCHANGED <<service, answers, pools>>

\* MUTANT: a message for a group that is missing waits until it is there.
LookupMissingWaits(r) ==
  /\ rpc[r] = "valid"
  /\ server[Group[r]] = 0
  /\ UNCHANGED vars

\* NOT_FOUND, without a lambda.
LookupMissing(r) ==
  /\ rpc[r] = "valid"
  /\ server[Group[r]] = 0
  /\ Goto(r, "done")
  /\ Respond(r)
  /\ UNCHANGED <<service, registry, held, status, pools>>

\* MUTANT: a message that is not append_entries_request is slow, too.
PoolAlwaysIo(r) == "io"

\* is_slow_message: by the message's type, and a heartbeat's type is
\* append_entries_request.
Pool(r) == IF Kind[r] \in {"append", "heartbeat", "snapshot"} THEN "io" ELSE "raft"

\* MUTANT: raftStep returns true after it posted the message.
PostAndRespond(r) ==
  /\ rpc[r] = "valid"
  /\ server[Group[r]] # 0
  /\ held' = [held EXCEPT ![r] = server[Group[r]]]
  /\ Goto(r, "queued")
  /\ queue' = [queue EXCEPT ![Pool(r)] = Append(@, r)]
  /\ Respond(r)
  /\ UNCHANGED <<service, registry, status, active>>

\* The lambda keeps the server it found alive.
Post(r) ==
  /\ rpc[r] = "valid"
  /\ server[Group[r]] # 0
  /\ held' = [held EXCEPT ![r] = server[Group[r]]]
  /\ Goto(r, "queued")
  /\ queue' = [queue EXCEPT ![Pool(r)] = Append(@, r)]
  /\ UNCHANGED <<service, registry, answers, active>>

-----------------------------------------------------------------------------
(* The pools.                                                              *)

Busy == {"running", "stepping", "answered"}
Running(p) == {r \in Rpcs : rpc[r] \in Busy /\ Pool(r) = p}

\* A thread of the pool takes the oldest lambda; atomic_counter_guard counts.
Take(p) ==
  /\ queue[p] # <<>>
  /\ Cardinality(Running(p)) < Threads(p)
  /\ Goto(Head(queue[p]), "running")
  /\ queue' = [queue EXCEPT ![p] = Tail(@)]
  /\ active' = [active EXCEPT ![p] = @ + 1]
  /\ UNCHANGED <<service, registry, held, answers>>

\* NuRaft's lock of incarnation s of group g: process_req has it for a whole
\* message.
Locked(g, s) ==
  \E r \in Rpcs : rpc[r] = "stepping" /\ Group[r] = g /\ held[r] = s

\* process_req waits for the lock.
ProcessReq(r) ==
  /\ rpc[r] = "running"
  /\ ~Locked(Group[r], held[r])
  /\ Goto(r, "stepping")
  /\ UNCHANGED <<service, registry, held, answers, pools>>

\* execute_step: process_req answers, a server that stops gives none
\* (CANCELLED), an exception becomes NOT_FOUND; then send_response().
ExecuteStep(r) ==
  /\ rpc[r] = "stepping"
  /\ Goto(r, "answered")
  /\ \E s \in {IF life[Group[r]][held[r]] = "running" THEN "OK" ELSE "CANCELLED",
               "NOT_FOUND"} :
       status' = [status EXCEPT ![r] = s]
  /\ Respond(r)
  /\ UNCHANGED <<service, registry, held, pools>>

\* MUTANT: the counter goes down only after a successful step.
ReleaseOnSuccess(r) ==
  /\ rpc[r] = "answered"
  /\ Goto(r, "done")
  /\ held' = [held EXCEPT ![r] = 0]
  /\ status' = [status EXCEPT ![r] = "none"]
  /\ active' = IF status[r] = "OK" THEN [active EXCEPT ![Pool(r)] = @ - 1]
               ELSE active
  /\ UNCHANGED <<service, registry, responses, queue>>

\* The lambda returns: the guard's destructor runs, the thread is free.
Release(r) ==
  /\ rpc[r] = "answered"
  /\ Goto(r, "done")
  /\ held' = [held EXCEPT ![r] = 0]
  /\ status' = [status EXCEPT ![r] = "none"]
  /\ active' = [active EXCEPT ![Pool(r)] = @ - 1]
  /\ UNCHANGED <<service, registry, responses, queue>>

-----------------------------------------------------------------------------
(* Servers that stop or go, and the end of the service.                    *)

\* msg_service::leave_group, or shutdown() under ~ManagerImpl: the registered
\* server is shut down, which takes its lock ...
StopServer(g) ==
  /\ service \in {"up", "stopping"}
  /\ server[g] # 0 /\ life[g][server[g]] = "running"
  /\ ~Locked(g, server[g])
  /\ life' = [life EXCEPT ![g][server[g]] = "stopped"]
  /\ UNCHANGED <<service, server, rpc, held, answers, pools>>

\* ... and later its listener goes.
ListenerGone(g, s) ==
  /\ service # "destroyed"
  /\ life[g][s] = "stopped"
  /\ Erase(g, s)
  /\ UNCHANGED <<service, rpc, held, answers, pools>>

\* A running server whose entry another one's listener erased goes with the
\* last lambda that has it, and so does its listener.
Reclaim(g, s) ==
  /\ service # "destroyed"
  /\ life[g][s] = "running" /\ server[g] # s
  /\ \A r \in Rpcs : Group[r] = g => held[r] # s
  /\ Erase(g, s)
  /\ UNCHANGED <<service, rpc, held, answers, pools>>

\* ~ManagerImpl begins; a join in progress holds the manager.
ServiceShutdown ==
  /\ service = "up"
  /\ \A r \in Rpcs : rpc[r] # "joining"
  /\ service' = "stopping"
  /\ UNCHANGED <<registry, rpc, held, answers, pools>>

\* All registered servers are shut down.
AllStopped == \A g \in Groups : server[g] # 0 => life[g][server[g]] # "running"

\* MUTANT: the service with its pools goes before the gRPC server, which then
\* polls for the calls it waits for.
GrpcShutdownLast ==
  /\ service \in {"stopping", "closing"} /\ AllStopped
  /\ service' = "closing"
  /\ queue' = [p \in Pools |-> <<>>]
  /\ UNCHANGED <<registry, rpc, held, answers, active>>

\* _grpc_server->shutdown() after _mesg_service->shutdown(): it takes no more
\* calls ...
GrpcShutdown ==
  /\ service = "stopping" /\ AllStopped
  /\ service' = "closing"
  /\ UNCHANGED <<registry, rpc, held, answers, pools>>

\* ... and returns when those it has are answered.
GrpcDrained ==
  /\ service = "closing"
  /\ \A r \in Rpcs : rpc[r] # "unsent" => responses[r] > 0
  /\ service' = "closed"
  /\ UNCHANGED <<registry, rpc, held, answers, pools>>

\* ~proto_service: a thread_pool is stopped, which drops what is queued, and
\* joined, which waits for what runs.
PoolsDestroyed ==
  /\ service = "closed"
  /\ \A r \in Rpcs : rpc[r] \notin Busy
  /\ service' = "destroyed"
  /\ queue' = [p \in Pools |-> <<>>]
  /\ UNCHANGED <<registry, rpc, held, answers, active>>

GrpcStep(r) ==
  \/ Reject(r) \/ Accept(r) \/ \E s \in Incarnations : Construct(r, s)
  \/ TryEmplace(r) \/ LookupMissing(r) \/ Post(r)

Closing ==
  \/ service = "stopping" /\ \E g \in Groups : StopServer(g)
  \/ GrpcShutdown \/ GrpcDrained \/ PoolsDestroyed

Next ==
  \/ \E r \in Rpcs : \/ Arrive(r) \/ GrpcStep(r) \/ ProcessReq(r)
                     \/ ExecuteStep(r) \/ Release(r)
  \/ \E p \in Pools : Take(p)
  \/ \E g \in Groups : \/ StopServer(g)
                       \/ \E s \in Incarnations : ListenerGone(g, s) \/ Reclaim(g, s)
  \/ ServiceShutdown \/ GrpcShutdown \/ GrpcDrained \/ PoolsDestroyed
  \/ service = "destroyed" /\ UNCHANGED vars

Spec == Init /\ [][Next]_vars

Slow(r) == Kind[r] \in {"append", "snapshot"}

\* A step that does no storage I/O, by its kind or because the server stopped.
QuickStep(r) ==
  ExecuteStep(r) /\ (Slow(r) => life[Group[r]][held[r]] # "running")

\* Threads are scheduled and a free lock is taken; only a step that does
\* storage I/O may hold it forever.
FastFairness ==
  /\ \A r \in Rpcs : /\ WF_vars(GrpcStep(r))
                     /\ WF_vars(ProcessReq(r))
                     /\ WF_vars(QuickStep(r))
                     /\ WF_vars(Release(r))
  /\ \A p \in Pools : WF_vars(Take(p))
  /\ WF_vars(Closing)

FastSpec == Spec /\ FastFairness

\* The storage answers in the end, too.
StorageAnswers == \A r \in Rpcs : WF_vars(ExecuteStep(r))

-----------------------------------------------------------------------------
(* Properties.                                                             *)

\* Type invariant of the service, its messages and its pools.
TypeOK ==
  /\ service \in {"up", "stopping", "closing", "closed", "destroyed"}
  /\ server \in [Groups -> 0..MaxServers]
  /\ life \in [Groups -> [Incarnations -> Lives]]
  /\ rpc \in [Rpcs -> {"unsent", "arrived", "joining", "valid", "queued",
                       "running", "stepping", "answered", "done"}]
  /\ held \in [Rpcs -> 0..MaxServers]
  /\ status \in [Rpcs -> Statuses]
  /\ responses \in [Rpcs -> Nat]
  /\ queue \in [Pools -> Seq(Rpcs)]
  /\ active \in [Pools -> Nat]

\* Every message is answered by exactly one of raftStep (which returns true)
\* and execute_step (which calls send_response), on every path.
OneResponse ==
  \A r \in Rpcs : /\ responses[r] <= 1
                  /\ rpc[r] \in {"answered", "done"} <=> responses[r] = 1

\* "Atomic counters correctly increment/decrement (no leaks)": each counter
\* is the number of its pool's busy threads, whatever the steps' outcomes.
CountersDoNotLeak ==
  service # "destroyed" => \A p \in Pools : active[p] = Cardinality(Running(p))

\* Every message is answered although groups are left, overlapping joins
\* erase each other's servers and the service shuts down, as long as steps
\* that do storage I/O end, too.
EveryMessageAnswered ==
  StorageAnswers => \A r \in Rpcs : rpc[r] = "arrived" ~> responses[r] > 0

\* "The order matters" in ~ManagerImpl: once it begins, the servers stop, the
\* gRPC server gets the answers it waits for, and the service with its pools
\* is destroyed; nobody waits for a pool that is gone.
ShutdownEnds ==
  StorageAnswers => (service = "stopping" ~> service = "destroyed")

\* The groups whose storage may hang, and their fast messages.
Hanging == {Group[r] : r \in {q \in Rpcs : Slow(q)}}
Stuck == {r \in Rpcs : Pool(r) = "raft" /\ Group[r] \in Hanging}

\* "Fast messages never wait behind slow operations", as far as it is so: the
\* votes and join requests of a group are answered although the storage of
\* other groups hangs and fills the I/O pool, unless fast messages of those
\* groups, which wait for NuRaft's lock, occupy every Raft thread.
FastAnswered ==
  Cardinality(Stuck) < RaftThreads =>
    \A r \in Rpcs :
      Kind[r] \in {"vote", "join"} /\ Group[r] \notin Hanging
        => (rpc[r] = "arrived" ~> responses[r] > 0)

\* A heartbeat is among the design's fast messages, so the same holds for it.
HeartbeatAnswered ==
  Cardinality(Stuck) < RaftThreads =>
    \A r \in Rpcs :
      Kind[r] = "heartbeat" /\ Group[r] \notin Hanging
        => (rpc[r] = "arrived" ~> responses[r] > 0)
=============================================================================
