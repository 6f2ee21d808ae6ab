----------------------------- MODULE DataService -----------------------------
(***************************************************************************)
(* The gRPC server of a ManagerImpl and what is registered with it: start, *)
(* restart_server, bind_data_service_request with data_service_grpc, and   *)
(* the destructor.  restart_server holds _manager_lock from "make" to its  *)
(* end; a request is bound without that lock, or with it when the          *)
(* application binds in create_state_mgr, which group_init calls on a      *)
(* gRPC thread.                                                            *)
(*                                                                         *)
(* sisl::GrpcServer is external: a name can be registered once, and only   *)
(* while the server runs; registering a service may fail; destroying the   *)
(* server waits for its threads.                                           *)
(***************************************************************************)
EXTENDS Integers

CONSTANTS Names,       \* the requests that are bound
          MaxServers   \* bound on the gRPC servers made

ASSUME MaxServersAssumption == MaxServers \in Nat
ASSUME NamesAssumption == "RaftStep" \notin Names

Servers == 1..MaxServers
Null == 0
Garbage == -1          \* data_service_grpc does not initialise its pointer

VARIABLES proc,        \* "up", "destroyed", "aborted" (by abort()) or "crashed"
          started,     \* init_messaging has returned the manager
          enabled,     \* _data_service_enabled
          server,      \* ManagerImpl::_grpc_server
          ptr,         \* data_service_grpc::_grpc_server
          life,        \* each gRPC server's state
          reg,         \* the names registered with each
          map,         \* the names in _request_map
          restart,     \* where restart_server is
          tmp,         \* its tmp_server
          joining,     \* a gRPC thread has a join_cluster_request in hand
          thrown,      \* history: where the restart that made the server threw
          overlapped   \* history: a request was bound while restart_server ran

history == <<thrown, overlapped>>
vars == <<proc, started, enabled, server, ptr, life, reg, map, restart, tmp,
          joining, history>>

\* init_messaging calls start(), which goes on with restart_server.
Init ==
  /\ proc = "up" /\ started = FALSE
  /\ enabled \in BOOLEAN
  /\ server = Null
  /\ ptr = Garbage
  /\ life = [s \in Servers |-> "none"]
  /\ reg = [s \in Servers |-> {}]
  /\ map = {}
  /\ restart = "make"
  /\ tmp = Null
  /\ joining = FALSE
  /\ thrown = "nowhere" /\ overlapped = FALSE

-----------------------------------------------------------------------------
(* restart_server.                                                         *)

Restart ==
  /\ proc = "up" /\ started /\ restart = "idle"
  /\ restart' = "make"
  /\ UNCHANGED <<proc, started, enabled, server, ptr, life, reg, map, tmp,
                 joining, history>>

Ends == restart' = "idle" /\ started' = TRUE

\* MUTANT: an exception passes by the unlock.
ThrowHolds(where) ==
  /\ thrown' = where
  /\ restart' = "held"
  /\ UNCHANGED <<proc, started, life>>

\* An exception leaves restart_server and releases _manager_lock; when it leaves
\* init_messaging too it takes the new manager with it.
Throw(where) ==
  /\ thrown' = where
  /\ restart' = "idle"
  /\ IF started THEN UNCHANGED <<proc, life>>
     ELSE proc' = "destroyed" /\ life' = [life EXCEPT ![server] = "dead"]
  /\ UNCHANGED started

\* MUTANT: the old server goes before there is a new one.
MakeAfterReset ==
  /\ restart = "make"
  /\ \/ /\ Ends
        /\ server' = Null
        /\ life' = [s \in Servers |-> IF s = server THEN "dead" ELSE life[s]]
        /\ UNCHANGED <<tmp, thrown>>
     \/ \E s \in Servers :
          /\ life[s] = "none"
          /\ life' = [life EXCEPT ![s] = "inited"]
          /\ tmp' = s
          /\ restart' = "reset"
          /\ thrown' = "nowhere"
          /\ UNCHANGED <<server, started>>
  /\ UNCHANGED <<proc, enabled, ptr, reg, map, joining, overlapped>>

\* GrpcServer::make throws or returns null: the old server stays.
Make ==
  /\ restart = "make"
  /\ \/ Ends /\ UNCHANGED <<life, tmp, thrown>>
     \/ \E s \in Servers :
          /\ life[s] = "none"
          /\ life' = [life EXCEPT ![s] = "inited"]
          /\ tmp' = s
          /\ restart' = "reset"
          /\ thrown' = "nowhere"
          /\ UNCHANGED started
  /\ UNCHANGED <<proc, enabled, server, ptr, reg, map, joining, overlapped>>

\* _grpc_server.reset() waits for the server's threads; then the new one.
Reset ==
  /\ restart = "reset" /\ ~joining
  /\ life' = [s \in Servers |-> IF s = server THEN "dead" ELSE life[s]]
  /\ server' = tmp
  /\ restart' = "associate"
  /\ UNCHANGED <<proc, started, enabled, ptr, reg, map, tmp, joining, history>>

\* MUTANT: the data service keeps the pointer it has.
associateOnce ==
  /\ restart = "associate"
  /\ ptr' = IF enabled /\ ptr = Garbage THEN server ELSE ptr
  /\ restart' = "run"
  /\ UNCHANGED <<proc, started, enabled, server, life, reg, map, tmp, joining, history>>

\* msg_service::associate and proto_service::associate: the data service gets
\* the pointer and registers its service, which may throw; then Messaging is
\* registered, or the process aborts.
associate ==
  /\ restart = "associate"
  /\ ptr' = IF enabled THEN server ELSE ptr
  /\ \/ restart' = "run" /\ UNCHANGED <<proc, started, life, thrown>>
     \/ enabled /\ Throw("associate")
     \/ proc' = "aborted" /\ UNCHANGED <<started, life, restart, thrown>>
  /\ UNCHANGED <<enabled, server, reg, map, tmp, joining, overlapped>>

run ==
  /\ restart = "run"
  /\ life' = [life EXCEPT ![server] = "running"]
  /\ restart' = "bind"
  /\ UNCHANGED <<proc, started, enabled, server, ptr, reg, map, tmp, joining, history>>

\* MUTANT: what was bound before is forgotten.
bindNone ==
  /\ restart = "bind"
  /\ reg' = [reg EXCEPT ![server] = @ \cup {"RaftStep"}]
  /\ Ends
  /\ UNCHANGED <<proc, enabled, server, ptr, life, map, tmp, joining, history>>

\* msg_service::bind registers the requests of the map, in any order, and
\* throws at one that is there already; proto_service::bind adds RaftStep, or
\* the process aborts.
bind ==
  /\ restart = "bind"
  /\ \/ /\ map \cap reg[server] = {}
        /\ \/ /\ reg' = [reg EXCEPT ![server] = @ \cup map \cup {"RaftStep"}]
              /\ Ends
              /\ UNCHANGED proc
           \/ /\ reg' = [reg EXCEPT ![server] = @ \cup map]
              /\ proc' = "aborted"
              /\ UNCHANGED <<started, restart>>
        /\ UNCHANGED <<life, thrown>>
     \/ /\ map \cap reg[server] # {}
        /\ \E some \in SUBSET map : reg' = [reg EXCEPT ![server] = @ \cup some]
        /\ Throw("bind")
  /\ UNCHANGED <<enabled, server, ptr, map, tmp, joining, overlapped>>

-----------------------------------------------------------------------------
(* Binding a request, and the other users of the server.                   *)

\* data_service_grpc::bind(request): a name that is there keeps its handler;
\* a new one stays in the map even if it cannot be registered.  A pointer to
\* no server or to one that is gone ends the process.
BindRequest(n) ==
  /\ enabled /\ n \notin map
  /\ IF ptr \in Servers /\ life[ptr] # "dead"
     THEN /\ map' = map \cup {n}
          /\ reg' = IF life[ptr] = "running"
                    THEN [reg EXCEPT ![ptr] = @ \cup {n}] ELSE reg
          /\ UNCHANGED proc
     ELSE proc' = "crashed" /\ UNCHANGED <<map, reg>>

\* bind_data_service_request, without _manager_lock.
bind_data_service_request(n) ==
  /\ proc = "up" /\ started
  /\ BindRequest(n)
  /\ overlapped' = (overlapped \/ restart # "idle")
  /\ UNCHANGED <<started, enabled, server, ptr, life, restart, tmp, joining, thrown>>

\* A gRPC thread gets a join_cluster_request,
JoinArrives ==
  /\ proc = "up" /\ ~joining
  /\ server # Null /\ life[server] = "running" /\ "RaftStep" \in reg[server]
  /\ joining' = TRUE
  /\ UNCHANGED <<proc, started, enabled, server, ptr, life, reg, map, restart, tmp,
                 history>>

\* and in group_init, under _manager_lock, binds a request or does not.
JoinBinds ==
  /\ proc = "up" /\ joining /\ restart = "idle"
  /\ (\E n \in Names : BindRequest(n)) \/ UNCHANGED <<proc, map, reg>>
  /\ joining' = FALSE
  /\ UNCHANGED <<started, enabled, server, ptr, life, restart, tmp, history>>

\* ~ManagerImpl has a _mesg_service and counts on a _grpc_server.
Destroy ==
  /\ proc = "up" /\ restart = "idle" /\ ~joining
  /\ proc' = IF server = Null THEN "crashed" ELSE "destroyed"
  /\ life' = [s \in Servers |-> IF s = server THEN "dead" ELSE life[s]]
  /\ UNCHANGED <<started, enabled, server, ptr, reg, map, restart, tmp, joining,
                 history>>

Restarting == /\ proc = "up"
              /\ Make \/ Reset \/ associate \/ run \/ bind

Next ==
  \/ Restart \/ Restarting
  \/ \E n \in Names : bind_data_service_request(n)
  \/ JoinArrives \/ JoinBinds \/ Destroy

Spec == Init /\ [][Next]_vars

\* The thread in restart_server runs, GrpcServer::make answers at last, and a
\* gRPC thread that waits for _manager_lock gets it if it is free again and again.
FairSpec == Spec /\ WF_vars(Restarting) /\ SF_vars(JoinBinds)

-----------------------------------------------------------------------------
(* Properties.                                                             *)

\* After a restart_server that did not throw, every request ever bound is
\* served by the new server, RaftStep too: those bound before it, those bound
\* while it ran and those whose bind threw because it did not run yet.
AllServed ==
  (proc = "up" /\ restart = "idle" /\ server # Null /\ thrown = "nowhere") =>
    {"RaftStep"} \cup map \subseteq reg[server]

\* A manager that has made a server has one, and the data service has the same
\* one, however many restarts failed since; it runs, unless the restart that
\* made it threw in associate, which leaves it registered nowhere and idle.
ServerKept ==
  (proc = "up" /\ restart = "idle" /\ \E s \in Servers : life[s] # "none") =>
    /\ server # Null
    /\ life[server] = (IF thrown = "associate" THEN "inited" ELSE "running")
    /\ enabled => ptr = server

\* Apart from the two calls of abort(), the process ends by itself only if no
\* server could ever be made, or if a request is bound between the end of the
\* old server and associate.
CrashesKnown ==
  [][(proc = "up" /\ proc' = "crashed") =>
       server = Null \/ restart = "associate"]_vars

\* restart_server comes to its end and releases _manager_lock, also when it
\* throws, and a join that waits for that lock gets it, with one exception: a
\* join that is on its way to the lock when reset() waits for its thread.
RestartEnds ==
  /\ restart # "idle" ~> (restart = "idle" \/ proc # "up"
                            \/ (restart = "reset" /\ joining))
  /\ joining ~> (~joining \/ proc # "up" \/ restart = "reset")
=============================================================================
