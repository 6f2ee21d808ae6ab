----------------------------- MODULE ClientCache -----------------------------
(***************************************************************************)
(* The two caches of outgoing clients.  Every Raft group has a             *)
(* mesg_factory, which caches one wrapper (grpc_proto_client) per peer; all *)
(* of them share one group_factory, which caches one transport             *)
(* (messaging_client) per peer.  NuRaft creates clients through            *)
(* create_client(string) and keeps the wrapper it got; data service        *)
(* and cluster requests share the wrappers and refresh the transport.      *)
(*                                                                         *)
(* A region under the group_factory's _client_lock is one action; the      *)
(* mesg_factory's _client_lock is a variable, because it is held across    *)
(* the call into the group_factory.                                        *)
(***************************************************************************)
EXTENDS FiniteSets, Naturals

CONSTANTS Factories,     \* mesg_factory objects; each has one NuRaft thread
          DataThreads,   \* threads that send data and cluster requests
          Peers,
          Wrappers,      \* pool of grpc_proto_client objects (a bound)
          Chans,         \* pool of messaging_client objects (a bound)
          None,          \* no entry, no object
          Null,          \* an entry that holds a null pointer
          ErrorClient    \* a grpc_error_client

ASSUME ValuesAssumption ==
  /\ None # Null /\ None # ErrorClient /\ Null # ErrorClient
  /\ {None, Null, ErrorClient} \cap (Wrappers \cup Chans) = {}
  /\ None \notin Factories \cup DataThreads
ASSUME RaftThreadsAssumption == Factories \cap DataThreads = {}

\* The NuRaft thread of a factory carries the factory's name.
Threads == Factories \cup DataThreads

VARIABLES chan,       \* each messaging_client: in use, bad_service > 0, ready
          g_clients,  \* group_factory::_clients
          wrapper,    \* grpc_proto_client::_client of each wrapper
          clients,    \* mesg_factory::_clients
          lock,       \* exclusive holder of mesg_factory::_client_lock
          rpc,        \* the rpc_client NuRaft keeps for each peer
          abandoned,  \* wrappers NuRaft has replaced (history)
          th

vars == <<chan, g_clients, wrapper, clients, lock, rpc, abandoned, th>>

Idle == [pc |-> "idle", kind |-> "none", f |-> None, p |-> None, create |-> FALSE,
         avoid |-> None, c |-> None, w |-> None, cs |-> {}]

Init ==
  /\ chan = [c \in Chans |-> [st |-> "free", bad |-> FALSE, ready |-> FALSE]]
  /\ g_clients = [p \in Peers |-> None]
  /\ wrapper = [w \in Wrappers |-> None]
  /\ clients = [f \in Factories |-> [p \in Peers |-> None]]
  /\ lock = [f \in Factories |-> None]
  /\ rpc = [f \in Factories |-> [p \in Peers |-> None]]
  /\ abandoned = {}
  /\ th = [t \in Threads |-> Idle]

FreeChans == {c \in Chans : chan[c].st = "free"}
FreeWrappers == {w \in Wrappers : wrapper[w] = None}

\* Bound: a call starts only while the pools can serve every call in flight.
Room ==
  LET calls == {t \in Threads : th[t].pc # "idle"}
  IN /\ Cardinality(FreeChans) > Cardinality(calls)
     /\ Cardinality(FreeWrappers) > Cardinality(calls)

-----------------------------------------------------------------------------
(* Entry points.                                                           *)

\* grpc_factory::create_client(string): only NuRaft forces a new wrapper.
CreateClient(f, p) ==
  /\ th[f].pc = "idle" /\ Room
  /\ th' = [th EXCEPT ![f] = [Idle EXCEPT !.pc = "acquire", !.kind = "create",
                                          !.f = f, !.p = p]]
  /\ UNCHANGED <<chan, g_clients, wrapper, clients, lock, rpc, abandoned>>

\* grpc_base_client::send through the wrapper NuRaft holds.
SendRaft(f, p) ==
  /\ th[f].pc = "idle" /\ rpc[f][p] \in Wrappers
  /\ th' = [th EXCEPT ![f] = [Idle EXCEPT !.pc = "sent", !.kind = "raft",
                              !.f = f, !.p = p, !.cs = {wrapper[rpc[f][p]]}]]
  /\ UNCHANGED <<chan, g_clients, wrapper, clients, lock, rpc, abandoned>>

reinitRequired(w) == chan[wrapper[w]].bad

\* The first half of both data_service_request functions, under the shared
\* lock: send on the cached wrapper, or go for create_or_reinit_client.
DataServiceRequest(t, f, p, kind) ==
  LET w == clients[f][p]
  IN /\ th[t].pc = "idle" /\ Room
     /\ lock[f] = None
     /\ IF w # None /\ (kind = "uni" \/ ~reinitRequired(w))
        THEN th' = [th EXCEPT ![t] = [Idle EXCEPT !.pc = "sent", !.kind = kind,
                                      !.f = f, !.p = p, !.cs = {wrapper[w]}]]
        ELSE th' = [th EXCEPT ![t] = [Idle EXCEPT !.pc = "acquire",
                     !.kind = kind, !.f = f, !.p = p,
                     !.avoid = IF w = None THEN None ELSE wrapper[w]]]
     /\ UNCHANGED <<chan, g_clients, wrapper, clients, lock, rpc, abandoned>>

\* data_service_request_unidirectional without a destination: every client
\* this factory has cached, under the shared lock.
DataServiceRequestAll(t, f) ==
  /\ th[t].pc = "idle" /\ Room
  /\ lock[f] = None
  /\ th' = [th EXCEPT ![t] = [Idle EXCEPT !.pc = "sent", !.kind = "all", !.f = f,
             !.cs = {wrapper[clients[f][p]] :
                       p \in {q \in Peers : clients[f][q] # None}}]]
  /\ UNCHANGED <<chan, g_clients, wrapper, clients, lock, rpc, abandoned>>

\* add_server, rem_server and append_entry ask for a client whether or not one
\* is cached, and so does respHandler when it follows the leader.
ClusterRequest(t, f, p) ==
  /\ th[t].pc = "idle" /\ Room
  /\ th' = [th EXCEPT ![t] = [Idle EXCEPT !.pc = "acquire", !.kind = "cluster",
                                          !.f = f, !.p = p]]
  /\ UNCHANGED <<chan, g_clients, wrapper, clients, lock, rpc, abandoned>>

-----------------------------------------------------------------------------
(* grpc_factory::create_or_reinit_client of a mesg_factory.                *)

\* MUTANT: an entry that is there is refreshed, whoever asks.
AcquireNeverForced(t) ==
  LET f == th[t].f
      p == th[t].p
      happened == clients[f][p] = None
  IN /\ th[t].pc = "acquire" /\ lock[f] = None
     /\ lock' = [lock EXCEPT ![f] = t]
     /\ clients' = IF happened THEN [clients EXCEPT ![f][p] = Null] ELSE clients
     /\ th' = [th EXCEPT ![t].pc = "transport", ![t].create = happened]
     /\ UNCHANGED <<chan, g_clients, wrapper, rpc, abandoned>>

\* MUTANT: data requests, too, replace the wrapper of a peer.
AcquireAlwaysForced(t) ==
  LET f == th[t].f
      p == th[t].p
  IN /\ th[t].pc = "acquire" /\ lock[f] = None
     /\ lock' = [lock EXCEPT ![f] = t]
     /\ clients' = IF clients[f][p] = None
                   THEN [clients EXCEPT ![f][p] = Null] ELSE clients
     /\ th' = [th EXCEPT ![t].pc = "transport", ![t].create = TRUE]
     /\ UNCHANGED <<chan, g_clients, wrapper, rpc, abandoned>>

\* The lock, then _clients.emplace(client, nullptr).
Acquire(t) ==
  LET f == th[t].f
      p == th[t].p
      happened == clients[f][p] = None
  IN /\ th[t].pc = "acquire" /\ lock[f] = None
     /\ lock' = [lock EXCEPT ![f] = t]
     /\ clients' = IF happened THEN [clients EXCEPT ![f][p] = Null] ELSE clients
     /\ th' = [th EXCEPT ![t].pc = "transport",
                         ![t].create = happened \/ th[t].kind = "create"]
     /\ UNCHANGED <<chan, g_clients, wrapper, rpc, abandoned>>

\* MUTANT: only the connection is looked at.
UsableIfReady(c) == c # None /\ chan[c].ready

\* group_factory::reinit_client keeps a transport that is ready and not bad.
Usable(c) == c # None /\ chan[c].ready /\ ~chan[c].bad

\* create_or_reinit_client of the group_factory, under its own lock: keep the
\* cached transport,
TransportKept(t) ==
  /\ th[t].pc = "transport"
  /\ Usable(g_clients[th[t].p])
  /\ th' = [th EXCEPT ![t].pc = "install", ![t].c = g_clients[th[t].p]]
  /\ UNCHANGED <<chan, g_clients, wrapper, clients, lock, rpc, abandoned>>

\* or make a new one; whether it is connected by then is up to the network,
TransportMade(t) ==
  /\ th[t].pc = "transport"
  /\ ~Usable(g_clients[th[t].p])
  /\ \E c \in FreeChans, up \in BOOLEAN :
       /\ chan' = [chan EXCEPT ![c] = [st |-> "open", bad |-> FALSE, ready |-> up]]
       /\ g_clients' = [g_clients EXCEPT ![th[t].p] = c]
       /\ th' = [th EXCEPT ![t].pc = "install", ![t].c = c]
  /\ UNCHANGED <<wrapper, clients, lock, rpc, abandoned>>

\* or fail: no endpoint is known (an old entry stays), or make() returned null
\* (the entry is null and is erased).  The caller gets a grpc_error_client.
TransportFailed(t) ==
  /\ th[t].pc = "transport"
  /\ ~Usable(g_clients[th[t].p])
  /\ \/ UNCHANGED g_clients
     \/ g_clients' = [g_clients EXCEPT ![th[t].p] = None]
  /\ th' = [th EXCEPT ![t].pc = "install", ![t].c = None]
  /\ UNCHANGED <<chan, wrapper, clients, lock, rpc, abandoned>>

\* MUTANT: a creation that failed leaves its null entry behind.
InstallFailedKeepsNull(t) ==
  /\ th[t].pc = "install" /\ th[t].c = None
  /\ lock' = [lock EXCEPT ![th[t].f] = None]
  /\ th' = [th EXCEPT ![t].pc = "got", ![t].w = ErrorClient]
  /\ UNCHANGED <<chan, g_clients, wrapper, clients, rpc, abandoned>>

\* The group_factory had an error: no entry if there was none, the old one
\* otherwise; the caller gets a grpc_error_client.
InstallFailed(t) ==
  LET f == th[t].f
      p == th[t].p
  IN /\ th[t].pc = "install" /\ th[t].c = None
     /\ clients' = IF clients[f][p] = Null
                   THEN [clients EXCEPT ![f][p] = None] ELSE clients
     /\ lock' = [lock EXCEPT ![f] = None]
     /\ th' = [th EXCEPT ![t].pc = "got", ![t].w = ErrorClient]
     /\ UNCHANGED <<chan, g_clients, wrapper, rpc, abandoned>>

\* mesg_factory::create_client makes a wrapper, reinit_client calls setClient.
Install(t) ==
  LET f == th[t].f
      p == th[t].p
  IN /\ th[t].pc = "install" /\ th[t].c # None
     /\ \E w \in IF th[t].create THEN FreeWrappers ELSE {clients[f][p]} :
          /\ wrapper' = [wrapper EXCEPT ![w] = th[t].c]
          /\ clients' = [clients EXCEPT ![f][p] = w]
          /\ th' = [th EXCEPT ![t].pc = "got", ![t].w = w]
     /\ lock' = [lock EXCEPT ![f] = None]
     /\ UNCHANGED <<chan, g_clients, rpc, abandoned>>

-----------------------------------------------------------------------------
(* The callers go on.                                                      *)

\* NuRaft stores the client it asked for in place of its old one.
RpcStored(f) ==
  LET p == th[f].p
  IN /\ th[f].pc = "got" /\ th[f].kind = "create"
     /\ rpc' = [rpc EXCEPT ![f][p] = th[f].w]
     /\ abandoned' = abandoned \cup ({rpc[f][p]} \cap Wrappers)
     /\ th' = [th EXCEPT ![f] = Idle]
     /\ UNCHANGED <<chan, g_clients, wrapper, clients, lock>>

\* A request goes out on its wrapper's transport, or fails.
RequestSent(t) ==
  /\ th[t].pc = "got" /\ th[t].kind \in {"uni", "bi", "cluster"}
  /\ th' = IF th[t].w = ErrorClient THEN [th EXCEPT ![t] = Idle]
           ELSE [th EXCEPT ![t].pc = "sent", ![t].cs = {wrapper[th[t].w]}]
  /\ UNCHANGED <<chan, g_clients, wrapper, clients, lock, rpc, abandoned>>

\* The answer: an error of a bidirectional request and an INVALID_ARGUMENT to
\* a Raft message mark the transport; a unidirectional error does not.
Complete(t) ==
  /\ th[t].pc = "sent"
  /\ \/ UNCHANGED chan
     \/ /\ th[t].kind \in {"bi", "raft", "cluster"}
        /\ chan' = [c \in Chans |->
                      IF c \in th[t].cs THEN [chan[c] EXCEPT !.bad = TRUE]
                      ELSE chan[c]]
  /\ th' = [th EXCEPT ![t] = Idle]
  /\ UNCHANGED <<g_clients, wrapper, clients, lock, rpc, abandoned>>

\* The network connects and disconnects channels.
Connectivity(c) ==
  /\ chan[c].st = "open"
  /\ chan' = [chan EXCEPT ![c].ready = ~@]
  /\ UNCHANGED <<g_clients, wrapper, clients, lock, rpc, abandoned, th>>

Refresh(t) ==
  \/ Acquire(t) \/ TransportKept(t) \/ TransportMade(t) \/ TransportFailed(t)
  \/ InstallFailed(t) \/ Install(t)

Next ==
  \/ \E f \in Factories, p \in Peers : CreateClient(f, p) \/ SendRaft(f, p)
  \/ \E t \in DataThreads, f \in Factories, p \in Peers, kind \in {"uni", "bi"} :
       DataServiceRequest(t, f, p, kind)
  \/ \E t \in DataThreads, f \in Factories, p \in Peers : ClusterRequest(t, f, p)
  \/ \E t \in DataThreads, f \in Factories : DataServiceRequestAll(t, f)
  \/ \E t \in Threads : Refresh(t) \/ RequestSent(t) \/ Complete(t)
  \/ \E f \in Factories : RpcStored(f)
  \/ \E c \in Chans : Connectivity(c)

Spec == Init /\ [][Next]_vars

-----------------------------------------------------------------------------
(* Properties.                                                             *)

Thread == [pc : {"idle", "acquire", "transport", "install", "got", "sent"},
           kind : {"none", "create", "raft", "uni", "bi", "all", "cluster"},
           f : Factories \cup {None}, p : Peers \cup {None}, create : BOOLEAN,
           avoid : Chans \cup {None}, c : Chans \cup {None},
           w : Wrappers \cup {None, ErrorClient}, cs : SUBSET Chans]

\* Type invariant of the caches, the objects and the calls in flight.
TypeOK ==
  /\ chan \in [Chans -> [st : {"free", "open"}, bad : BOOLEAN, ready : BOOLEAN]]
  /\ g_clients \in [Peers -> Chans \cup {None}]
  /\ wrapper \in [Wrappers -> Chans \cup {None}]
  /\ clients \in [Factories -> [Peers -> Wrappers \cup {None, Null}]]
  /\ lock \in [Factories -> Threads \cup {None}]
  /\ rpc \in [Factories -> [Peers -> Wrappers \cup {None, ErrorClient}]]
  /\ abandoned \in SUBSET Wrappers
  /\ th \in [Threads -> Thread]

\* Whoever takes the shared lock finds no null entry and no wrapper without a
\* transport: the data service requests dereference both without a check.
NoNullVisible ==
  \A f \in Factories : lock[f] = None =>
    \A p \in Peers : /\ clients[f][p] # Null
                     /\ clients[f][p] # None => wrapper[clients[f][p]] # None

\* The wrapper NuRaft uses for a peer is the cached one, so a data request
\* that refreshes it in place also repairs NuRaft's transport; NuRaft's own
\* create_client may just be replacing both.
NuRaftHoldsCached ==
  \A f \in Factories, p \in Peers :
    rpc[f][p] \in Wrappers =>
      \/ clients[f][p] = rpc[f][p]
      \/ th[f].pc = "got" /\ th[f].kind = "create" /\ th[f].p = p

\* "NuRaft is the only caller that must observe a new get_id()": it is never
\* handed a wrapper it had before, so a delayed callback of the old client
\* cannot pass for one of the new (factory.cpp:152, mesg_factory.hpp:53).
FreshIdentity ==
  \A f \in Factories, p \in Peers : rpc[f][p] \notin abandoned

\* A bidirectional request that found its transport bad never goes out on it
\* after the refresh, whatever other requests, groups and answers interleave.
BadTransportAvoided ==
  \A t \in Threads :
    (th[t].pc = "sent" /\ th[t].avoid # None) => th[t].avoid \notin th[t].cs
=============================================================================
