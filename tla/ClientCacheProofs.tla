-------------------------- MODULE ClientCacheProofs --------------------------
(***************************************************************************)
(* That the two client caches hand out no null and no stale client and     *)
(* keep the peers' transports apart, for any number of groups, peers,      *)
(* threads and objects.                                                    *)
(***************************************************************************)
EXTENDS ClientCache, TLAPS

Holding == {"transport", "install"}
Calling == {"acquire", "transport", "install", "got"}

\* What holds of thread t when x is its call.
CallOK(t, x) ==
  /\ x.pc \in Calling => x.f \in Factories /\ x.p \in Peers
  /\ x.pc \in Calling /\ x.kind = "create" => t = x.f
  /\ x.pc \in Holding =>
       /\ lock[x.f] = t
       /\ clients[x.f][x.p] # None
       /\ x.kind = "create" => x.create
       /\ x.create /\ x.kind # "create" => clients[x.f][x.p] = Null
       /\ ~x.create => clients[x.f][x.p] # Null
  /\ x.pc = "install" /\ x.c # None => chan[x.c].st = "open"
  /\ x.pc = "got" => x.w \in Wrappers \cup {ErrorClient}
  /\ x.pc = "got" /\ x.w \in Wrappers =>
       /\ wrapper[x.w] # None
       /\ x.avoid # None => wrapper[x.w] # x.avoid
       /\ \A f \in Factories, p \in Peers : clients[f][p] = x.w => f = x.f
       /\ x.kind = "create" => /\ clients[x.f][x.p] = x.w
                               /\ rpc[x.f][x.p] # x.w
                               /\ x.w \notin abandoned
  /\ x.avoid # None => chan[x.avoid].bad /\ chan[x.avoid].st = "open"
  /\ x.pc = "sent" /\ x.avoid # None => x.avoid \notin x.cs

\* No call of the same factory brings back the transport that x avoids.
Apart(x, y) ==
  (x.avoid # None /\ y.pc = "install" /\ y.f = x.f) => y.c # x.avoid

\* A null entry belongs to a call that has the factory's lock.
NullInv ==
  \A f \in Factories, p \in Peers : clients[f][p] = Null =>
    /\ lock[f] \in Threads
    /\ th[lock[f]].pc \in Holding
    /\ th[lock[f]].f = f /\ th[lock[f]].p = p /\ th[lock[f]].create

\* Whatever is cached, held or abandoned has a transport that was opened.
UsedInv ==
  /\ \A f \in Factories, p \in Peers :
       /\ clients[f][p] \in Wrappers => wrapper[clients[f][p]] # None
       /\ rpc[f][p] \in Wrappers => wrapper[rpc[f][p]] # None
  /\ \A w \in abandoned : wrapper[w] # None
  /\ \A w \in Wrappers : wrapper[w] # None => chan[wrapper[w]].st = "open"
  /\ \A p \in Peers : g_clients[p] # None => chan[g_clients[p]].st = "open"

\* One wrapper is for one factory and one peer.
OneOwner ==
  \A f, g \in Factories, p, q \in Peers :
    /\ clients[f][p] \in Wrappers /\ clients[f][p] = clients[g][q] => f = g /\ p = q
    /\ rpc[f][p] \in Wrappers /\ rpc[f][p] = clients[g][q] => f = g /\ p = q
    /\ rpc[f][p] \in Wrappers /\ rpc[f][p] = rpc[g][q] => f = g /\ p = q

\* NuRaft's wrapper is the cached one or about to be replaced by it.
RpcInv ==
  \A f \in Factories, p \in Peers : rpc[f][p] \in Wrappers =>
    /\ rpc[f][p] \notin abandoned
    /\ \/ clients[f][p] = rpc[f][p]
       \/ /\ th[f].pc = "got" /\ th[f].kind = "create"
          /\ th[f].f = f /\ th[f].p = p /\ th[f].w \in Wrappers

CacheInv ==
  /\ TypeOK
  /\ \A t \in Threads : CallOK(t, th[t])
  /\ \A t, u \in Threads : Apart(th[t], th[u])
  /\ NullInv /\ UsedInv /\ OneOwner /\ RpcInv

-----------------------------------------------------------------------------

USE DEF Threads, Holding, Calling

\* A thread without a call is in order.
LEMMA IdleCall ==
  /\ Idle \in Thread
  /\ Idle.pc = "idle" /\ Idle.avoid = None /\ Idle.c = None /\ Idle.cs = {}
BY Zenon DEF Idle, Thread

\* A step of thread t that changes nothing but its own call.
LEMMA OwnStep ==
  ASSUME CacheInv, NEW t \in Threads, NEW x \in Thread,
         th' = [th EXCEPT ![t] = x],
         UNCHANGED <<chan, g_clients, wrapper, clients, lock, rpc, abandoned>>,
         CallOK(t, x), Apart(x, x),
         \A u \in Threads : Apart(x, th[u]) /\ Apart(th[u], x),
         \/ th[t].pc \notin Holding
         \/ /\ x.pc \in Holding /\ x.f = th[t].f /\ x.p = th[t].p
            /\ x.create = th[t].create,
         ~(th[t].pc = "got" /\ th[t].kind = "create")
  PROVE  CacheInv'
<1>1. \A u \in Threads : th'[u] = IF u = t THEN x ELSE th[u]
  BY Zenon DEF CacheInv, TypeOK
<1>2. TypeOK'
  BY DEF CacheInv, TypeOK
<1>3. \A u \in Threads : CallOK(u, th[u])'
  BY SMTT(40), <1>1 DEF CacheInv, CallOK
<1>4. \A u, v \in Threads : Apart(th[u], th[v])'
  BY <1>1 DEF CacheInv, Apart
<1>5. NullInv'
  BY <1>1 DEF CacheInv, NullInv
<1>6. UsedInv' /\ OneOwner'
  BY DEF CacheInv, UsedInv, OneOwner
<1>7. RpcInv'
  BY <1>1 DEF CacheInv, RpcInv
<1> QED BY Zenon, <1>2, <1>3, <1>4, <1>5, <1>6, <1>7 DEF CacheInv

\* A call starts or ends.
LEMMA FromIdle ==
  ASSUME CacheInv, NEW t \in Threads, NEW x \in Thread,
         th[t].pc \in {"idle", "sent"} \/ (th[t].pc = "got" /\ th[t].kind # "create"),
         th' = [th EXCEPT ![t] = x],
         UNCHANGED <<chan, g_clients, wrapper, clients, lock, rpc, abandoned>>,
         x.pc \in {"idle", "acquire", "sent"}, CallOK(t, x),
         x.avoid # None => \A u \in Threads : Apart(x, th[u])
  PROVE  CacheInv'
<1>1. Apart(x, x) /\ \A u \in Threads : Apart(x, th[u]) /\ Apart(th[u], x)
  BY Zenon DEF Apart
<1> QED BY Zenon, <1>1, OwnStep

\* NuRaft's create_client keeps the invariant: it touches only its own call.
LEMMA CreateClientStep ==
  ASSUME CacheInv, NEW f \in Factories, NEW p \in Peers, CreateClient(f, p)
  PROVE  CacheInv'
<1> DEFINE x == [Idle EXCEPT !.pc = "acquire", !.kind = "create", !.f = f, !.p = p]
<1>1. /\ x \in Thread
      /\ x.pc = "acquire" /\ x.f = f /\ x.p = p /\ x.avoid = None
  BY Zenon DEF Idle, Thread
<1>2. CallOK(f, x)
  BY Zenon, <1>1 DEF CallOK
<1> QED
  <2> HIDE DEF x
  <2>1. th[f].pc = "idle" /\ th' = [th EXCEPT ![f] = x]
    BY Zenon DEF CreateClient, x
  <2>2. UNCHANGED <<chan, g_clients, wrapper, clients, lock, rpc, abandoned>>
    BY Zenon DEF CreateClient
  <2> QED BY Zenon, <1>1, <1>2, <2>1, <2>2, FromIdle

\* add_server, rem_server and append_entry, which ask for a client, keep it.
LEMMA ClusterRequestStep ==
  ASSUME CacheInv, NEW t \in DataThreads, NEW f \in Factories, NEW p \in Peers,
         ClusterRequest(t, f, p)
  PROVE  CacheInv'
<1> DEFINE x == [Idle EXCEPT !.pc = "acquire", !.kind = "cluster", !.f = f, !.p = p]
<1>1. /\ x \in Thread
      /\ x.pc = "acquire" /\ x.kind = "cluster" /\ x.f = f /\ x.p = p
      /\ x.avoid = None
  BY Zenon DEF Idle, Thread
<1>2. CallOK(t, x)
  BY Zenon, <1>1 DEF CallOK
<1> QED
  <2> HIDE DEF x
  <2>1. th[t].pc = "idle" /\ th' = [th EXCEPT ![t] = x]
    BY Zenon DEF ClusterRequest, x
  <2>2. UNCHANGED <<chan, g_clients, wrapper, clients, lock, rpc, abandoned>>
    BY Zenon DEF ClusterRequest
  <2> QED BY Zenon, <1>1, <1>2, <2>1, <2>2, FromIdle

\* send_raft keeps it: it uses the transport of the wrapper NuRaft holds.
LEMMA SendRaftStep ==
  ASSUME CacheInv, NEW f \in Factories, NEW p \in Peers, SendRaft(f, p)
  PROVE  CacheInv'
<1> DEFINE x == [Idle EXCEPT !.pc = "sent", !.kind = "raft", !.f = f, !.p = p,
                             !.cs = {wrapper[rpc[f][p]]}]
<1>1. wrapper[rpc[f][p]] \in Chans
  BY Zenon DEF SendRaft, CacheInv, UsedInv, TypeOK
<1>2. x \in Thread /\ x.pc = "sent" /\ x.avoid = None
  BY Zenon, <1>1 DEF Idle, Thread
<1>3. CallOK(f, x)
  BY Zenon, <1>2 DEF CallOK
<1> QED
  <2> HIDE DEF x
  <2>1. th[f].pc = "idle" /\ th' = [th EXCEPT ![f] = x]
    BY Zenon DEF SendRaft, x
  <2>2. UNCHANGED <<chan, g_clients, wrapper, clients, lock, rpc, abandoned>>
    BY Zenon DEF SendRaft
  <2> QED BY Zenon, <1>2, <1>3, <2>1, <2>2, FromIdle

\* A factory whose lock is free has no null entry.
LEMMA FreeLock ==
  ASSUME CacheInv, NEW f \in Factories, lock[f] = None
  PROVE  /\ \A p \in Peers : /\ clients[f][p] \in Wrappers \cup {None}
                             /\ clients[f][p] # None => wrapper[clients[f][p]] \in Chans
         /\ \A t \in Threads : th[t].pc \in Holding => th[t].f # f
BY SMTT(40), ValuesAssumption DEF CacheInv, TypeOK, NullInv, UsedInv, CallOK

\* A data request to one peer keeps it, with a cached client or without.
LEMMA DataServiceRequestStep ==
  ASSUME CacheInv, NEW t \in DataThreads, NEW f \in Factories, NEW p \in Peers,
         NEW kind \in {"uni", "bi"}, DataServiceRequest(t, f, p, kind)
  PROVE  CacheInv'
<1> DEFINE w == clients[f][p]
           x == [Idle EXCEPT !.pc = "sent", !.kind = kind, !.f = f, !.p = p,
                             !.cs = {wrapper[w]}]
           a == IF w = None THEN None ELSE wrapper[w]
           y == [Idle EXCEPT !.pc = "acquire", !.kind = kind, !.f = f, !.p = p,
                             !.avoid = a]
<1>1. th[t].pc = "idle" /\ lock[f] = None
      /\ UNCHANGED <<chan, g_clients, wrapper, clients, lock, rpc, abandoned>>
  BY Zenon DEF DataServiceRequest
<1>2. CASE w # None /\ (kind = "uni" \/ ~reinitRequired(w))
  <2>1. wrapper[w] \in Chans
    BY Zenon, <1>1, <1>2, FreeLock
  <2>2. x \in Thread /\ x.pc = "sent" /\ x.avoid = None
    BY Zenon, <2>1 DEF Idle, Thread
  <2>3. CallOK(t, x)
    BY Zenon, <2>2 DEF CallOK
  <2>4. th' = [th EXCEPT ![t] = x]
    BY Zenon, <1>2 DEF DataServiceRequest
  <2> HIDE DEF x
  <2> QED BY Zenon, <1>1, <2>2, <2>3, <2>4, FromIdle
<1>3. CASE ~(w # None /\ (kind = "uni" \/ ~reinitRequired(w)))
  <2>1. a \in Chans \cup {None}
        /\ (a # None => chan[a].bad /\ chan[a].st = "open")
    BY SMTT(40), <1>1, <1>3, FreeLock DEF reinitRequired, CacheInv, UsedInv
  <2>2. th' = [th EXCEPT ![t] = y]
    BY Zenon, <1>3 DEF DataServiceRequest
  <2> HIDE DEF a
  <2>3. y \in Thread /\ y.pc = "acquire" /\ y.f = f /\ y.p = p /\ y.kind = kind
        /\ y.avoid = a
    BY Zenon, <2>1 DEF Idle, Thread
  <2> HIDE DEF y
  <2>4. CallOK(t, y)
    BY Zenon, <2>1, <2>3 DEF CallOK
  <2>5. \A u \in Threads : Apart(y, th[u])
    BY Zenon, <1>1, <2>3, FreeLock DEF Apart
  <2> QED BY Zenon, <1>1, <2>2, <2>3, <2>4, <2>5, FromIdle
<1> QED BY Zenon, <1>2, <1>3

\* A data request to all peers keeps it: it uses cached clients only.
LEMMA DataServiceRequestAllStep ==
  ASSUME CacheInv, NEW t \in DataThreads, NEW f \in Factories,
         DataServiceRequestAll(t, f)
  PROVE  CacheInv'
<1> DEFINE cs == {wrapper[clients[f][p]] : p \in {q \in Peers : clients[f][q] # None}}
           x == [Idle EXCEPT !.pc = "sent", !.kind = "all", !.f = f, !.cs = cs]
<1>1. /\ th[t].pc = "idle" /\ lock[f] = None
      /\ UNCHANGED <<chan, g_clients, wrapper, clients, lock, rpc, abandoned>>
      /\ th' = [th EXCEPT ![t] = x]
  BY Zenon DEF DataServiceRequestAll
<1>2. cs \in SUBSET Chans
  BY <1>1, FreeLock
<1> HIDE DEF cs
<1>3. x \in Thread /\ x.pc = "sent" /\ x.avoid = None
  BY Zenon, <1>2 DEF Idle, Thread
<1> HIDE DEF x
<1>4. CallOK(t, x)
  BY Zenon, <1>3 DEF CallOK
<1> QED BY Zenon, <1>1, <1>3, <1>4, FromIdle

\* What a call in create_or_reinit_client works on.
LEMMA CallArgs ==
  ASSUME CacheInv, NEW t \in Threads, th[t].pc \in Calling
  PROVE  th[t].f \in Factories /\ th[t].p \in Peers /\ th[t] \in Thread
BY SMTT(40) DEF CacheInv, CallOK, TypeOK

\* create_or_reinit_client under its lock keeps it.
LEMMA AcquireStep == ASSUME CacheInv, NEW t \in Threads, Acquire(t) PROVE CacheInv'
<1>1. PICK f \in Factories, p \in Peers : f = th[t].f /\ p = th[t].p
  BY Zenon, CallArgs DEF Acquire
<1>2. PICK create \in BOOLEAN :
        create = (clients[f][p] = None \/ th[t].kind = "create")
  BY Zenon
<1>3. /\ th[t].pc = "acquire" /\ lock[f] = None
      /\ lock' = [lock EXCEPT ![f] = t]
      /\ clients' = IF clients[f][p] = None
                    THEN [clients EXCEPT ![f][p] = Null] ELSE clients
      /\ UNCHANGED <<chan, g_clients, wrapper, rpc, abandoned>>
  BY Zenon, <1>1 DEF Acquire
<1>4. PICK x : x = [th[t] EXCEPT !.pc = "transport", !.create = create]
  OBVIOUS
<1>5. /\ x \in Thread /\ x.pc = "transport"
      /\ x.f = f /\ x.p = p /\ x.kind = th[t].kind /\ x.avoid = th[t].avoid
      /\ x.create <=> (clients[f][p] = None \/ th[t].kind = "create")
  <2>1. th[t] \in Thread
    BY Zenon DEF CacheInv, TypeOK
  <2>2. /\ x \in Thread /\ x.pc = "transport" /\ x.f = th[t].f /\ x.p = th[t].p
        /\ x.kind = th[t].kind /\ x.avoid = th[t].avoid /\ (x.create <=> create)
    BY <1>4, <2>1, Zenon DEF Thread
  <2> QED BY <1>1, <1>2, <2>2, Zenon
<1>6. th' = [th EXCEPT ![t] = x]
  BY ZenonT(40), <1>1, <1>2, <1>4 DEF Acquire, CacheInv, TypeOK
<1>7. /\ \A u \in Threads : th'[u] = IF u = t THEN x ELSE th[u]
      /\ \A g \in Factories : lock'[g] = IF g = f THEN t ELSE lock[g]
      /\ \A g \in Factories, q \in Peers : clients'[g][q] =
           IF g = f /\ q = p /\ clients[f][p] = None THEN Null ELSE clients[g][q]
  BY Zenon, <1>3, <1>6 DEF CacheInv, TypeOK
<1>8. /\ \A q \in Peers : clients[f][q] \in Wrappers \cup {None}
      /\ \A u \in Threads : th[u].pc \in Holding => th[u].f # f
  BY Zenon, <1>3, FreeLock
<1>9. TypeOK'
  <2>1. /\ lock' \in [Factories -> Threads \cup {None}]
        /\ clients' \in [Factories -> [Peers -> Wrappers \cup {None, Null}]]
    BY Zenon, <1>3 DEF CacheInv, TypeOK
  <2>2. th' \in [Threads -> Thread]
    BY Zenon, <1>5, <1>6 DEF CacheInv, TypeOK
  <2> QED BY <1>3, <2>1, <2>2, Zenon DEF CacheInv, TypeOK
<1>10. CallOK(t, x)'
  <2>1. CallOK(t, th[t])
    BY Zenon DEF CacheInv
  <2>2. /\ lock'[f] = t
        /\ clients'[f][p] = IF clients[f][p] = None THEN Null ELSE clients[f][p]
        /\ clients[f][p] # Null
    BY Zenon, <1>7, <1>8, ValuesAssumption
  <2> QED BY SMTT(40), <1>1, <1>3, <1>5, <2>1, <2>2, ValuesAssumption DEF CallOK
<1>11. ASSUME NEW u \in Threads, u # t PROVE CallOK(u, th[u])'
  <2>1. CallOK(u, th[u]) /\ th[u] \in Thread
    BY Zenon DEF CacheInv, TypeOK
  <2>2. \A g \in Factories, q \in Peers :
          /\ g # f => lock'[g] = lock[g] /\ clients'[g][q] = clients[g][q]
          /\ clients'[g][q] # clients[g][q] => /\ clients[g][q] \notin Wrappers
                                              /\ clients'[g][q] \notin Wrappers
    BY Zenon, <1>7, ValuesAssumption
  <2>3. th'[u] = th[u] /\ (th[u].pc \in Holding => th[u].f # f)
    BY Zenon, <1>7, <1>8, <1>11
  <2> QED BY SMTT(40), <1>3, <2>1, <2>2, <2>3 DEF CallOK
<1>12. \A u \in Threads : CallOK(u, th[u])'
  BY Zenon, <1>7, <1>10, <1>11
<1>13. \A u, v \in Threads : Apart(th[u], th[v])'
  BY <1>5, <1>7, <1>1 DEF CacheInv, Apart
<1>14. NullInv'
  <2> SUFFICES ASSUME NEW g \in Factories, NEW q \in Peers, clients'[g][q] = Null
               PROVE  /\ lock'[g] \in Threads /\ th'[lock'[g]].pc \in Holding
                      /\ th'[lock'[g]].f = g /\ th'[lock'[g]].p = q
                      /\ th'[lock'[g]].create
    BY DEF NullInv
  <2>1. CASE g = f
    BY <1>5, <1>7, <1>8, <2>1, ValuesAssumption
  <2>2. CASE g # f
    <3>1. /\ lock[g] \in Threads /\ th[lock[g]].pc \in Holding
          /\ th[lock[g]].f = g /\ th[lock[g]].p = q /\ th[lock[g]].create
      BY <1>7, <2>2 DEF CacheInv, NullInv
    <3>2. lock'[g] = lock[g] /\ th'[lock[g]] = th[lock[g]]
      BY <1>3, <1>7, <2>2, <3>1
    <3> QED BY Zenon, <3>1, <3>2
  <2> QED BY Zenon, <2>1, <2>2
<1>15. UsedInv' /\ OneOwner'
  BY SMTT(40), <1>3, <1>7, ValuesAssumption DEF CacheInv, UsedInv, OneOwner
<1>16. RpcInv'
  <2>1. rpc[f][p] \in Wrappers => clients[f][p] # None
    BY SMTT(40), ValuesAssumption DEF CacheInv, RpcInv, CallOK
  <2> QED BY <1>3, <1>7, <2>1 DEF CacheInv, RpcInv
<1> QED BY Zenon, <1>9, <1>12, <1>13, <1>14, <1>15, <1>16 DEF CacheInv

\* group_factory::reinit_client that keeps a usable transport keeps it.
LEMMA TransportKeptStep ==
  ASSUME CacheInv, NEW t \in Threads, TransportKept(t)
  PROVE  CacheInv'
<1>1. PICK c \in Chans : /\ c = g_clients[th[t].p] /\ chan[c].st = "open"
                         /\ ~chan[c].bad
  BY SMTT(40), CallArgs DEF TransportKept, Usable, CacheInv, UsedInv, TypeOK
<1>2. PICK x : x = [th[t] EXCEPT !.pc = "install", !.c = c]
  OBVIOUS
<1>3. /\ x \in Thread /\ x.pc = "install" /\ x.create = th[t].create /\ x.c = c
      /\ x.f = th[t].f /\ x.p = th[t].p /\ x.kind = th[t].kind
      /\ x.avoid = th[t].avoid
  <2>1. th[t] \in Thread
    BY Zenon DEF CacheInv, TypeOK
  <2> QED BY <1>2, <2>1, Zenon DEF Thread
<1>4. /\ th[t].pc = "transport" /\ th' = [th EXCEPT ![t] = x]
      /\ UNCHANGED <<chan, g_clients, wrapper, clients, lock, rpc, abandoned>>
  BY Zenon, <1>1, <1>2 DEF TransportKept, CacheInv, TypeOK
<1>5. \A u \in Threads : th[u].avoid # None => chan[th[u].avoid].bad
  BY SMTT(40) DEF CacheInv, CallOK
<1>6. CallOK(t, x)
  <2>1. CallOK(t, th[t])
    BY Zenon DEF CacheInv
  <2> QED BY SMTT(40), <1>1, <1>3, <1>4, <2>1 DEF CallOK
<1>7. Apart(x, x) /\ \A u \in Threads : Apart(x, th[u]) /\ Apart(th[u], x)
  <2>1. \A u \in Threads : Apart(th[t], th[u])
    BY Zenon DEF CacheInv
  <2> QED BY Zenon, <1>1, <1>3, <1>5, <2>1 DEF Apart
<1> QED BY Zenon, <1>3, <1>4, <1>6, <1>7, OwnStep

\* A transport that cannot be made keeps it: the entry is erased or left.
LEMMA TransportFailedStep ==
  ASSUME CacheInv, NEW t \in Threads, TransportFailed(t)
  PROVE  CacheInv'
<1>1. PICK x : x = [th[t] EXCEPT !.pc = "install", !.c = None]
  OBVIOUS
<1>2. /\ x \in Thread /\ x.pc = "install" /\ x.create = th[t].create /\ x.c = None
      /\ x.f = th[t].f /\ x.p = th[t].p /\ x.kind = th[t].kind
      /\ x.avoid = th[t].avoid
  <2>1. th[t] \in Thread
    BY Zenon DEF CacheInv, TypeOK
  <2> QED BY <1>1, <2>1, Zenon DEF Thread
<1>3. /\ th[t].pc = "transport" /\ th' = [th EXCEPT ![t] = x]
      /\ UNCHANGED <<chan, wrapper, clients, lock, rpc, abandoned>>
      /\ \A p \in Peers : g_clients'[p] \in {g_clients[p], None}
  BY Zenon, <1>1 DEF TransportFailed, CacheInv, TypeOK
<1>4. \A u \in Threads : th'[u] = IF u = t THEN x ELSE th[u]
  BY Zenon, <1>3 DEF CacheInv, TypeOK
<1>5. TypeOK'
  <2>1. g_clients' \in [Peers -> Chans \cup {None}]
    BY Zenon DEF TransportFailed, CacheInv, TypeOK
  <2>2. th' \in [Threads -> Thread]
    BY <1>2, <1>3 DEF CacheInv, TypeOK
  <2> QED BY <1>3, <2>1, <2>2, Zenon DEF CacheInv, TypeOK
<1>6. \A u \in Threads : CallOK(u, th[u])'
  BY SMTT(40), <1>2, <1>3, <1>4 DEF CacheInv, CallOK
<1>7. \A u, v \in Threads : Apart(th[u], th[v])'
  BY <1>2, <1>3, <1>4 DEF CacheInv, Apart
<1>8. NullInv'
  BY <1>2, <1>3, <1>4 DEF CacheInv, NullInv
<1>9. UsedInv' /\ OneOwner'
  BY <1>3 DEF CacheInv, UsedInv, OneOwner
<1>10. RpcInv'
  BY <1>3, <1>4 DEF CacheInv, RpcInv
<1> QED BY Zenon, <1>5, <1>6, <1>7, <1>8, <1>9, <1>10 DEF CacheInv

\* group_factory::create_client keeps it: the new transport is nobody's yet.
LEMMA TransportMadeStep ==
  ASSUME CacheInv, NEW t \in Threads, TransportMade(t)
  PROVE  CacheInv'
<1>1. PICK c \in FreeChans, up \in BOOLEAN :
        /\ chan' = [chan EXCEPT ![c] = [st |-> "open", bad |-> FALSE, ready |-> up]]
        /\ g_clients' = [g_clients EXCEPT ![th[t].p] = c]
        /\ th' = [th EXCEPT ![t].pc = "install", ![t].c = c]
  BY Zenon DEF TransportMade
<1>2. PICK x : x = [th[t] EXCEPT !.pc = "install", !.c = c]
  OBVIOUS
<1>3. /\ x \in Thread /\ x.pc = "install" /\ x.create = th[t].create /\ x.c = c
      /\ x.f = th[t].f /\ x.p = th[t].p /\ x.kind = th[t].kind
      /\ x.avoid = th[t].avoid
  <2>1. th[t] \in Thread
    BY Zenon DEF CacheInv, TypeOK
  <2> QED BY <1>2, <2>1, Zenon DEF Thread, FreeChans
<1>4. /\ th[t].pc = "transport" /\ th' = [th EXCEPT ![t] = x]
      /\ UNCHANGED <<wrapper, clients, lock, rpc, abandoned>>
  BY Zenon, <1>1, <1>2 DEF TransportMade, CacheInv, TypeOK
<1>5. \A u \in Threads : th'[u] = IF u = t THEN x ELSE th[u]
  BY Zenon, <1>4 DEF CacheInv, TypeOK
<1>6. /\ c \in Chans /\ chan[c].st = "free" /\ chan'[c].st = "open"
      /\ \A d \in Chans : d # c => chan'[d] = chan[d]
  BY Zenon, <1>1 DEF FreeChans, CacheInv, TypeOK
<1>7. TypeOK'
  <2>1. [st |-> "open", bad |-> FALSE, ready |-> up]
          \in [st : {"free", "open"}, bad : BOOLEAN, ready : BOOLEAN]
    BY Zenon
  <2>2. chan' \in [Chans -> [st : {"free", "open"}, bad : BOOLEAN, ready : BOOLEAN]]
    BY <1>1, <2>1, Zenon DEF CacheInv, TypeOK
  <2>3. g_clients' \in [Peers -> Chans \cup {None}]
    BY <1>1, <1>6, Zenon DEF CacheInv, TypeOK
  <2>4. th' \in [Threads -> Thread]
    BY Zenon, <1>3, <1>4 DEF CacheInv, TypeOK
  <2> QED BY <1>4, <2>2, <2>3, <2>4, Zenon DEF CacheInv, TypeOK
<1>8. \A u \in Threads : th[u].avoid # None => th[u].avoid # c
  BY SMTT(40), <1>6 DEF CacheInv, CallOK
<1>9. CallOK(t, x)'
  <2>1. CallOK(t, th[t]) /\ x.avoid \in Chans \cup {None}
    BY <1>3 DEF CacheInv, Thread
  <2> QED BY SMTT(40), <1>3, <1>4, <1>6, <1>8, <2>1 DEF CallOK
<1>10. ASSUME NEW u \in Threads, u # t PROVE CallOK(u, th[u])'
  <2>1. CallOK(u, th[u]) /\ th[u] \in Thread
    BY Zenon DEF CacheInv, TypeOK
  <2>2. /\ th[u].avoid # None => chan'[th[u].avoid] = chan[th[u].avoid]
        /\ th[u].c # None => chan'[th[u].c].st \in {"open", chan[th[u].c].st}
    BY Zenon, <1>6, <1>8, <2>1 DEF Thread
  <2> QED BY SMTT(40), <1>4, <1>5, <1>10, <2>1, <2>2 DEF CallOK
<1>11. \A u \in Threads : CallOK(u, th[u])'
  BY Zenon, <1>5, <1>9, <1>10
<1>12. \A u, v \in Threads : Apart(th[u], th[v])'
  BY <1>3, <1>5, <1>8 DEF CacheInv, Apart
<1>13. NullInv'
  BY <1>3, <1>4, <1>5 DEF CacheInv, NullInv
<1>14. UsedInv' /\ OneOwner'
  <2>1. \A d \in Chans : chan[d].st = "open" => chan'[d].st = "open"
    BY Zenon, <1>6
  <2>2. \A p \in Peers : g_clients'[p] \in {g_clients[p], c}
    BY Zenon, <1>1 DEF CacheInv, TypeOK
  <2>3. /\ \A w \in Wrappers : wrapper[w] \in Chans \cup {None}
        /\ \A p \in Peers : g_clients[p] \in Chans \cup {None}
    BY Zenon DEF CacheInv, TypeOK
  <2> QED BY <1>4, <1>6, <2>1, <2>2, <2>3 DEF CacheInv, UsedInv, OneOwner
<1>15. RpcInv'
  BY <1>4, <1>5 DEF CacheInv, RpcInv
<1> QED BY Zenon, <1>7, <1>11, <1>12, <1>13, <1>14, <1>15 DEF CacheInv

\* A wrapper that cannot be made keeps it: no null entry is left.
LEMMA InstallFailedStep ==
  ASSUME CacheInv, NEW t \in Threads, InstallFailed(t)
  PROVE  CacheInv'
<1>1. PICK f \in Factories, p \in Peers : f = th[t].f /\ p = th[t].p
  BY Zenon, CallArgs DEF InstallFailed
<1>2. PICK x : x = [th[t] EXCEPT !.pc = "got", !.w = ErrorClient]
  OBVIOUS
<1>3. /\ x \in Thread /\ x.pc = "got" /\ x.w = ErrorClient
      /\ x.f = f /\ x.p = p /\ x.kind = th[t].kind /\ x.avoid = th[t].avoid
  <2>1. th[t] \in Thread
    BY Zenon DEF CacheInv, TypeOK
  <2> QED BY <1>1, <1>2, <2>1, Zenon DEF Thread
<1>4. /\ th[t].pc = "install" /\ th' = [th EXCEPT ![t] = x]
      /\ lock' = [lock EXCEPT ![f] = None]
      /\ clients' = IF clients[f][p] = Null
                    THEN [clients EXCEPT ![f][p] = None] ELSE clients
      /\ UNCHANGED <<chan, g_clients, wrapper, rpc, abandoned>>
  BY Zenon, <1>1, <1>2 DEF InstallFailed, CacheInv, TypeOK
<1>5. /\ \A u \in Threads : th'[u] = IF u = t THEN x ELSE th[u]
      /\ \A g \in Factories : lock'[g] = IF g = f THEN None ELSE lock[g]
      /\ \A g \in Factories, q \in Peers : clients'[g][q] =
           IF g = f /\ q = p /\ clients[f][p] = Null THEN None ELSE clients[g][q]
  BY Zenon, <1>4 DEF CacheInv, TypeOK
<1>6. /\ lock[f] = t
      /\ \A u \in Threads : u # t /\ th[u].pc \in Holding => th[u].f # f
  BY SMTT(40), <1>1, <1>4 DEF CacheInv, CallOK
<1>7. TypeOK'
  BY Zenon, <1>3, <1>4 DEF CacheInv, TypeOK
<1>8. CallOK(t, x)'
  <2>1. CallOK(t, th[t])
    BY DEF CacheInv
  <2> QED BY SMTT(40), <1>1, <1>3, <1>4, <2>1, ValuesAssumption DEF CallOK
<1>9. ASSUME NEW u \in Threads, u # t PROVE CallOK(u, th[u])'
  <2>1. CallOK(u, th[u]) /\ th[u] \in Thread
    BY Zenon DEF CacheInv, TypeOK
  <2> QED BY SMTT(40), <1>4, <1>5, <1>6, <1>9, <2>1, ValuesAssumption DEF CallOK
<1>10. \A u \in Threads : CallOK(u, th[u])'
  BY Zenon, <1>5, <1>8, <1>9
<1>11. \A u, v \in Threads : Apart(th[u], th[v])'
  BY <1>1, <1>3, <1>5 DEF CacheInv, Apart
<1>12. NullInv'
  BY <1>1, <1>5, <1>6, ValuesAssumption DEF CacheInv, NullInv
<1>13. UsedInv' /\ OneOwner'
  BY <1>4, <1>5, ValuesAssumption DEF CacheInv, UsedInv, OneOwner
<1>14. RpcInv'
  BY <1>4, <1>5, ValuesAssumption DEF CacheInv, RpcInv
<1> QED BY Zenon, <1>7, <1>10, <1>11, <1>12, <1>13, <1>14 DEF CacheInv

\* What Install does to the wrapper: a new one, or the cached one of this call.
LEMMA InstallStep == ASSUME CacheInv, NEW t \in Threads, Install(t) PROVE CacheInv'
<1>1. PICK f \in Factories, p \in Peers : f = th[t].f /\ p = th[t].p
  BY CallArgs DEF Install
<1>2. PICK c \in Chans : c = th[t].c /\ chan[c].st = "open"
  BY SMTT(40), CallArgs DEF Install, CacheInv, CallOK, Thread
<1>3. PICK w : /\ w \in IF th[t].create THEN FreeWrappers ELSE {clients[f][p]}
               /\ wrapper' = [wrapper EXCEPT ![w] = c]
               /\ clients' = [clients EXCEPT ![f][p] = w]
               /\ th' = [th EXCEPT ![t].pc = "got", ![t].w = w]
  BY Zenon, <1>1, <1>2 DEF Install
<1>4. /\ th[t].pc = "install" /\ lock' = [lock EXCEPT ![f] = None]
      /\ UNCHANGED <<chan, g_clients, rpc, abandoned>>
  BY Zenon, <1>1 DEF Install
<1>5. CallOK(t, th[t])
  BY DEF CacheInv
<1>6. /\ w \in Wrappers
      /\ \/ wrapper[w] = None /\ (th[t].kind = "create" \/ clients[f][p] = Null)
         \/ clients[f][p] = w /\ th[t].kind # "create"
  BY SMTT(40), <1>1, <1>3, <1>4, <1>5 DEF CallOK, FreeWrappers, CacheInv, TypeOK
<1>7. PICK x : x = [th[t] EXCEPT !.pc = "got", !.w = w]
  OBVIOUS
<1>8. /\ x \in Thread /\ x.pc = "got" /\ x.w = w
      /\ x.f = f /\ x.p = p /\ x.kind = th[t].kind /\ x.avoid = th[t].avoid
  <2>1. th[t] \in Thread
    BY Zenon DEF CacheInv, TypeOK
  <2> QED BY <1>1, <1>6, <1>7, <2>1, Zenon DEF Thread
<1>9. th' = [th EXCEPT ![t] = x]
  BY Zenon, <1>3, <1>7 DEF CacheInv, TypeOK
<1>10. /\ \A u \in Threads : th'[u] = IF u = t THEN x ELSE th[u]
       /\ \A g \in Factories : lock'[g] = IF g = f THEN None ELSE lock[g]
       /\ \A g \in Factories, q \in Peers :
            clients'[g][q] = IF g = f /\ q = p THEN w ELSE clients[g][q]
       /\ \A v \in Wrappers : wrapper'[v] = IF v = w THEN c ELSE wrapper[v]
  BY Zenon, <1>3, <1>4, <1>6, <1>9 DEF CacheInv, TypeOK
<1>11. /\ lock[f] = t
       /\ \A u \in Threads : u # t /\ th[u].pc \in Holding => th[u].f # f
  BY SMTT(40), <1>1, <1>4 DEF CacheInv, CallOK
\* The wrapper is cached nowhere else, and no other owner has it.
<1>12. \A g \in Factories, q \in Peers :
         /\ clients[g][q] = w => g = f /\ q = p
         /\ rpc[g][q] = w => g = f /\ q = p /\ clients[f][p] = w
  BY <1>6 DEF CacheInv, UsedInv, OneOwner
<1>13. TypeOK'
  <2>1. /\ wrapper' \in [Wrappers -> Chans \cup {None}]
        /\ lock' \in [Factories -> Threads \cup {None}]
        /\ clients' \in [Factories -> [Peers -> Wrappers \cup {None, Null}]]
    BY Zenon, <1>2, <1>3, <1>4, <1>6 DEF CacheInv, TypeOK
  <2>2. th' \in [Threads -> Thread]
    BY Zenon, <1>8, <1>9 DEF CacheInv, TypeOK
  <2> QED BY <1>4, <2>1, <2>2, Zenon DEF CacheInv, TypeOK
<1>14. CallOK(t, x)'
  <2>1. /\ \A g \in Factories, q \in Peers : clients'[g][q] = w => g = f
        /\ clients'[f][p] = w /\ wrapper'[w] = c
    BY <1>6, <1>10, <1>12
  <2>2. th[t].avoid # None => th[t].avoid # c
    BY Zenon, <1>2, <1>4 DEF CacheInv, Apart
  <2>3. x.kind = "create" => rpc'[f][p] # w /\ w \notin abandoned'
    BY Zenon, <1>4, <1>6, <1>8, <1>12 DEF CacheInv, UsedInv
  <2>4. x.kind = "create" => t = f
    BY SMTT(40), <1>1, <1>4, <1>5, <1>8 DEF CallOK
  <2> QED
    BY SMTT(40), <1>4, <1>5, <1>6, <1>8, <2>1, <2>2, <2>3, <2>4, <1>2, ValuesAssumption
    DEF CallOK
<1>15. ASSUME NEW u \in Threads, u # t PROVE CallOK(u, th[u])'
  <2>1. CallOK(u, th[u]) /\ th[u] \in Thread
    BY DEF CacheInv, TypeOK
  <2>2. CASE th[u].pc = "got" /\ th[u].w \in Wrappers
    <3>1. /\ wrapper'[th[u].w] # None
          /\ \A g \in Factories, q \in Peers : clients'[g][q] = th[u].w => g = th[u].f
      BY SMTT(40), <1>2, <1>6, <1>10, <2>1, <2>2, ValuesAssumption DEF CallOK
    <3>2. th[u].avoid # None => wrapper'[th[u].w] # th[u].avoid
      <4>1. th[u].w = w => th[u].f = f
        BY <1>6, <2>1, <2>2 DEF CallOK
      <4>2. th[u].f = f /\ th[u].avoid # None => c # th[u].avoid
        BY Zenon, <1>1, <1>2, <1>4 DEF CacheInv, Apart
      <4> QED BY Zenon, <1>10, <2>1, <2>2, <4>1, <4>2 DEF CallOK
    <3>3. th[u].kind = "create" => clients'[th[u].f][th[u].p] = th[u].w
      <4>1. th[u].kind = "create" /\ th[u].f = f => th[t].kind # "create"
        BY SMTT(40), <1>1, <1>4, <1>5, <1>15, <2>1, <2>2 DEF CallOK
      <4>2. th[u].f \in Factories /\ th[u].p \in Peers
        BY Zenon, <2>1, <2>2 DEF CallOK
      <4>3. th[u].kind = "create" => clients[th[u].f][th[u].p] = th[u].w
        BY Zenon, <2>1, <2>2 DEF CallOK
      <4>4. th[u].kind = "create" /\ th[u].f = f /\ th[u].p = p => th[u].w = w
        BY Zenon, <1>6, <2>2, <4>1, <4>3, ValuesAssumption
      <4>5. clients'[th[u].f][th[u].p] = IF th[u].f = f /\ th[u].p = p
                                         THEN w ELSE clients[th[u].f][th[u].p]
        BY <1>10, <4>2
      <4> QED BY Zenon, <4>3, <4>4, <4>5
    <3> QED BY SMTT(40), <1>4, <1>10, <1>15, <2>1, <2>2, <3>1, <3>2, <3>3 DEF CallOK
  <2>3. CASE ~(th[u].pc = "got" /\ th[u].w \in Wrappers)
    BY SMTT(40), <1>4, <1>10, <1>11, <1>15, <2>1, <2>3 DEF CallOK
  <2> QED BY Zenon, <2>2, <2>3
<1>16. \A u \in Threads : CallOK(u, th[u])'
  BY Zenon, <1>10, <1>14, <1>15
<1>17. \A u, v \in Threads : Apart(th[u], th[v])'
  BY <1>1, <1>8, <1>10 DEF CacheInv, Apart
<1>18. NullInv'
  BY SMTT(40), <1>1, <1>6, <1>10, <1>11, ValuesAssumption DEF CacheInv, NullInv
<1>19. UsedInv'
  <2>1. c # None /\ abandoned \subseteq Wrappers
    BY Zenon, <1>2, ValuesAssumption DEF CacheInv, TypeOK
  <2> QED BY <1>2, <1>4, <1>6, <1>10, <2>1 DEF CacheInv, UsedInv
<1>20. OneOwner'
  <2>1. OneOwner /\ rpc' = rpc
    BY Zenon, <1>4 DEF CacheInv
  <2>2. ASSUME NEW g \in Factories, NEW h \in Factories, NEW q \in Peers, NEW r \in Peers
        PROVE  /\ clients'[g][q] \in Wrappers /\ clients'[g][q] = clients'[h][r]
                    => g = h /\ q = r
               /\ rpc'[g][q] \in Wrappers /\ rpc'[g][q] = clients'[h][r] => g = h /\ q = r
               /\ rpc'[g][q] \in Wrappers /\ rpc'[g][q] = rpc'[h][r] => g = h /\ q = r
    <3>1. /\ clients'[g][q] = IF g = f /\ q = p THEN w ELSE clients[g][q]
          /\ clients'[h][r] = IF h = f /\ r = p THEN w ELSE clients[h][r]
      BY Zenon, <1>10
    <3>2. /\ clients[g][q] \in Wrappers /\ clients[g][q] = clients[h][r] => g = h /\ q = r
          /\ rpc[g][q] \in Wrappers /\ rpc[g][q] = clients[h][r] => g = h /\ q = r
          /\ rpc[g][q] \in Wrappers /\ rpc[g][q] = rpc[h][r] => g = h /\ q = r
      BY <2>1, Zenon DEF OneOwner
    <3>3. /\ clients[g][q] = w => g = f /\ q = p
          /\ clients[h][r] = w => h = f /\ r = p
          /\ rpc[g][q] = w => g = f /\ q = p
      BY Zenon, <1>12
    <3> QED BY Zenon, <2>1, <3>1, <3>2, <3>3
  <2> QED BY <2>2, Zenon DEF OneOwner
<1>21. RpcInv'
  <2>1. rpc[f][p] \in Wrappers /\ clients[f][p] # w => th[t].kind = "create"
    <3>1. ASSUME rpc[f][p] \in Wrappers PROVE clients[f][p] \in Wrappers
      <4>1. CASE th[f].pc = "got" /\ th[f].kind = "create"
                   /\ th[f].f = f /\ th[f].p = p /\ th[f].w \in Wrappers
        <5>1. CallOK(f, th[f])
          BY Zenon DEF CacheInv, Threads
        <5>2. clients[f][p] = th[f].w
          BY Zenon, <4>1, <5>1 DEF CallOK
        <5> QED BY Zenon, <4>1, <5>2
      <4> QED BY <3>1, <4>1 DEF CacheInv, RpcInv
    <3> QED BY Zenon, <1>6, <3>1, ValuesAssumption
  <2>2. th[t].kind = "create" => t = f
    BY Zenon, <1>1, <1>4, <1>5 DEF CallOK
  <2>3. \A g \in Factories : th[g].pc = "got" => g # t
    BY Zenon, <1>4
  <2> QED BY SMTT(40), <1>4, <1>6, <1>8, <1>10, <2>1, <2>2, <2>3 DEF CacheInv, RpcInv
<1> QED BY Zenon, <1>13, <1>16, <1>17, <1>18, <1>19, <1>20, <1>21 DEF CacheInv

\* A call that stays as it is keeps what it relies on, as transports stay open
\* and, once found bad, bad, and the wrapper it has made for NuRaft stays new.
LEMMA CallKept ==
  ASSUME NEW t \in Threads, NEW x, CallOK(t, x),
         x.c # None => chan'[x.c].st = chan[x.c].st,
         x.avoid # None => /\ chan'[x.avoid].st = chan[x.avoid].st
                           /\ chan[x.avoid].bad => chan'[x.avoid].bad,
         x.pc = "got" /\ x.w \in Wrappers /\ x.kind = "create" =>
           rpc'[x.f][x.p] # x.w /\ x.w \notin abandoned',
         UNCHANGED <<wrapper, clients, lock>>
  PROVE  CallOK(t, x)'
BY Zenon DEF CallOK, Holding, Calling

\* A null entry stays with its call if no call that holds a lock moves.
LEMMA NullKept ==
  ASSUME NullInv, UNCHANGED <<clients, lock>>,
         \A u \in Threads : th[u].pc \in Holding => th'[u] = th[u]
  PROVE  NullInv'
BY DEF NullInv, Holding

\* NuRaft storing the client it asked for keeps it.
LEMMA RpcStoredStep == ASSUME CacheInv, NEW f \in Factories, RpcStored(f) PROVE CacheInv'
<1>1. PICK p \in Peers, w \in Wrappers \cup {ErrorClient} :
        p = th[f].p /\ w = th[f].w
  BY SMTT(40) DEF RpcStored, CacheInv, CallOK
<1>2. /\ th[f].pc = "got" /\ th[f].kind = "create" /\ th[f].f = f
      /\ rpc' = [rpc EXCEPT ![f][p] = w]
      /\ abandoned' = abandoned \cup ({rpc[f][p]} \cap Wrappers)
      /\ th' = [th EXCEPT ![f] = Idle]
      /\ UNCHANGED <<chan, g_clients, wrapper, clients, lock>>
  BY SMTT(40), <1>1 DEF RpcStored, CacheInv, CallOK
<1>3. /\ \A u \in Threads : th'[u] = IF u = f THEN Idle ELSE th[u]
      /\ \A g \in Factories, q \in Peers :
           rpc'[g][q] = IF g = f /\ q = p THEN w ELSE rpc[g][q]
  BY Zenon, <1>2 DEF CacheInv, TypeOK
<1>4. w \in Wrappers => /\ clients[f][p] = w /\ rpc[f][p] # w
                        /\ w \notin abandoned /\ wrapper[w] # None
  BY SMTT(40), <1>1, <1>2 DEF CacheInv, CallOK
<1>5. TypeOK'
  <2>1. /\ rpc' \in [Factories -> [Peers -> Wrappers \cup {None, ErrorClient}]]
        /\ abandoned' \in SUBSET Wrappers
    BY Zenon, <1>2 DEF CacheInv, TypeOK
  <2>2. th' \in [Threads -> Thread]
    BY Zenon, <1>2, IdleCall DEF CacheInv, TypeOK
  <2> QED BY <1>2, <2>1, <2>2, Zenon DEF CacheInv, TypeOK
<1>6. CallOK(f, Idle)'
  BY Zenon, IdleCall DEF CallOK
<1>7. ASSUME NEW u \in Threads, u # f PROVE CallOK(u, th[u])'
  <2>1. CallOK(u, th[u])
    BY DEF CacheInv
  <2>2. th[u].pc = "got" /\ th[u].w \in Wrappers /\ th[u].kind = "create" =>
          rpc'[th[u].f][th[u].p] # th[u].w /\ th[u].w \notin abandoned'
    BY SMTT(40), <1>2, <1>3, <1>7, <2>1 DEF CallOK, CacheInv, OneOwner
  <2>3. PICK x : x = th[u] /\ x = th'[u]
    BY Zenon, <1>3, <1>7
  <2>4. CallOK(u, x)'
    BY Zenon, <1>2, <2>1, <2>2, <2>3, CallKept
  <2> QED BY Zenon, <2>3, <2>4
<1>8. \A u \in Threads : CallOK(u, th[u])'
  BY Zenon, <1>3, <1>6, <1>7
<1>9. \A u, v \in Threads : Apart(th[u], th[v])'
  BY <1>3, IdleCall DEF CacheInv, Apart
<1>10. NullInv'
  <2>1. \A u \in Threads : th[u].pc \in Holding => th'[u] = th[u]
    BY Zenon, <1>2, <1>3
  <2> QED BY Zenon, <1>2, <2>1, NullKept DEF CacheInv
<1>11. UsedInv'
  BY <1>2, <1>3, <1>4 DEF CacheInv, UsedInv
<1>12. OneOwner'
  BY <1>2, <1>3, <1>4 DEF CacheInv, OneOwner
<1>13. RpcInv'
  <2> SUFFICES ASSUME NEW g \in Factories, NEW q \in Peers, rpc'[g][q] \in Wrappers
               PROVE  /\ rpc'[g][q] \notin abandoned'
                      /\ \/ clients'[g][q] = rpc'[g][q]
                         \/ /\ th'[g].pc = "got" /\ th'[g].kind = "create"
                            /\ th'[g].f = g /\ th'[g].p = q /\ th'[g].w \in Wrappers
    BY Zenon DEF RpcInv
  <2>1. CASE g = f /\ q = p
    BY <1>2, <1>3, <1>4, <2>1
  <2>2. CASE ~(g = f /\ q = p)
    <3>1. rpc'[g][q] = rpc[g][q] /\ rpc[g][q] # rpc[f][p]
      BY <1>3, <2>2 DEF CacheInv, OneOwner
    <3>2. th[g].p = q => th'[g] = th[g] \/ th[g].f # g
      BY Zenon, <1>1, <1>3, <2>2
    <3> QED BY <1>2, <3>1, <3>2 DEF CacheInv, RpcInv
  <2> QED BY Zenon, <2>1, <2>2
<1> QED BY Zenon, <1>5, <1>8, <1>9, <1>10, <1>11, <1>12, <1>13 DEF CacheInv

\* Sending a data request keeps it.
LEMMA RequestSentStep == ASSUME CacheInv, NEW t \in Threads, RequestSent(t) PROVE CacheInv'
<1>1. /\ th[t].pc = "got" /\ th[t].kind # "create"
      /\ UNCHANGED <<chan, g_clients, wrapper, clients, lock, rpc, abandoned>>
  BY Zenon DEF RequestSent
<1>2. CASE th[t].w = ErrorClient
  <2>1. th' = [th EXCEPT ![t] = Idle]
    BY Zenon, <1>2 DEF RequestSent
  <2>2. CallOK(t, Idle)
    BY Zenon, IdleCall DEF CallOK
  <2> QED BY Zenon, <1>1, <2>1, <2>2, IdleCall, FromIdle
<1>3. CASE th[t].w # ErrorClient
  <2>1. PICK c \in Chans : /\ c = wrapper[th[t].w]
                           /\ th[t].avoid # None => c # th[t].avoid
    BY SMTT(40), <1>1, <1>3 DEF CacheInv, CallOK, TypeOK
  <2>2. PICK x : x = [th[t] EXCEPT !.pc = "sent", !.cs = {c}]
    OBVIOUS
  <2>3. /\ x \in Thread /\ x.pc = "sent" /\ x.cs = {c} /\ x.f = th[t].f
        /\ x.avoid = th[t].avoid
    <3>1. th[t] \in Thread /\ {c} \in SUBSET Chans
      BY Zenon DEF CacheInv, TypeOK
    <3> QED BY <2>2, <3>1, Zenon DEF Thread
  <2>4. th' = [th EXCEPT ![t] = x]
    BY Zenon, <1>3, <2>1, <2>2 DEF RequestSent, CacheInv, TypeOK
  <2>5. CallOK(t, x)
    <3>1. CallOK(t, th[t])
      BY Zenon DEF CacheInv
    <3> QED BY SMTT(40), <2>1, <2>3, <3>1 DEF CallOK
  <2>6. \A u \in Threads : Apart(x, th[u])
    <3>1. \A u \in Threads : Apart(th[t], th[u])
      BY Zenon DEF CacheInv
    <3> QED BY Zenon, <2>3, <3>1 DEF Apart
  <2> QED BY Zenon, <1>1, <2>3, <2>4, <2>5, <2>6, FromIdle
<1> QED BY Zenon, <1>2, <1>3

\* A transport goes bad or changes its connection, and a request may end.
LEMMA ChanStep ==
  ASSUME CacheInv, TypeOK',
         \A c \in Chans : /\ chan'[c].st = chan[c].st
                          /\ chan[c].bad => chan'[c].bad,
         \A u \in Threads : \/ th'[u] = th[u]
                            \/ th'[u] = Idle /\ th[u].pc = "sent",
         UNCHANGED <<g_clients, wrapper, clients, lock, rpc, abandoned>>
  PROVE  CacheInv'
<1>1. ASSUME NEW u \in Threads PROVE CallOK(u, th[u])'
  <2>1. CallOK(u, th[u]) /\ th[u].avoid \in Chans \cup {None}
                        /\ th[u].c \in Chans \cup {None}
    BY Zenon DEF CacheInv, TypeOK, Thread
  <2>2. CASE th'[u] = th[u]
    <3>1. PICK x : x = th[u]
      OBVIOUS
    <3>2. /\ x.c # None => chan'[x.c].st = chan[x.c].st
          /\ x.avoid # None => /\ chan'[x.avoid].st = chan[x.avoid].st
                               /\ chan[x.avoid].bad => chan'[x.avoid].bad
      BY Zenon, <2>1, <3>1
    <3>3. x.pc = "got" /\ x.w \in Wrappers /\ x.kind = "create" =>
            rpc'[x.f][x.p] # x.w /\ x.w \notin abandoned'
      BY Zenon, <2>1, <3>1 DEF CallOK
    <3>4. CallOK(u, x)'
      BY Zenon, <2>1, <3>1, <3>2, <3>3, CallKept
    <3> QED BY Zenon, <2>2, <3>1, <3>4
  <2>3. CASE th'[u] = Idle
    BY Zenon, <2>3, IdleCall DEF CallOK
  <2> QED BY Zenon, <2>2, <2>3
<1>2. \A u, v \in Threads : Apart(th[u], th[v])'
  BY IdleCall DEF CacheInv, Apart
<1>3. NullInv'
  <2>1. \A u \in Threads : th[u].pc \in Holding => th'[u] = th[u]
    OBVIOUS
  <2> QED BY Zenon, <2>1, NullKept DEF CacheInv
<1>4. UsedInv'
  <2>1. /\ \A w \in Wrappers : wrapper[w] \in Chans \cup {None}
        /\ \A p \in Peers : g_clients[p] \in Chans \cup {None}
    BY Zenon DEF CacheInv, TypeOK
  <2> QED BY Zenon, <2>1 DEF CacheInv, UsedInv
<1>5. OneOwner'
  BY DEF CacheInv, OneOwner
<1>6. RpcInv'
  <2>1. \A u \in Threads : th[u].pc = "got" => th'[u] = th[u]
    OBVIOUS
  <2> QED BY <2>1 DEF CacheInv, RpcInv
<1> QED BY Zenon, <1>1, <1>2, <1>3, <1>4, <1>5, <1>6 DEF CacheInv

\* The end of a request, which may find the transport bad, keeps it.
LEMMA CompleteStep == ASSUME CacheInv, NEW t \in Threads, Complete(t) PROVE CacheInv'
<1>1. PICK cs \in SUBSET Chans :
        chan' = [c \in Chans |->
                   IF c \in cs THEN [chan[c] EXCEPT !.bad = TRUE] ELSE chan[c]]
  <2>1. CASE UNCHANGED chan
    <3>1. chan' = [c \in Chans |->
                    IF c \in {} THEN [chan[c] EXCEPT !.bad = TRUE] ELSE chan[c]]
      BY Zenon, <2>1 DEF CacheInv, TypeOK
    <3>2. {} \in SUBSET Chans
      OBVIOUS
    <3> QED BY <3>1, <3>2, Zenon
  <2>2. CASE chan' = [c \in Chans |-> IF c \in th[t].cs
                                     THEN [chan[c] EXCEPT !.bad = TRUE] ELSE chan[c]]
    <3>1. th[t].cs \in SUBSET Chans
      BY Zenon DEF CacheInv, TypeOK, Thread
    <3> QED BY Zenon, <2>2, <3>1
  <2> QED BY Zenon, <2>1, <2>2 DEF Complete
<1>2. /\ th[t].pc = "sent" /\ th' = [th EXCEPT ![t] = Idle]
      /\ UNCHANGED <<g_clients, wrapper, clients, lock, rpc, abandoned>>
  BY Zenon DEF Complete
<1>3. ASSUME NEW c \in Chans
      PROVE  /\ chan'[c] \in [st : {"free", "open"}, bad : BOOLEAN, ready : BOOLEAN]
             /\ chan'[c].st = chan[c].st /\ (chan[c].bad => chan'[c].bad)
  <2>1. chan[c] \in [st : {"free", "open"}, bad : BOOLEAN, ready : BOOLEAN]
    BY Zenon DEF CacheInv, TypeOK
  <2>2. chan'[c] = IF c \in cs THEN [chan[c] EXCEPT !.bad = TRUE] ELSE chan[c]
    BY Zenon, <1>1
  <2> QED BY <2>1, <2>2, Zenon
<1>4. TypeOK'
  <2>1. chan' \in [Chans -> [st : {"free", "open"}, bad : BOOLEAN, ready : BOOLEAN]]
    BY <1>1, <1>3, Zenon
  <2>2. th' \in [Threads -> Thread]
    BY Zenon, <1>2, IdleCall DEF CacheInv, TypeOK
  <2> QED BY <1>2, <2>1, <2>2, Zenon DEF CacheInv, TypeOK
<1>5. \A u \in Threads : th'[u] = th[u] \/ (th'[u] = Idle /\ th[u].pc = "sent")
  BY Zenon, <1>2 DEF CacheInv, TypeOK
<1> QED BY Zenon, <1>2, <1>3, <1>4, <1>5, ChanStep

\* A channel that becomes ready or stops being so keeps it.
LEMMA ConnectivityStep ==
  ASSUME CacheInv, NEW c \in Chans, Connectivity(c)
  PROVE  CacheInv'
<1>1. /\ chan' = [chan EXCEPT ![c].ready = ~@]
      /\ UNCHANGED <<g_clients, wrapper, clients, lock, rpc, abandoned, th>>
  BY Zenon DEF Connectivity
<1>2. ASSUME NEW d \in Chans
      PROVE  /\ chan'[d] \in [st : {"free", "open"}, bad : BOOLEAN, ready : BOOLEAN]
             /\ chan'[d].st = chan[d].st /\ (chan[d].bad => chan'[d].bad)
  <2>1. /\ chan[d] \in [st : {"free", "open"}, bad : BOOLEAN, ready : BOOLEAN]
        /\ chan \in [Chans -> [st : {"free", "open"}, bad : BOOLEAN, ready : BOOLEAN]]
    BY Zenon DEF CacheInv, TypeOK
  <2>2. chan'[d] = IF d = c THEN [chan[d] EXCEPT !.ready = ~@] ELSE chan[d]
    BY <1>1, <2>1, Zenon
  <2> QED BY <2>1, <2>2, Zenon
<1>3. TypeOK'
  <2>1. DOMAIN chan' = Chans /\ chan' = [d \in Chans |-> chan'[d]]
    BY <1>1, Zenon DEF CacheInv, TypeOK
  <2>2. chan' \in [Chans -> [st : {"free", "open"}, bad : BOOLEAN, ready : BOOLEAN]]
    BY <1>2, <2>1, Zenon
  <2> QED BY <1>1, <2>2, Zenon DEF CacheInv, TypeOK
<1> QED BY Zenon, <1>1, <1>2, <1>3, ChanStep

\* Empty caches satisfy the invariant.
LEMMA InitCache == Init => CacheInv
<1> SUFFICES ASSUME Init PROVE CacheInv
  OBVIOUS
<1>1. TypeOK
  <2>1. [st |-> "free", bad |-> FALSE, ready |-> FALSE]
          \in [st : {"free", "open"}, bad : BOOLEAN, ready : BOOLEAN]
    BY Zenon
  <2>2. chan \in [Chans -> [st : {"free", "open"}, bad : BOOLEAN, ready : BOOLEAN]]
    BY <2>1, Zenon DEF Init
  <2>3. /\ g_clients \in [Peers -> Chans \cup {None}]
        /\ wrapper \in [Wrappers -> Chans \cup {None}]
        /\ clients \in [Factories -> [Peers -> Wrappers \cup {None, Null}]]
        /\ lock \in [Factories -> Threads \cup {None}]
        /\ rpc \in [Factories -> [Peers -> Wrappers \cup {None, ErrorClient}]]
        /\ abandoned \in SUBSET Wrappers
    BY Zenon DEF Init
  <2>4. th \in [Threads -> Thread]
    BY Zenon, IdleCall DEF Init
  <2> QED BY <2>2, <2>3, <2>4, Zenon DEF TypeOK
<1>2. \A t \in Threads : th[t] = Idle
  BY Zenon DEF Init
<1>3. \A t \in Threads : CallOK(t, th[t])
  BY Zenon, <1>2, IdleCall DEF CallOK
<1>4. \A t, u \in Threads : Apart(th[t], th[u])
  BY Zenon, <1>2, IdleCall DEF Apart
<1>5. NullInv /\ UsedInv /\ OneOwner /\ RpcInv
  BY ValuesAssumption DEF Init, NullInv, UsedInv, OneOwner, RpcInv
<1> QED BY Zenon, <1>1, <1>3, <1>4, <1>5 DEF CacheInv

\* Every step of the caches keeps the invariant.
LEMMA NextCache == CacheInv /\ [Next]_vars => CacheInv'
<1> SUFFICES ASSUME CacheInv, [Next]_vars PROVE CacheInv'
  OBVIOUS
<1>1. ASSUME NEW f \in Factories, NEW p \in Peers, CreateClient(f, p) \/ SendRaft(f, p)
      PROVE  CacheInv'
  BY Zenon, <1>1, CreateClientStep, SendRaftStep
<1>2. ASSUME NEW t \in DataThreads, NEW f \in Factories, NEW p \in Peers,
             NEW kind \in {"uni", "bi"}, DataServiceRequest(t, f, p, kind)
      PROVE  CacheInv'
  BY Zenon, <1>2, DataServiceRequestStep
<1>3. ASSUME NEW t \in DataThreads, NEW f \in Factories, NEW p \in Peers,
             ClusterRequest(t, f, p)
      PROVE  CacheInv'
  BY Zenon, <1>3, ClusterRequestStep
<1>4. ASSUME NEW t \in DataThreads, NEW f \in Factories, DataServiceRequestAll(t, f)
      PROVE  CacheInv'
  BY Zenon, <1>4, DataServiceRequestAllStep
<1>5. ASSUME NEW t \in Threads, Refresh(t) \/ RequestSent(t) \/ Complete(t)
      PROVE  CacheInv'
  BY Zenon, <1>5, AcquireStep, TransportKeptStep, TransportMadeStep,
     TransportFailedStep,
     InstallFailedStep, InstallStep, RequestSentStep, CompleteStep DEF Refresh
<1>6. ASSUME NEW f \in Factories, RpcStored(f) PROVE CacheInv'
  BY Zenon, <1>6, RpcStoredStep
<1>7. ASSUME NEW c \in Chans, Connectivity(c) PROVE CacheInv'
  BY Zenon, <1>7, ConnectivityStep
<1>8. CASE UNCHANGED vars
  <2>1. UNCHANGED <<chan, g_clients, wrapper, clients, lock, rpc, abandoned, th>>
    BY Zenon, <1>8 DEF vars
  <2>2. TypeOK'
    BY <2>1, Zenon DEF CacheInv, TypeOK
  <2>3. \A t \in Threads : CallOK(t, th[t])'
    BY <2>1, Zenon DEF CacheInv, CallOK
  <2>4. \A t, u \in Threads : Apart(th[t], th[u])'
    BY <2>1, Zenon DEF CacheInv, Apart
  <2>5. NullInv' /\ UsedInv' /\ OneOwner' /\ RpcInv'
    <3>1. NullInv'
      BY <2>1, Zenon DEF CacheInv, NullInv
    <3>2. UsedInv'
      BY <2>1, Zenon DEF CacheInv, UsedInv
    <3>3. OneOwner'
      BY <2>1, SMT DEF CacheInv, OneOwner
    <3>4. RpcInv'
      BY <2>1, SMT DEF CacheInv, RpcInv
    <3> QED BY Zenon, <3>1, <3>2, <3>3, <3>4
  <2> QED BY Zenon, <2>2, <2>3, <2>4, <2>5 DEF CacheInv
<1> QED BY Zenon, <1>1, <1>2, <1>3, <1>4, <1>5, <1>6, <1>7, <1>8 DEF Next

-----------------------------------------------------------------------------

\* The caches, the objects and the calls in create_or_reinit_client keep the
\* relation that the properties below follow from.
THEOREM CacheInvariant == Spec => []CacheInv
BY InitCache, NextCache, PTL DEF Spec

\* The caches, the objects and the calls stay well typed.
THEOREM CacheTypes == Spec => []TypeOK
<1>1. CacheInv => TypeOK
  BY Zenon DEF CacheInv
<1> QED BY <1>1, CacheInvariant, PTL

\* No data service request finds a null entry or a wrapper without a
\* transport under the shared lock (mesg_factory's data_service_request).
THEOREM NullNeverSeen == Spec => []NoNullVisible
<1>1. CacheInv => NoNullVisible
  BY ValuesAssumption DEF CacheInv, NoNullVisible, NullInv, UsedInv, TypeOK
<1> QED BY <1>1, CacheInvariant, PTL

\* The wrapper NuRaft keeps is the one that data requests refresh.
THEOREM CachedIsHeld == Spec => []NuRaftHoldsCached
<1>1. CacheInv => NuRaftHoldsCached
  BY DEF CacheInv, NuRaftHoldsCached, RpcInv
<1> QED BY <1>1, CacheInvariant, PTL

\* create_client never hands NuRaft a wrapper that it replaced before.
THEOREM IdentityFresh == Spec => []FreshIdentity
<1>1. CacheInv => FreshIdentity
  BY Zenon DEF CacheInv, FreshIdentity, RpcInv, TypeOK
<1> QED BY <1>1, CacheInvariant, PTL

\* A bidirectional request does not go out on the transport it found bad.
THEOREM BadAvoided == Spec => []BadTransportAvoided
<1>1. CacheInv => BadTransportAvoided
  BY SMTT(40) DEF CacheInv, BadTransportAvoided, CallOK
<1> QED BY <1>1, CacheInvariant, PTL

-----------------------------------------------------------------------------
(* Which peer a transport is for.                                          *)

\* What call x uses, or is about to install, for peer p.
CallCarries(x, c, p) ==
  /\ x.p = p
  /\ \/ x.pc = "install" /\ x.c = c
     \/ x.pc = "got" /\ x.w \in Wrappers /\ wrapper[x.w] = c
     \/ x.pc = "sent" /\ x.kind # "all" /\ c \in x.cs

\* Transport c is used for peer p: it is cached by the group_factory, it is
\* behind a wrapper of some mesg_factory or of NuRaft, or some call has it.
Carries(c, p) ==
  \/ g_clients[p] = c
  \/ \E f \in Factories : clients[f][p] \in Wrappers /\ wrapper[clients[f][p]] = c
  \/ \E f \in Factories : rpc[f][p] \in Wrappers /\ wrapper[rpc[f][p]] = c
  \/ \E t \in Threads : CallCarries(th[t], c, p)

\* No transport is used for two peers.
TransportsApart ==
  \A c \in Chans, p, q \in Peers : Carries(c, p) /\ Carries(c, q) => p = q

\* The wrapper that a call has just got is cached for the call's peer only.
GotPeer ==
  \A t \in Threads, f \in Factories, p \in Peers :
    (th[t].pc = "got" /\ th[t].w \in Wrappers /\ clients[f][p] = th[t].w) => th[t].p = p

RouteInv ==
  /\ \A c \in Chans, p \in Peers : Carries(c, p) => chan[c].st = "open"
  /\ TransportsApart /\ GotPeer

\* A step that uses no transport for a peer that it was not used for, and
\* closes none, keeps the peers apart.
LEMMA RouteKept ==
  ASSUME RouteInv, GotPeer',
         \A c \in Chans, p \in Peers : Carries(c, p)' => Carries(c, p),
         \A c \in Chans : chan[c].st = "open" => chan'[c].st = "open"
  PROVE  RouteInv'
BY Zenon DEF RouteInv, TransportsApart

\* So does a step that changes only thread t's call.
LEMMA RouteOwn ==
  ASSUME CacheInv, RouteInv, NEW t \in Threads, NEW x, x.pc # "got",
         th' = [th EXCEPT ![t] = x],
         \A c \in Chans, p \in Peers : CallCarries(x, c, p) => Carries(c, p),
         UNCHANGED <<chan, g_clients, wrapper, clients, rpc>>
  PROVE  RouteInv'
<1>1. \A u \in Threads : th'[u] = IF u = t THEN x ELSE th[u]
  BY Zenon DEF CacheInv, TypeOK
<1>2. GotPeer'
  BY <1>1 DEF RouteInv, GotPeer
<1>3. \A c \in Chans, p \in Peers : Carries(c, p)' => Carries(c, p)
  BY <1>1 DEF Carries, CallCarries
<1> QED BY Zenon, <1>2, <1>3, RouteKept

\* A call that has just begun, or is over, has no transport.
LEMMA RouteNoCall ==
  ASSUME CacheInv, RouteInv, NEW t \in Threads, NEW x,
         x.pc = "idle" \/ x.pc = "acquire",
         th' = [th EXCEPT ![t] = x],
         UNCHANGED <<chan, g_clients, wrapper, clients, rpc>>
  PROVE  RouteInv'
<1>1. \A c \in Chans, p \in Peers : ~CallCarries(x, c, p)
  BY Zenon DEF CallCarries
<1> QED BY Zenon, <1>1, RouteOwn

\* The entry points that ask for a client have none yet.
LEMMA RouteAsk ==
  ASSUME CacheInv, RouteInv, NEW t \in Threads, NEW f \in Factories, NEW p \in Peers,
         CreateClient(f, p) \/ ClusterRequest(t, f, p)
  PROVE  RouteInv'
<1>1. CASE CreateClient(f, p)
  <2> DEFINE x == [Idle EXCEPT !.pc = "acquire", !.kind = "create", !.f = f, !.p = p]
  <2>1. x.pc = "acquire"
    BY Zenon DEF Idle
  <2>2. th' = [th EXCEPT ![f] = x]
    BY <1>1, Zenon DEF CreateClient
  <2>3. UNCHANGED <<chan, g_clients, wrapper, clients, rpc>>
    BY Zenon, <1>1 DEF CreateClient
  <2> HIDE DEF x
  <2> QED BY Zenon, <2>1, <2>2, <2>3, RouteNoCall
<1>2. CASE ClusterRequest(t, f, p)
  <2> DEFINE x == [Idle EXCEPT !.pc = "acquire", !.kind = "cluster", !.f = f, !.p = p]
  <2>1. x.pc = "acquire"
    BY Zenon DEF Idle
  <2>2. th' = [th EXCEPT ![t] = x]
    BY <1>2, Zenon DEF ClusterRequest
  <2>3. UNCHANGED <<chan, g_clients, wrapper, clients, rpc>>
    BY Zenon, <1>2 DEF ClusterRequest
  <2> HIDE DEF x
  <2> QED BY Zenon, <2>1, <2>2, <2>3, RouteNoCall
<1> QED BY Zenon, <1>1, <1>2

\* A Raft message goes out on the transport of NuRaft's wrapper for the peer.
LEMMA RouteSendRaft ==
  ASSUME CacheInv, RouteInv, NEW f \in Factories, NEW p \in Peers, SendRaft(f, p)
  PROVE  RouteInv'
<1> DEFINE x == [Idle EXCEPT !.pc = "sent", !.kind = "raft", !.f = f, !.p = p,
                             !.cs = {wrapper[rpc[f][p]]}]
<1>1. x.pc = "sent" /\ x.p = p /\ x.cs = {wrapper[rpc[f][p]]}
  BY Zenon DEF Idle
<1>2. rpc[f][p] \in Wrappers /\ th' = [th EXCEPT ![f] = x]
  BY Zenon DEF SendRaft
<1>3. UNCHANGED <<chan, g_clients, wrapper, clients, rpc>>
  BY Zenon DEF SendRaft
<1> HIDE DEF x
<1>4. \A c \in Chans, q \in Peers : CallCarries(x, c, q) => Carries(c, q)
  BY Zenon, <1>1, <1>2 DEF CallCarries, Carries
<1> QED BY Zenon, <1>1, <1>2, <1>3, <1>4, RouteOwn

\* A data request goes out on the transport of the wrapper cached for the peer.
LEMMA RouteDataRequest ==
  ASSUME CacheInv, RouteInv, NEW t \in DataThreads, NEW f \in Factories,
         NEW p \in Peers, NEW kind \in {"uni", "bi"}, DataServiceRequest(t, f, p, kind)
  PROVE  RouteInv'
<1> DEFINE w == clients[f][p]
           x == [Idle EXCEPT !.pc = "sent", !.kind = kind, !.f = f, !.p = p,
                             !.cs = {wrapper[w]}]
           y == [Idle EXCEPT !.pc = "acquire", !.kind = kind, !.f = f, !.p = p,
                             !.avoid = IF w = None THEN None ELSE wrapper[w]]
<1>1. lock[f] = None /\ UNCHANGED <<chan, g_clients, wrapper, clients, rpc>>
  BY Zenon DEF DataServiceRequest
<1>2. CASE w # None /\ (kind = "uni" \/ ~reinitRequired(w))
  <2>1. clients[f][p] \in Wrappers
    BY Zenon, <1>1, <1>2, FreeLock
  <2>2. x.pc = "sent" /\ x.p = p /\ x.cs = {wrapper[clients[f][p]]}
    BY Zenon DEF Idle
  <2>3. th' = [th EXCEPT ![t] = x]
    BY Zenon, <1>2 DEF DataServiceRequest
  <2> HIDE DEF x
  <2>4. \A c \in Chans, q \in Peers : CallCarries(x, c, q) => Carries(c, q)
    BY Zenon, <2>1, <2>2 DEF CallCarries, Carries
  <2> QED BY Zenon, <1>1, <2>2, <2>3, <2>4, RouteOwn
<1>3. CASE ~(w # None /\ (kind = "uni" \/ ~reinitRequired(w)))
  <2>1. y.pc = "acquire"
    BY Zenon DEF Idle
  <2>2. th' = [th EXCEPT ![t] = y]
    BY Zenon, <1>3 DEF DataServiceRequest
  <2> HIDE DEF y
  <2> QED BY Zenon, <1>1, <2>1, <2>2, RouteNoCall
<1> QED BY Zenon, <1>2, <1>3

\* A request to every peer has no peer of its own.
LEMMA RouteDataRequestAll ==
  ASSUME CacheInv, RouteInv, NEW t \in DataThreads, NEW f \in Factories,
         DataServiceRequestAll(t, f)
  PROVE  RouteInv'
<1> DEFINE cs == {wrapper[clients[f][p]] : p \in {q \in Peers : clients[f][q] # None}}
           x == [Idle EXCEPT !.pc = "sent", !.kind = "all", !.f = f, !.cs = cs]
<1>1. UNCHANGED <<chan, g_clients, wrapper, clients, rpc>> /\ th' = [th EXCEPT ![t] = x]
  BY Zenon DEF DataServiceRequestAll
<1> HIDE DEF cs
<1>2. x.pc = "sent" /\ x.kind = "all"
  BY Zenon DEF Idle
<1> HIDE DEF x
<1>3. \A c \in Chans, q \in Peers : ~CallCarries(x, c, q)
  BY Zenon, <1>2 DEF CallCarries
<1> QED BY Zenon, <1>1, <1>2, <1>3, RouteOwn

\* The null entry that create_or_reinit_client makes has no transport.
LEMMA RouteAcquire ==
  ASSUME CacheInv, RouteInv, NEW t \in Threads, Acquire(t)
  PROVE  RouteInv'
<1>1. /\ th[t].f \in Factories /\ th[t].p \in Peers /\ th[t].pc = "acquire"
      /\ UNCHANGED <<chan, g_clients, wrapper, rpc>>
  BY Zenon, CallArgs DEF Acquire
<1>2. \A u \in Threads : /\ u # t => th'[u] = th[u]
                         /\ u = t => th'[u].pc = "transport"
  BY <1>1 DEF Acquire, CacheInv, TypeOK, Thread
<1>3. \A f \in Factories, p \in Peers :
        clients'[f][p] = clients[f][p] \/ clients'[f][p] = Null
  BY Zenon, <1>1 DEF Acquire, CacheInv, TypeOK
<1>4. GotPeer'
  BY <1>2, <1>3, ValuesAssumption DEF RouteInv, GotPeer
<1>5. \A c \in Chans, p \in Peers : Carries(c, p)' => Carries(c, p)
  BY <1>1, <1>2, <1>3, ValuesAssumption DEF Carries, CallCarries
<1> QED BY Zenon, <1>1, <1>4, <1>5, RouteKept

\* The group_factory hands out the transport it has cached for the peer,
LEMMA RouteTransportKept ==
  ASSUME CacheInv, RouteInv, NEW t \in Threads, TransportKept(t)
  PROVE  RouteInv'
<1> DEFINE x == [th[t] EXCEPT !.pc = "install", !.c = g_clients[th[t].p]]
<1>1. th[t] \in Thread /\ th[t].p \in Peers
  BY Zenon, CallArgs DEF TransportKept
<1>2. x.pc = "install" /\ x.p = th[t].p /\ x.c = g_clients[th[t].p]
  BY <1>1, Zenon DEF Thread
<1>3. th' = [th EXCEPT ![t] = x] /\ UNCHANGED <<chan, g_clients, wrapper, clients, rpc>>
  BY Zenon DEF TransportKept, CacheInv, TypeOK
<1> HIDE DEF x
<1>4. \A c \in Chans, q \in Peers : CallCarries(x, c, q) => Carries(c, q)
  BY Zenon, <1>2 DEF CallCarries, Carries
<1> QED BY Zenon, <1>2, <1>3, <1>4, RouteOwn

\* none at all,
LEMMA RouteTransportFailed ==
  ASSUME CacheInv, RouteInv, NEW t \in Threads, TransportFailed(t)
  PROVE  RouteInv'
<1>1. /\ th[t] \in Thread /\ th[t].p \in Peers
      /\ UNCHANGED <<chan, wrapper, clients, rpc>>
  BY Zenon, CallArgs DEF TransportFailed
<1>2. \A u \in Threads : /\ u # t => th'[u] = th[u]
                         /\ u = t => th'[u].pc = "install" /\ th'[u].c = None
  BY Zenon, <1>1 DEF TransportFailed, CacheInv, TypeOK, Thread
<1>3. \A p \in Peers : g_clients'[p] \in {g_clients[p], None}
  BY Zenon, <1>1 DEF TransportFailed, CacheInv, TypeOK
<1>4. GotPeer'
  BY <1>1, <1>2 DEF RouteInv, GotPeer
<1>5. \A c \in Chans, p \in Peers : Carries(c, p)' => Carries(c, p)
  BY <1>1, <1>2, <1>3, ValuesAssumption DEF Carries, CallCarries
<1> QED BY Zenon, <1>1, <1>4, <1>5, RouteKept

\* or a new one, which nobody has used for any peer.
LEMMA RouteTransportMade ==
  ASSUME CacheInv, RouteInv, NEW t \in Threads, TransportMade(t)
  PROVE  RouteInv'
<1>1. PICK c \in FreeChans, up \in BOOLEAN :
        /\ chan' = [chan EXCEPT ![c] = [st |-> "open", bad |-> FALSE, ready |-> up]]
        /\ g_clients' = [g_clients EXCEPT ![th[t].p] = c]
        /\ th' = [th EXCEPT ![t].pc = "install", ![t].c = c]
  BY Zenon DEF TransportMade
<1>2. /\ th[t] \in Thread /\ th[t].p \in Peers /\ UNCHANGED <<wrapper, clients, rpc>>
  BY Zenon, CallArgs DEF TransportMade
<1>3. /\ c \in Chans /\ chan[c].st = "free" /\ chan'[c].st = "open"
      /\ \A d \in Chans : d # c => chan'[d] = chan[d]
  BY Zenon, <1>1 DEF FreeChans, CacheInv, TypeOK
<1>4. \A u \in Threads : /\ u # t => th'[u] = th[u]
                         /\ u = t => /\ th'[u].pc = "install" /\ th'[u].c = c
                                     /\ th'[u].p = th[t].p
  BY Zenon, <1>1, <1>2 DEF CacheInv, TypeOK, Thread
<1>5. \A p \in Peers : g_clients'[p] = IF p = th[t].p THEN c ELSE g_clients[p]
  BY Zenon, <1>1, <1>2 DEF CacheInv, TypeOK
<1>6. \A d \in Chans, p \in Peers :
        Carries(d, p)' => Carries(d, p) \/ (d = c /\ p = th[t].p)
  BY <1>2, <1>4, <1>5 DEF Carries, CallCarries
<1>7. \A p \in Peers : ~Carries(c, p)
  BY Zenon, <1>3 DEF RouteInv
<1>8. GotPeer'
  BY <1>2, <1>4 DEF RouteInv, GotPeer
<1>9. \A d \in Chans, p \in Peers : Carries(d, p)' => chan'[d].st = "open"
  BY Zenon, <1>3, <1>6 DEF RouteInv
<1>10. TransportsApart'
  BY Zenon, <1>6, <1>7 DEF RouteInv, TransportsApart
<1> QED BY Zenon, <1>8, <1>9, <1>10 DEF RouteInv

\* A wrapper that is not made has no transport.
LEMMA RouteInstallFailed ==
  ASSUME CacheInv, RouteInv, NEW t \in Threads, InstallFailed(t)
  PROVE  RouteInv'
<1>1. /\ th[t] \in Thread /\ th[t].p \in Peers /\ th[t].f \in Factories
      /\ UNCHANGED <<chan, g_clients, wrapper, rpc>>
  BY Zenon, CallArgs DEF InstallFailed
<1>2. \A u \in Threads : /\ u # t => th'[u] = th[u]
                         /\ u = t => th'[u].pc = "got" /\ th'[u].w = ErrorClient
  BY Zenon, <1>1 DEF InstallFailed, CacheInv, TypeOK, Thread
<1>3. \A f \in Factories, p \in Peers :
        clients'[f][p] = clients[f][p] \/ clients'[f][p] = None
  BY Zenon, <1>1 DEF InstallFailed, CacheInv, TypeOK
<1>4. GotPeer'
  BY <1>2, <1>3, ValuesAssumption DEF RouteInv, GotPeer
<1>5. \A c \in Chans, p \in Peers : Carries(c, p)' => Carries(c, p)
  BY <1>1, <1>2, <1>3, ValuesAssumption DEF Carries, CallCarries
<1> QED BY Zenon, <1>1, <1>4, <1>5, RouteKept

\* Whoever has the wrapper that Install writes has it for the call's peer.
LEMMA RouteInstall ==
  ASSUME CacheInv, RouteInv, NEW t \in Threads, Install(t)
  PROVE  RouteInv'
<1>1. PICK f \in Factories, p \in Peers : f = th[t].f /\ p = th[t].p
  BY Zenon, CallArgs DEF Install
<1>2. PICK c \in Chans : c = th[t].c
  BY Zenon, CallArgs DEF Install, Thread
<1>3. PICK w : /\ w \in IF th[t].create THEN FreeWrappers ELSE {clients[f][p]}
               /\ wrapper' = [wrapper EXCEPT ![w] = c]
               /\ clients' = [clients EXCEPT ![f][p] = w]
               /\ th' = [th EXCEPT ![t].pc = "got", ![t].w = w]
  BY Zenon, <1>1, <1>2 DEF Install
<1>4. /\ th[t].pc = "install" /\ th[t] \in Thread
      /\ UNCHANGED <<chan, g_clients, rpc>>
  BY Zenon, CallArgs DEF Install
<1>5. CallOK(t, th[t])
  BY DEF CacheInv
<1>6. w \in Wrappers /\ (wrapper[w] = None \/ clients[f][p] = w)
  BY SMTT(40), <1>1, <1>3, <1>4, <1>5 DEF CallOK, FreeWrappers, CacheInv, TypeOK
<1>7. /\ \A u \in Threads : /\ u # t => th'[u] = th[u]
                            /\ u = t => th'[u].pc = "got" /\ th'[u].w = w /\ th'[u].p = p
  BY Zenon, <1>1, <1>3, <1>4 DEF CacheInv, TypeOK, Thread
<1>8. /\ \A g \in Factories, q \in Peers :
           clients'[g][q] = IF g = f /\ q = p THEN w ELSE clients[g][q]
      /\ \A v \in Wrappers : wrapper'[v] = IF v = w THEN c ELSE wrapper[v]
  BY Zenon, <1>3, <1>6 DEF CacheInv, TypeOK
<1>9. \A g \in Factories, q \in Peers :
        clients[g][q] = w \/ rpc[g][q] = w => q = p
  BY <1>6 DEF CacheInv, UsedInv, OneOwner
<1>10. \A u \in Threads : u # t /\ th[u].pc = "got" /\ th[u].w = w => th[u].p = p
  <2>1. ASSUME NEW u \in Threads, th[u].pc = "got", th[u].w = w PROVE wrapper[w] # None
    BY Zenon, <1>6, <2>1 DEF CacheInv, CallOK
  <2> QED BY Zenon, <1>6, <2>1 DEF RouteInv, GotPeer
<1>11. Carries(c, p)
  BY Zenon, <1>1, <1>2, <1>4 DEF Carries, CallCarries
<1>12. ASSUME NEW d \in Chans, NEW q \in Peers, Carries(d, q)' PROVE Carries(d, q)
  <2>1. CASE d = c /\ q = p
    BY Zenon, <1>11, <2>1
  <2>2. CASE g_clients'[q] = d
    BY Zenon, <1>4, <2>2 DEF Carries
  <2>3. CASE \E g \in Factories : /\ clients'[g][q] \in Wrappers
                                  /\ wrapper'[clients'[g][q]] = d
    BY <1>6, <1>8, <1>9, <2>1, <2>3 DEF Carries
  <2>4. CASE \E g \in Factories : rpc'[g][q] \in Wrappers /\ wrapper'[rpc'[g][q]] = d
    BY Zenon, <1>4, <1>8, <1>9, <2>1, <2>4 DEF Carries
  <2>5. CASE \E u \in Threads : CallCarries(th[u], d, q)'
    <3>1. PICK u \in Threads : CallCarries(th[u], d, q)'
      BY Zenon, <2>5
    <3>2. CASE u = t
      BY Zenon, <1>6, <1>7, <1>8, <2>1, <3>1, <3>2 DEF CallCarries
    <3>3. CASE u # t
      <4>1. CallCarries(th[u], d, q) \/ (d = c /\ q = p)
        BY <1>7, <1>8, <1>10, <3>1, <3>3 DEF CallCarries
      <4> QED BY Zenon, <2>1, <4>1 DEF Carries
    <3> QED BY Zenon, <3>2, <3>3
  <2> QED BY Zenon, <1>12, <2>2, <2>3, <2>4, <2>5 DEF Carries
<1>13. GotPeer'
  <2> SUFFICES ASSUME NEW u \in Threads, NEW g \in Factories, NEW q \in Peers,
                      th'[u].pc = "got", th'[u].w \in Wrappers, clients'[g][q] = th'[u].w
               PROVE  th'[u].p = q
    BY Zenon DEF GotPeer
  <2>1. CASE u = t
    BY <1>7, <1>8, <1>9, <2>1
  <2>2. CASE u # t
    BY <1>7, <1>8, <1>10, <2>2 DEF RouteInv, GotPeer
  <2> QED BY Zenon, <2>1, <2>2
<1> QED BY Zenon, <1>4, <1>12, <1>13, RouteKept

\* NuRaft stores the wrapper it has got for the peer it asked for.
LEMMA RouteRpcStored ==
  ASSUME CacheInv, RouteInv, NEW f \in Factories, RpcStored(f)
  PROVE  RouteInv'
<1>1. /\ th[f].pc = "got" /\ th[f].p \in Peers
      /\ UNCHANGED <<chan, g_clients, wrapper, clients>>
      /\ th' = [th EXCEPT ![f] = Idle]
      /\ rpc' = [rpc EXCEPT ![f][th[f].p] = th[f].w]
  BY Zenon, CallArgs DEF RpcStored
<1>2. \A u \in Threads : th'[u] = IF u = f THEN Idle ELSE th[u]
  BY Zenon, <1>1 DEF CacheInv, TypeOK
<1>3. \A g \in Factories, q \in Peers :
        rpc'[g][q] = IF g = f /\ q = th[f].p THEN th[f].w ELSE rpc[g][q]
  BY Zenon, <1>1 DEF CacheInv, TypeOK
<1>4. GotPeer'
  BY <1>1, <1>2, IdleCall DEF RouteInv, GotPeer
<1>5. \A c \in Chans, p \in Peers : Carries(c, p)' => Carries(c, p)
  BY <1>1, <1>2, <1>3, IdleCall DEF Carries, CallCarries
<1> QED BY Zenon, <1>1, <1>4, <1>5, RouteKept

\* A request goes out on the transport of the wrapper it has got.
LEMMA RouteRequestSent ==
  ASSUME CacheInv, RouteInv, NEW t \in Threads, RequestSent(t)
  PROVE  RouteInv'
<1>1. th[t].pc = "got" /\ UNCHANGED <<chan, g_clients, wrapper, clients, rpc>>
  BY Zenon DEF RequestSent
<1>2. CASE th[t].w = ErrorClient
  <2>1. th' = [th EXCEPT ![t] = Idle]
    BY Zenon, <1>2 DEF RequestSent
  <2> QED BY Zenon, <1>1, <2>1, IdleCall, RouteNoCall
<1>3. CASE th[t].w # ErrorClient
  <2> DEFINE x == [th[t] EXCEPT !.pc = "sent", !.cs = {wrapper[th[t].w]}]
  <2>1. th[t] \in Thread /\ th[t].w \in Wrappers
    BY Zenon, <1>1, <1>3, CallArgs DEF CacheInv, CallOK
  <2>2. x.pc = "sent" /\ x.p = th[t].p /\ x.cs = {wrapper[th[t].w]}
    BY <2>1, Zenon DEF Thread
  <2>3. th' = [th EXCEPT ![t] = x]
    BY Zenon, <1>3 DEF RequestSent, CacheInv, TypeOK
  <2> HIDE DEF x
  <2>4. \A c \in Chans, q \in Peers : CallCarries(x, c, q) => Carries(c, q)
    BY Zenon, <1>1, <2>1, <2>2 DEF CallCarries, Carries
  <2> QED BY Zenon, <1>1, <2>2, <2>3, <2>4, RouteOwn
<1> QED BY Zenon, <1>2, <1>3

\* Answers and the network leave the transports open and where they are.
LEMMA RouteChan ==
  ASSUME RouteInv, UNCHANGED <<g_clients, wrapper, clients, rpc>>,
         \A u \in Threads : th'[u] = th[u] \/ th'[u] = Idle,
         \A c \in Chans : chan[c].st = "open" => chan'[c].st = "open"
  PROVE  RouteInv'
<1>1. GotPeer'
  BY Zenon, IdleCall DEF RouteInv, GotPeer
<1>2. \A c \in Chans, p \in Peers : Carries(c, p)' => Carries(c, p)
  BY Zenon, IdleCall DEF Carries, CallCarries
<1> QED BY Zenon, <1>1, <1>2, RouteKept

\* An answer may mark the transports of its request bad.
LEMMA RouteComplete ==
  ASSUME CacheInv, RouteInv, NEW t \in Threads, Complete(t)
  PROVE  RouteInv'
<1>1. /\ UNCHANGED <<g_clients, wrapper, clients, rpc>>
      /\ \A u \in Threads : th'[u] = th[u] \/ th'[u] = Idle
  BY Zenon DEF Complete, CacheInv, TypeOK
<1>2. ASSUME NEW c \in Chans PROVE chan'[c].st = chan[c].st
  <2>1. chan[c] \in [st : {"free", "open"}, bad : BOOLEAN, ready : BOOLEAN]
    BY Zenon DEF CacheInv, TypeOK
  <2>2. chan'[c] = chan[c] \/ chan'[c] = [chan[c] EXCEPT !.bad = TRUE]
    BY Zenon DEF Complete
  <2> QED BY <2>1, <2>2, Zenon
<1> QED BY Zenon, <1>1, <1>2, RouteChan

\* The network changes only whether a transport is ready.
LEMMA RouteConnectivity ==
  ASSUME CacheInv, RouteInv, NEW d \in Chans, Connectivity(d)
  PROVE  RouteInv'
<1>1. UNCHANGED <<g_clients, wrapper, clients, rpc, th>>
  BY Zenon DEF Connectivity
<1>2. ASSUME NEW c \in Chans PROVE chan'[c].st = chan[c].st
  <2>1. chan[c] \in [st : {"free", "open"}, bad : BOOLEAN, ready : BOOLEAN]
    BY Zenon DEF CacheInv, TypeOK
  <2>2. chan'[c] = chan[c] \/ chan'[c] = [chan[c] EXCEPT !.ready = ~@]
    BY Zenon DEF Connectivity, CacheInv, TypeOK
  <2> QED BY <2>1, <2>2, Zenon
<1> QED BY Zenon, <1>1, <1>2, RouteChan

\* Every step keeps the peers' transports apart.
LEMMA NextRoute == CacheInv /\ RouteInv /\ [Next]_vars => RouteInv'
<1> SUFFICES ASSUME CacheInv, RouteInv, [Next]_vars PROVE RouteInv'
  OBVIOUS
<1>1. ASSUME NEW t \in Threads, Refresh(t) \/ RequestSent(t) PROVE RouteInv'
  BY Zenon, <1>1, RouteAcquire, RouteTransportKept, RouteTransportMade,
     RouteTransportFailed,
     RouteInstallFailed, RouteInstall, RouteRequestSent DEF Refresh
<1>2. ASSUME NEW t \in Threads, Complete(t) PROVE RouteInv'
  BY Zenon, <1>2, RouteComplete
<1>3. ASSUME NEW d \in Chans, Connectivity(d) PROVE RouteInv'
  BY Zenon, <1>3, RouteConnectivity
<1>4. CASE UNCHANGED vars
  <2>1. GotPeer'
    BY Zenon, <1>4 DEF vars, RouteInv, GotPeer
  <2>2. \A c \in Chans, p \in Peers : Carries(c, p)' => Carries(c, p)
    BY <1>4 DEF vars, Carries, CallCarries
  <2> QED BY Zenon, <1>4, <2>1, <2>2, RouteKept DEF vars
<1>5. ASSUME NEW f \in Factories, NEW p \in Peers, CreateClient(f, p) \/ SendRaft(f, p)
      PROVE  RouteInv'
  BY Zenon, <1>5, RouteAsk, RouteSendRaft
<1>6. ASSUME NEW t \in DataThreads, NEW f \in Factories, NEW p \in Peers,
             ClusterRequest(t, f, p)
      PROVE  RouteInv'
  BY Zenon, <1>6, RouteAsk
<1> QED
  BY Zenon, <1>1, <1>2, <1>3, <1>4, <1>5, <1>6, RouteDataRequest, RouteDataRequestAll,
     RouteRpcStored DEF Next

\* Nothing that is sent to a peer, over any group's wrapper, before or after a
\* refresh, goes out on a transport that was made for another peer
\* (group_factory::create_client, grpc_proto_client::setClient).
THEOREM PeersKeptApart == Spec => []TransportsApart
<1>1. Init => RouteInv
  BY ValuesAssumption, IdleCall
     DEF Init, RouteInv, TransportsApart, GotPeer, Carries, CallCarries
<1>2. RouteInv => TransportsApart
  BY Zenon DEF RouteInv
<1> QED BY <1>1, <1>2, NextRoute, CacheInvariant, PTL DEF Spec

-----------------------------------------------------------------------------
(* The lock of a mesg_factory.                                             *)

\* A thread is between the emplace and the end of create_or_reinit_client in
\* a mesg_factory exactly when it has the factory's _client_lock.
LockMatches ==
  /\ \A t \in Threads : th[t].pc \in Holding => lock[th[t].f] = t
  /\ \A f \in Factories : lock[f] # None =>
       th[lock[f]].pc \in Holding /\ th[lock[f]].f = f

\* A step that changes only thread t's call, outside the lock or inside it.
LEMMA LockOwn ==
  ASSUME CacheInv, LockMatches, NEW t \in Threads, UNCHANGED lock, CacheInv',
         \A u \in Threads : u # t => th'[u] = th[u],
         \/ th[t].pc \notin Holding
         \/ th'[t].pc \in Holding /\ th'[t].f = th[t].f
  PROVE  LockMatches'
<1>1. \A u \in Threads : th'[u].pc \in Holding => lock'[th'[u].f] = u
  BY Zenon DEF CacheInv, CallOK
<1>2. ASSUME NEW f \in Factories, lock'[f] # None
      PROVE  th'[lock'[f]].pc \in Holding /\ th'[lock'[f]].f = f
  <2>1. lock[f] \in Threads /\ th[lock[f]].pc \in Holding /\ th[lock[f]].f = f
    BY Zenon, <1>2 DEF LockMatches, CacheInv, TypeOK
  <2> QED BY Zenon, <2>1
<1> QED BY Zenon, <1>1, <1>2 DEF LockMatches

\* The lock is taken by Acquire and given up by both ends of the region.
LEMMA LockChange ==
  ASSUME CacheInv, LockMatches, NEW t \in Threads, CacheInv',
         Acquire(t) \/ InstallFailed(t) \/ Install(t)
  PROVE  LockMatches'
<1>1. th[t].f \in Factories /\ th[t] \in Thread
  BY Zenon, CallArgs DEF Acquire, InstallFailed, Install
<1>2. \A u \in Threads : u # t => th'[u] = th[u]
  BY Zenon DEF Acquire, InstallFailed, Install, CacheInv, TypeOK
<1>3. \A u \in Threads : th'[u].pc \in Holding => lock'[th'[u].f] = u
  BY Zenon DEF CacheInv, CallOK
<1>4. \/ /\ lock' = [lock EXCEPT ![th[t].f] = t] /\ lock[th[t].f] = None
         /\ th[t].pc = "acquire" /\ th'[t].pc = "transport" /\ th'[t].f = th[t].f
      \/ lock' = [lock EXCEPT ![th[t].f] = None] /\ th[t].pc = "install"
  <2>1. CASE Acquire(t)
    BY Zenon, <1>1, <2>1 DEF Acquire, CacheInv, TypeOK, Thread
  <2>2. CASE InstallFailed(t) \/ Install(t)
    BY Zenon, <2>2 DEF InstallFailed, Install
  <2> QED BY Zenon, <2>1, <2>2
<1>5. ASSUME NEW f \in Factories, lock'[f] # None
      PROVE  th'[lock'[f]].pc \in Holding /\ th'[lock'[f]].f = f
  <2>1. CASE f = th[t].f
    BY Zenon, <1>1, <1>4, <1>5, <2>1 DEF CacheInv, TypeOK
  <2>2. CASE f # th[t].f
    <3>1. lock'[f] = lock[f] /\ lock[f] \in Threads
      BY Zenon, <1>1, <1>4, <1>5, <2>2 DEF CacheInv, TypeOK
    <3>2. th[lock[f]].pc \in Holding /\ th[lock[f]].f = f
      BY Zenon, <1>5, <3>1 DEF LockMatches
    <3> QED BY Zenon, <1>2, <2>2, <3>1, <3>2
  <2> QED BY Zenon, <2>1, <2>2
<1> QED BY Zenon, <1>3, <1>5 DEF LockMatches

\* Every step keeps the lock and the region together.
LEMMA NextLock == CacheInv /\ CacheInv' /\ LockMatches /\ [Next]_vars => LockMatches'
<1> SUFFICES ASSUME CacheInv, CacheInv', LockMatches, [Next]_vars PROVE LockMatches'
  OBVIOUS
<1>1. ASSUME NEW t \in Threads, Acquire(t) \/ InstallFailed(t) \/ Install(t)
      PROVE  LockMatches'
  BY Zenon, <1>1, LockChange
<1>2. ASSUME NEW t \in Threads,
             TransportKept(t) \/ TransportMade(t) \/ TransportFailed(t)
      PROVE  LockMatches'
  <2>1. UNCHANGED lock /\ th[t] \in Thread
    BY Zenon, <1>2, CallArgs DEF TransportKept, TransportMade, TransportFailed
  <2>2. PICK c : th' = [th EXCEPT ![t].pc = "install", ![t].c = c]
    BY <1>2, Zenon DEF TransportKept, TransportMade, TransportFailed
  <2>3. /\ \A u \in Threads : u # t => th'[u] = th[u]
        /\ th'[t].pc = "install" /\ th'[t].f = th[t].f
    BY Zenon, <2>1, <2>2 DEF CacheInv, TypeOK, Thread
  <2> QED BY Zenon, <2>1, <2>3, LockOwn
<1>3. ASSUME NEW t \in Threads, RequestSent(t) \/ Complete(t) \/ RpcStored(t)
      PROVE  LockMatches'
  <2>1. UNCHANGED lock /\ th[t].pc \in {"got", "sent"}
    BY Zenon, <1>3 DEF RequestSent, Complete, RpcStored
  <2>2. \A u \in Threads : u # t => th'[u] = th[u]
    BY Zenon, <1>3 DEF RequestSent, Complete, RpcStored, CacheInv, TypeOK
  <2> QED BY Zenon, <2>1, <2>2, LockOwn
<1>4. ASSUME NEW t \in Threads, NEW f \in Factories,
             \/ \E p \in Peers : \/ f = t /\ (CreateClient(t, p) \/ SendRaft(t, p))
                                \/ ClusterRequest(t, f, p)
                                \/ \E kind \in {"uni", "bi"} :
                                     DataServiceRequest(t, f, p, kind)
             \/ DataServiceRequestAll(t, f)
      PROVE  LockMatches'
  <2>1. /\ UNCHANGED lock /\ th[t].pc = "idle"
        /\ \E x : th' = [th EXCEPT ![t] = x]
    BY <1>4, Zenon DEF CreateClient, SendRaft, ClusterRequest, DataServiceRequest,
                      DataServiceRequestAll
  <2>2. \A u \in Threads : u # t => th'[u] = th[u]
    BY Zenon, <2>1 DEF CacheInv, TypeOK
  <2> QED BY Zenon, <2>1, <2>2, LockOwn
<1>5. CASE UNCHANGED vars \/ \E c \in Chans : Connectivity(c)
  BY Zenon, <1>5 DEF vars, Connectivity, LockMatches
<1> QED
  <2>1. CASE \E f \in Factories, p \in Peers : CreateClient(f, p) \/ SendRaft(f, p)
    BY Zenon, <1>4, <2>1
  <2>2. CASE \E t \in Threads : Refresh(t)
    BY Zenon, <1>1, <1>2, <2>2 DEF Refresh
  <2> QED BY <1>3, <1>4, <1>5, <2>1, <2>2, Zenon DEF Next

\* Nobody else is in create_or_reinit_client's locked region of the same
\* mesg_factory, and no path out of it, failed or not, leaves the lock taken.
THEOREM RefreshAlone == Spec => []LockMatches
<1>1. Init => LockMatches
  BY Zenon, IdleCall DEF Init, LockMatches
<1> QED BY <1>1, NextLock, CacheInvariant, PTL DEF Spec

\* A grpc_proto_client serves one peer of one group: no refresh or replacement
\* makes two map entries, or NuRaft's clients of two peers, share a wrapper.
THEOREM WrapperNotShared == Spec => []OneOwner
<1>1. CacheInv => OneOwner
  BY DEF CacheInv
<1> QED BY <1>1, CacheInvariant, PTL
=============================================================================
