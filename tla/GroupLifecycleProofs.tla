------------------------ MODULE GroupLifecycleProofs ------------------------
(***************************************************************************)
(* What GroupLifecycle guarantees for every number of groups, threads,     *)
(* state managers and servers as long as no join of a group has overlapped *)
(* another join or a leave of it (overlap = {}), and that it implements    *)
(* GroupMembership until then.  IInv relates the maps and the servers to where the    *)
(* threads that create and stop them are; its types and its part on state  *)
(* managers come from GroupOverlapProofs.                                  *)
(***************************************************************************)
EXTENDS GroupOverlapProofs

-----------------------------------------------------------------------------
(* No join together with another join or a leave of its group.             *)

Busy(t) == th[t].pc \in JoinPCs \cup LeavePCs

\* A thread inside joinRaftGroup is alone on its group.
Exclusive ==
  \A t, u \in Threads :
    (th[t].pc \in JoinPCs /\ Busy(u) /\ th[t].g = th[u].g) => t = u

\* What each program counter says of the two maps.
ThreadInv ==
  \A t \in Threads :
    LET g == th[t].g
    IN /\ th[t].pc # "idle" => g \in Groups
       /\ th[t].pc \in LeavePCs \cup {"wait"} => t \in AppThreads
       /\ th[t].kind \in {"create", "join"} => t \in AppThreads
       /\ th[t].pc # "unwind"
       /\ th[t].pc \in {"init", "construct", "emplace", "destroy"}
            => raft_servers[g] = None
       /\ th[t].pc \in {"construct", "emplace", "ctx"}
            => th[t].m \in Smgrs /\ th[t].m = state_managers[g]
       /\ th[t].pc = "emplace"
            => /\ th[t].s \in Servers
               /\ srv[th[t].s].st = "running"
               /\ srv[th[t].s].g = g
       /\ th[t].pc \in {"ctx", "end"}
            => th[t].s \in Servers /\ raft_servers[g] = th[t].s
       /\ th[t].pc \in {"stop", "shutdown"}
            => /\ th[t].s \in Servers
               /\ srv[th[t].s].st # "free"
               /\ srv[th[t].s].g = g
               /\ raft_servers[g] \in {None, th[t].s}
       /\ th[t].pc = "joined" /\ mgr = "up"
            => (th[t].r = "OK" <=> raft_servers[g] # None)

\* A server that is up uses its group's storage, and is registered or about to.
RunInv ==
  \A s \in Servers : Up(s) =>
    /\ srv[s].g \in Groups
    /\ srv[s].m \in Smgrs
    /\ srv[s].m = state_managers[srv[s].g]
    /\ \/ raft_servers[srv[s].g] = s
       \/ \E t \in Threads : th[t].pc = "emplace" /\ th[t].s = s

\* Storage in use is live and belongs to one group.
SmgrInv ==
  /\ \A g \in Groups :
       state_managers[g] # None => smgr[state_managers[g]] = "live"
  /\ \A g, h \in Groups :
       (state_managers[g] # None /\ state_managers[g] = state_managers[h])
         => g = h

\* What is registered is up, for the group it is registered for, and stopped
\* only by somebody who will shut it down.
RegInv ==
  \A g \in Groups : raft_servers[g] # None =>
    /\ Up(raft_servers[g])
    /\ srv[raft_servers[g]].g = g
    /\ srv[raft_servers[g]].st = "stopped" /\ mgr = "up"
         => \E t \in Threads : th[t].pc = "shutdown" /\ th[t].g = g
    /\ DataService => \/ repl_ctx[state_managers[g]] = raft_servers[g]
                      \/ \E t \in Threads : th[t].pc = "ctx" /\ th[t].g = g

\* exit_group runs on a server that is up, with that server's own storage.
EvictInv ==
  \A s \in Servers : exiting[s] # None => Up(s) /\ exiting[s] = srv[s].m

KInv == Exclusive /\ ThreadInv /\ RunInv /\ SmgrInv /\ RegInv

IInv == TypeOK /\ KInv /\ EvictInv /\ MgrInv

AloneInv == overlap = {} => IInv

\* A call that begins without an overlap is alone on its group.
LEMMA BeginsAlone ==
  ASSUME NEW g \in Groups, overlap' = {}
  PROVE  /\ JoinOverlaps(g) => Joiners(g) = {} /\ Leavers(g) = {}
         /\ LeaveOverlaps(g) => Joiners(g) = {}
BY Zenon DEF JoinOverlaps, LeaveOverlaps

\* What is registered is up, and registered for one group.
LEMMA RegisteredIs ==
  ASSUME IInv, NEW g \in Groups, raft_servers[g] # None
  PROVE  /\ raft_servers[g] \in Servers /\ Up(raft_servers[g])
         /\ srv[raft_servers[g]].g = g
BY DEF IInv, KInv, TypeOK, RegInv

\* RegInv survives a step that only moves a thread on, unless that thread is
\* about to shut a server down or to make a context.
LEMMA RegKept ==
  ASSUME IInv, mgr' = mgr, raft_servers' = raft_servers, srv' = srv, repl_ctx' = repl_ctx,
         state_managers' = state_managers,
         \A u \in Threads : th[u].pc \in {"shutdown", "ctx"}
                              => th'[u].pc = th[u].pc /\ th'[u].g = th[u].g
  PROVE  RegInv'
<1>1. \A g \in Groups : raft_servers[g] # None => Up(raft_servers[g])'
  BY Zenon DEF IInv, KInv, RegInv, Up
<1>2. ASSUME NEW g \in Groups, NEW pc \in {"shutdown", "ctx"},
             \E u \in Threads : th[u].pc = pc /\ th[u].g = g
      PROVE  \E u \in Threads : th'[u].pc = pc /\ th'[u].g = g
  BY Zenon, <1>2
<1> QED BY <1>1, <1>2 DEF IInv, KInv, RegInv

\* create_group: a call begins, alone on its group.
LEMMA CreateGroupInv ==
  ASSUME overlap' = {}, IInv, NEW t \in AppThreads, NEW g \in Groups,
         CreateGroup(t, g)
  PROVE  KInv'
<1>0. Joiners(g) = {} /\ Leavers(g) = {}
  BY Zenon, BeginsAlone DEF CreateGroup
<1>1. Exclusive'
  BY <1>0 DEF IInv, KInv, CreateGroup, Begin, Joiners, Leavers, Exclusive, Busy,
       TypeOK, Thread, JoinPCs, LeavePCs, Threads
<1>2. ThreadInv'
  BY <1>0 DEF IInv, KInv, CreateGroup, Begin, Joiners, Leavers, TypeOK, ThreadInv,
       Exclusive, Busy, RunInv, RegInv, Up
<1>3. RunInv'
  BY <1>0 DEF IInv, KInv, CreateGroup, Begin, Joiners, Leavers, RunInv, Up
<1>4. SmgrInv'
  BY Zenon, <1>0 DEF IInv, KInv, SmgrInv, CreateGroup
<1>5. RegInv'
  <2>1. \A u \in Threads \ {t} : th'[u] = th[u]
    BY Zenon DEF CreateGroup, Begin, IInv, TypeOK
  <2>2. th[t].pc = "idle"
    BY Zenon DEF CreateGroup, Begin
  <2>3. \A u \in Threads : th[u].pc \in {"shutdown", "ctx"} => th'[u] = th[u]
    BY <2>1, <2>2
  <2> QED BY Zenon, <2>3, RegKept DEF CreateGroup
<1> QED BY Zenon, <1>1, <1>2, <1>3, <1>4, <1>5 DEF KInv

\* join_group: a call begins and may put its state manager in the map.
LEMMA JoinGroupInv ==
  ASSUME overlap' = {}, IInv, NEW t \in AppThreads, NEW g \in Groups,
         NEW m \in Smgrs, JoinGroup(t, g, m)
  PROVE  KInv'
<1>0. Joiners(g) = {} /\ Leavers(g) = {}
  BY Zenon, BeginsAlone DEF JoinGroup
<1>1. Exclusive'
  BY <1>0 DEF IInv, KInv, JoinGroup, Begin, Joiners, Leavers, Exclusive, Busy, TypeOK,
       Thread, JoinPCs, LeavePCs, Threads
<1>2. ThreadInv'
  BY <1>0 DEF IInv, KInv, JoinGroup, Begin, Joiners, Leavers, TypeOK, ThreadInv,
       RegInv, MgrInv, JoinPCs, LeavePCs, Up
<1>3. RunInv'
  BY <1>0, NoneAssumption DEF IInv, KInv, JoinGroup, Begin, Joiners, Leavers, TypeOK,
       Thread, Server, Exclusive, RunInv, LeavePCs, Up
<1>4. SmgrInv'
  BY <1>0 DEF IInv, KInv, JoinGroup, Begin, Joiners, Leavers, TypeOK, SmgrInv, JoinPCs,
       LeavePCs, Threads
<1>5. RegInv'
  BY <1>0, NoneAssumption DEF IInv, KInv, JoinGroup, Begin, Joiners, Leavers, TypeOK,
       Thread, RegInv, RunInv, HoldsManager, LeavePCs, Threads, Up
<1> QED BY Zenon, <1>1, <1>2, <1>3, <1>4, <1>5 DEF KInv

\* leave_group: the membership check; nobody is joining the group.
LEMMA LeaveGroupInv ==
  ASSUME overlap' = {}, IInv, NEW t \in AppThreads, NEW g \in Groups,
         LeaveGroup(t, g)
  PROVE  KInv'
<1>0. state_managers[g] # None => Joiners(g) = {}
  BY Zenon, BeginsAlone DEF LeaveGroup
<1>1. Exclusive'
  BY <1>0 DEF IInv, KInv, LeaveGroup, Begin, Return, Joiners, Exclusive, Busy, TypeOK,
       Thread, JoinPCs, LeavePCs, Threads
<1>2. ThreadInv'
  BY <1>0, SMTT(20) DEF IInv, KInv, LeaveGroup, Begin, Return, Joiners, TypeOK, Thread,
       ThreadInv, Exclusive, RunInv, RegInv, MgrInv, Threads, Up
<1>3. RunInv'
  BY <1>0 DEF IInv, KInv, LeaveGroup, Begin, Return, Joiners, TypeOK, Server,
       ThreadInv, RunInv, JoinPCs, Threads, Up
<1>4. SmgrInv'
  BY Zenon, <1>0 DEF IInv, KInv, SmgrInv, LeaveGroup
<1>5. RegInv'
  <2>1. \A u \in Threads \ {t} : th'[u] = th[u]
    BY Zenon DEF LeaveGroup, Begin, Return, IInv, TypeOK
  <2>2. th[t].pc = "idle"
    BY Zenon DEF LeaveGroup, Begin
  <2>3. \A u \in Threads : th[u].pc \in {"shutdown", "ctx"} => th'[u] = th[u]
    BY <2>1, <2>2
  <2> QED BY Zenon, <2>3, RegKept DEF LeaveGroup
<1> QED BY Zenon, <1>1, <1>2, <1>3, <1>4, <1>5 DEF KInv

\* raftStep with a join_cluster_request begins.
LEMMA RaftStepJoinInv ==
  ASSUME overlap' = {}, IInv, NEW t \in GrpcThreads, NEW g \in Groups,
         RaftStepJoin(t, g)
  PROVE  KInv'
<1>0. Joiners(g) = {} /\ Leavers(g) = {}
  BY Zenon, BeginsAlone DEF RaftStepJoin
<1>1. Exclusive'
  BY <1>0 DEF IInv, KInv, RaftStepJoin, Begin, Joiners, Leavers, Exclusive, Busy,
       TypeOK, Thread, JoinPCs, LeavePCs, Threads
<1>2. ThreadInv'
  BY <1>0 DEF IInv, KInv, RaftStepJoin, Begin, Joiners, Leavers, ThreadInv, Exclusive,
       JoinPCs, LeavePCs, Threads
<1>3. RunInv'
  BY Zenon, <1>0 DEF IInv, KInv, RaftStepJoin, Begin, Joiners, Leavers, TypeOK, Server,
       Exclusive, RunInv, JoinPCs, LeavePCs, Up
<1>4. SmgrInv'
  BY Zenon, <1>0 DEF IInv, KInv, SmgrInv, RaftStepJoin
<1>5. RegInv'
  <2>1. \A u \in Threads \ {t} : th'[u] = th[u]
    BY Zenon DEF RaftStepJoin, Begin, IInv, TypeOK
  <2>2. th[t].pc = "idle"
    BY Zenon DEF RaftStepJoin, Begin
  <2>3. \A u \in Threads : th[u].pc \in {"shutdown", "ctx"} => th'[u] = th[u]
    BY <2>1, <2>2
  <2> QED BY Zenon, <2>3, RegKept DEF RaftStepJoin
<1> QED BY Zenon, <1>1, <1>2, <1>3, <1>4, <1>5 DEF KInv

\* joinRaftGroup: past the duplicate check the group has no server.
LEMMA JoinFindInv ==
  ASSUME IInv, NEW t \in Threads, JoinFind(t)
  PROVE  KInv'
<1>1. Exclusive'
  BY DEF IInv, KInv, JoinFind, Goto, Joined, Exclusive, Busy, TypeOK, Thread, JoinPCs,
       LeavePCs, Threads
<1>2. ThreadInv'
  BY DEF IInv, KInv, JoinFind, Goto, Joined, TypeOK, Thread, ThreadInv, Exclusive,
       RegInv, HoldsManager, JoinPCs, LeavePCs, Threads, Up
<1>3. RunInv'
  BY DEF IInv, KInv, JoinFind, Goto, Joined, TypeOK, Thread, Server, Exclusive, Busy,
       RunInv, JoinPCs, LeavePCs, Threads, Up
<1>4. SmgrInv'
  BY Zenon DEF IInv, KInv, SmgrInv, JoinFind
<1>5. RegInv'
  <2>1. \A u \in Threads \ {t} : th'[u] = th[u]
    BY Zenon DEF JoinFind, Goto, Joined, IInv, TypeOK
  <2>2. th[t].pc = "find"
    BY Zenon DEF JoinFind
  <2>3. \A u \in Threads : th[u].pc \in {"shutdown", "ctx"} => th'[u] = th[u]
    BY Zenon, <2>1, <2>2
  <2> QED BY Zenon, <2>3, RegKept DEF JoinFind
<1> QED BY Zenon, <1>1, <1>2, <1>3, <1>4, <1>5 DEF KInv

\* group_init: an unknown group type ends the join without a server.
LEMMA GroupInitNoTypeInv ==
  ASSUME IInv, NEW t \in Threads, GroupInitNoType(t)
  PROVE  KInv'
<1>1. Exclusive'
  BY DEF IInv, KInv, GroupInitNoType, Joined, Exclusive, Busy, TypeOK, Thread, JoinPCs,
       LeavePCs, Threads
<1>2. ThreadInv'
  BY SMTT(20) DEF IInv, KInv, GroupInitNoType, Joined, TypeOK, ThreadInv, Exclusive,
       Busy, RegInv, MgrInv, HoldsManager, LeavePCs, Up
<1>3. RunInv'
  BY Zenon DEF IInv, KInv, GroupInitNoType, Joined, TypeOK, Thread, Server, ThreadInv,
       Exclusive, Busy, RunInv, JoinPCs, LeavePCs, Threads, Up
<1>4. SmgrInv'
  BY Zenon DEF IInv, KInv, SmgrInv, GroupInitNoType
<1>5. RegInv'
  <2>1. \A u \in Threads \ {t} : th'[u] = th[u]
    BY Zenon DEF GroupInitNoType, Joined, IInv, TypeOK
  <2>2. th[t].pc = "init"
    BY Zenon DEF GroupInitNoType
  <2>3. \A u \in Threads : th[u].pc \in {"shutdown", "ctx"} => th'[u] = th[u]
    BY <2>1, <2>2
  <2> QED BY Zenon, <2>3, RegKept DEF GroupInitNoType
<1> QED BY Zenon, <1>1, <1>2, <1>3, <1>4, <1>5 DEF KInv

\* group_init: the thread's state manager is the one in the map.
LEMMA GroupInitInv ==
  ASSUME IInv, NEW t \in Threads, GroupInit(t)
  PROVE  KInv'
<1>1. Exclusive'
  BY DEF IInv, KInv, GroupInit, Exclusive, Busy, TypeOK, Thread, JoinPCs, LeavePCs, Threads
<1>2. ThreadInv'
  BY DEF IInv, KInv, GroupInit, TypeOK, Thread, Server, ThreadInv, Exclusive, Busy,
       RunInv, HoldsManager, JoinPCs, LeavePCs, Up
<1>3. RunInv'
  BY NoneAssumption DEF IInv, KInv, GroupInit, TypeOK, Exclusive, Busy, RunInv,
       JoinPCs, Threads, Up
<1>4. SmgrInv'
  BY DEF IInv, KInv, GroupInit, TypeOK, SmgrInv, JoinPCs, Threads
<1>5. RegInv'
  BY SMTT(20) DEF IInv, KInv, GroupInit, TypeOK, Thread, Server, RegInv, ThreadInv,
       Exclusive, Busy, HoldsManager, LeavePCs, Threads, Up
<1> QED BY Zenon, <1>1, <1>2, <1>3, <1>4, <1>5 DEF KInv

\* The new raft_server runs on its group's storage before it is registered.
LEMMA ConstructInv ==
  ASSUME IInv, NEW t \in Threads, Construct(t)
  PROVE  KInv'
<1>1. Exclusive'
  BY DEF IInv, KInv, Construct, Exclusive, Busy, TypeOK, Thread, JoinPCs, LeavePCs, Threads
<1>2. ThreadInv'
  BY DEF IInv, KInv, Construct, TypeOK, Thread, Server, ThreadInv, LeavePCs
<1>3. RunInv'
  <2>1. PICK s \in Servers :
          /\ srv[s].st = "free"
          /\ srv' = [srv EXCEPT ![s] = [st |-> "running", g |-> th[t].g,
                                        m |-> th[t].m]]
          /\ th' = [th EXCEPT ![t].pc = "emplace", ![t].s = s]
    BY Zenon DEF Construct
  <2> SUFFICES ASSUME NEW r \in Servers, Up(r)'
               PROVE  /\ srv'[r].g \in Groups
                      /\ srv'[r].m \in Smgrs
                      /\ srv'[r].m = state_managers'[srv'[r].g]
                      /\ \/ raft_servers'[srv'[r].g] = r
                         \/ \E u \in Threads :
                              th'[u].pc = "emplace" /\ th'[u].s = r
    BY Zenon DEF RunInv
  <2>2. CASE r = s
    BY <2>1, <2>2 DEF IInv, KInv, Construct, TypeOK, ThreadInv
  <2>3. CASE r # s
    <3>1. srv'[r] = srv[r]
      BY Zenon, <2>1, <2>3 DEF IInv, KInv, TypeOK
    <3>2. ASSUME NEW u \in Threads, th[u].pc = "emplace", th[u].s = r
          PROVE  th'[u].pc = "emplace" /\ th'[u].s = r
      BY Zenon, <2>1, <3>2 DEF IInv, KInv, Construct, TypeOK
    <3>3. state_managers' = state_managers /\ raft_servers' = raft_servers
      BY Zenon DEF Construct
    <3>4. Up(r)
      BY Zenon, <3>1 DEF Up
    <3> QED BY Zenon, <3>1, <3>2, <3>3, <3>4 DEF IInv, KInv, RunInv
  <2> QED BY Zenon, <2>2, <2>3
<1>4. SmgrInv'
  BY Zenon DEF IInv, KInv, SmgrInv, Construct
<1>5. RegInv'
  <2>1. PICK s \in Servers :
          /\ srv[s].st = "free"
          /\ srv' = [srv EXCEPT ![s] = [st |-> "running", g |-> th[t].g,
                                        m |-> th[t].m]]
          /\ th' = [th EXCEPT ![t].pc = "emplace", ![t].s = s]
    BY Zenon DEF Construct
  <2>2. \A z \in Servers \ {s} : srv'[z] = srv[z] /\ (Up(z) => Up(z)')
    BY Zenon, <2>1 DEF IInv, TypeOK, Up
  <2>3. ~Up(s)
    BY Zenon, <2>1 DEF Up
  <2>4. \A u \in Threads : th[u].pc \in {"shutdown", "ctx"} => th'[u] = th[u]
    BY Zenon, <2>1 DEF IInv, TypeOK, Construct
  <2>5. ASSUME NEW g \in Groups, raft_servers[g] # None
        PROVE  /\ Up(raft_servers[g])' /\ srv'[raft_servers[g]] = srv[raft_servers[g]]
    <3>1. PICK z \in Servers \ {s} : z = raft_servers[g] /\ Up(z)
      <4>1. raft_servers[g] \in Servers /\ Up(raft_servers[g])
        BY Zenon, <2>5, RegisteredIs
      <4>2. raft_servers[g] # s
        BY Zenon, <2>3, <4>1
      <4> QED BY Zenon, <4>1, <4>2
    <3>2. Up(z)' /\ raft_servers' = raft_servers /\ srv'[z] = srv[z]
      BY Zenon, <2>2, <3>1 DEF Construct
    <3> QED BY Zenon, <3>1, <3>2 DEF Up
  <2>6. /\ mgr' = mgr /\ raft_servers' = raft_servers /\ repl_ctx' = repl_ctx
        /\ state_managers' = state_managers
    BY Zenon DEF Construct
  <2>7. ASSUME NEW g \in Groups, NEW pc \in {"shutdown", "ctx"},
               \E u \in Threads : th[u].pc = pc /\ th[u].g = g
        PROVE  \E u \in Threads : th'[u].pc = pc /\ th'[u].g = g
    BY Zenon, <2>4, <2>7
  <2> QED BY <2>5, <2>6, <2>7 DEF IInv, KInv, RegInv
<1> QED BY Zenon, <1>1, <1>2, <1>3, <1>4, <1>5 DEF KInv

\* try_emplace: alone on its group, the thread always wins.
LEMMA TryEmplaceInv ==
  ASSUME IInv, NEW t \in Threads, TryEmplace(t)
  PROVE  KInv'
<1>1. Exclusive'
  BY DEF IInv, KInv, TryEmplace, Goto, Joined, Exclusive, Busy, TypeOK, Thread,
       JoinPCs, LeavePCs, Threads
<1>2. ThreadInv'
  BY NoneAssumption, SMTT(20) DEF IInv, KInv, TryEmplace, Goto, Joined, TypeOK, Thread,
       ThreadInv, Exclusive, Busy, RunInv, LeavePCs, Threads, Up
<1>3. RunInv'
  <2>1. /\ th[t].pc = "emplace" /\ th[t].g \in Groups /\ th[t].s \in Servers
        /\ srv[th[t].s].g = th[t].g /\ raft_servers[th[t].g] = None
    BY Zenon DEF TryEmplace, IInv, KInv, ThreadInv
  <2>2. /\ raft_servers' = [raft_servers EXCEPT ![th[t].g] = th[t].s]
        /\ srv' = srv /\ state_managers' = state_managers
        /\ \A u \in Threads \ {t} : th'[u] = th[u]
    BY Zenon, <2>1 DEF TryEmplace, Goto, IInv, TypeOK
  <2>3. ASSUME NEW z \in Servers, Up(z)
        PROVE  \/ raft_servers'[srv[z].g] = z
               \/ \E u \in Threads : th'[u].pc = "emplace" /\ th'[u].s = z
    <3>1. srv[z].g \in Groups
      BY Zenon, <2>3 DEF IInv, KInv, RunInv
    <3>2. CASE raft_servers[srv[z].g] = z
      <4>1. srv[z].g # th[t].g
        BY Zenon, <2>1, <3>2, NoneAssumption
      <4> QED BY Zenon, <2>2, <3>1, <3>2, <4>1 DEF IInv, TypeOK
    <3>3. ASSUME NEW u \in Threads, th[u].pc = "emplace", th[u].s = z
          PROVE  \/ raft_servers'[srv[z].g] = z
                 \/ th'[u].pc = "emplace" /\ th'[u].s = z
      BY Zenon, <2>1, <2>2, <3>3 DEF IInv, TypeOK
    <3> QED BY Zenon, <2>3, <3>2, <3>3 DEF IInv, KInv, RunInv
  <2>4. \A z \in Servers : Up(z)' => Up(z)
    BY Zenon, <2>2 DEF Up
  <2> QED BY Zenon, <2>2, <2>3, <2>4 DEF IInv, KInv, RunInv
<1>4. SmgrInv'
  BY DEF IInv, KInv, SmgrInv, TryEmplace
<1>5. RegInv'
  BY NoneAssumption, SMTT(20) DEF IInv, KInv, TryEmplace, Goto, Joined, TypeOK, Thread,
       RegInv, ThreadInv, Exclusive, Busy, RunInv, HoldsManager, LeavePCs, Threads, Up
<1> QED BY Zenon, <1>1, <1>2, <1>3, <1>4, <1>5 DEF KInv

\* make_repl_ctx: the context now has the registered server.
LEMMA MakeReplCtxInv ==
  ASSUME IInv, NEW t \in Threads, MakeReplCtx(t)
  PROVE  KInv'
<1>1. Exclusive'
  BY DEF IInv, KInv, MakeReplCtx, Goto, Exclusive, Busy, TypeOK, Thread, JoinPCs,
       LeavePCs, Threads
<1>2. ThreadInv'
  BY NoneAssumption, SMTT(20) DEF IInv, KInv, MakeReplCtx, Goto, TypeOK, Thread,
       ThreadInv, Exclusive, Busy, LeavePCs
<1>3. RunInv'
  BY Zenon DEF IInv, KInv, MakeReplCtx, Goto, TypeOK, Thread, Exclusive, Busy, RunInv,
       LeavePCs, Threads, Up
<1>4. SmgrInv'
  BY Zenon DEF IInv, KInv, SmgrInv, MakeReplCtx
<1>5. RegInv'
  BY NoneAssumption, SMTT(20) DEF IInv, KInv, MakeReplCtx, Goto, TypeOK, Thread,
       RegInv, ThreadInv, Exclusive, SmgrInv, MgrInv, HoldsManager, JoinPCs, LeavePCs,
       Threads, Up
<1> QED BY Zenon, <1>1, <1>2, <1>3, <1>4, <1>5 DEF KInv

\* The winner returns: nobody has shut its server down.
LEMMA JoinEndInv ==
  ASSUME IInv, NEW t \in Threads, JoinEnd(t)
  PROVE  KInv'
<1>0. /\ raft_servers' = raft_servers /\ th[t].pc = "end" /\ th[t].g \in Groups
      /\ raft_servers[th[t].g] # None
  BY NoneAssumption DEF JoinEnd, IInv, KInv, ThreadInv, RegInv
<1>1. Exclusive'
  BY <1>0 DEF IInv, KInv, JoinEnd, Joined, Exclusive, Busy, TypeOK, Thread, JoinPCs, LeavePCs
<1>2. ThreadInv'
  BY <1>0, SMTT(20) DEF IInv, KInv, JoinEnd, Joined, TypeOK, Thread, ThreadInv, LeavePCs
<1>3. RunInv'
  BY Zenon, <1>0 DEF IInv, KInv, JoinEnd, Joined, TypeOK, Thread, RunInv, Up
<1>4. SmgrInv'
  BY Zenon DEF IInv, KInv, SmgrInv, JoinEnd
<1>5. RegInv'
  BY Zenon, <1>0 DEF IInv, KInv, JoinEnd, Joined, TypeOK, Thread, RegInv, Up
<1> QED BY Zenon, <1>1, <1>2, <1>3, <1>4, <1>5 DEF KInv

\* create_group after joinRaftGroup: it waits or returns.
LEMMA CreateJoinedInv ==
  ASSUME IInv, NEW t \in Threads, CreateJoined(t)
  PROVE  KInv'
<1>1. Exclusive'
  BY DEF IInv, KInv, CreateJoined, Goto, Return, Exclusive, Busy, TypeOK, Thread,
       JoinPCs, LeavePCs
<1>2. ThreadInv'
  BY SMTT(20) DEF IInv, KInv, CreateJoined, Goto, Return, TypeOK, Thread, ThreadInv,
       Busy, RunInv, RegInv, HoldsManager, LeavePCs, Threads, Up
<1>3. RunInv'
  BY DEF IInv, KInv, CreateJoined, Goto, Return, TypeOK, Thread, Server, ThreadInv,
       RunInv, JoinPCs, LeavePCs, Threads, Up
<1>4. SmgrInv'
  BY Zenon DEF IInv, KInv, SmgrInv, CreateJoined
<1>5. RegInv'
  <2>1. \A u \in Threads \ {t} : th'[u] = th[u]
    BY Zenon DEF CreateJoined, Goto, Return, IInv, TypeOK
  <2>2. th[t].pc = "joined"
    BY Zenon DEF CreateJoined
  <2>3. \A u \in Threads : th[u].pc \in {"shutdown", "ctx"} => th'[u] = th[u]
    BY <2>1, <2>2
  <2> QED BY Zenon, <2>3, RegKept DEF CreateJoined
<1> QED BY Zenon, <1>1, <1>2, <1>3, <1>4, <1>5 DEF KInv

\* join_group after joinRaftGroup: only a join without a server is undone.
LEMMA JoinGroupJoinedInv ==
  ASSUME IInv, NEW t \in Threads, JoinGroupJoined(t)
  PROVE  KInv'
<1>1. Exclusive'
  BY DEF IInv, KInv, JoinGroupJoined, Return, Exclusive, Busy, TypeOK, Thread, JoinPCs,
       LeavePCs, Threads
<1>2. ThreadInv'
  BY DEF IInv, KInv, JoinGroupJoined, Return, TypeOK, Server, ThreadInv, Exclusive,
       Busy, JoinPCs, LeavePCs
<1>3. RunInv'
  BY NoneAssumption, SMTT(20) DEF IInv, KInv, JoinGroupJoined, Return, TypeOK, Thread,
       ThreadInv, Exclusive, Busy, RunInv, MgrInv, HoldsManager, LeavePCs, Threads, Up
<1>4. SmgrInv'
  BY DEF IInv, KInv, JoinGroupJoined, Return, SmgrInv, LeavePCs
<1>5. RegInv'
  BY DEF IInv, KInv, JoinGroupJoined, Return, TypeOK, RegInv, ThreadInv, MgrInv,
       HoldsManager, Up
<1> QED BY Zenon, <1>1, <1>2, <1>3, <1>4, <1>5 DEF KInv

\* raftStep after joinRaftGroup: the call ends.
LEMMA StepJoinedInv ==
  ASSUME IInv, NEW t \in Threads, StepJoined(t)
  PROVE  KInv'
<1>1. Exclusive'
  BY Zenon DEF IInv, KInv, StepJoined, Return, Exclusive, Busy, TypeOK, Thread, JoinPCs,
       LeavePCs, Threads
<1>2. ThreadInv'
  BY DEF IInv, KInv, StepJoined, Return, TypeOK, ThreadInv, LeavePCs
<1>3. RunInv'
  BY DEF IInv, KInv, StepJoined, Return, RunInv, Up
<1>4. SmgrInv'
  BY Zenon DEF IInv, KInv, SmgrInv, StepJoined
<1>5. RegInv'
  <2>1. \A u \in Threads \ {t} : th'[u] = th[u]
    BY Zenon DEF StepJoined, Return, IInv, TypeOK
  <2>2. th[t].pc = "joined"
    BY Zenon DEF StepJoined
  <2>3. \A u \in Threads : th[u].pc \in {"shutdown", "ctx"} => th'[u] = th[u]
    BY <2>1, <2>2
  <2> QED BY Zenon, <2>3, RegKept DEF StepJoined
<1> QED BY Zenon, <1>1, <1>2, <1>3, <1>4, <1>5 DEF KInv

\* create_group's wait ends.
LEMMA WaitLeaderInv ==
  ASSUME IInv, NEW t \in Threads, WaitLeader(t)
  PROVE  KInv'
<1>1. Exclusive'
  BY DEF IInv, KInv, WaitLeader, Return, Exclusive, Busy, TypeOK, Thread, JoinPCs,
       LeavePCs, Threads
<1>2. ThreadInv'
  BY DEF IInv, KInv, WaitLeader, Return, ThreadInv
<1>3. RunInv'
  BY DEF IInv, KInv, WaitLeader, Return, RunInv, Up
<1>4. SmgrInv'
  BY Zenon DEF IInv, KInv, SmgrInv, WaitLeader
<1>5. RegInv'
  <2>1. \A u \in Threads \ {t} : th'[u] = th[u]
    BY Zenon DEF WaitLeader, Return, IInv, TypeOK
  <2>2. th[t].pc = "wait"
    BY Zenon DEF WaitLeader
  <2>3. \A u \in Threads : th[u].pc \in {"shutdown", "ctx"} => th'[u] = th[u]
    BY <2>1, <2>2
  <2> QED BY Zenon, <2>3, RegKept DEF WaitLeader
<1> QED BY Zenon, <1>1, <1>2, <1>3, <1>4, <1>5 DEF KInv

\* msg_service::leave_group finds the server, or that there is none.
LEMMA LeavePartInv ==
  ASSUME IInv, NEW t \in Threads, LeavePart(t)
  PROVE  KInv'
<1>1. Exclusive'
  BY DEF IInv, KInv, LeavePart, Goto, Exclusive, Busy, TypeOK, Thread, JoinPCs,
       LeavePCs, Threads
<1>2. ThreadInv'
  BY NoneAssumption, SMTT(20) DEF IInv, KInv, LeavePart, Goto, TypeOK, Thread, Server,
       ThreadInv, Exclusive, Busy, RunInv, RegInv, HoldsManager, LeavePCs, Threads, Up
<1>3. RunInv'
  BY DEF IInv, KInv, LeavePart, Goto, TypeOK, Thread, RunInv, JoinPCs, Threads, Up
<1>4. SmgrInv'
  BY Zenon DEF IInv, KInv, SmgrInv, LeavePart
<1>5. RegInv'
  <2>1. \A u \in Threads \ {t} : th'[u] = th[u]
    BY Zenon DEF LeavePart, Goto, IInv, TypeOK
  <2>2. th[t].pc = "part"
    BY Zenon DEF LeavePart
  <2>3. \A u \in Threads : th[u].pc \in {"shutdown", "ctx"} => th'[u] = th[u]
    BY <2>1, <2>2
  <2> QED BY Zenon, <2>3, RegKept DEF LeavePart
<1> QED BY Zenon, <1>1, <1>2, <1>3, <1>4, <1>5 DEF KInv

\* stop_server: the server is still registered, its thread will shut it down.
LEMMA LeaveStopInv ==
  ASSUME IInv, NEW t \in Threads, LeaveStop(t)
  PROVE  KInv'
<1>0. /\ th[t].pc = "stop" /\ th[t].g \in Groups /\ th[t].s \in Servers
      /\ srv[th[t].s].st # "free" /\ srv[th[t].s].g = th[t].g
      /\ raft_servers[th[t].g] \in {None, th[t].s}
      /\ UNCHANGED <<mgr, state_managers, raft_servers, smgr, repl_ctx>>
  BY Zenon DEF LeaveStop, IInv, KInv, ThreadInv
<1>a. \A z \in Servers : /\ srv'[z].g = srv[z].g /\ srv'[z].m = srv[z].m
                         /\ Up(z)' = Up(z) /\ (srv[z].st # "free" => srv'[z].st # "free")
                         /\ z # th[t].s => srv'[z] = srv[z]
  BY <1>0 DEF LeaveStop, StopServer, IInv, TypeOK, Server, Up
<1>b. /\ \A u \in Threads \ {t} : th'[u] = th[u]
      /\ th'[t].pc = "shutdown" /\ th'[t].g = th[t].g /\ th'[t].s = th[t].s
      /\ th'[t].m = th[t].m /\ th'[t].r = th[t].r /\ th'[t].kind = th[t].kind
  <2>1. th \in [Threads -> Thread] /\ th[t] \in Thread
    BY Zenon DEF IInv, TypeOK
  <2>2. th' = [th EXCEPT ![t].pc = "shutdown"]
    BY Zenon DEF LeaveStop, Goto
  <2> QED BY Zenon, <2>1, <2>2 DEF Thread
<1>c. \A u \in Threads : th[u].pc = "emplace" => th[u].s # th[t].s
  BY <1>0 DEF IInv, KInv, ThreadInv, Exclusive, Busy, JoinPCs, LeavePCs
<1>1. Exclusive'
  BY <1>0, <1>b DEF IInv, KInv, Exclusive, Busy, JoinPCs, LeavePCs
<1>2. ThreadInv'
  BY <1>0, <1>a, <1>b, <1>c, SMTT(20) DEF IInv, KInv, ThreadInv, LeavePCs
<1>3. RunInv'
  BY <1>0, <1>a, <1>b DEF IInv, KInv, RunInv
<1>4. SmgrInv'
  BY Zenon, <1>0 DEF IInv, KInv, SmgrInv
<1>5. RegInv'
  <2>1. ASSUME NEW g \in Groups, raft_servers[g] # None
        PROVE  /\ raft_servers[g] \in Servers /\ Up(raft_servers[g])
               /\ srv[raft_servers[g]].g = g
    BY <2>1 DEF IInv, KInv, RegInv, TypeOK
  <2>2. ASSUME NEW g \in Groups, raft_servers[g] # None,
               srv'[raft_servers[g]].st = "stopped", mgr = "up"
        PROVE  \E u \in Threads : th'[u].pc = "shutdown" /\ th'[u].g = g
    <3>1. CASE raft_servers[g] = th[t].s
      BY <1>0, <1>b, <2>1, <2>2, <3>1
    <3>2. CASE raft_servers[g] # th[t].s
      BY <1>0, <1>a, <1>b, <2>1, <2>2, <3>2 DEF IInv, KInv, RegInv
    <3> QED BY Zenon, <3>1, <3>2
  <2>3. ASSUME NEW g \in Groups, \E u \in Threads : th[u].pc = "ctx" /\ th[u].g = g
        PROVE  \E u \in Threads : th'[u].pc = "ctx" /\ th'[u].g = g
    BY Zenon, <1>0, <1>b, <2>3
  <2> QED BY <1>0, <1>a, <2>1, <2>2, <2>3 DEF IInv, KInv, RegInv
<1> QED BY Zenon, <1>1, <1>2, <1>3, <1>4, <1>5 DEF KInv

\* A server that nobody is about to register is shut down: its group then has
\* no server that is up.
LEMMA ShutdownInv ==
  ASSUME IInv, NEW s \in Servers, srv[s].st # "free", ShutdownServer(s),
         UNCHANGED <<mgr, state_managers, smgr, repl_ctx>>,
         ~JoinHolds(s),
         \A u \in Threads : \/ th'[u] = th[u]
                            \/ /\ th[u].pc = "shutdown" /\ th[u].g = srv[s].g
                               /\ th'[u].pc = "destroy" /\ th'[u].g = th[u].g
                               /\ th'[u].kind = th[u].kind /\ u \in AppThreads
                               /\ raft_servers[th[u].g] \in {None, s},
         mgr # "up" \/ \E u \in Threads : th[u].pc = "shutdown" /\ th[u].g = srv[s].g
  PROVE  KInv'
<1>1. /\ srv \in [Servers -> Server] /\ srv[s] \in Server
      /\ raft_servers \in [Groups -> Servers \cup {None}]
  BY Zenon DEF IInv, TypeOK
<1>2. Up(s) => srv[s].g \in Groups /\ raft_servers[srv[s].g] = s
  BY Zenon DEF IInv, KInv, RunInv, JoinHolds
<1>3. \A z \in Servers : /\ srv'[z].g = srv[z].g /\ srv'[z].m = srv[z].m
                         /\ srv[z].st # "free" => srv'[z].st # "free"
                         /\ z # s => srv'[z] = srv[z]
  BY Zenon, <1>1 DEF ShutdownServer, Server, Up
<1>4. /\ ~Up(s)'
      /\ \A z \in Servers \ {s} : Up(z)' = Up(z)
  BY Zenon, <1>1, <1>3 DEF ShutdownServer, Server, Up
<1>5. \A g \in Groups : raft_servers'[g] = IF raft_servers[g] = s THEN None ELSE raft_servers[g]
  <2>1. CASE Up(s)
    <3>1. raft_servers' = [raft_servers EXCEPT ![srv[s].g] = None]
      BY Zenon, <2>1 DEF ShutdownServer, shutdown_for
    <3>2. \A g \in Groups : raft_servers[g] = s => g = srv[s].g
      BY NoneAssumption DEF IInv, KInv, RegInv
    <3> QED BY Zenon, <1>1, <1>2, <2>1, <3>1, <3>2
  <2>2. CASE ~Up(s)
    <3>1. raft_servers' = raft_servers
      BY Zenon, <2>2 DEF ShutdownServer
    <3>2. \A g \in Groups : raft_servers[g] # s
      BY <2>2, NoneAssumption DEF IInv, KInv, RegInv
    <3> QED BY Zenon, <3>1, <3>2
  <2> QED BY Zenon, <2>1, <2>2
<1>a. \A u \in Threads : th[u].pc \in {"emplace", "ctx", "end"} => th[u].s # s
  BY Zenon DEF JoinHolds
<1>b. \A u \in Threads : th'[u].pc \notin {"shutdown", "destroy"} \/ th[u].pc = th'[u].pc
                         => th'[u] = th[u]
  BY Zenon
<1>6. Exclusive'
  BY DEF IInv, KInv, Exclusive, Busy, JoinPCs, LeavePCs
<1>7. ThreadInv'
  <2> SUFFICES ASSUME NEW u \in Threads
               PROVE  LET g == th'[u].g
                      IN /\ th'[u].pc # "idle" => g \in Groups
                         /\ th'[u].pc \in LeavePCs \cup {"wait"} => u \in AppThreads
                         /\ th'[u].kind \in {"create", "join"} => u \in AppThreads
                         /\ th'[u].pc # "unwind"
                         /\ th'[u].pc \in {"init", "construct", "emplace", "destroy"}
                              => raft_servers'[g] = None
                         /\ th'[u].pc \in {"construct", "emplace", "ctx"}
                              => th'[u].m \in Smgrs /\ th'[u].m = state_managers'[g]
                         /\ th'[u].pc = "emplace"
                              => /\ th'[u].s \in Servers
                                 /\ srv'[th'[u].s].st = "running"
                                 /\ srv'[th'[u].s].g = g
                         /\ th'[u].pc \in {"ctx", "end"}
                              => th'[u].s \in Servers /\ raft_servers'[g] = th'[u].s
                         /\ th'[u].pc \in {"stop", "shutdown"}
                              => /\ th'[u].s \in Servers
                                 /\ srv'[th'[u].s].st # "free"
                                 /\ srv'[th'[u].s].g = g
                                 /\ raft_servers'[g] \in {None, th'[u].s}
                         /\ th'[u].pc = "joined" /\ mgr' = "up"
                              => (th'[u].r = "OK" <=> raft_servers'[g] # None)
    BY Zenon DEF ThreadInv
  <2>1. CASE th'[u] = th[u]
    <3>1. th[u].pc = "joined" /\ mgr = "up" => raft_servers[th[u].g] # s
      <4> SUFFICES ASSUME th[u].pc = "joined", mgr = "up", raft_servers[th[u].g] = s
                   PROVE  FALSE
        OBVIOUS
      <4>1. PICK w \in Threads : th[w].pc = "shutdown" /\ th[w].g = srv[s].g
        BY Zenon
      <4>2. th[u].g \in Groups
        BY Zenon DEF IInv, KInv, ThreadInv
      <4>3. srv[s].g = th[u].g
        BY Zenon, <4>2, NoneAssumption DEF IInv, KInv, RegInv
      <4> QED BY <4>1, <4>3 DEF IInv, KInv, Exclusive, Busy, JoinPCs, LeavePCs
    <3>2. th[u].pc # "idle" => th[u].g \in Groups
      BY Zenon DEF IInv, KInv, ThreadInv
    <3> QED BY <1>3, <1>5, <1>a, <2>1, <3>1, <3>2, SMTT(20) DEF IInv, KInv, ThreadInv
  <2>2. CASE th'[u] # th[u]
    <3>1. /\ th[u].pc = "shutdown" /\ th'[u].pc = "destroy" /\ th'[u].g = th[u].g
          /\ th'[u].kind = th[u].kind /\ u \in AppThreads
          /\ raft_servers[th[u].g] \in {None, s}
      BY Zenon, <2>2
    <3>2. th[u].g \in Groups
      BY Zenon, <3>1 DEF IInv, KInv, ThreadInv
    <3> QED BY Zenon, <1>5, <3>1, <3>2
  <2> QED BY Zenon, <2>1, <2>2
<1>8. RunInv'
  <2>1. ASSUME NEW z \in Servers, Up(z)'
        PROVE  z # s /\ Up(z) /\ srv'[z] = srv[z]
    BY Zenon, <1>3, <1>4, <2>1
  <2>2. \A u \in Threads : th[u].pc = "emplace" => th'[u] = th[u]
    BY Zenon
  <2> QED BY <1>5, <2>1, <2>2 DEF IInv, KInv, RunInv
<1>9. SmgrInv'
  BY Zenon DEF IInv, KInv, SmgrInv
<1>10. RegInv'
  <2>1. ASSUME NEW g \in Groups, raft_servers'[g] # None
        PROVE  /\ raft_servers'[g] = raft_servers[g] /\ raft_servers[g] \in Servers \ {s}
               /\ raft_servers[g] # None
    BY Zenon, <1>1, <1>5, <2>1
  <2>2. ASSUME NEW g \in Groups, raft_servers'[g] # None, NEW u \in Threads, th[u].g = g
        PROVE  th'[u] = th[u]
    BY Zenon, <2>1, <2>2
  <2>3. \A g \in Groups : raft_servers'[g] # None =>
          srv'[raft_servers[g]] = srv[raft_servers[g]] /\ Up(raft_servers[g])' = Up(raft_servers[g])
    BY Zenon, <1>3, <1>4, <2>1 DEF Up
  <2> QED BY <2>1, <2>2, <2>3 DEF IInv, KInv, RegInv
<1> QED BY Zenon, <1>6, <1>7, <1>8, <1>9, <1>10 DEF KInv

\* Nobody joins the group of a thread that leaves it.
LEMMA LeaverAlone ==
  ASSUME IInv, NEW t \in Threads, th[t].pc \in {"stop", "shutdown"}
  PROVE  th[t].s \in Servers /\ ~JoinHolds(th[t].s)
<1>1. /\ th[t].g \in Groups /\ th[t].s \in Servers /\ srv[th[t].s].g = th[t].g
  BY DEF IInv, KInv, ThreadInv
<1> SUFFICES ASSUME NEW u \in Threads, th[u].pc \in {"emplace", "ctx", "end", "unwind"},
                    th[u].s = th[t].s
             PROVE  FALSE
  BY Zenon, <1>1 DEF JoinHolds
<1>2. th[u].pc # "unwind" /\ th[u].g \in Groups
  BY Zenon DEF IInv, KInv, ThreadInv
<1>3. th[u].g = th[t].g
  BY <1>1, <1>2, NoneAssumption DEF IInv, KInv, ThreadInv, RegInv
<1> QED BY Zenon, <1>1, <1>3 DEF IInv, KInv, Exclusive, Busy, JoinPCs, LeavePCs

\* leave_group's shutdown(): nobody joins the group meanwhile.
LEMMA LeaveShutdownInv ==
  ASSUME IInv, NEW t \in Threads, LeaveShutdown(t)
  PROVE  KInv'
<1>1. /\ th[t].pc = "shutdown" /\ th[t].g \in Groups /\ th[t].s \in Servers
      /\ srv[th[t].s].st # "free" /\ srv[th[t].s].g = th[t].g /\ t \in AppThreads
      /\ raft_servers[th[t].g] \in {None, th[t].s}
      /\ UNCHANGED <<mgr, state_managers, smgr, repl_ctx>> /\ ShutdownServer(th[t].s)
  BY Zenon DEF LeaveShutdown, IInv, KInv, ThreadInv, LeavePCs
<1>2. ~JoinHolds(th[t].s)
  BY Zenon, <1>1, LeaverAlone
<1>3. /\ \A u \in Threads \ {t} : th'[u] = th[u]
      /\ th'[t].pc = "destroy" /\ th'[t].g = th[t].g /\ th'[t].kind = th[t].kind
  <2>1. th \in [Threads -> Thread] /\ th[t] \in Thread
    BY Zenon DEF IInv, TypeOK
  <2>2. th' = [th EXCEPT ![t].pc = "destroy"]
    BY Zenon DEF LeaveShutdown, Goto
  <2> QED BY Zenon, <2>1, <2>2 DEF Thread
<1> QED BY Zenon, <1>1, <1>2, <1>3, ShutdownInv

\* The end of leave_group: storage goes only when nothing runs on it.
LEMMA LeaveDestroyInv ==
  ASSUME IInv, NEW t \in Threads, LeaveDestroy(t)
  PROVE  KInv'
<1>1. Exclusive'
  BY DEF IInv, KInv, LeaveDestroy, Return, Exclusive, Busy, TypeOK, Thread, JoinPCs,
       LeavePCs, Threads
<1>2. ThreadInv'
  BY DEF IInv, KInv, LeaveDestroy, Return, TypeOK, Thread, Server, ThreadInv,
       Exclusive, Busy, RegInv, MgrInv, LeavePCs, Up
<1>3. RunInv'
  BY NoneAssumption, ThreadsAssumption, SMTT(20) DEF IInv, KInv, LeaveDestroy, Return,
       TypeOK, Thread, ThreadInv, Exclusive, Busy, RunInv, LeavePCs, Up
<1>4. SmgrInv'
  BY DEF IInv, KInv, LeaveDestroy, Return, TypeOK, SmgrInv, ThreadInv, Thread, JoinPCs,
       LeavePCs
<1>5. RegInv'
  BY DEF IInv, KInv, LeaveDestroy, Return, TypeOK, RegInv, ThreadInv, SmgrInv, LeavePCs, Up
<1> QED BY Zenon, <1>1, <1>2, <1>3, <1>4, <1>5 DEF KInv

\* Only a server that was shut down is reclaimed.
LEMMA ReclaimInv ==
  ASSUME IInv, NEW s \in Servers, Reclaim(s)
  PROVE  KInv'
<1>1. ~Up(s)
  BY Zenon DEF Reclaim, Held, JoinHolds, IInv, KInv, RunInv
<1>2. /\ srv' = [srv EXCEPT ![s].st = "destroyed"] /\ raft_servers' = raft_servers
      /\ mgr' = mgr /\ state_managers' = state_managers /\ smgr' = smgr
      /\ repl_ctx' = repl_ctx /\ th' = th
  BY Zenon, <1>1 DEF Reclaim, Destruct
<1>3. /\ \A z \in Servers : srv'[z].g = srv[z].g /\ srv'[z].m = srv[z].m
      /\ \A z \in Servers \ {s} : srv'[z] = srv[z]
      /\ srv'[s].st = "destroyed"
  BY <1>2 DEF IInv, TypeOK, Server
<1>4. \A z \in Servers : (Up(z) => Up(z)' /\ srv'[z] = srv[z]) /\ (Up(z)' => Up(z))
  BY Zenon, <1>1, <1>3 DEF Up
<1>5. Exclusive' /\ SmgrInv'
  BY Zenon, <1>2 DEF IInv, KInv, Exclusive, Busy, SmgrInv
<1>6. ThreadInv'
  <2>1. \A u \in Threads : th[u].pc = "emplace" => th[u].s # s
    BY Zenon DEF Reclaim, Held, JoinHolds
  <2>2. \A u \in Threads : th[u].pc \in {"stop", "shutdown"} => th[u].s # s
    BY Zenon DEF Reclaim, Held
  <2> QED BY <1>2, <1>3, <2>1, <2>2, SMTT(20) DEF IInv, KInv, ThreadInv
<1>7. RunInv'
  BY Zenon, <1>2, <1>4 DEF IInv, KInv, RunInv
<1>8. RegInv'
  BY <1>2, <1>4, RegisteredIs DEF IInv, KInv, RegInv
<1> QED BY Zenon, <1>5, <1>6, <1>7, <1>8 DEF KInv

\* ~ManagerImpl begins when no thread holds the manager.
LEMMA ManagerDestroyInv ==
  ASSUME IInv, ManagerDestroy
  PROVE  KInv'
<1>1. Exclusive'
  BY Zenon DEF IInv, KInv, Exclusive, Busy, ManagerDestroy
<1>2. ThreadInv'
  BY DEF IInv, KInv, ManagerDestroy, ThreadInv, RegInv, MgrInv, HoldsManager, Up
<1>3. RunInv'
  BY Zenon DEF IInv, KInv, RunInv, ManagerDestroy, Up
<1>4. SmgrInv'
  BY Zenon DEF IInv, KInv, SmgrInv, ManagerDestroy
<1>5. RegInv'
  BY DEF IInv, KInv, RegInv, ManagerDestroy, Up
<1> QED BY Zenon, <1>1, <1>2, <1>3, <1>4, <1>5 DEF KInv

\* msg_service::shutdown: stop_server() on a registered server.
LEMMA ServiceStopInv ==
  ASSUME IInv, NEW g \in Groups, ServiceStop(g)
  PROVE  KInv'
<1>1. /\ mgr' = mgr /\ state_managers' = state_managers /\ raft_servers' = raft_servers
      /\ smgr' = smgr /\ repl_ctx' = repl_ctx /\ th' = th
      /\ raft_servers[g] \in Servers /\ mgr = "destroying"
  BY Zenon DEF ServiceStop, IInv, TypeOK
<1>2. \A z \in Servers : /\ srv'[z].g = srv[z].g /\ srv'[z].m = srv[z].m
                         /\ Up(z)' = Up(z) /\ (srv[z].st # "free" => srv'[z].st # "free")
                         /\ z # raft_servers[g] => srv'[z] = srv[z]
  BY <1>1 DEF ServiceStop, StopServer, IInv, TypeOK, Server, Up
<1>3. \A u \in Threads : th[u].pc # "emplace"
  BY Zenon, <1>1 DEF IInv, MgrInv, HoldsManager
<1>4. Exclusive'
  BY Zenon, <1>1 DEF IInv, KInv, Exclusive, Busy
<1>5. ThreadInv'
  BY <1>1, <1>2, <1>3, SMTT(20) DEF IInv, KInv, ThreadInv
<1>6. RunInv' /\ SmgrInv'
  <2>1. \A z \in Servers : Up(z)' => Up(z) /\ srv'[z].g = srv[z].g /\ srv'[z].m = srv[z].m
    BY Zenon, <1>2
  <2> QED BY Zenon, <1>1, <2>1 DEF IInv, KInv, RunInv, SmgrInv
<1>7. RegInv'
  BY <1>1, <1>2 DEF IInv, KInv, RegInv, TypeOK
<1> QED BY Zenon, <1>4, <1>5, <1>6, <1>7 DEF KInv

\* ... and shutdown(): no joinRaftGroup is past _manager.lock() any more.
LEMMA ServiceShutdownInv ==
  ASSUME IInv, NEW g \in Groups, ServiceShutdown(g)
  PROVE  KInv'
<1>1. /\ UNCHANGED <<mgr, state_managers, smgr, repl_ctx, th>> /\ mgr = "destroying"
      /\ raft_servers[g] \in Servers /\ ShutdownServer(raft_servers[g])
  BY Zenon DEF ServiceShutdown, IInv, TypeOK
<1>2. srv[raft_servers[g]].st # "free"
  BY Zenon, NoneAssumption DEF ServiceShutdown, IInv, KInv, RegInv, Up
<1>3. ~JoinHolds(raft_servers[g])
  BY Zenon, <1>1 DEF JoinHolds, IInv, MgrInv, HoldsManager
<1> QED BY Zenon, <1>1, <1>2, <1>3, ShutdownInv

\* The gRPC server's shutdown follows when nothing is registered.
LEMMA GrpcShutdownInv ==
  ASSUME IInv, GrpcShutdown
  PROVE  KInv'
<1>1. Exclusive'
  BY Zenon DEF IInv, KInv, Exclusive, Busy, GrpcShutdown
<1>2. ThreadInv'
  <2>1. /\ state_managers' = state_managers /\ raft_servers' = raft_servers
        /\ srv' = srv /\ th' = th
    BY Zenon DEF GrpcShutdown
  <2>2. mgr' # "up"
    BY Zenon DEF GrpcShutdown
  <2> QED BY Zenon, <2>1, <2>2 DEF IInv, KInv, ThreadInv
<1>3. RunInv'
  BY Zenon DEF IInv, KInv, RunInv, GrpcShutdown, Up
<1>4. SmgrInv'
  BY Zenon DEF IInv, KInv, SmgrInv, GrpcShutdown
<1>5. RegInv'
  BY DEF IInv, KInv, RegInv, GrpcShutdown, Up
<1> QED BY Zenon, <1>1, <1>2, <1>3, <1>4, <1>5 DEF KInv

\* Raft events (generic_raft_event_handler) and stuttering change only the
\* leader flags, what exit_group has found and the history.
LEMMA EventInv ==
  ASSUME IInv,
         UNCHANGED <<mgr, state_managers, raft_servers, smgr, repl_ctx, srv, th>>
  PROVE  KInv'
<1>1. Exclusive' /\ ThreadInv'
  BY Zenon DEF IInv, KInv, Exclusive, Busy, ThreadInv
<1>2. RunInv' /\ SmgrInv'
  BY Zenon DEF IInv, KInv, RunInv, SmgrInv, Up
<1>3. RegInv'
  BY DEF IInv, KInv, RegInv, Up
<1> QED BY Zenon, <1>1, <1>2, <1>3 DEF KInv

\* exit_group finds the storage of a server that is up, and a server is shut
\* down or destroyed only when no exit_group runs on it.
LEMMA EvictNext == ASSUME IInv, [Next]_vars PROVE EvictInv'
<1> DEFINE Kept == exiting' = exiting /\ \A s \in Servers :
                     exiting[s] # None /\ Up(s) => Up(s)' /\ srv'[s].m = srv[s].m
<1>1. ASSUME Kept PROVE EvictInv'
  BY Zenon, <1>1 DEF IInv, EvictInv
<1>2. srv \in [Servers -> Server] /\ \A z \in Servers : srv[z] \in Server
  BY Zenon DEF IInv, TypeOK
<1>3. ASSUME NEW s \in Servers, NEW st, srv' = [srv EXCEPT ![s].st = st],
             exiting' = exiting, exiting[s] = None \/ st = "stopped"
      PROVE  Kept
  BY Zenon, <1>2, <1>3 DEF Up, Server
<1>4. ASSUME srv' = srv, exiting' = exiting PROVE Kept
  BY Zenon, <1>4 DEF Up
<1>5. ASSUME NEW s \in Servers, StopServer(s), exiting' = exiting PROVE EvictInv'
  BY Zenon, <1>1, <1>3, <1>4, <1>5 DEF StopServer
<1>6. ASSUME NEW s \in Servers, ShutdownServer(s) \/ Destruct(s), exiting' = exiting
      PROVE  EvictInv'
  BY Zenon, <1>1, <1>3, <1>4, <1>6 DEF ShutdownServer, Destruct
<1>7. ASSUME NEW t \in Threads, Construct(t) PROVE Kept
  <2>1. PICK s \in Servers :
          /\ srv[s].st = "free"
          /\ srv' = [srv EXCEPT ![s] = [st |-> "running", g |-> th[t].g, m |-> th[t].m]]
    BY Zenon, <1>7 DEF Construct
  <2>2. ~Up(s) /\ \A z \in Servers \ {s} : srv'[z] = srv[z]
    BY Zenon, <1>2, <2>1 DEF Up
  <2> QED BY Zenon, <1>7, <2>2 DEF Construct, Up
<1>8. ASSUME NEW t \in Threads, LeaveStop(t) \/ LeaveShutdown(t) PROVE EvictInv'
  <2>1. th[t].s \in Servers
    BY Zenon, <1>8 DEF LeaveStop, LeaveShutdown, IInv, KInv, ThreadInv
  <2> QED BY Zenon, <1>5, <1>6, <1>8, <2>1 DEF LeaveStop, LeaveShutdown
<1>9. ASSUME NEW t \in Threads, ThreadStep(t) PROVE EvictInv'
  <2>1. ~Unwind(t)
    BY Zenon DEF IInv, KInv, ThreadInv, Unwind
  <2>2. CASE LeaveStop(t) \/ LeaveShutdown(t) \/ Construct(t)
    BY Zenon, <1>1, <1>7, <1>8, <2>2
  <2>3. CASE ~(LeaveStop(t) \/ LeaveShutdown(t) \/ Construct(t))
    <3>1. srv' = srv /\ exiting' = exiting
      BY Zenon, <1>9, <2>1, <2>3
         DEF ThreadStep, JoinStep, LeaveStep, JoinFind, GroupInitNoType, GroupInit,
         TryEmplace, MakeReplCtx, JoinEnd, CreateJoined, JoinGroupJoined, StepJoined,
         WaitLeader, LeavePart, LeaveDestroy
    <3> QED BY Zenon, <1>1, <1>4, <3>1
  <2> QED BY Zenon, <2>2, <2>3
<1>10. ASSUME NEW s \in Servers, Reclaim(s) PROVE EvictInv'
  BY Zenon, <1>6, <1>10 DEF Reclaim
<1>11. ASSUME NEW g \in Groups, ServiceStop(g) \/ ServiceShutdown(g) PROVE EvictInv'
  <2>1. raft_servers[g] \in Servers
    BY Zenon, <1>11 DEF ServiceStop, ServiceShutdown, IInv, TypeOK
  <2> QED BY Zenon, <1>5, <1>6, <1>11, <2>1 DEF ServiceStop, ServiceShutdown
<1>12. ASSUME NEW s \in Servers, RemovedFromCluster(s) PROVE EvictInv'
  BY <1>12 DEF RemovedFromCluster, IInv, TypeOK, KInv, RunInv, EvictInv, Up
<1>13. ASSUME NEW s \in Servers, ExitGroup(s) PROVE EvictInv'
  BY Zenon, <1>13 DEF ExitGroup, IInv, TypeOK, EvictInv, Up
<1>14. ASSUME \/ \E t \in Threads, g \in Groups :
                   \/ CreateGroup(t, g) \/ LeaveGroup(t, g) \/ RaftStepJoin(t, g)
                   \/ \E m \in Smgrs : JoinGroup(t, g, m)
              \/ \E s \in Servers : \/ BecomeLeader(s) \/ BecomeFollower(s)
                                    \/ \E leader \in BOOLEAN : JoinedCluster(s, leader)
              \/ ManagerDestroy \/ GrpcShutdown \/ UNCHANGED vars
       PROVE  EvictInv'
  <2>1. srv' = srv /\ exiting' = exiting
    BY Zenon, <1>14 DEF CreateGroup, LeaveGroup, RaftStepJoin, JoinGroup, BecomeLeader,
       BecomeFollower, JoinedCluster, ManagerDestroy, GrpcShutdown, vars
  <2> QED BY Zenon, <1>1, <1>4, <2>1
<1> QED BY Zenon, <1>9, <1>10, <1>11, <1>12, <1>13, <1>14 DEF Next, Terminated, Threads

\* Every step preserves the inductive invariant; the loser's path of
\* try_emplace (Unwind) cannot happen.
LEMMA NextInv ==
  ASSUME overlap' = {}, IInv, [Next]_vars PROVE KInv'
<1>1. ASSUME NEW t \in Threads, ThreadStep(t) PROVE KInv'
  <2>1. ~Unwind(t)
    BY Zenon DEF IInv, KInv, ThreadInv, Unwind
  <2> QED
    BY Zenon, <1>1, <2>1, JoinFindInv, GroupInitNoTypeInv, GroupInitInv, ConstructInv,
       TryEmplaceInv, MakeReplCtxInv, JoinEndInv, CreateJoinedInv, JoinGroupJoinedInv,
       StepJoinedInv, WaitLeaderInv, LeavePartInv, LeaveStopInv, LeaveShutdownInv,
       LeaveDestroyInv
       DEF ThreadStep, JoinStep, LeaveStep
<1>2. ASSUME \/ \E s \in Servers : \/ BecomeLeader(s) \/ BecomeFollower(s)
                                   \/ RemovedFromCluster(s)
                                   \/ \E leader \in BOOLEAN : JoinedCluster(s, leader)
             \/ \E s \in Servers : ExitGroup(s)
             \/ UNCHANGED vars
      PROVE  KInv'
  BY Zenon, <1>2, EventInv
     DEF BecomeLeader, BecomeFollower, RemovedFromCluster, ExitGroup, JoinedCluster, vars
<1> QED
  BY Zenon, <1>1, <1>2, CreateGroupInv, JoinGroupInv, LeaveGroupInv, RaftStepJoinInv,
     ReclaimInv, ManagerDestroyInv, ServiceStopInv, ServiceShutdownInv, GrpcShutdownInv
     DEF Next, Terminated

\* A manager that has just started satisfies the inductive invariant.
LEMMA InitInv == Init => IInv
<1> SUFFICES ASSUME Init PROVE IInv
  OBVIOUS
<1>1. TypeOK
  BY Zenon, InitAny DEF AInv
<1>2. Exclusive /\ ThreadInv
  BY Zenon DEF Init, Exclusive, ThreadInv, Busy, JoinPCs, LeavePCs
<1>3. RunInv /\ SmgrInv /\ RegInv
  BY Zenon DEF Init, RunInv, SmgrInv, RegInv, Up
<1>4. MgrInv /\ EvictInv
  BY Zenon DEF Init, MgrInv, EvictInv
<1> QED BY Zenon, <1>1, <1>2, <1>3, <1>4 DEF IInv, KInv

\* IInv holds in every state the life cycle reaches without an overlap.
THEOREM InductiveInvariant == Spec => []AloneInv
<1>1. Init => AloneInv
  BY Zenon, InitInv DEF AloneInv
<1>2. AloneInv /\ AInv /\ AInv' /\ OneJoinInv' /\ [Next]_vars => AloneInv'
  <2> SUFFICES ASSUME AloneInv, AInv, AInv', OneJoinInv', [Next]_vars, overlap' = {}
               PROVE  IInv'
    BY Zenon DEF AloneInv
  <2>1. IInv
    BY Zenon, HistoryKept DEF AloneInv
  <2>2. TypeOK' /\ MgrInv'
    BY Zenon DEF AInv, OneJoinInv, JInv
  <2> QED BY Zenon, <2>1, <2>2, NextInv, EvictNext DEF IInv
<1> QED BY <1>1, <1>2, AnyOverlap, OneJoinAtATime, PTL DEF Spec

\* IInv gives RegisteredServerServes: the storage part comes from RunInv and
\* SmgrInv, the rest from RegInv.
LEMMA RegisteredImplied == AloneInv => RegisteredServerServes
<1> SUFFICES ASSUME IInv, NEW g \in Groups, raft_servers[g] # None
             PROVE  LET s == raft_servers[g]
                    IN /\ Up(s)
                       /\ srv[s].st = "stopped" => Leavers(g) # {} \/ mgr # "up"
                       /\ srv[s].g = g
                       /\ srv[s].m = state_managers[g]
                       /\ srv[s].m # None
                       /\ smgr[srv[s].m] = "live"
                       /\ DataService => \/ repl_ctx[srv[s].m] = s
                                          \/ \E t \in Threads :
                                               th[t].pc = "ctx" /\ th[t].g = g
  BY Zenon DEF AloneInv, RegisteredServerServes
<1>1. raft_servers[g] \in Servers
  BY Zenon DEF IInv, TypeOK
<1>2. srv[raft_servers[g]].st = "stopped" => Leavers(g) # {} \/ mgr # "up"
  BY DEF IInv, KInv, RegInv, Leavers, LeavePCs
<1> QED BY <1>1, <1>2, NoneAssumption DEF IInv, KInv, RegInv, RunInv, SmgrInv

\* Until calls on a group overlap, what raftStep finds in _raft_servers is a
\* server of that group on the live state manager the group has, with its
\* repl_service_ctx, and stopped only while somebody leaves the group.
THEOREM RegisteredServers == Spec => []RegisteredServerServes
BY InductiveInvariant, RegisteredImplied, PTL

\* Until calls on a group overlap, leave_group calls permanent_destroy() only
\* on a state manager whose server was shut down.
THEOREM StorageOutlivesServer == Spec => []DestroyedAfterShutdown
<1>1. IInv => NoServerOnDestroyedStorage
  BY NoneAssumption DEF IInv, KInv, RunInv, SmgrInv, NoServerOnDestroyedStorage
<1>2. AloneInv => DestroyedAfterShutdown
  BY Zenon, <1>1 DEF AloneInv, DestroyedAfterShutdown
<1> QED BY <1>2, InductiveInvariant, PTL

\* Until calls on a group overlap, joinRaftGroup that answered OK has left a
\* server in _raft_servers.
THEOREM JoinLeavesServer == Spec => []JoinAloneRegisters
<1>1. IInv => JoinRegisters
  BY Zenon DEF IInv, KInv, ThreadInv, JoinRegisters
<1>2. AloneInv => JoinAloneRegisters
  BY Zenon, <1>1 DEF AloneInv, JoinAloneRegisters
<1> QED BY <1>2, InductiveInvariant, PTL

\* Until calls on a group overlap, what exit_group found under the lock is
\* still the evicted server's own live storage when it calls leave() on it.
THEOREM EvictionIsOwn == Spec => []EvictionReachesOwnStorage
<1>1. ASSUME IInv, NEW s \in Servers, exiting[s] # None
      PROVE  exiting[s] = srv[s].m /\ smgr[exiting[s]] = "live"
  <2>1. Up(s) /\ exiting[s] = srv[s].m
    BY Zenon, <1>1 DEF IInv, EvictInv
  <2>2. srv[s].g \in Groups /\ srv[s].m \in Smgrs /\ srv[s].m = state_managers[srv[s].g]
    BY Zenon, <1>1, <2>1 DEF IInv, KInv, RunInv
  <2> QED BY Zenon, <1>1, <2>1, <2>2, NoneAssumption DEF IInv, KInv, SmgrInv
<1>2. AloneInv => EvictionReachesOwnStorage
  BY Zenon, <1>1 DEF AloneInv, EvictionReachesOwnStorage
<1> QED BY <1>2, InductiveInvariant, PTL

\* The servers GroupMembership counts as stopped.
Stopped == {s \in Servers : srv[s].st \in {"shutdown", "destroyed"}}

\* Every step of the life cycle is a step of GroupMembership or leaves its
\* variables alone.
LEMMA StepRefines ==
  ASSUME IInv, [Next]_vars
  PROVE  [Membership!GNext]_(Membership!gvars)
<1> DEFINE Goal == [Membership!GNext]_(Membership!gvars)
<1>0. ASSUME NEW g \in Groups,
             \/ Membership!Stop(g)
             \/ Membership!Destroy(g)
             \/ Membership!Discard(g)
      PROVE  Goal
  BY Zenon, <1>0 DEF Membership!GNext
<1>1. ASSUME UNCHANGED <<state_managers, raft_servers, smgr, srv>> PROVE Goal
  BY Zenon, <1>1 DEF Membership!gvars
<1>2. ASSUME NEW g \in Groups, NEW m \in Smgrs, smgr[m] = "free",
             state_managers[g] = None,
             state_managers' = [state_managers EXCEPT ![g] = m],
             smgr' = [smgr EXCEPT ![m] = "live"],
             UNCHANGED <<raft_servers, srv>>
      PROVE  Goal
  <2>1. raft_servers[g] = None
    BY Zenon, <1>2, RegisteredIs, NoneAssumption DEF IInv, KInv, RunInv
  <2>2. {n \in Smgrs : smgr[n] # "free"}'
          = {n \in Smgrs : smgr[n] # "free"} \cup {m}
    BY Zenon, <1>2 DEF IInv, KInv, TypeOK
  <2>3. UNCHANGED {n \in Smgrs : smgr[n] = "destroyed"}
    BY Zenon, <1>2 DEF IInv, KInv, TypeOK
  <2>4. UNCHANGED Stopped
    BY Zenon, <1>2 DEF Stopped
  <2>5. Membership!Provision(g, m)
    BY Zenon, <1>2, <2>1, <2>2, <2>3, <2>4 DEF Membership!Provision, Stopped
  <2> QED BY Zenon, <2>5 DEF Membership!GNext
<1>3. ASSUME NEW s \in Servers, Up(s),
             NEW g \in Groups, srv[s].g = g, raft_servers[g] = s,
             srv' = [srv EXCEPT ![s].st = "shutdown"],
             raft_servers' = [raft_servers EXCEPT ![g] = None],
             UNCHANGED <<state_managers, smgr>>
      PROVE  Goal
  <2>1. Stopped' = Stopped \cup {s}
    BY <1>3 DEF IInv, TypeOK, Server, Stopped
  <2>2. Membership!Stop(g)
    BY Zenon, <1>3, <2>1, NoneAssumption DEF Membership!Stop, Stopped
  <2> QED BY Zenon, <1>0, <1>3, <2>2
<1>4. ASSUME NEW t \in AppThreads, NEW g \in Groups, NEW m \in Smgrs,
             JoinGroup(t, g, m)
      PROVE  Goal
  BY Zenon, <1>1, <1>2, <1>4 DEF JoinGroup
<1>5. ASSUME NEW t \in Threads, GroupInit(t) PROVE Goal
  <2>1. th[t].g \in Groups
    BY Zenon, <1>5 DEF IInv, KInv, ThreadInv, GroupInit
  <2> QED BY Zenon, <1>1, <1>2, <1>5, <2>1 DEF GroupInit
<1>6. ASSUME NEW t \in Threads, Construct(t) PROVE Goal
  <2>1. UNCHANGED Stopped
    BY <1>6 DEF Construct, IInv, TypeOK, Stopped
  <2> QED BY Zenon, <1>6, <2>1 DEF Construct, Membership!gvars, Stopped
<1>7. ASSUME NEW t \in Threads, TryEmplace(t) PROVE Goal
  <2>1. /\ th[t].g \in Groups
        /\ th[t].s \in Servers
        /\ srv[th[t].s].st = "running"
        /\ srv[th[t].s].g = th[t].g
        /\ raft_servers[th[t].g] = None
        /\ state_managers[th[t].g] # None
    BY Zenon, <1>7, NoneAssumption DEF IInv, KInv, ThreadInv, TryEmplace
  <2>2. \A h \in Groups : raft_servers[h] # th[t].s
    BY Zenon, <2>1, RegisteredIs, NoneAssumption
  <2>3. UNCHANGED Stopped /\ th[t].s \notin Stopped
    BY Zenon, <1>7, <2>1 DEF TryEmplace, Stopped
  <2>4. Membership!Start(th[t].g, th[t].s)
    BY Zenon, <1>7, <2>1, <2>2, <2>3 DEF TryEmplace, Membership!Start, Stopped
  <2> QED BY Zenon, <2>1, <2>4 DEF Membership!GNext
<1>8. ASSUME NEW t \in Threads, JoinGroupJoined(t) PROVE Goal
  <2>1. th[t].g \in Groups /\ mgr = "up"
    BY Zenon, <1>8 DEF IInv, KInv, ThreadInv, MgrInv, HoldsManager, JoinGroupJoined
  <2>2. CASE th[t].r = "OK" \/ state_managers[th[t].g] = None
    <3>1. UNCHANGED state_managers
      BY Zenon, <1>8, <2>1, <2>2 DEF JoinGroupJoined, IInv, TypeOK
    <3> QED BY Zenon, <1>1, <1>8, <3>1 DEF JoinGroupJoined
  <2>3. CASE th[t].r # "OK" /\ state_managers[th[t].g] # None
    <3>1. raft_servers[th[t].g] = None
      BY Zenon, <1>8, <2>1, <2>3 DEF IInv, KInv, ThreadInv, JoinGroupJoined
    <3>2. Membership!Discard(th[t].g)
      BY Zenon, <1>8, <2>3, <3>1 DEF JoinGroupJoined, Membership!Discard
    <3> QED BY Zenon, <1>0, <2>1, <3>2
  <2> QED BY Zenon, <2>2, <2>3
<1>9. ASSUME NEW s \in Servers, ShutdownServer(s), ~JoinHolds(s),
             UNCHANGED <<state_managers, smgr>>
      PROVE  Goal
  <2>1. CASE ~Up(s)
    BY Zenon, <1>1, <1>9, <2>1 DEF ShutdownServer
  <2>2. CASE Up(s)
    <3>1. srv[s].g \in Groups /\ raft_servers[srv[s].g] = s
      BY Zenon, <1>9, <2>2 DEF IInv, KInv, RunInv, JoinHolds
    <3> QED BY <1>3, <1>9, <2>2, <3>1, Zenon DEF ShutdownServer, shutdown_for
  <2> QED BY Zenon, <2>1, <2>2
<1>a. ASSUME NEW t \in Threads, LeaveShutdown(t) PROVE Goal
  BY <1>9, <1>a, LeaverAlone, Zenon DEF LeaveShutdown
<1>b. ASSUME NEW s \in Servers, StopServer(s), UNCHANGED <<state_managers, raft_servers, smgr>>
      PROVE  Goal
  <2>1. UNCHANGED Stopped
    BY Zenon, <1>b DEF StopServer, IInv, TypeOK, Server, Stopped
  <2> QED BY Zenon, <1>b, <2>1 DEF Membership!gvars, Stopped
<1>c. ASSUME NEW t \in Threads, LeaveStop(t) PROVE Goal
  <2>1. th[t].s \in Servers
    BY Zenon, <1>c DEF LeaveStop, IInv, KInv, ThreadInv
  <2> QED BY <1>b, <1>c, <2>1, Zenon DEF LeaveStop
<1>d. ASSUME NEW t \in Threads, JoinEnd(t) PROVE Goal
  <2>1. raft_servers' = raft_servers
    <3>1. th[t].g \in Groups /\ th[t].s \in Servers /\ raft_servers[th[t].g] = th[t].s
      BY Zenon, <1>d DEF JoinEnd, IInv, KInv, ThreadInv
    <3>2. Up(th[t].s)
      BY Zenon, <3>1, RegisteredIs, NoneAssumption
    <3> QED BY Zenon, <1>d, <3>2 DEF JoinEnd
  <2> QED BY Zenon, <1>1, <1>d, <2>1 DEF JoinEnd
<1>10. ASSUME NEW t \in Threads, LeaveDestroy(t) PROVE Goal
  <2>1. PICK g \in Groups : g = th[t].g /\ raft_servers[g] = None
    BY Zenon, <1>10 DEF IInv, KInv, ThreadInv, LeaveDestroy
  <2>2. CASE state_managers[g] = None
    BY Zenon, <1>1, <1>10, <2>1, <2>2 DEF LeaveDestroy
  <2>3. CASE state_managers[g] # None
    <3> DEFINE m == state_managers[g]
    <3>1. m \in Smgrs /\ smgr[m] = "live"
      BY <2>1, <2>3 DEF IInv, KInv, TypeOK, SmgrInv
    <3>2. smgr' = [smgr EXCEPT ![m] = "destroyed"]
      BY Zenon, <1>10, <2>1, <2>3 DEF LeaveDestroy
    <3>3. {n \in Smgrs : smgr[n] = "destroyed"}'
            = {n \in Smgrs : smgr[n] = "destroyed"} \cup {m}
      BY <3>1, <3>2 DEF IInv, KInv, TypeOK
    <3>4. UNCHANGED {n \in Smgrs : smgr[n] # "free"}
      BY Zenon, <3>1, <3>2 DEF IInv, KInv, TypeOK
    <3>5. UNCHANGED Stopped
      BY Zenon, <1>10 DEF LeaveDestroy, Stopped
    <3>6. Membership!Destroy(g)
      BY Zenon, <1>10, <2>1, <2>3, <3>3, <3>4, <3>5
         DEF LeaveDestroy, Membership!Destroy, Stopped
    <3> QED BY Zenon, <1>0, <2>1, <3>6
  <2> QED BY Zenon, <2>2, <2>3
<1>11. ASSUME NEW s \in Servers, Reclaim(s) PROVE Goal
  <2>1. ~Up(s) /\ srv[s].st = "shutdown"
    BY <1>11 DEF IInv, KInv, TypeOK, Server, RunInv, Reclaim, Held, JoinHolds, Up
  <2>2. UNCHANGED Stopped
    BY <1>11, <2>1 DEF Reclaim, Destruct, IInv, TypeOK, Server, Stopped
  <2> QED BY Zenon, <1>11, <2>1, <2>2 DEF Reclaim, Destruct, Membership!gvars, Stopped
<1>12. ASSUME NEW g \in Groups, ServiceStop(g) \/ ServiceShutdown(g) PROVE Goal
  <2>1. raft_servers[g] \in Servers /\ ~JoinHolds(raft_servers[g])
    BY Zenon, <1>12
       DEF IInv, TypeOK, MgrInv, HoldsManager, JoinHolds, ServiceStop, ServiceShutdown
  <2> QED BY <1>9, <1>b, <1>12, <2>1, Zenon DEF ServiceStop, ServiceShutdown
<1>13. ASSUME NEW t \in Threads,
              \/ JoinFind(t) \/ GroupInitNoType(t) \/ MakeReplCtx(t)
              \/ CreateJoined(t) \/ StepJoined(t) \/ WaitLeader(t)
              \/ LeavePart(t)
       PROVE  Goal
  BY Zenon, <1>1, <1>13
     DEF JoinFind, GroupInitNoType, MakeReplCtx, CreateJoined, StepJoined,
         WaitLeader, LeavePart
<1>14. ASSUME NEW t \in Threads, ThreadStep(t) PROVE Goal
  <2>1. ~Unwind(t)
    BY Zenon DEF IInv, KInv, ThreadInv, Unwind
  <2> QED BY Zenon, <1>5, <1>6, <1>7, <1>8, <1>a, <1>c, <1>d, <1>10, <1>13, <1>14, <2>1
             DEF ThreadStep, JoinStep, LeaveStep
<1>15. CASE UNCHANGED vars
  BY Zenon, <1>1, <1>15 DEF vars
<1>16. ASSUME NEW t \in Threads, NEW g \in Groups,
              CreateGroup(t, g) \/ LeaveGroup(t, g) \/ RaftStepJoin(t, g)
       PROVE  Goal
  BY Zenon, <1>1, <1>16 DEF CreateGroup, LeaveGroup, RaftStepJoin
<1>17. ASSUME NEW s \in Servers,
              \/ BecomeLeader(s) \/ BecomeFollower(s) \/ RemovedFromCluster(s)
              \/ ExitGroup(s) \/ \E leader \in BOOLEAN : JoinedCluster(s, leader)
       PROVE  Goal
  BY Zenon, <1>1, <1>17
     DEF BecomeLeader, BecomeFollower, RemovedFromCluster, ExitGroup, JoinedCluster
<1>18. CASE ManagerDestroy \/ GrpcShutdown
  BY Zenon, <1>1, <1>18 DEF ManagerDestroy, GrpcShutdown
<1> HIDE DEF Goal
<1> QED BY Zenon, <1>4, <1>11, <1>12, <1>14, <1>15, <1>16, <1>17, <1>18
           DEF Next, Terminated, Threads, Goal

\* ManagerImpl and msg_service implement GroupMembership until calls on a group
\* overlap: storage encloses the life of its server, and what was shut down
\* stays so.
THEOREM Refinement == Spec => ImplementsMembership
<1>1. Init => Membership!GInit
  BY DEF Init, Membership!GInit
<1>2. AInv /\ AloneInv /\ [Next]_vars
        => [overlap' = {} => Membership!GNext]_(Membership!gvars)
  <2> SUFFICES ASSUME AInv, AloneInv, [Next]_vars, overlap' = {}
               PROVE  [Membership!GNext]_(Membership!gvars)
    OBVIOUS
  <2>1. IInv
    BY Zenon, HistoryKept DEF AloneInv
  <2> QED BY Zenon, <2>1, StepRefines
<1> QED BY <1>1, <1>2, AnyOverlap, InductiveInvariant, PTL DEF Spec, ImplementsMembership
=============================================================================
