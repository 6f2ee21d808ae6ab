-------------------------- MODULE GroupOverlapProofs --------------------------
(***************************************************************************)
(* What GroupLifecycle guarantees for every number of groups, threads,     *)
(* state managers and servers although calls overlap: whatever calls run   *)
(* on one group at the same time (AInv), and when no two joins of a group  *)
(* do (JInv).                                                              *)
(*                                                                         *)
(* The invariants of GroupLifecycle are not inductive: whether a server    *)
(* serves depends on where the threads that create and stop it are.  AInv  *)
(* and JInv add that, thread by thread.                                    *)
(***************************************************************************)
EXTENDS GroupLifecycle, TLAPS

-----------------------------------------------------------------------------
(* Whatever calls overlap.                                                 *)

\* A server that its thread has made and not registered yet: nobody else
\* knows of it.
Own(t) ==
  /\ th[t].s \in Servers
  /\ srv[th[t].s] = [st |-> "running", g |-> th[t].g, m |-> th[t].m]
  /\ \A g \in Groups : raft_servers[g] # th[t].s
  /\ \A u \in Threads \ {t} :
       th[u].pc \in {"emplace", "unwind", "ctx", "end", "stop", "shutdown"} => th[u].s # th[t].s

\* What each program counter says of a thread's locals.
LocalInv ==
  \A t \in Threads :
    /\ th[t].pc # "idle" => th[t].g \in Groups
    /\ th[t].pc \in {"construct", "emplace", "unwind", "ctx", "end"} => th[t].m \in Smgrs
    /\ th[t].pc \in {"emplace", "unwind"} => Own(t)
    /\ th[t].pc \in {"ctx", "end", "stop", "shutdown"} =>
         th[t].s \in Servers /\ srv[th[t].s].st # "free" /\ srv[th[t].s].g = th[t].g

\* Who refers to the state manager m, for the group g.
Uses(m, g) ==
  \/ state_managers[g] = m
  \/ \E s \in Servers : srv[s].m = m /\ srv[s].g = g
  \/ \E t \in Threads : th[t].m = m /\ th[t].g = g

\* A state manager belongs to the group it was made for.
StoreInv ==
  \A m \in Smgrs, g \in Groups :
    Uses(m, g) => /\ smgr[m] # "free"
                  /\ \A h \in Groups : Uses(m, h) => g = h

\* The server s of group g exists, and was shut down only if the join that
\* registered it has not returned.
Alive(g, s) ==
  /\ srv[s].g = g
  /\ srv[s].st \in {"running", "stopped", "shutdown"}
  /\ srv[s].st = "shutdown" =>
       \E t \in Threads : th[t].pc \in {"ctx", "end"} /\ th[t].s = s

\* So is what raftStep finds in _raft_servers for the group asked for.
RegisteredAlive ==
  \A g \in Groups : raft_servers[g] # None => Alive(g, raft_servers[g])

\* A server that was made has a group and a state manager.
MadeInv ==
  \A s \in Servers : srv[s].st # "free" => srv[s].g \in Groups /\ srv[s].m \in Smgrs

AInv == TypeOK /\ LocalInv /\ StoreInv /\ RegisteredAlive /\ MadeInv

\* What is registered is a server of its group, and of no other.
LEMMA Registered ==
  ASSUME AInv, NEW g \in Groups, raft_servers[g] # None
  PROVE  /\ raft_servers[g] \in Servers /\ srv[raft_servers[g]].g = g
         /\ srv[raft_servers[g]].st \in {"running", "stopped", "shutdown"}
BY DEF AInv, TypeOK, RegisteredAlive, Alive

\* A registered server stays alive unless it or its joiner moves.
LEMMA AliveKept ==
  ASSUME AInv, NEW g \in Groups, raft_servers[g] # None, raft_servers'[g] = raft_servers[g],
         srv'[raft_servers[g]] = srv[raft_servers[g]],
         srv[raft_servers[g]].st = "shutdown" =>
           \A u \in Threads :
             th[u].pc \in {"ctx", "end"} /\ th[u].s = raft_servers[g]
               => th'[u].pc \in {"ctx", "end"} /\ th'[u].s = raft_servers[g]
  PROVE  Alive(g, raft_servers[g])'
<1>1. Alive(g, raft_servers[g])
  BY Zenon DEF AInv, RegisteredAlive
<1> QED BY Zenon, <1>1 DEF Alive

\* A thread that moves on, with no server made, registered or stopped.
LEMMA ThreadMoves ==
  ASSUME AInv, NEW t \in Threads, NEW r \in Thread, th' = [th EXCEPT ![t] = r],
         UNCHANGED <<raft_servers, srv>>,
         r.pc # "idle" => r.g \in Groups,
         r.pc \in {"construct", "emplace", "unwind", "ctx", "end"} => r.m \in Smgrs,
         r.pc \in {"emplace", "unwind"} =>
           th[t].pc = "emplace" /\ r.s = th[t].s /\ r.g = th[t].g /\ r.m = th[t].m,
         r.pc \in {"ctx", "end", "stop", "shutdown"} =>
           /\ r.s \in Servers /\ srv[r.s].st # "free" /\ srv[r.s].g = r.g
           /\ \A u \in Threads : th[u].pc \in {"emplace", "unwind"} => th[u].s # r.s,
         th[t].pc \in {"ctx", "end"} =>
           \/ r.pc \in {"ctx", "end"} /\ r.s = th[t].s
           \/ srv[th[t].s].st # "shutdown"
  PROVE  LocalInv' /\ RegisteredAlive' /\ MadeInv'
<1>1. \A u \in Threads : th'[u] = IF u = t THEN r ELSE th[u]
  BY Zenon DEF AInv, TypeOK
<1>2. RegisteredAlive' /\ MadeInv'
  <2>1. ASSUME NEW s, srv[s].st = "shutdown", NEW u \in Threads,
               th[u].pc \in {"ctx", "end"}, th[u].s = s
        PROVE  th'[u].pc \in {"ctx", "end"} /\ th'[u].s = s
    BY Zenon, <1>1, <2>1
  <2>2. MadeInv'
    BY Zenon DEF AInv, MadeInv
  <2>3. ASSUME NEW g \in Groups, raft_servers'[g] # None PROVE Alive(g, raft_servers[g])'
    <3>1. \A u \in Threads :
            srv[raft_servers[g]].st = "shutdown" /\ th[u].pc \in {"ctx", "end"}
              /\ th[u].s = raft_servers[g] => th'[u].pc \in {"ctx", "end"} /\ th'[u].s = raft_servers[g]
      BY Zenon, <2>1
    <3> QED BY Zenon, <2>3, <3>1, AliveKept
  <2> QED BY Zenon, <2>2, <2>3 DEF RegisteredAlive
<1>3. ASSUME NEW u \in Threads
      PROVE  /\ th'[u].pc # "idle" => th'[u].g \in Groups
             /\ th'[u].pc \in {"construct", "emplace", "unwind", "ctx", "end"} => th'[u].m \in Smgrs
             /\ th'[u].pc \in {"ctx", "end", "stop", "shutdown"} =>
                  th'[u].s \in Servers /\ srv[th'[u].s].st # "free" /\ srv[th'[u].s].g = th'[u].g
  BY <1>1 DEF AInv, LocalInv
<1>4. ASSUME NEW u \in Threads, th'[u].pc \in {"emplace", "unwind"} PROVE Own(u)'
  <2>1. th[u].pc \in {"emplace", "unwind"} /\ Own(u)
    BY Zenon, <1>1, <1>4 DEF AInv, LocalInv
  <2>2. th'[u].s = th[u].s /\ th'[u].g = th[u].g /\ th'[u].m = th[u].m
    BY Zenon, <1>1, <1>4
  <2>3. ASSUME NEW v \in Threads \ {u},
               th'[v].pc \in {"emplace", "unwind", "ctx", "end", "stop", "shutdown"}
        PROVE  th'[v].s # th[u].s
    BY <1>1, <2>1, <2>3 DEF Own
  <2> QED BY Zenon, <2>1, <2>2, <2>3 DEF Own
<1> QED BY Zenon, <1>2, <1>3, <1>4 DEF LocalInv

\* Nothing new refers to a state manager,
LEMMA NoNewUse ==
  ASSUME StoreInv, \A m \in Smgrs : smgr[m] # "free" => smgr'[m] # "free",
         \A m \in Smgrs, g \in Groups : Uses(m, g)' => Uses(m, g)
  PROVE  StoreInv'
BY Zenon DEF StoreInv

\* or something refers to one that nobody had.
LEMMA NewUse ==
  ASSUME StoreInv, \A m \in Smgrs : smgr[m] # "free" => smgr'[m] # "free",
         NEW n \in Smgrs, NEW k \in Groups, smgr[n] = "free", smgr'[n] # "free",
         \A m \in Smgrs, g \in Groups : Uses(m, g)' => Uses(m, g) \/ (m = n /\ g = k)
  PROVE  StoreInv'
BY Zenon DEF StoreInv
\* The thread's reference to a state manager is the one it had, or none.
KeepsLocals ==
  /\ th' \in [Threads -> Thread]
  /\ \A u \in Threads :
       th'[u].m = None \/ (th'[u].m = th[u].m /\ th'[u].g = th[u].g)

\* A call begins, moves on within joinRaftGroup or leave_group, or returns.
LEMMA CallMoves ==
  ASSUME AInv, NEW t \in Threads, UNCHANGED <<raft_servers, srv>>,
         \/ \E k \in Kinds, g \in Groups, pc \in {"find", "part"} : Begin(t, k, g, pc)
         \/ \E code \in Results : Return(t, code)
         \/ \E code \in Results : th[t].pc # "idle" /\ Joined(t, code)
         \/ \E pc \in {"init", "wait", "destroy"} : th[t].pc # "idle" /\ Goto(t, pc)
         \/ th[t].pc = "emplace" /\ Goto(t, "unwind"),
         th[t].pc \in {"ctx", "end"} => srv[th[t].s].st # "shutdown"
  PROVE  KeepsLocals /\ LocalInv' /\ RegisteredAlive' /\ MadeInv'
<1>1. th \in [Threads -> Thread] /\ th[t] \in Thread
  BY Zenon DEF AInv, TypeOK
<1>2. ASSUME NEW r \in Thread, th' = [th EXCEPT ![t] = r],
             r.m = None \/ (r.m = th[t].m /\ r.g = th[t].g)
      PROVE  KeepsLocals
  BY Zenon, <1>1, <1>2 DEF KeepsLocals
<1>3. ASSUME NEW k \in Kinds, NEW g \in Groups, NEW pc \in {"find", "part"}, Begin(t, k, g, pc)
      PROVE  KeepsLocals /\ LocalInv' /\ RegisteredAlive' /\ MadeInv'
  <2> DEFINE r == [pc |-> pc, kind |-> k, g |-> g, m |-> None, s |-> None, r |-> "none"]
  <2>1. r \in Thread /\ r.pc = pc /\ r.g = g /\ r.m = None
    BY Zenon DEF Thread, JoinPCs, LeavePCs, Results
  <2>2. th' = [th EXCEPT ![t] = r]
    BY Zenon, <1>3 DEF Begin
  <2> HIDE DEF r
  <2> QED BY Zenon, <1>2, <2>1, <2>2, ThreadMoves
<1>4. ASSUME NEW code \in Results, Return(t, code)
      PROVE  KeepsLocals /\ LocalInv' /\ RegisteredAlive' /\ MadeInv'
  <2> DEFINE r == [pc |-> "idle", kind |-> "none", g |-> None, m |-> None,
                   s |-> None, r |-> code]
  <2>1. r \in Thread /\ r.pc = "idle" /\ r.m = None
    BY Zenon DEF Thread, Kinds
  <2>2. th' = [th EXCEPT ![t] = r]
    BY Zenon, <1>4 DEF Return
  <2> HIDE DEF r
  <2> QED BY Zenon, <1>2, <2>1, <2>2, ThreadMoves
<1>5. ASSUME NEW r \in Thread, th' = [th EXCEPT ![t] = r], th[t].pc # "idle",
             r.g = th[t].g, r.m = th[t].m, r.s = th[t].s,
             \/ r.pc \in {"init", "wait", "destroy", "joined"}
             \/ th[t].pc = "emplace" /\ r.pc = "unwind"
      PROVE  KeepsLocals /\ LocalInv' /\ RegisteredAlive' /\ MadeInv'
  <2>1. r.g \in Groups /\ (r.pc = "unwind" => r.m \in Smgrs)
    BY Zenon, <1>5 DEF AInv, LocalInv
  <2> QED BY Zenon, <1>2, <1>5, <2>1, ThreadMoves
<1>6. ASSUME NEW code \in Results, th[t].pc # "idle", Joined(t, code)
      PROVE  KeepsLocals /\ LocalInv' /\ RegisteredAlive' /\ MadeInv'
  <2> DEFINE r == [th[t] EXCEPT !.pc = "joined", !.r = code]
  <2>1. /\ r \in Thread /\ r.pc = "joined"
        /\ r.g = th[t].g /\ r.m = th[t].m /\ r.s = th[t].s
    BY Zenon, <1>1 DEF Thread, JoinPCs
  <2>2. th' = [th EXCEPT ![t] = r]
    BY <1>6, Zenon DEF Joined
  <2> HIDE DEF r
  <2> QED BY Zenon, <1>5, <1>6, <2>1, <2>2
<1>7. ASSUME NEW pc \in {"init", "wait", "destroy", "unwind"}, th[t].pc # "idle",
             pc = "unwind" => th[t].pc = "emplace", Goto(t, pc)
      PROVE  KeepsLocals /\ LocalInv' /\ RegisteredAlive' /\ MadeInv'
  <2> DEFINE r == [th[t] EXCEPT !.pc = pc]
  <2>1. /\ r \in Thread /\ r.pc = pc
        /\ r.g = th[t].g /\ r.m = th[t].m /\ r.s = th[t].s
    BY Zenon, <1>1 DEF Thread, JoinPCs, LeavePCs
  <2>2. th' = [th EXCEPT ![t] = r]
    BY <1>7, Zenon DEF Goto
  <2> HIDE DEF r
  <2> QED BY Zenon, <1>5, <1>7, <2>1, <2>2
<1> QED BY Zenon, <1>3, <1>4, <1>6, <1>7
\* Locals kept, entries kept or erased: nothing new refers to a state manager.
LEMMA LocalsStore ==
  ASSUME AInv, KeepsLocals,
         \A g \in Groups : state_managers'[g] \in {None, state_managers[g]},
         \A s \in Servers : srv'[s].m = srv[s].m /\ srv'[s].g = srv[s].g,
         \A m \in Smgrs : smgr[m] # "free" => smgr'[m] # "free"
  PROVE  StoreInv'
<1>1. ASSUME NEW m \in Smgrs, NEW g \in Groups, Uses(m, g)' PROVE Uses(m, g)
  BY Zenon, <1>1, NoneAssumption DEF Uses, KeepsLocals
<1> QED BY Zenon, <1>1, NoNewUse DEF AInv

\* What overlapped is remembered.
LEMMA OverlapGrows ==
  ASSUME TypeOK, NEW g \in Groups, JoinOverlaps(g) \/ LeaveOverlaps(g)
  PROVE  overlap \subseteq overlap' /\ overlap' \in SUBSET {"join/join", "join/leave"}
BY Zenon DEF JoinOverlaps, LeaveOverlaps, TypeOK

\* Calls that begin, end, or only look.
LEMMA LookAny ==
  ASSUME AInv, NEW t \in Threads,
         \/ \E g \in Groups : CreateGroup(t, g) \/ LeaveGroup(t, g) \/ RaftStepJoin(t, g)
         \/ JoinFind(t) \/ GroupInitNoType(t)
         \/ CreateJoined(t) \/ StepJoined(t) \/ WaitLeader(t)
  PROVE  AInv'
<1>1. /\ UNCHANGED <<mgr, state_managers, is_leader, raft_servers, smgr, repl_ctx, srv,
                     exiting, elected>>
      /\ th[t].pc \notin {"ctx", "end"}
  BY Zenon DEF CreateGroup, LeaveGroup, RaftStepJoin, Begin, JoinFind, GroupInitNoType,
     CreateJoined, StepJoined, WaitLeader, history
<1>2. th[t].r \in Results
  BY Zenon DEF AInv, TypeOK, Thread
<1>3. \/ \E k \in Kinds, g \in Groups, pc \in {"find", "part"} : Begin(t, k, g, pc)
      \/ \E code \in Results : Return(t, code)
      \/ \E code \in Results : th[t].pc # "idle" /\ Joined(t, code)
      \/ \E pc \in {"init", "wait", "destroy"} : th[t].pc # "idle" /\ Goto(t, pc)
  <2>1. CASE \E g \in Groups : CreateGroup(t, g) \/ LeaveGroup(t, g) \/ RaftStepJoin(t, g)
    BY Zenon, <2>1 DEF CreateGroup, LeaveGroup, RaftStepJoin, Kinds, Results
  <2>2. CASE JoinFind(t) \/ GroupInitNoType(t)
    BY Zenon, <2>2 DEF JoinFind, GroupInitNoType, Results
  <2>3. CASE CreateJoined(t) \/ StepJoined(t) \/ WaitLeader(t)
    BY Zenon, <1>2, <2>3 DEF CreateJoined, StepJoined, WaitLeader, Results
  <2> QED BY Zenon, <2>1, <2>2, <2>3
<1>4. KeepsLocals /\ LocalInv' /\ RegisteredAlive' /\ MadeInv'
  BY Zenon, <1>1, <1>3, CallMoves
<1>5. overlap' \in SUBSET {"join/join", "join/leave"}
  BY Zenon, OverlapGrows
     DEF CreateGroup, LeaveGroup, RaftStepJoin, JoinFind, GroupInitNoType, CreateJoined,
     StepJoined, WaitLeader, history, AInv, TypeOK
<1>6. TypeOK'
  BY Zenon, <1>1, <1>4, <1>5 DEF KeepsLocals, AInv, TypeOK
<1>7. StoreInv'
  BY Zenon, <1>1, <1>4, LocalsStore
<1> QED BY Zenon, <1>4, <1>6, <1>7 DEF AInv

\* The entry of a state manager goes: join_group undone, leave_group's end.
LEMMA EraseAny ==
  ASSUME AInv, NEW t \in Threads, JoinGroupJoined(t) \/ LeaveDestroy(t)
  PROVE  AInv'
<1>1. /\ UNCHANGED <<mgr, is_leader, raft_servers, repl_ctx, srv, exiting, elected, overlap>>
      /\ th[t].g \in Groups /\ th[t].r \in Results /\ th[t].pc \notin {"ctx", "end"}
  BY Zenon DEF JoinGroupJoined, LeaveDestroy, AInv, TypeOK, LocalInv, Thread, history
<1>2. KeepsLocals /\ LocalInv' /\ RegisteredAlive' /\ MadeInv'
  <2>1. \E code \in Results : Return(t, code)
    BY Zenon, <1>1 DEF JoinGroupJoined, LeaveDestroy, Results
  <2> QED BY Zenon, <1>1, <2>1, CallMoves
<1>3. /\ state_managers' \in [Groups -> Smgrs \cup {None}]
      /\ smgr' \in [Smgrs -> {"free", "live", "destroyed"}]
      /\ \A g \in Groups : state_managers'[g] \in {None, state_managers[g]}
      /\ \A m \in Smgrs : smgr[m] # "free" => smgr'[m] # "free"
  <2>1. CASE JoinGroupJoined(t)
    BY Zenon, <1>1, <2>1 DEF JoinGroupJoined, AInv, TypeOK
  <2>2. CASE LeaveDestroy(t)
    BY Zenon, <1>1, <2>2 DEF LeaveDestroy, AInv, TypeOK
  <2> QED BY Zenon, <2>1, <2>2
<1>4. TypeOK'
  BY Zenon, <1>1, <1>2, <1>3 DEF KeepsLocals, AInv, TypeOK
<1>5. StoreInv'
  BY Zenon, <1>1, <1>2, <1>3, LocalsStore
<1> QED BY Zenon, <1>2, <1>4, <1>5 DEF AInv

\* join_group puts a state manager in the map that nobody had.
LEMMA JoinGroupAny ==
  ASSUME AInv, NEW t \in AppThreads, NEW g \in Groups, NEW m \in Smgrs, JoinGroup(t, g, m)
  PROVE  AInv'
<1>1. /\ UNCHANGED <<mgr, is_leader, raft_servers, repl_ctx, srv, exiting, elected>>
      /\ t \in Threads /\ Begin(t, "join", g, "find") /\ th[t].pc = "idle"
      /\ overlap' \in SUBSET {"join/join", "join/leave"}
  BY Zenon, OverlapGrows DEF JoinGroup, Begin, Threads, AInv
<1>2. KeepsLocals /\ LocalInv' /\ RegisteredAlive' /\ MadeInv'
  BY Zenon, <1>1, CallMoves DEF Kinds
<1>3. TypeOK'
  BY Zenon, <1>1, <1>2 DEF JoinGroup, KeepsLocals, AInv, TypeOK
<1>4. StoreInv'
  <2>1. CASE state_managers[g] # None
    BY Zenon, <1>1, <1>2, <2>1, LocalsStore DEF JoinGroup
  <2>2. CASE state_managers[g] = None
    <3>1. /\ smgr[m] = "free" /\ smgr' = [smgr EXCEPT ![m] = "live"]
          /\ state_managers' = [state_managers EXCEPT ![g] = m]
      BY Zenon, <2>2 DEF JoinGroup
    <3>2. smgr'[m] # "free" /\ \A n \in Smgrs : smgr[n] # "free" => smgr'[n] # "free"
      BY Zenon, <3>1 DEF AInv, TypeOK
    <3>3. ASSUME NEW n \in Smgrs, NEW h \in Groups, Uses(n, h)'
          PROVE  Uses(n, h) \/ (n = m /\ h = g)
      <4>1. state_managers'[h] = n => state_managers[h] = n \/ (n = m /\ h = g)
        BY Zenon, <3>1 DEF AInv, TypeOK
      <4>2. \A s \in Servers : srv'[s] = srv[s]
        BY Zenon, <1>1
      <4>3. ASSUME NEW u \in Threads, th'[u].m = n, th'[u].g = h PROVE Uses(n, h)
        BY Zenon, <1>2, <4>3, NoneAssumption DEF Uses, KeepsLocals
      <4> QED BY Zenon, <3>3, <4>1, <4>2, <4>3 DEF Uses
    <3> QED BY Zenon, <3>1, <3>2, <3>3, NewUse DEF AInv
  <2> QED BY Zenon, <2>1, <2>2
<1> QED BY Zenon, <1>2, <1>3, <1>4 DEF AInv
\* group_init gives the thread the group's state manager, or a new one.
LEMMA GroupInitAny ==
  ASSUME AInv, NEW t \in Threads, GroupInit(t)
  PROVE  AInv'
<1> DEFINE g == th[t].g
<1>1. /\ UNCHANGED <<mgr, is_leader, raft_servers, repl_ctx, srv, exiting, elected, overlap>>
      /\ g \in Groups /\ th \in [Threads -> Thread] /\ th[t] \in Thread
      /\ th[t].pc = "init"
  BY Zenon DEF GroupInit, AInv, TypeOK, LocalInv, history
<1>2. PICK m \in Smgrs :
        /\ th' = [th EXCEPT ![t].pc = "construct", ![t].m = m]
        /\ \/ state_managers[g] = m /\ UNCHANGED <<state_managers, smgr>>
           \/ /\ smgr[m] = "free" /\ smgr' = [smgr EXCEPT ![m] = "live"]
              /\ state_managers' = [state_managers EXCEPT ![g] = m]
  BY Zenon, <1>1 DEF GroupInit, AInv, TypeOK
<1> DEFINE r == [th[t] EXCEPT !.pc = "construct", !.m = m]
<1>3. r \in Thread /\ r.pc = "construct" /\ r.m = m /\ r.g = g
  BY Zenon, <1>1 DEF Thread, JoinPCs
<1>4. th' = [th EXCEPT ![t] = r]
  BY <1>1, <1>2, Zenon
<1> HIDE DEF r
<1>5. LocalInv' /\ RegisteredAlive' /\ MadeInv'
  BY Zenon, <1>1, <1>3, <1>4, ThreadMoves
<1>6. TypeOK'
  <2>1. th' \in [Threads -> Thread]
    BY Zenon, <1>1, <1>3, <1>4
  <2> QED BY <1>1, <1>2, <2>1 DEF AInv, TypeOK
<1>7. StoreInv'
  <2>1. \A n \in Smgrs, h \in Groups :
          (\E u \in Threads : th'[u].m = n /\ th'[u].g = h)
            => Uses(n, h) \/ (n = m /\ h = g)
    BY Zenon, <1>1, <1>3, <1>4 DEF Uses
  <2>2. CASE state_managers[g] = m /\ UNCHANGED <<state_managers, smgr>>
    <3>1. \A n \in Smgrs, h \in Groups : Uses(n, h)' => Uses(n, h)
      BY Zenon, <1>1, <2>1, <2>2 DEF Uses
    <3> QED BY Zenon, <2>2, <3>1, NoNewUse DEF AInv
  <2>3. CASE /\ smgr[m] = "free" /\ smgr' = [smgr EXCEPT ![m] = "live"]
             /\ state_managers' = [state_managers EXCEPT ![g] = m]
    <3>1. \A n \in Smgrs, h \in Groups : Uses(n, h)' => Uses(n, h) \/ (n = m /\ h = g)
      BY <1>1, <2>1, <2>3 DEF Uses, AInv, TypeOK
    <3>2. smgr'[m] # "free" /\ \A n \in Smgrs : smgr[n] # "free" => smgr'[n] # "free"
      BY Zenon, <2>3 DEF AInv, TypeOK
    <3> QED BY Zenon, <1>1, <2>3, <3>1, <3>2, NewUse DEF AInv
  <2> QED BY Zenon, <1>2, <2>2, <2>3
<1> QED BY Zenon, <1>5, <1>6, <1>7 DEF AInv

\* leave_group looks the server up; it is not one that somebody just made.
LEMMA LeavePartAny ==
  ASSUME AInv, NEW t \in Threads, LeavePart(t)
  PROVE  AInv'
<1>1. /\ UNCHANGED <<mgr, state_managers, is_leader, raft_servers, smgr, repl_ctx, srv,
                     exiting, elected, overlap>>
      /\ th[t].g \in Groups /\ th[t].pc = "part"
      /\ th \in [Threads -> Thread] /\ th[t] \in Thread
  BY Zenon DEF LeavePart, AInv, TypeOK, LocalInv, history
<1>2. KeepsLocals /\ LocalInv' /\ RegisteredAlive' /\ MadeInv'
  <2>1. CASE raft_servers[th[t].g] = None
    BY Zenon, <1>1, <2>1, CallMoves DEF LeavePart
  <2>2. CASE raft_servers[th[t].g] # None
    <3> DEFINE s == raft_servers[th[t].g]
               r == [th[t] EXCEPT !.pc = "stop", !.s = s]
    <3>1. s \in Servers /\ srv[s].st # "free" /\ srv[s].g = th[t].g
      <4>1. s \in Servers
        BY Zenon, <1>1, <2>2 DEF AInv, TypeOK
      <4>2. srv[s].st \in {"running", "stopped", "shutdown"} /\ srv[s].g = th[t].g
        BY Zenon, <1>1, <2>2, Registered
      <4> QED BY <4>1, <4>2
    <3>2. \A u \in Threads : th[u].pc \in {"emplace", "unwind"} => th[u].s # s
      BY Zenon, <1>1 DEF AInv, LocalInv, Own
    <3>3. r \in Thread /\ r.pc = "stop" /\ r.s = s /\ r.g = th[t].g /\ r.m = th[t].m
      BY Zenon, <1>1, <3>1 DEF Thread, LeavePCs
    <3>4. th' = [th EXCEPT ![t] = r]
      BY <2>2, Zenon DEF LeavePart
    <3> HIDE DEF r
    <3>5. KeepsLocals
      BY Zenon, <1>1, <3>3, <3>4 DEF KeepsLocals
    <3> HIDE DEF s
    <3> QED BY Zenon, <1>1, <3>1, <3>2, <3>3, <3>4, <3>5, ThreadMoves
  <2> QED BY Zenon, <2>1, <2>2
<1>3. TypeOK'
  BY Zenon, <1>1, <1>2 DEF KeepsLocals, AInv, TypeOK
<1>4. StoreInv'
  BY Zenon, <1>1, <1>2, LocalsStore
<1> QED BY Zenon, <1>2, <1>3, <1>4 DEF AInv

\* make_repl_ctx puts the thread's server in the context.
LEMMA MakeReplCtxAny ==
  ASSUME AInv, NEW t \in Threads, MakeReplCtx(t)
  PROVE  AInv'
<1>1. /\ UNCHANGED <<mgr, state_managers, is_leader, raft_servers, smgr, srv,
                     exiting, elected, overlap>>
      /\ th[t].g \in Groups /\ th[t].m \in Smgrs /\ th[t].pc = "ctx"
      /\ th[t].s \in Servers /\ srv[th[t].s].st # "free" /\ srv[th[t].s].g = th[t].g
      /\ th \in [Threads -> Thread] /\ th[t] \in Thread
  BY Zenon DEF MakeReplCtx, AInv, TypeOK, LocalInv, history
<1> DEFINE r == [th[t] EXCEPT !.pc = "end"]
<1>2. r \in Thread /\ r.pc = "end" /\ r.s = th[t].s /\ r.g = th[t].g /\ r.m = th[t].m
  BY Zenon, <1>1 DEF Thread, JoinPCs
<1>3. th' = [th EXCEPT ![t] = r]
  BY Zenon DEF MakeReplCtx, Goto
<1>4. \A u \in Threads : th[u].pc \in {"emplace", "unwind"} => th[u].s # th[t].s
  BY Zenon, <1>1 DEF AInv, LocalInv, Own
<1> HIDE DEF r
<1>5. LocalInv' /\ RegisteredAlive' /\ MadeInv'
  BY Zenon, <1>1, <1>2, <1>3, <1>4, ThreadMoves
<1>6. KeepsLocals
  BY Zenon, <1>1, <1>2, <1>3 DEF KeepsLocals
<1>7. TypeOK'
  BY Zenon, <1>1, <1>6 DEF MakeReplCtx, KeepsLocals, AInv, TypeOK
<1>8. StoreInv'
  BY Zenon, <1>1, <1>6, LocalsStore
<1> QED BY Zenon, <1>5, <1>7, <1>8 DEF AInv

\* The new raft_server is known to its thread alone.
LEMMA ConstructAny ==
  ASSUME AInv, NEW t \in Threads, Construct(t)
  PROVE  AInv'
<1>1. PICK s \in Servers :
        /\ srv[s].st = "free"
        /\ srv' = [srv EXCEPT ![s] = [st |-> "running", g |-> th[t].g, m |-> th[t].m]]
        /\ th' = [th EXCEPT ![t].pc = "emplace", ![t].s = s]
  BY Zenon DEF Construct
<1>2. /\ UNCHANGED <<mgr, state_managers, is_leader, raft_servers, smgr, repl_ctx,
                     exiting, elected, overlap>>
      /\ th[t].g \in Groups /\ th[t].m \in Smgrs /\ th[t].pc = "construct"
      /\ th \in [Threads -> Thread] /\ th[t] \in Thread /\ srv \in [Servers -> Server]
  BY Zenon DEF Construct, AInv, TypeOK, LocalInv, history
<1> DEFINE r == [th[t] EXCEPT !.pc = "emplace", !.s = s]
           v == [st |-> "running", g |-> th[t].g, m |-> th[t].m]
<1>3. r \in Thread /\ r.pc = "emplace" /\ r.s = s /\ r.g = th[t].g /\ r.m = th[t].m
  BY Zenon, <1>2 DEF Thread, JoinPCs
<1>4. v \in Server /\ v.st = "running" /\ v.g = th[t].g /\ v.m = th[t].m
  BY Zenon, <1>2 DEF Server
<1>5. /\ th' \in [Threads -> Thread] /\ srv' \in [Servers -> Server]
      /\ \A u \in Threads : th'[u] = IF u = t THEN r ELSE th[u]
      /\ \A z \in Servers : srv'[z] = IF z = s THEN v ELSE srv[z]
  <2>1. th' = [th EXCEPT ![t] = r] /\ srv' = [srv EXCEPT ![s] = v]
    BY <1>1, <1>2, Zenon
  <2> HIDE DEF r, v
  <2> QED BY Zenon, <1>2, <1>3, <1>4, <2>1
<1>6. v = [st |-> "running", g |-> r.g, m |-> r.m]
  BY Zenon, <1>3
<1> HIDE DEF r, v
<1>7. TypeOK'
  BY Zenon, <1>2, <1>5 DEF AInv, TypeOK
<1>8. RegisteredAlive' /\ MadeInv'
  <2>1. MadeInv'
    BY <1>1, <1>2, <1>4, <1>5 DEF AInv, MadeInv
  <2>2. \A u \in Threads : th[u].pc \in {"ctx", "end"} => th'[u] = th[u]
    BY Zenon, <1>2, <1>5
  <2>3. \A g \in Groups : raft_servers[g] # None =>
          raft_servers[g] # s /\ srv'[raft_servers[g]] = srv[raft_servers[g]]
    BY <1>1, <1>5, Registered
  <2> QED BY Zenon, <1>2, <2>1, <2>2, <2>3, AliveKept DEF RegisteredAlive
<1>9. /\ \A g \in Groups : raft_servers[g] # s
      /\ \A u \in Threads :
           th[u].pc \in {"emplace", "unwind", "ctx", "end", "stop", "shutdown"} => th[u].s # s
  <2>1. \A g \in Groups : raft_servers[g] # s
    BY <1>1, Registered, NoneAssumption
  <2>2. ASSUME NEW u \in Threads, th[u].pc \in {"emplace", "unwind"} PROVE th[u].s # s
    <3>1. srv[th[u].s] = [st |-> "running", g |-> th[u].g, m |-> th[u].m]
      BY Zenon, <2>2 DEF AInv, LocalInv, Own
    <3> QED BY <1>1, <3>1
  <2>3. ASSUME NEW u \in Threads, th[u].pc \in {"ctx", "end", "stop", "shutdown"} PROVE th[u].s # s
    BY Zenon, <1>1, <2>3 DEF AInv, LocalInv
  <2> QED BY Zenon, <2>1, <2>2, <2>3
<1>10. LocalInv'
  <2>1. ASSUME NEW u \in Threads
        PROVE  /\ th'[u].pc # "idle" => th'[u].g \in Groups
               /\ th'[u].pc \in {"construct", "emplace", "unwind", "ctx", "end"} => th'[u].m \in Smgrs
               /\ th'[u].pc \in {"ctx", "end", "stop", "shutdown"} =>
                    /\ th'[u].s \in Servers
                    /\ srv'[th'[u].s].st # "free" /\ srv'[th'[u].s].g = th'[u].g
    BY <1>2, <1>3, <1>5, <1>9 DEF AInv, LocalInv
  <2>2. ASSUME NEW u \in Threads, th'[u].pc \in {"emplace", "unwind"} PROVE Own(u)'
    <3>1. CASE u = t
      BY <1>2, <1>3, <1>5, <1>6, <1>9, <3>1 DEF Own
    <3>2. CASE u # t
      <4>1. Own(u) /\ th'[u] = th[u] /\ th[u].s # s
        BY Zenon, <1>5, <1>9, <2>2, <3>2 DEF AInv, LocalInv
      <4> QED BY <1>2, <1>3, <1>5, <4>1 DEF Own
    <3> QED BY Zenon, <3>1, <3>2
  <2> QED BY Zenon, <2>1, <2>2 DEF LocalInv
<1>11. StoreInv'
  <2>1. \A n \in Smgrs, h \in Groups : Uses(n, h)' => Uses(n, h)
    BY <1>2, <1>3, <1>4, <1>5 DEF Uses
  <2> QED BY Zenon, <1>2, <2>1, NoNewUse DEF AInv
<1> QED BY Zenon, <1>7, <1>8, <1>10, <1>11 DEF AInv
\* try_emplace registers the thread's server, or another join was faster.
LEMMA TryEmplaceAny ==
  ASSUME AInv, NEW t \in Threads, TryEmplace(t)
  PROVE  AInv'
<1>1. /\ UNCHANGED <<mgr, state_managers, is_leader, smgr, repl_ctx, srv, exiting,
                     elected, overlap>>
      /\ th[t].pc = "emplace" /\ th[t].g \in Groups /\ th[t].m \in Smgrs /\ Own(t)
      /\ th \in [Threads -> Thread] /\ th[t] \in Thread
  BY Zenon DEF TryEmplace, AInv, TypeOK, LocalInv, history
<1>2. srv[th[t].s].st = "running" /\ srv[th[t].s].g = th[t].g /\ th[t].s \in Servers
  BY <1>1 DEF Own
<1>3. CASE raft_servers[th[t].g] # None
  <2>1. Goto(t, "unwind") /\ UNCHANGED raft_servers
    BY Zenon, <1>3 DEF TryEmplace
  <2>2. KeepsLocals /\ LocalInv' /\ RegisteredAlive' /\ MadeInv'
    BY Zenon, <1>1, <2>1, CallMoves
  <2>3. TypeOK'
    BY Zenon, <1>1, <2>1, <2>2 DEF KeepsLocals, AInv, TypeOK
  <2>4. StoreInv'
    BY Zenon, <1>1, <2>2, LocalsStore
  <2> QED BY Zenon, <2>2, <2>3, <2>4 DEF AInv
<1>4. CASE raft_servers[th[t].g] = None
  <2> DEFINE pc == IF DataService THEN "ctx" ELSE "end"
             r == [th[t] EXCEPT !.pc = pc]
  <2>1. /\ th' = [th EXCEPT ![t] = r] /\ r \in Thread /\ r.pc \in {"ctx", "end"}
        /\ r.g = th[t].g /\ r.m = th[t].m /\ r.s = th[t].s
    <3>1. pc \in {"ctx", "end"}
      BY Zenon
    <3>2. th' = [th EXCEPT ![t].pc = pc]
      BY Zenon, <1>4 DEF TryEmplace, Goto
    <3> HIDE DEF pc
    <3> QED BY Zenon, <1>1, <3>1, <3>2 DEF Thread, JoinPCs
  <2> HIDE DEF r
  <2>2. /\ th' \in [Threads -> Thread]
        /\ \A u \in Threads : th'[u] = IF u = t THEN r ELSE th[u]
    BY Zenon, <1>1, <2>1
  <2>3. /\ raft_servers' \in [Groups -> Servers \cup {None}]
        /\ \A g \in Groups : raft_servers'[g] = IF g = th[t].g THEN th[t].s ELSE raft_servers[g]
    BY Zenon, <1>1, <1>2, <1>4 DEF TryEmplace, AInv, TypeOK
  <2>4. TypeOK'
    BY Zenon, <1>1, <2>2, <2>3 DEF AInv, TypeOK
  <2>5. RegisteredAlive' /\ MadeInv'
    <3>1. \A u \in Threads : th[u].pc \in {"ctx", "end"} => th'[u] = th[u]
      BY Zenon, <1>1, <2>2
    <3>2. MadeInv'
      BY Zenon, <1>1 DEF AInv, MadeInv
    <3>3. ASSUME NEW g \in Groups, raft_servers'[g] # None
          PROVE  Alive(g, raft_servers[g])'
      <4>1. CASE g = th[t].g
        <5>1. raft_servers'[g] = th[t].s
          BY Zenon, <2>3, <4>1
        <5>2. srv'[th[t].s].g = g /\ srv'[th[t].s].st = "running"
          BY <1>1, <1>2, <4>1
        <5> QED BY <5>1, <5>2 DEF Alive
      <4>2. CASE g # th[t].g
        <5>1. raft_servers'[g] = raft_servers[g] /\ raft_servers[g] # None
          BY Zenon, <2>3, <3>3, <4>2
        <5> QED BY Zenon, <1>1, <3>1, <5>1, AliveKept
      <4> QED BY Zenon, <4>1, <4>2
    <3> QED BY Zenon, <1>1, <3>2, <3>3 DEF RegisteredAlive
  <2>6. LocalInv'
    <3>1. ASSUME NEW u \in Threads
          PROVE  /\ th'[u].pc # "idle" => th'[u].g \in Groups
                 /\ th'[u].pc \in {"construct", "emplace", "unwind", "ctx", "end"} => th'[u].m \in Smgrs
                 /\ th'[u].pc \in {"ctx", "end", "stop", "shutdown"} =>
                      /\ th'[u].s \in Servers
                      /\ srv[th'[u].s].st # "free" /\ srv[th'[u].s].g = th'[u].g
      BY Zenon, <1>1, <1>2, <2>1, <2>2 DEF AInv, LocalInv
    <3>2. ASSUME NEW u \in Threads, th'[u].pc \in {"emplace", "unwind"} PROVE Own(u)'
      <4>1. u # t /\ th'[u] = th[u] /\ Own(u)
        BY Zenon, <2>1, <2>2, <3>2 DEF AInv, LocalInv
      <4>2. th[u].s # th[t].s
        BY Zenon, <1>1, <2>1, <2>2, <3>2, <4>1 DEF Own
      <4>3. \A w \in Threads \ {u} :
              th'[w].pc \in {"emplace", "unwind", "ctx", "end", "stop", "shutdown"} => th'[w].s # th[u].s
        BY Zenon, <1>1, <2>1, <2>2, <4>1, <4>2 DEF Own
      <4> QED BY Zenon, <1>1, <2>3, <4>1, <4>2, <4>3 DEF Own
    <3> QED BY Zenon, <1>1, <3>1, <3>2 DEF LocalInv
  <2>7. StoreInv'
    <3>1. KeepsLocals
      BY Zenon, <2>1, <2>2 DEF KeepsLocals
    <3> QED BY Zenon, <1>1, <3>1, LocalsStore
  <2> QED BY Zenon, <2>4, <2>5, <2>6, <2>7 DEF AInv
<1> QED BY Zenon, <1>3, <1>4

\* What no thread may do while the server s stops.
KeepsServers(s) ==
  \A u \in Threads :
    /\ th'[u].pc # "idle" => th'[u].g = th[u].g /\ th[u].pc # "idle"
    /\ th'[u].pc \in {"construct", "emplace", "unwind"} => th'[u] = th[u]
    /\ th'[u].pc \in {"ctx", "end", "stop", "shutdown"} =>
         /\ th[u].pc \in {"ctx", "end", "stop", "shutdown"} /\ th'[u].s = th[u].s
         /\ th'[u].pc \in {"ctx", "end"} => th'[u] = th[u]
    /\ th[u].pc \in {"ctx", "end"} => th'[u] = th[u]
    /\ th'[u].pc \in {"emplace", "unwind"} => th[u].s # s

\* Who may stay registered in the state st.
MayStay(s, st) ==
  \A g \in Groups : raft_servers'[g] = s =>
    \/ st = "stopped"
    \/ st = "shutdown" /\ \E u \in Threads : th[u].pc \in {"ctx", "end"} /\ th[u].s = s

\* A server stops, is shut down or destroyed, and its group's entry stays or
\* goes; no thread that has yet to register one has this server.
LEMMA ServerStops ==
  ASSUME AInv, NEW s \in Servers, NEW st \in {"stopped", "shutdown", "destroyed"},
         srv[s].st # "free", srv' = [srv EXCEPT ![s].st = st],
         raft_servers' \in {raft_servers, [raft_servers EXCEPT ![srv[s].g] = None]},
         MayStay(s, st), KeepsServers(s)
  PROVE  /\ LocalInv' /\ RegisteredAlive' /\ MadeInv'
         /\ srv' \in [Servers -> Server]
         /\ raft_servers' \in [Groups -> Servers \cup {None}]
         /\ \A z \in Servers : srv'[z].m = srv[z].m /\ srv'[z].g = srv[z].g
<1> USE DEF KeepsServers, MayStay
<1>1. srv \in [Servers -> Server] /\ srv[s] \in Server /\ srv[s].g \in Groups
  BY Zenon DEF AInv, TypeOK, MadeInv
<1> DEFINE v == [srv[s] EXCEPT !.st = st]
<1>2. v \in Server /\ v.st = st /\ v.g = srv[s].g /\ v.m = srv[s].m
  BY Zenon, <1>1 DEF Server
<1>3. srv' = [srv EXCEPT ![s] = v]
  BY Zenon
<1> HIDE DEF v
<1>4. srv' \in [Servers -> Server] /\ \A z \in Servers : srv'[z] = IF z = s THEN v ELSE srv[z]
  BY Zenon, <1>1, <1>2, <1>3
<1>5. \A z \in Servers : srv'[z].m = srv[z].m /\ srv'[z].g = srv[z].g
  BY Zenon, <1>2, <1>4
<1>6. /\ raft_servers' \in [Groups -> Servers \cup {None}]
      /\ \A g \in Groups : raft_servers'[g] \in {None, raft_servers[g]}
  BY Zenon, <1>1 DEF AInv, TypeOK
<1>7. RegisteredAlive' /\ MadeInv'
  <2>1. MadeInv'
    BY <1>2, <1>4 DEF AInv, MadeInv
  <2>2. ASSUME NEW g \in Groups, raft_servers'[g] # None
        PROVE  Alive(g, raft_servers[g])'
    <3>1. PICK z \in Servers : z = raft_servers'[g] /\ z = raft_servers[g]
      BY Zenon, <1>6, <2>2
    <3>0. raft_servers[g] # None
      BY Zenon, <2>2, <3>1
    <3>2. \A u \in Threads : th[u].pc \in {"ctx", "end"} => th'[u] = th[u]
      BY Zenon
    <3>3. CASE z = s
      <4>1. srv[z].g = g
        BY Zenon, <3>0, <3>1, Registered
      <4>2. /\ st \in {"stopped", "shutdown"}
            /\ st = "shutdown" => \E u \in Threads : th'[u].pc \in {"ctx", "end"} /\ th'[u].s = z
        BY Zenon, <3>1, <3>2, <3>3
      <4>3. srv'[z].st = st /\ srv'[z].g = g
        BY Zenon, <1>2, <1>4, <3>3, <4>1
      <4> HIDE DEF KeepsServers, MayStay
      <4> QED BY Zenon, <3>1, <4>2, <4>3 DEF Alive
    <3>4. CASE z # s
      <4>1. srv'[z] = srv[z]
        BY Zenon, <1>4, <3>4
      <4> HIDE DEF KeepsServers, MayStay
      <4> QED BY Zenon, <3>0, <3>1, <3>2, <4>1, AliveKept
    <3> HIDE DEF KeepsServers, MayStay
    <3> QED BY Zenon, <3>3, <3>4
  <2> HIDE DEF KeepsServers, MayStay
  <2> QED BY Zenon, <2>1, <2>2 DEF RegisteredAlive
<1>8. LocalInv'
  <2>1. ASSUME NEW u \in Threads
        PROVE  /\ th'[u].pc # "idle" => th'[u].g \in Groups
               /\ th'[u].pc \in {"construct", "emplace", "unwind", "ctx", "end"}
                    => th'[u].m \in Smgrs
    BY Zenon DEF AInv, LocalInv
  <2>2. ASSUME NEW u \in Threads, th'[u].pc \in {"ctx", "end", "stop", "shutdown"}
        PROVE  /\ th'[u].s \in Servers
               /\ srv'[th'[u].s].st # "free" /\ srv'[th'[u].s].g = th'[u].g
    <3>1. /\ th'[u].s = th[u].s /\ th'[u].g = th[u].g /\ th[u].s \in Servers
          /\ srv[th[u].s].st # "free" /\ srv[th[u].s].g = th[u].g
      BY Zenon, <2>2 DEF AInv, LocalInv
    <3> QED BY <1>2, <1>4, <3>1
  <2>3. ASSUME NEW u \in Threads, th'[u].pc \in {"emplace", "unwind"} PROVE Own(u)'
    <3>1. Own(u) /\ th'[u] = th[u] /\ th[u].s # s
      BY Zenon, <2>3 DEF AInv, LocalInv
    <3>2. \A w \in Threads \ {u} :
            th'[w].pc \in {"emplace", "unwind", "ctx", "end", "stop", "shutdown"}
              => th'[w].s # th[u].s
      BY Zenon, <3>1 DEF Own
    <3>3. \A g \in Groups : raft_servers'[g] # th[u].s
      <4>1. th[u].s # None /\ \A g \in Groups : raft_servers[g] # th[u].s
        BY Zenon, <3>1, NoneAssumption DEF Own
      <4> QED BY Zenon, <1>6, <4>1
    <3> QED BY <1>4, <3>1, <3>2, <3>3 DEF Own
  <2> QED BY Zenon, <2>1, <2>2, <2>3 DEF LocalInv
<1> QED BY Zenon, <1>4, <1>5, <1>6, <1>7, <1>8

\* The loser of try_emplace destroys its server: it was never registered, but
\* the winner's entry goes.
LEMMA UnwindAny ==
  ASSUME AInv, NEW t \in Threads, Unwind(t)
  PROVE  AInv'
<1>1. /\ UNCHANGED <<mgr, state_managers, is_leader, smgr, repl_ctx, exiting, elected, overlap>>
      /\ th[t].pc = "unwind" /\ th[t].g \in Groups /\ Own(t)
      /\ th \in [Threads -> Thread] /\ th[t] \in Thread
  BY Zenon DEF Unwind, AInv, TypeOK, LocalInv, history
<1> DEFINE s == th[t].s
           r == [th[t] EXCEPT !.pc = "joined", !.r = "OK"]
<1>2. s \in Servers /\ srv[s].st = "running"
  BY <1>1 DEF Own
<1>3. r \in Thread /\ r.pc = "joined" /\ r.g = th[t].g /\ r.m = th[t].m
  BY Zenon, <1>1 DEF Thread, JoinPCs, Results
<1>4. th' = [th EXCEPT ![t] = r]
  BY Zenon DEF Unwind, Joined
<1> HIDE DEF r
<1>5. /\ th' \in [Threads -> Thread]
      /\ \A u \in Threads : th'[u] = IF u = t THEN r ELSE th[u]
  BY Zenon, <1>1, <1>3, <1>4
<1>6. /\ srv' = [srv EXCEPT ![s].st = "destroyed"]
      /\ raft_servers' \in {raft_servers, [raft_servers EXCEPT ![srv[s].g] = None]}
  BY Zenon DEF Unwind, Destruct, shutdown_for
<1>7. KeepsServers(s)
  BY Zenon, <1>1, <1>3, <1>5 DEF Own, KeepsServers
<1>a. MayStay(s, "destroyed")
  <2>1. \A g \in Groups : raft_servers'[g] \in {None, raft_servers[g]}
    BY Zenon, <1>6 DEF AInv, TypeOK
  <2> QED BY Zenon, <1>1, <1>2, <2>1, NoneAssumption DEF Own, MayStay
<1>b. s \in Servers /\ srv[s].st # "free" /\ "destroyed" \in {"stopped", "shutdown", "destroyed"}
  BY <1>2
<1> HIDE DEF s
<1>8. /\ LocalInv' /\ RegisteredAlive' /\ MadeInv'
      /\ srv' \in [Servers -> Server]
      /\ raft_servers' \in [Groups -> Servers \cup {None}]
      /\ \A z \in Servers : srv'[z].m = srv[z].m /\ srv'[z].g = srv[z].g
  BY Zenon, <1>6, <1>7, <1>a, <1>b, ServerStops
<1>9. TypeOK'
  BY Zenon, <1>1, <1>5, <1>8 DEF AInv, TypeOK
<1>10. StoreInv'
  <2>1. KeepsLocals
    BY Zenon, <1>3, <1>5 DEF KeepsLocals
  <2> QED BY Zenon, <1>1, <1>8, <2>1, LocalsStore
<1> QED BY Zenon, <1>8, <1>9, <1>10 DEF AInv

\* The winner returns; the entry of a server that was shut down goes with the
\* last listener.
LEMMA JoinEndAny ==
  ASSUME AInv, NEW t \in Threads, JoinEnd(t)
  PROVE  AInv'
<1>1. /\ UNCHANGED <<mgr, state_managers, is_leader, smgr, repl_ctx, srv, exiting,
                     elected, overlap>>
      /\ th[t].pc = "end" /\ th[t].g \in Groups /\ th[t].s \in Servers
      /\ srv[th[t].s].g = th[t].g
      /\ th \in [Threads -> Thread] /\ th[t] \in Thread /\ Joined(t, "OK")
  BY Zenon DEF JoinEnd, AInv, TypeOK, LocalInv, history
<1>2. CASE Up(th[t].s)
  <2>1. raft_servers' = raft_servers /\ srv[th[t].s].st # "shutdown"
    BY <1>2 DEF JoinEnd, Up
  <2>2. KeepsLocals /\ LocalInv' /\ RegisteredAlive' /\ MadeInv'
    BY Zenon, <1>1, <2>1, CallMoves DEF Results
  <2>3. TypeOK'
    BY Zenon, <1>1, <2>1, <2>2 DEF KeepsLocals, AInv, TypeOK
  <2>4. StoreInv'
    BY Zenon, <1>1, <2>2, LocalsStore
  <2> QED BY Zenon, <2>2, <2>3, <2>4 DEF AInv
<1>3. CASE ~Up(th[t].s)
  <2>1. raft_servers' = [raft_servers EXCEPT ![th[t].g] = None]
    BY Zenon, <1>3 DEF JoinEnd, shutdown_for
  <2>2. /\ raft_servers' \in [Groups -> Servers \cup {None}]
        /\ \A g \in Groups : raft_servers'[g] = IF g = th[t].g THEN None ELSE raft_servers[g]
    BY Zenon, <1>1, <2>1 DEF AInv, TypeOK
  <2> DEFINE r == [th[t] EXCEPT !.pc = "joined", !.r = "OK"]
  <2>3. r \in Thread /\ r.pc = "joined" /\ r.g = th[t].g /\ r.m = th[t].m
    BY Zenon, <1>1 DEF Thread, JoinPCs, Results
  <2>4. th' = [th EXCEPT ![t] = r]
    BY Zenon, <1>1 DEF Joined
  <2> HIDE DEF r
  <2>5. /\ th' \in [Threads -> Thread]
        /\ \A u \in Threads : th'[u] = IF u = t THEN r ELSE th[u]
    BY Zenon, <1>1, <2>3, <2>4
  <2>6. TypeOK' /\ MadeInv'
    BY Zenon, <1>1, <2>2, <2>5 DEF AInv, TypeOK, MadeInv
  <2>7. RegisteredAlive'
    <3>1. ASSUME NEW g \in Groups, raft_servers'[g] # None
          PROVE  Alive(g, raft_servers[g])'
      <4>1. g # th[t].g /\ raft_servers[g] # None
        BY Zenon, <2>2, <3>1
      <4>2. srv[raft_servers[g]].g = g /\ raft_servers[g] # th[t].s
        BY Zenon, <1>1, <4>1, Registered
      <4>3. \A u \in Threads : th[u].s = raft_servers[g] => th'[u] = th[u]
        BY Zenon, <2>5, <4>2
      <4>4. srv'[raft_servers[g]] = srv[raft_servers[g]] /\ raft_servers'[g] = raft_servers[g]
        BY Zenon, <1>1, <2>2, <4>1
      <4> QED BY Zenon, <4>1, <4>3, <4>4, AliveKept
    <3> QED BY Zenon, <3>1 DEF RegisteredAlive
  <2>8. LocalInv'
    <3>1. ASSUME NEW u \in Threads, th'[u].pc \in {"emplace", "unwind"} PROVE Own(u)'
      <4>1. u # t /\ th'[u] = th[u] /\ Own(u)
        BY Zenon, <2>3, <2>5, <3>1 DEF AInv, LocalInv
      <4>2. \A w \in Threads \ {u} :
              th'[w].pc \in {"emplace", "unwind", "ctx", "end", "stop", "shutdown"}
                => th'[w].s # th[u].s
        BY Zenon, <2>3, <2>5, <4>1 DEF Own
      <4>3. \A g \in Groups : raft_servers'[g] # th[u].s
        BY Zenon, <2>2, <4>1, NoneAssumption DEF Own
      <4> QED BY Zenon, <1>1, <4>1, <4>2, <4>3 DEF Own
    <3>2. ASSUME NEW u \in Threads
          PROVE  /\ th'[u].pc # "idle" => th'[u].g \in Groups
                 /\ th'[u].pc \in {"construct", "emplace", "unwind", "ctx", "end"}
                      => th'[u].m \in Smgrs
                 /\ th'[u].pc \in {"ctx", "end", "stop", "shutdown"} =>
                      /\ th'[u].s \in Servers
                      /\ srv[th'[u].s].st # "free" /\ srv[th'[u].s].g = th'[u].g
      BY Zenon, <1>1, <2>3, <2>5 DEF AInv, LocalInv
    <3> QED BY Zenon, <1>1, <3>1, <3>2 DEF LocalInv
  <2>9. StoreInv'
    <3>1. KeepsLocals
      BY Zenon, <2>3, <2>5 DEF KeepsLocals
    <3> QED BY Zenon, <1>1, <3>1, LocalsStore
  <2> QED BY Zenon, <2>6, <2>7, <2>8, <2>9 DEF AInv
<1> QED BY Zenon, <1>2, <1>3

\* leave_group stops the server that it looked up, then shuts it down.
LEMMA LeaveStopAny ==
  ASSUME AInv, NEW t \in Threads, LeaveStop(t) \/ LeaveShutdown(t)
  PROVE  AInv'
<1>1. /\ UNCHANGED <<mgr, state_managers, is_leader, smgr, repl_ctx, exiting, elected, overlap>>
      /\ th[t].pc \in {"stop", "shutdown"} /\ th[t].g \in Groups
      /\ th[t].s \in Servers /\ srv[th[t].s].st # "free" /\ srv[th[t].s].g = th[t].g
      /\ th \in [Threads -> Thread] /\ th[t] \in Thread
  BY Zenon DEF LeaveStop, LeaveShutdown, AInv, TypeOK, LocalInv, history
<1> DEFINE s == th[t].s
<1>2. PICK pc \in {"shutdown", "destroy"} : th' = [th EXCEPT ![t].pc = pc]
  BY Zenon DEF LeaveStop, LeaveShutdown, Goto
<1> DEFINE r == [th[t] EXCEPT !.pc = pc]
<1>3. /\ r \in Thread /\ r.pc = pc
      /\ r.g = th[t].g /\ r.m = th[t].m /\ r.s = th[t].s
  BY Zenon, <1>1 DEF Thread, LeavePCs
<1>4. th' = [th EXCEPT ![t] = r]
  BY Zenon, <1>2
<1> HIDE DEF r
<1>5. /\ th' \in [Threads -> Thread]
      /\ \A u \in Threads : th'[u] = IF u = t THEN r ELSE th[u]
  BY Zenon, <1>1, <1>3, <1>4
<1>6. \A u \in Threads : th[u].pc \in {"emplace", "unwind"} => th[u].s # s
  BY Zenon, <1>1 DEF AInv, LocalInv, Own
<1>7. KeepsLocals
  BY Zenon, <1>3, <1>5 DEF KeepsLocals
<1>8. CASE UNCHANGED <<raft_servers, srv>>
  <2>1. LocalInv' /\ RegisteredAlive' /\ MadeInv'
    BY Zenon, <1>1, <1>3, <1>4, <1>6, <1>8, ThreadMoves
  <2>2. TypeOK'
    BY Zenon, <1>1, <1>5, <1>8 DEF AInv, TypeOK
  <2>3. StoreInv'
    BY Zenon, <1>1, <1>7, <1>8, LocalsStore
  <2> QED BY Zenon, <2>1, <2>2, <2>3 DEF AInv
<1>9. ASSUME NEW st \in {"stopped", "shutdown"}, srv' = [srv EXCEPT ![s].st = st],
             raft_servers' \in {raft_servers, [raft_servers EXCEPT ![srv[s].g] = None]},
             \/ st = "stopped"
             \/ \E u \in Threads : th[u].pc \in {"ctx", "end"} /\ th[u].s = s
             \/ raft_servers' = [raft_servers EXCEPT ![srv[s].g] = None]
      PROVE  AInv'
  <2>1. KeepsServers(s)
    BY Zenon, <1>1, <1>3, <1>5, <1>6 DEF KeepsServers
  <2>2. ASSUME NEW g \in Groups, raft_servers'[g] = s
        PROVE  \/ st = "stopped"
               \/ /\ st = "shutdown"
                  /\ \E u \in Threads : th[u].pc \in {"ctx", "end"} /\ th[u].s = s
    <3>1. raft_servers'[g] \in {None, raft_servers[g]} /\ s # None
      BY Zenon, <1>1, <1>9, NoneAssumption DEF AInv, TypeOK
    <3>4. raft_servers[g] = s /\ raft_servers[g] # None
      BY Zenon, <2>2, <3>1
    <3>2. g = srv[s].g
      BY Zenon, <3>4, Registered
    <3>3. raft_servers' # [raft_servers EXCEPT ![srv[s].g] = None]
      BY Zenon, <2>2, <3>1, <3>2 DEF AInv, TypeOK
    <3> QED BY Zenon, <1>9, <3>3
  <2>3. /\ s \in Servers /\ srv[s].st # "free" /\ st \in {"stopped", "shutdown", "destroyed"}
        /\ MayStay(s, st)
    BY Zenon, <1>1, <2>2 DEF MayStay
  <2> HIDE DEF s
  <2>4. /\ LocalInv' /\ RegisteredAlive' /\ MadeInv'
        /\ srv' \in [Servers -> Server]
        /\ raft_servers' \in [Groups -> Servers \cup {None}]
        /\ \A z \in Servers : srv'[z].m = srv[z].m /\ srv'[z].g = srv[z].g
    BY Zenon, <1>9, <2>1, <2>3, ServerStops
  <2>5. TypeOK'
    BY Zenon, <1>1, <1>5, <2>4 DEF AInv, TypeOK
  <2>6. StoreInv'
    BY Zenon, <1>1, <1>7, <2>4, LocalsStore
  <2> QED BY Zenon, <2>4, <2>5, <2>6 DEF AInv
<1>10. CASE LeaveStop(t)
  BY Zenon, <1>8, <1>9, <1>10 DEF LeaveStop, StopServer
<1>11. CASE LeaveShutdown(t)
  <2>1. JoinHolds(s) => \E u \in Threads : th[u].pc \in {"ctx", "end"} /\ th[u].s = s
    BY Zenon, <1>6 DEF JoinHolds
  <2> QED BY Zenon, <1>8, <1>9, <1>11, <2>1 DEF LeaveShutdown, ShutdownServer, shutdown_for
<1> QED BY Zenon, <1>10, <1>11

\* msg_service::shutdown stops a registered server and shuts it down, the map
\* reclaims one that nothing refers to.
LEMMA StopAny ==
  ASSUME AInv,
         \/ \E g \in Groups : ServiceStop(g) \/ ServiceShutdown(g)
         \/ \E s \in Servers : Reclaim(s)
  PROVE  AInv'
<1>1. UNCHANGED <<mgr, state_managers, is_leader, smgr, repl_ctx, exiting, th, elected, overlap>>
  BY Zenon DEF ServiceStop, ServiceShutdown, Reclaim, history
<1> DEFINE Stops(s, st) ==
      /\ srv[s].st # "free" /\ srv' = [srv EXCEPT ![s].st = st]
      /\ raft_servers' \in {raft_servers, [raft_servers EXCEPT ![srv[s].g] = None]}
      /\ MayStay(s, st)
      /\ \A u \in Threads : th[u].pc \in {"emplace", "unwind"} => th[u].s # s
<1>2. \/ UNCHANGED <<srv, raft_servers>>
      \/ \E s \in Servers, st \in {"stopped", "shutdown", "destroyed"} : Stops(s, st)
  <2>1. ASSUME NEW g \in Groups, ServiceStop(g) \/ ServiceShutdown(g)
        PROVE  \/ UNCHANGED <<srv, raft_servers>>
               \/ Stops(raft_servers[g], "stopped") \/ Stops(raft_servers[g], "shutdown")
    <3> DEFINE s == raft_servers[g]
    <3>1. s \in Servers /\ srv[s].st \in {"running", "stopped", "shutdown"} /\ srv[s].g = g
      BY Zenon, <2>1, Registered DEF ServiceStop, ServiceShutdown
    <3>2. \A u \in Threads : th[u].pc \in {"emplace", "unwind"} => th[u].s # s
      BY Zenon DEF AInv, LocalInv, Own
    <3>3. srv[s].st # "free"
      BY <3>1
    <3>4. CASE ServiceStop(g)
      BY Zenon, <3>2, <3>3, <3>4 DEF ServiceStop, StopServer, MayStay
    <3>5. CASE ServiceShutdown(g) /\ ~Up(s)
      BY Zenon, <3>5 DEF ServiceShutdown, ShutdownServer
    <3>6. CASE ServiceShutdown(g) /\ Up(s)
      <4>1. srv' = [srv EXCEPT ![s].st = "shutdown"]
        BY Zenon, <3>6 DEF ServiceShutdown, ShutdownServer
      <4>2. CASE JoinHolds(s)
        <5>1. \E u \in Threads : th[u].pc \in {"ctx", "end"} /\ th[u].s = s
          BY Zenon, <3>2, <4>2 DEF JoinHolds
        <5> QED BY Zenon, <3>2, <3>3, <3>6, <4>1, <4>2, <5>1
                   DEF ServiceShutdown, ShutdownServer, MayStay
      <4>3. CASE ~JoinHolds(s)
        <5>1. raft_servers' = [raft_servers EXCEPT ![srv[s].g] = None]
          BY Zenon, <3>6, <4>3 DEF ServiceShutdown, ShutdownServer, shutdown_for
        <5>2. \A h \in Groups : raft_servers'[h] # s
          <6>1. \A h \in Groups : raft_servers'[h] = IF h = g THEN None ELSE raft_servers[h]
            BY Zenon, <3>1, <5>1 DEF AInv, TypeOK
          <6>2. \A h \in Groups : raft_servers[h] = s => h = g
            BY Zenon, <3>1, NoneAssumption, Registered
          <6> QED BY Zenon, <3>1, <6>1, <6>2, NoneAssumption
        <5> QED BY Zenon, <3>2, <3>3, <4>1, <5>1, <5>2 DEF MayStay
      <4> QED BY Zenon, <4>2, <4>3
    <3> QED BY Zenon, <2>1, <3>4, <3>5, <3>6
  <2>2. ASSUME NEW s \in Servers, Reclaim(s) PROVE Stops(s, "destroyed")
    <3>1. srv[s].st # "free" /\ \A g \in Groups : raft_servers[g] # s
      BY <2>2 DEF Reclaim, Held
    <3>2. \A u \in Threads : th[u].pc \in {"emplace", "unwind"} => th[u].s # s
      BY Zenon, <2>2 DEF Reclaim, Held, JoinHolds
    <3>3. raft_servers' \in {raft_servers, [raft_servers EXCEPT ![srv[s].g] = None]}
      BY Zenon, <2>2 DEF Reclaim, Destruct, shutdown_for
    <3>4. \A g \in Groups : raft_servers'[g] \in {None, raft_servers[g]}
      BY Zenon, <3>3 DEF AInv, TypeOK
    <3>5. \A g \in Groups : raft_servers'[g] # s
      BY Zenon, <3>1, <3>4, NoneAssumption
    <3> QED BY Zenon, <2>2, <3>1, <3>2, <3>3, <3>5 DEF Reclaim, Destruct, MayStay
  <2>3. ASSUME NEW g \in Groups, ServiceStop(g) \/ ServiceShutdown(g)
        PROVE  raft_servers[g] \in Servers
    BY Zenon, <2>3 DEF ServiceStop, ServiceShutdown, AInv, TypeOK
  <2> HIDE DEF Stops
  <2> QED BY Zenon, <2>1, <2>2, <2>3
<1>3. KeepsLocals
  BY Zenon, <1>1 DEF KeepsLocals, AInv, TypeOK
<1>4. CASE UNCHANGED <<srv, raft_servers>>
  <2>1. LocalInv' /\ RegisteredAlive' /\ MadeInv'
    BY <1>1, <1>4 DEF AInv, LocalInv, Own, RegisteredAlive, Alive, MadeInv
  <2>2. TypeOK'
    BY Zenon, <1>1, <1>4 DEF AInv, TypeOK
  <2>3. StoreInv'
    BY Zenon, <1>1, <1>3, <1>4, LocalsStore
  <2> QED BY Zenon, <2>1, <2>2, <2>3 DEF AInv
<1>5. ASSUME NEW s \in Servers, NEW st \in {"stopped", "shutdown", "destroyed"}, Stops(s, st)
      PROVE  AInv'
  <2>0. KeepsServers(s)
    BY Zenon, <1>1, <1>5 DEF KeepsServers
  <2>1. /\ LocalInv' /\ RegisteredAlive' /\ MadeInv'
        /\ srv' \in [Servers -> Server]
        /\ raft_servers' \in [Groups -> Servers \cup {None}]
        /\ \A z \in Servers : srv'[z].m = srv[z].m /\ srv'[z].g = srv[z].g
    BY Zenon, <1>5, <2>0, ServerStops
  <2>2. TypeOK'
    BY Zenon, <1>1, <2>1 DEF AInv, TypeOK
  <2>3. StoreInv'
    BY Zenon, <1>1, <1>3, <2>1, LocalsStore
  <2> QED BY Zenon, <2>1, <2>2, <2>3 DEF AInv
<1> HIDE DEF Stops
<1> QED BY Zenon, <1>2, <1>4, <1>5

\* Raft events and the manager's own states leave all of this alone.
LEMMA OtherAny ==
  ASSUME AInv,
         \/ \E s \in Servers : \/ BecomeLeader(s) \/ BecomeFollower(s)
                               \/ RemovedFromCluster(s) \/ ExitGroup(s)
                               \/ \E leader \in BOOLEAN : JoinedCluster(s, leader)
         \/ ManagerDestroy \/ GrpcShutdown \/ UNCHANGED vars
  PROVE  AInv'
<1>1. UNCHANGED <<state_managers, raft_servers, smgr, repl_ctx, srv, th, overlap>>
  BY Zenon DEF BecomeLeader, BecomeFollower, RemovedFromCluster, ExitGroup, JoinedCluster,
     ManagerDestroy, GrpcShutdown, vars, history
<1>2. mgr' \in {"up", "destroying", "draining", "down"}
  BY Zenon DEF BecomeLeader, BecomeFollower, RemovedFromCluster, ExitGroup, JoinedCluster,
     ManagerDestroy, GrpcShutdown, vars, history, AInv, TypeOK
<1>3. is_leader' \in [Groups -> BOOLEAN] /\ elected' \in SUBSET Servers
  BY Zenon DEF BecomeLeader, BecomeFollower, RemovedFromCluster, ExitGroup, JoinedCluster,
     ManagerDestroy, GrpcShutdown, vars, history, AInv, TypeOK
<1>4. exiting' \in [Servers -> Smgrs \cup {None}]
  <2>1. \A s \in Servers : Up(s) => state_managers[srv[s].g] \in Smgrs \cup {None}
    BY DEF AInv, TypeOK, MadeInv, Up
  <2> QED BY Zenon, <2>1
          DEF BecomeLeader, BecomeFollower, RemovedFromCluster, ExitGroup, JoinedCluster,
          ManagerDestroy, GrpcShutdown, vars, history, AInv, TypeOK
<1>5. TypeOK'
  BY Zenon, <1>1, <1>2, <1>3, <1>4 DEF AInv, TypeOK
<1>6. LocalInv' /\ RegisteredAlive' /\ MadeInv'
  BY <1>1 DEF AInv, LocalInv, Own, RegisteredAlive, Alive, MadeInv
<1>7. StoreInv'
  BY <1>1 DEF AInv, StoreInv, Uses
<1> QED BY Zenon, <1>5, <1>6, <1>7 DEF AInv

\* Every step preserves what holds whatever callers overlap.
LEMMA NextAny == AInv /\ [Next]_vars => AInv'
<1> SUFFICES ASSUME AInv, [Next]_vars PROVE AInv'
  OBVIOUS
<1>1. ASSUME NEW t \in Threads, ThreadStep(t) PROVE AInv'
  BY Zenon, <1>1, LookAny, EraseAny, GroupInitAny, LeavePartAny, ConstructAny,
     TryEmplaceAny, MakeReplCtxAny, JoinEndAny, UnwindAny, LeaveStopAny
     DEF ThreadStep, JoinStep, LeaveStep
<1>2. ASSUME NEW t \in Threads, NEW g \in Groups,
             CreateGroup(t, g) \/ LeaveGroup(t, g) \/ RaftStepJoin(t, g)
      PROVE  AInv'
  BY Zenon, <1>2, LookAny
<1> QED BY Zenon, <1>1, <1>2, JoinGroupAny, StopAny, OtherAny
           DEF Next, Terminated, Threads

\* A manager that has just started satisfies it.
LEMMA InitAny == Init => AInv
<1> SUFFICES ASSUME Init PROVE AInv
  OBVIOUS
<1>1. TypeOK
  BY Zenon DEF Init, TypeOK, Thread, Server, Kinds, Results
<1>2. LocalInv /\ RegisteredAlive /\ MadeInv
  BY Zenon DEF Init, LocalInv, RegisteredAlive, MadeInv
<1>3. StoreInv
  BY Zenon, NoneAssumption DEF Init, StoreInv, Uses
<1> QED BY Zenon, <1>1, <1>2, <1>3 DEF AInv

\* Threads, maps, servers and state managers agree on groups at all times,
\* whatever calls overlap.
THEOREM AnyOverlap == Spec => []AInv
BY InitAny, NextAny, PTL DEF Spec

\* The maps, objects and thread locals of ManagerImpl and msg_service always
\* have their types.
THEOREM TypeCorrect == Spec => []TypeOK
<1>1. AInv => TypeOK
  BY Zenon DEF AInv
<1> QED BY <1>1, AnyOverlap, PTL

\* raftStep never steps a server of another group or one that is destroyed, and
\* one that was shut down only until the join that registered it returns,
\* whatever joins and leaves of the group overlap.
THEOREM NeverStepsDestroyed == Spec => []RegisteredAlive
<1>1. AInv => RegisteredAlive
  BY Zenon DEF AInv
<1> QED BY <1>1, AnyOverlap, PTL

\* Servers of different groups never have one state manager.
StorageOfOneGroup ==
  \A s, r \in Servers :
    (srv[s].st # "free" /\ srv[r].st # "free" /\ srv[s].m = srv[r].m)
      => srv[s].g = srv[r].g

\* group_init and join_group give a group's log store to servers of that group
\* only, whatever calls overlap.
THEOREM StorageNotShared == Spec => []StorageOfOneGroup
<1>1. AInv => StorageOfOneGroup
  BY DEF AInv, MadeInv, StoreInv, Uses, StorageOfOneGroup
<1> QED BY <1>1, AnyOverlap, PTL
-----------------------------------------------------------------------------
(* One join of a group at a time; leaves may overlap it.                   *)

\* A thread inside joinRaftGroup is the only one on its group.
OneJoiner ==
  \A t, u \in Threads :
    (th[t].pc \in JoinPCs /\ th[u].pc \in JoinPCs /\ th[t].g = th[u].g) => t = u

\* Nothing is registered for a group until its joiner has got to try_emplace,
\* and its server from then until it returns.
Unregistered ==
  \A t \in Threads :
    /\ th[t].pc # "unwind"
    /\ th[t].pc \in {"init", "construct", "emplace"} => raft_servers[th[t].g] = None
    /\ th[t].pc \in {"ctx", "end"} => raft_servers[th[t].g] = th[t].s

\* A server that is up is registered or about to be.
Known ==
  \A s \in Servers : Up(s) =>
    \/ raft_servers[srv[s].g] = s
    \/ \E t \in Threads : th[t].pc = "emplace" /\ th[t].s = s

\* Who calls which operation.
CallerInv ==
  \A t \in Threads : /\ th[t].pc \in LeavePCs \cup {"wait"} => t \in AppThreads
                     /\ th[t].kind \in {"create", "join"} => t \in AppThreads

\* Nobody holds a manager that is being destroyed, and past the shutdown loop
\* nothing is registered.
MgrInv ==
  /\ mgr # "up" => \A t \in Threads : ~HoldsManager(t)
  /\ mgr \in {"draining", "down"} => \A g \in Groups : raft_servers[g] = None

JInv == OneJoiner /\ Unregistered /\ Known /\ CallerInv /\ MgrInv

\* A call moves on and no server is made, registered or stopped.
LEMMA JoinMoves ==
  ASSUME JInv, NEW t \in Threads, NEW r, th \in [Threads -> Thread], th' = [th EXCEPT ![t] = r],
         UNCHANGED <<mgr, raft_servers, srv>>,
         r.pc \in JoinPCs => (th[t].pc \in JoinPCs /\ r.g = th[t].g) \/ Joiners(r.g) = {},
         r.pc # "unwind",
         r.pc \in {"init", "construct", "emplace"} => raft_servers[r.g] = None,
         r.pc \in {"ctx", "end"} => raft_servers[r.g] = r.s,
         th[t].pc = "emplace" => r.pc = "emplace" /\ r.s = th[t].s,
         r.pc \in LeavePCs \cup {"wait"} => t \in AppThreads,
         r.kind \in {"create", "join"} => t \in AppThreads,
         mgr # "up" => ~ (r.pc \in {"init", "construct", "emplace", "ctx", "end"}
                          \/ (t \in AppThreads /\ r.pc # "idle"))
  PROVE  JInv'
<1>1. \A u \in Threads : th'[u] = IF u = t THEN r ELSE th[u]
  OBVIOUS
<1>2. OneJoiner'
  BY <1>1 DEF JInv, OneJoiner, Joiners
<1>3. Unregistered'
  BY Zenon, <1>1 DEF JInv, Unregistered
<1>4. Known'
  <2>1. \A u \in Threads : th[u].pc = "emplace" => th'[u].pc = "emplace" /\ th'[u].s = th[u].s
    BY Zenon, <1>1
  <2> QED BY Zenon, <2>1 DEF JInv, Known, Up
<1>5. CallerInv'
  BY Zenon, <1>1 DEF JInv, CallerInv
<1>6. MgrInv'
  BY Zenon, <1>1 DEF JInv, MgrInv, HoldsManager
<1> QED BY Zenon, <1>2, <1>3, <1>4, <1>5, <1>6 DEF JInv
\* A call begins; a join finds no other join of its group.
LEMMA BeginOne ==
  ASSUME "join/join" \notin overlap', AInv, JInv, NEW t \in Threads, NEW g \in Groups,
         \/ t \in AppThreads /\ (CreateGroup(t, g) \/ LeaveGroup(t, g))
         \/ t \in AppThreads /\ \E m \in Smgrs : JoinGroup(t, g, m)
         \/ t \in GrpcThreads /\ RaftStepJoin(t, g)
  PROVE  JInv'
<1>1. UNCHANGED <<mgr, raft_servers, srv>> /\ th \in [Threads -> Thread] /\ th[t].pc = "idle"
  BY Zenon DEF CreateGroup, LeaveGroup, JoinGroup, RaftStepJoin, Begin, AInv, TypeOK
<1>2. CASE Return(t, "not_member")
  <2> DEFINE r == [pc |-> "idle", kind |-> "none", g |-> None, m |-> None,
                   s |-> None, r |-> "not_member"]
  <2>1. r.pc = "idle" /\ r.kind = "none"
    OBVIOUS
  <2>2. th' = [th EXCEPT ![t] = r]
    BY Zenon, <1>2 DEF Return
  <2> HIDE DEF r
  <2> QED BY Zenon, <1>1, <2>1, <2>2, JoinMoves DEF JoinPCs, LeavePCs
<1>3. CASE t \in AppThreads /\ mgr = "up" /\ Begin(t, "leave", g, "part")
  <2> DEFINE r == [pc |-> "part", kind |-> "leave", g |-> g, m |-> None,
                   s |-> None, r |-> "none"]
  <2>1. r.pc = "part" /\ r.kind = "leave"
    OBVIOUS
  <2>2. th' = [th EXCEPT ![t] = r]
    BY Zenon, <1>3 DEF Begin
  <2> HIDE DEF r
  <2> QED BY Zenon, <1>1, <1>3, <2>1, <2>2, JoinMoves DEF JoinPCs, LeavePCs
<1>4. CASE \E k \in {"create", "join", "step"} :
             /\ Begin(t, k, g, "find") /\ JoinOverlaps(g)
             /\ IF k = "step" THEN t \in GrpcThreads ELSE t \in AppThreads /\ mgr = "up"
  <2>1. PICK k \in {"create", "join", "step"} :
             /\ Begin(t, k, g, "find") /\ JoinOverlaps(g)
             /\ IF k = "step" THEN t \in GrpcThreads ELSE t \in AppThreads /\ mgr = "up"
    BY Zenon, <1>4
  <2> DEFINE r == [pc |-> "find", kind |-> k, g |-> g, m |-> None,
                   s |-> None, r |-> "none"]
  <2>2. r.pc = "find" /\ r.kind = k /\ r.g = g
    OBVIOUS
  <2>3. th' = [th EXCEPT ![t] = r]
    BY Zenon, <2>1 DEF Begin
  <2>4. Joiners(g) = {}
    BY Zenon, <2>1 DEF JoinOverlaps
  <2> HIDE DEF r
  <2> QED BY Zenon, <1>1, <2>1, <2>2, <2>3, <2>4, ThreadsAssumption, JoinMoves
             DEF LeavePCs
<1> QED BY Zenon, <1>2, <1>3, <1>4 DEF CreateGroup, LeaveGroup, JoinGroup, RaftStepJoin

\* A call moves on, or returns.
LEMMA MoveOne ==
  ASSUME AInv, JInv, NEW t \in Threads,
         \/ JoinFind(t) \/ GroupInitNoType(t) \/ GroupInit(t) \/ MakeReplCtx(t)
         \/ CreateJoined(t) \/ JoinGroupJoined(t) \/ StepJoined(t)
         \/ WaitLeader(t) \/ LeavePart(t) \/ LeaveDestroy(t)
         \/ JoinEnd(t) /\ Up(th[t].s)
  PROVE  JInv'
<1>1. /\ UNCHANGED <<mgr, raft_servers, srv>> /\ th \in [Threads -> Thread]
      /\ th[t] \in Thread /\ th[t].pc \notin {"idle", "emplace", "unwind"}
  BY Zenon
     DEF JoinFind, GroupInitNoType, GroupInit, MakeReplCtx, CreateJoined, JoinGroupJoined,
     StepJoined, WaitLeader, LeavePart, LeaveDestroy, JoinEnd, AInv, TypeOK
<1>2. ASSUME NEW code, Return(t, code) PROVE JInv'
  <2> DEFINE r == [pc |-> "idle", kind |-> "none", g |-> None, m |-> None,
                   s |-> None, r |-> code]
  <2>1. r.pc = "idle" /\ r.kind = "none"
    OBVIOUS
  <2>2. th' = [th EXCEPT ![t] = r]
    BY Zenon, <1>2 DEF Return
  <2> HIDE DEF r
  <2> QED BY Zenon, <1>1, <2>1, <2>2, JoinMoves DEF JoinPCs, LeavePCs
<1>3. mgr # "up" => /\ t \notin AppThreads
                    /\ th[t].pc \notin {"init", "construct", "emplace", "ctx", "end"}
  BY Zenon, <1>1 DEF JInv, MgrInv, HoldsManager
<1>4. ASSUME NEW r, th' = [th EXCEPT ![t] = r], r.g = th[t].g, r.kind = th[t].kind,
             \/ /\ th[t].pc \in JoinPCs /\ r.pc \in {"init", "construct", "joined"}
                /\ r.pc \in {"init", "construct"} => raft_servers[th[t].g] = None /\ mgr = "up"
             \/ r.pc = "wait" /\ th[t].kind = "create"
             \/ r.pc \in LeavePCs /\ th[t].pc \in LeavePCs
      PROVE  JInv'
  <2>1. r.pc \in LeavePCs \cup {"wait"} => t \in AppThreads
    BY Zenon, <1>4 DEF JInv, CallerInv, JoinPCs, LeavePCs
  <2>2. r.kind \in {"create", "join"} => t \in AppThreads
    BY Zenon, <1>4 DEF JInv, CallerInv
  <2>3. r.pc \in JoinPCs => th[t].pc \in JoinPCs
    BY Zenon, <1>4 DEF JoinPCs, LeavePCs
  <2> QED BY Zenon, <1>1, <1>3, <1>4, <2>1, <2>2, <2>3, JoinMoves DEF LeavePCs
<1>5. ASSUME NEW pc, Goto(t, pc)
      PROVE  \E r : /\ th' = [th EXCEPT ![t] = r] /\ r.pc = pc
                    /\ r.g = th[t].g /\ r.kind = th[t].kind
  <2> DEFINE r == [th[t] EXCEPT !.pc = pc]
  <2>1. r.pc = pc /\ r.g = th[t].g /\ r.kind = th[t].kind
    BY Zenon, <1>1 DEF Thread
  <2>2. th' = [th EXCEPT ![t] = r]
    BY <1>5, Zenon DEF Goto
  <2> HIDE DEF r
  <2> QED BY Zenon, <2>1, <2>2
<1>6. ASSUME NEW code, Joined(t, code), th[t].pc \in JoinPCs PROVE JInv'
  <2> DEFINE r == [th[t] EXCEPT !.pc = "joined", !.r = code]
  <2>1. r.pc = "joined" /\ r.g = th[t].g /\ r.kind = th[t].kind
    BY Zenon, <1>1 DEF Thread
  <2>2. th' = [th EXCEPT ![t] = r]
    BY <1>6, Zenon DEF Joined
  <2> HIDE DEF r
  <2> QED BY Zenon, <1>4, <1>6, <2>1, <2>2
<1>7. CASE JoinFind(t)
  BY <1>4, <1>5, <1>6, <1>7 DEF JoinFind, JoinPCs
<1>8. CASE GroupInitNoType(t) \/ JoinEnd(t)
  BY Zenon, <1>6, <1>8 DEF GroupInitNoType, JoinEnd, JoinPCs
<1>13. CASE MakeReplCtx(t)
  <2> DEFINE r == [th[t] EXCEPT !.pc = "end"]
  <2>1. r.pc = "end" /\ r.g = th[t].g /\ r.s = th[t].s /\ r.kind = th[t].kind
    BY Zenon, <1>1 DEF Thread
  <2>2. th' = [th EXCEPT ![t] = r]
    BY <1>13, Zenon DEF MakeReplCtx, Goto
  <2>3. th[t].pc = "ctx" /\ raft_servers[th[t].g] = th[t].s /\ mgr = "up"
    BY Zenon, <1>3, <1>13 DEF MakeReplCtx, JInv, Unregistered
  <2>4. r.kind \in {"create", "join"} => t \in AppThreads
    BY Zenon, <2>1 DEF JInv, CallerInv
  <2> HIDE DEF r
  <2> QED BY Zenon, <1>1, <2>1, <2>2, <2>3, <2>4, JoinMoves DEF JoinPCs, LeavePCs
<1>9. CASE GroupInit(t)
  <2>1. PICK m : th' = [th EXCEPT ![t].pc = "construct", ![t].m = m]
    BY Zenon, <1>9 DEF GroupInit
  <2> DEFINE r == [th[t] EXCEPT !.pc = "construct", !.m = m]
  <2>2. r.pc = "construct" /\ r.g = th[t].g /\ r.kind = th[t].kind
    BY Zenon, <1>1 DEF Thread
  <2>3. th' = [th EXCEPT ![t] = r]
    BY <2>1, Zenon
  <2>4. th[t].pc \in JoinPCs /\ raft_servers[th[t].g] = None /\ mgr = "up"
    BY Zenon, <1>3, <1>9 DEF GroupInit, JoinPCs, JInv, Unregistered
  <2> HIDE DEF r
  <2> QED BY Zenon, <1>4, <2>2, <2>3, <2>4
<1>10. CASE CreateJoined(t)
  BY <1>2, <1>4, <1>5, <1>10 DEF CreateJoined
<1>11. CASE JoinGroupJoined(t) \/ StepJoined(t) \/ WaitLeader(t) \/ LeaveDestroy(t)
  BY Zenon, <1>2, <1>11 DEF JoinGroupJoined, StepJoined, WaitLeader, LeaveDestroy
<1>12. CASE LeavePart(t)
  <2>1. CASE raft_servers[th[t].g] = None
    BY Zenon, <1>4, <1>5, <1>12, <2>1 DEF LeavePart, LeavePCs
  <2>2. CASE raft_servers[th[t].g] # None
    <3> DEFINE r == [th[t] EXCEPT !.pc = "stop", !.s = raft_servers[th[t].g]]
    <3>1. r.pc = "stop" /\ r.g = th[t].g /\ r.kind = th[t].kind
      BY Zenon, <1>1 DEF Thread
    <3>2. th' = [th EXCEPT ![t] = r]
      BY <1>12, <2>2, Zenon DEF LeavePart
    <3> HIDE DEF r
    <3> QED BY Zenon, <1>4, <1>12, <3>1, <3>2 DEF LeavePart, LeavePCs
  <2> QED BY Zenon, <2>1, <2>2
<1> QED BY Zenon, <1>7, <1>8, <1>9, <1>10, <1>11, <1>12, <1>13
\* The new server is about to be registered by the one joiner of its group.
LEMMA ConstructOne ==
  ASSUME AInv, JInv, NEW t \in Threads, Construct(t)
  PROVE  JInv'
<1>1. PICK s \in Servers :
        /\ srv[s].st = "free"
        /\ srv' = [srv EXCEPT ![s] = [st |-> "running", g |-> th[t].g, m |-> th[t].m]]
        /\ th' = [th EXCEPT ![t].pc = "emplace", ![t].s = s]
  BY Zenon DEF Construct
<1>2. /\ UNCHANGED <<mgr, raft_servers>> /\ th[t].pc = "construct"
      /\ th \in [Threads -> Thread] /\ th[t] \in Thread /\ srv \in [Servers -> Server]
  BY Zenon DEF Construct, AInv, TypeOK
<1>3. /\ \A u \in Threads \ {t} : th'[u] = th[u]
      /\ th'[t].pc = "emplace" /\ th'[t].s = s
      /\ th'[t].g = th[t].g /\ th'[t].kind = th[t].kind
  BY Zenon, <1>1, <1>2 DEF Thread
<1>4. OneJoiner'
  BY <1>2, <1>3 DEF JInv, OneJoiner, JoinPCs
<1>5. Unregistered'
  BY Zenon, <1>2, <1>3 DEF JInv, Unregistered
<1>6. Known'
  <2>1. \A z \in Servers : z # s => srv'[z] = srv[z]
    BY Zenon, <1>1, <1>2
  <2>2. \A u \in Threads : th[u].pc = "emplace" => th'[u] = th[u]
    BY Zenon, <1>2, <1>3
  <2> QED BY <1>2, <1>3, <2>1, <2>2 DEF JInv, Known, Up
<1>7. CallerInv'
  BY Zenon, <1>2, <1>3 DEF JInv, CallerInv, LeavePCs
<1>8. MgrInv'
  BY Zenon, <1>2, <1>3 DEF JInv, MgrInv, HoldsManager
<1> QED BY Zenon, <1>4, <1>5, <1>6, <1>7, <1>8 DEF JInv

\* try_emplace: the one joiner always wins.
LEMMA TryEmplaceOne ==
  ASSUME AInv, JInv, NEW t \in Threads, TryEmplace(t)
  PROVE  JInv'
<1>1. /\ UNCHANGED <<mgr, srv>> /\ th[t].pc = "emplace" /\ th[t].g \in Groups
      /\ th \in [Threads -> Thread] /\ th[t] \in Thread
      /\ raft_servers[th[t].g] = None /\ mgr = "up"
      /\ srv[th[t].s].g = th[t].g
  <2>1. UNCHANGED <<mgr, srv>> /\ th[t].pc = "emplace"
    BY Zenon DEF TryEmplace
  <2>2. /\ th \in [Threads -> Thread] /\ th[t] \in Thread
        /\ th[t].g \in Groups /\ Own(t)
    BY Zenon, <2>1 DEF AInv, TypeOK, LocalInv
  <2>3. raft_servers[th[t].g] = None /\ mgr = "up"
    BY Zenon, <2>1 DEF JInv, Unregistered, MgrInv, HoldsManager
  <2> QED BY <2>1, <2>2, <2>3 DEF Own
<1>2. /\ \A u \in Threads \ {t} : th'[u] = th[u]
      /\ th'[t].pc \in {"ctx", "end"} /\ th'[t].s = th[t].s
      /\ th'[t].g = th[t].g /\ th'[t].kind = th[t].kind
  BY <1>1 DEF TryEmplace, Goto, Thread
<1>3. \A g \in Groups :
        raft_servers'[g] = IF g = th[t].g THEN th[t].s ELSE raft_servers[g]
  BY Zenon, <1>1 DEF TryEmplace, AInv, TypeOK
<1>4. OneJoiner'
  BY <1>1, <1>2 DEF JInv, OneJoiner, JoinPCs
<1>5. Unregistered'
  <2>1. ASSUME NEW u \in Threads, th'[u].pc \in {"init", "construct", "emplace"}
        PROVE  raft_servers'[th'[u].g] = None
    <3>1. u # t /\ th'[u] = th[u] /\ th[u].g \in Groups
      BY Zenon, <1>2, <2>1 DEF AInv, LocalInv
    <3>2. th[u].g # th[t].g
      BY Zenon, <1>1, <2>1, <3>1 DEF JInv, OneJoiner, JoinPCs
    <3> QED BY Zenon, <1>3, <2>1, <3>1, <3>2 DEF JInv, Unregistered
  <2>2. ASSUME NEW u \in Threads, th'[u].pc \in {"ctx", "end"}, u # t
        PROVE  raft_servers'[th'[u].g] = th'[u].s
    <3>1. th'[u] = th[u] /\ th[u].g \in Groups
      BY Zenon, <1>2, <2>2 DEF AInv, LocalInv
    <3>2. th[u].g # th[t].g
      BY Zenon, <1>1, <2>2, <3>1 DEF JInv, OneJoiner, JoinPCs
    <3> QED BY Zenon, <1>3, <2>2, <3>1, <3>2 DEF JInv, Unregistered
  <2> QED BY Zenon, <1>1, <1>2, <1>3, <2>1, <2>2 DEF JInv, Unregistered
<1>6. Known'
  <2>1. ASSUME NEW z \in Servers, Up(z)
        PROVE  \/ raft_servers'[srv[z].g] = z
               \/ \E u \in Threads : th'[u].pc = "emplace" /\ th'[u].s = z
    <3>1. srv[z].g \in Groups
      BY <2>1 DEF AInv, MadeInv, Up
    <3>2. CASE raft_servers[srv[z].g] = z
      BY Zenon, <1>1, <1>3, <3>1, <3>2, NoneAssumption
    <3>3. CASE z = th[t].s
      BY Zenon, <1>1, <1>3, <3>1, <3>3
    <3>4. CASE \E u \in Threads \ {t} : th[u].pc = "emplace" /\ th[u].s = z
      BY Zenon, <1>2, <3>4
    <3> QED BY Zenon, <2>1, <3>2, <3>3, <3>4 DEF JInv, Known
  <2> QED BY Zenon, <1>1, <2>1 DEF Known, Up
<1>7. CallerInv'
  BY Zenon, <1>1, <1>2 DEF JInv, CallerInv, LeavePCs
<1>8. MgrInv'
  BY Zenon, <1>1 DEF MgrInv
<1> QED BY Zenon, <1>4, <1>5, <1>6, <1>7, <1>8 DEF JInv

\* The winner returns although its server was shut down: only the entry of
\* this server goes.
LEMMA JoinEndOne ==
  ASSUME AInv, JInv, NEW t \in Threads, JoinEnd(t), ~Up(th[t].s)
  PROVE  JInv'
<1>1. /\ UNCHANGED <<mgr, srv>> /\ th[t].pc = "end" /\ th[t].g \in Groups
      /\ th \in [Threads -> Thread] /\ th[t] \in Thread
      /\ raft_servers[th[t].g] = th[t].s /\ mgr = "up"
      /\ raft_servers' = [raft_servers EXCEPT ![th[t].g] = None]
  BY Zenon DEF JoinEnd, shutdown_for, AInv, TypeOK, LocalInv, JInv, Unregistered, MgrInv,
     HoldsManager
<1>2. /\ \A u \in Threads \ {t} : th'[u] = th[u]
      /\ th'[t].pc = "joined" /\ th'[t].g = th[t].g /\ th'[t].kind = th[t].kind
  BY Zenon, <1>1 DEF JoinEnd, Joined, Thread
<1>3. \A g \in Groups : raft_servers'[g] = IF g = th[t].g THEN None ELSE raft_servers[g]
  BY Zenon, <1>1 DEF AInv, TypeOK
<1>4. OneJoiner'
  BY <1>1, <1>2 DEF JInv, OneJoiner, JoinPCs
<1>5. Unregistered'
  <2>1. ASSUME NEW u \in Threads, u # t,
               th[u].pc \in {"init", "construct", "emplace", "ctx", "end"}
        PROVE  raft_servers'[th[u].g] = raft_servers[th[u].g]
    <3>1. th[u].g \in Groups
      BY Zenon, <2>1 DEF AInv, LocalInv
    <3>2. th[u].g # th[t].g
      BY Zenon, <1>1, <2>1 DEF JInv, OneJoiner, JoinPCs
    <3> QED BY Zenon, <1>3, <3>1, <3>2
  <2> QED BY <1>2, <2>1 DEF JInv, Unregistered
<1>6. Known'
  <2>1. ASSUME NEW z \in Servers, Up(z)
        PROVE  \/ raft_servers'[srv[z].g] = z
               \/ \E u \in Threads : th'[u].pc = "emplace" /\ th'[u].s = z
    <3>1. srv[z].g \in Groups
      BY <2>1 DEF AInv, MadeInv, Up
    <3>2. CASE raft_servers[srv[z].g] = z
      <4>1. srv[z].g # th[t].g
        BY Zenon, <1>1, <2>1, <3>2
      <4> QED BY Zenon, <1>3, <3>1, <3>2, <4>1
    <3>3. CASE \E u \in Threads : th[u].pc = "emplace" /\ th[u].s = z
      <4>1. PICK u \in Threads : th[u].pc = "emplace" /\ th[u].s = z
        BY Zenon, <3>3
      <4>2. u # t
        BY <1>1, <4>1
      <4> QED BY Zenon, <1>2, <4>1, <4>2
    <3> QED BY Zenon, <2>1, <3>2, <3>3 DEF JInv, Known
  <2> QED BY Zenon, <1>1, <2>1 DEF Known, Up
<1>7. CallerInv'
  BY <1>1, <1>2 DEF JInv, CallerInv, LeavePCs
<1>8. MgrInv'
  BY Zenon, <1>1 DEF MgrInv
<1> QED BY Zenon, <1>4, <1>5, <1>6, <1>7, <1>8 DEF JInv

\* A server that is shut down was registered, and leaves the map with that or
\* with the return of its joiner.
LEMMA StopOne ==
  ASSUME AInv, JInv,
         \/ \E t \in Threads : LeaveStop(t) \/ LeaveShutdown(t)
         \/ \E g \in Groups : ServiceStop(g) \/ ServiceShutdown(g)
         \/ \E s \in Servers : Reclaim(s)
  PROVE  JInv'
<1>1. /\ mgr' = mgr
      /\ \A u \in Threads : \/ th'[u] = th[u]
                            \/ /\ th[u].pc \in {"stop", "shutdown"}
                               /\ th'[u].pc \in {"shutdown", "destroy"}
                               /\ th'[u].g = th[u].g /\ th'[u].kind = th[u].kind
  <2>1. th \in [Threads -> Thread]
    BY Zenon DEF AInv, TypeOK
  <2>2. ASSUME NEW t \in Threads, LeaveStop(t) \/ LeaveShutdown(t)
        PROVE  /\ \A u \in Threads \ {t} : th'[u] = th[u]
               /\ th[t].pc \in {"stop", "shutdown"} /\ th'[t].pc \in {"shutdown", "destroy"}
               /\ th'[t].g = th[t].g /\ th'[t].kind = th[t].kind
    BY Zenon, <2>1, <2>2 DEF LeaveStop, LeaveShutdown, Goto, Thread
  <2>3. CASE \E t \in Threads : LeaveStop(t) \/ LeaveShutdown(t)
    BY Zenon, <2>2, <2>3 DEF LeaveStop, LeaveShutdown
  <2>4. CASE ~ \E t \in Threads : LeaveStop(t) \/ LeaveShutdown(t)
    BY Zenon, <2>4 DEF ServiceStop, ServiceShutdown, Reclaim
  <2> QED BY Zenon, <2>3, <2>4
<1> DEFINE
      Untouched == /\ \A z \in Servers : Up(z)' => Up(z) /\ srv'[z].g = srv[z].g
                   /\ raft_servers' = raft_servers
      Stops(s) == /\ Up(s) /\ raft_servers[srv[s].g] = s /\ srv[s].g \in Groups
                  /\ ~Up(s)' /\ ~JoinHolds(s) /\ \A z \in Servers \ {s} : srv'[z] = srv[z]
                  /\ raft_servers' = [raft_servers EXCEPT ![srv[s].g] = None]
<1>2. Untouched \/ \E s \in Servers : Stops(s)
  <2>1. srv \in [Servers -> Server] /\ \A z \in Servers : srv[z] \in Server
    BY Zenon DEF AInv, TypeOK
  <2>2. ASSUME NEW s \in Servers, NEW st, srv' = [srv EXCEPT ![s].st = st]
        PROVE  /\ \A z \in Servers \ {s} : srv'[z] = srv[z]
               /\ srv'[s].st = st /\ srv'[s].g = srv[s].g
    BY Zenon, <2>1, <2>2 DEF Server
  <2>3. ASSUME NEW s \in Servers, StopServer(s), UNCHANGED raft_servers PROVE Untouched
    <3>1. CASE srv[s].st = "running"
      BY Zenon, <2>2, <2>3, <3>1 DEF StopServer, Up
    <3>2. CASE srv[s].st # "running"
      BY Zenon, <2>3, <3>2 DEF StopServer, Up
    <3> QED BY Zenon, <3>1, <3>2
  <2>4. ASSUME NEW s \in Servers, ShutdownServer(s),
               Up(s) => raft_servers[srv[s].g] = s /\ srv[s].g \in Groups
        PROVE  Untouched \/ Stops(s)
    <3>1. CASE ~Up(s)
      BY Zenon, <2>4, <3>1 DEF ShutdownServer, Up
    <3>2. CASE Up(s)
      <4>1. srv' = [srv EXCEPT ![s].st = "shutdown"]
        BY Zenon, <2>4, <3>2 DEF ShutdownServer
      <4>2. /\ \A z \in Servers \ {s} : srv'[z] = srv[z]
            /\ srv'[s].st = "shutdown" /\ srv'[s].g = srv[s].g
        BY Zenon, <2>2, <4>1
      <4>3. ~Up(s)'
        BY <4>2 DEF Up
      <4>4. CASE JoinHolds(s)
        BY Zenon, <2>4, <4>2, <4>3, <4>4 DEF ShutdownServer, Up
      <4>5. CASE ~JoinHolds(s)
        BY Zenon, <2>4, <3>2, <4>2, <4>3, <4>5 DEF ShutdownServer, shutdown_for
      <4> QED BY Zenon, <4>4, <4>5
    <3> QED BY Zenon, <3>1, <3>2
  <2>5. ASSUME NEW t \in Threads, LeaveStop(t) \/ LeaveShutdown(t)
        PROVE  Untouched \/ \E z \in Servers : Stops(z)
    <3>1. /\ th[t].s \in Servers /\ th[t].pc \in {"stop", "shutdown"}
          /\ \/ StopServer(th[t].s) /\ UNCHANGED raft_servers
             \/ ShutdownServer(th[t].s)
      BY Zenon, <2>5 DEF LeaveStop, LeaveShutdown, AInv, LocalInv
    <3>2. \A u \in Threads : th[u].pc = "emplace" => th[u].s # th[t].s
      BY Zenon, <3>1 DEF AInv, LocalInv, Own
    <3>3. Up(th[t].s) => srv[th[t].s].g \in Groups
      BY <3>1 DEF AInv, MadeInv, Up
    <3>4. Up(th[t].s) => raft_servers[srv[th[t].s].g] = th[t].s
      BY Zenon, <3>1, <3>2 DEF JInv, Known
    <3> QED BY Zenon, <2>3, <2>4, <3>1, <3>3, <3>4
  <2>6. ASSUME NEW g \in Groups, ServiceStop(g) \/ ServiceShutdown(g)
        PROVE  Untouched \/ \E z \in Servers : Stops(z)
    <3>1. /\ raft_servers[g] \in Servers /\ srv[raft_servers[g]].g = g
          /\ \/ StopServer(raft_servers[g]) /\ UNCHANGED raft_servers
             \/ ShutdownServer(raft_servers[g])
      BY Zenon, <2>6, Registered DEF ServiceStop, ServiceShutdown
    <3> QED BY Zenon, <2>3, <2>4, <3>1
  <2>7. ASSUME NEW s \in Servers, Reclaim(s) PROVE Untouched
    <3>1. Up(s) => srv[s].g \in Groups
      BY DEF AInv, MadeInv, Up
    <3>2. ~Up(s)
      BY Zenon, <2>7, <3>1 DEF Reclaim, Held, JoinHolds, JInv, Known
    <3>3. srv' = [srv EXCEPT ![s].st = "destroyed"] /\ raft_servers' = raft_servers
      BY Zenon, <2>7, <3>2 DEF Reclaim, Destruct
    <3>4. /\ \A z \in Servers \ {s} : srv'[z] = srv[z]
          /\ srv'[s].st = "destroyed"
      BY Zenon, <2>2, <3>3
    <3>5. ~Up(s)'
      BY <3>4 DEF Up
    <3> QED BY Zenon, <3>3, <3>4, <3>5 DEF Up
  <2> HIDE DEF Untouched, Stops
  <2> QED BY Zenon, <2>5, <2>6, <2>7
<1>3. OneJoiner' /\ CallerInv'
  BY <1>1 DEF JInv, OneJoiner, CallerInv, JoinPCs, LeavePCs
<1>4. \A g \in Groups : raft_servers'[g] \in {None, raft_servers[g]}
  BY Zenon, <1>2 DEF AInv, TypeOK
<1>5. Unregistered'
  <2>1. \A u \in Threads :
          th'[u].pc \in {"init", "construct", "emplace", "unwind", "ctx", "end"}
            => th'[u] = th[u] /\ th[u].g \in Groups
    BY Zenon, <1>1 DEF AInv, LocalInv
  <2>2. ASSUME NEW u \in Threads, th[u].pc \in {"ctx", "end"}, th[u].g \in Groups
        PROVE  raft_servers'[th[u].g] = raft_servers[th[u].g]
    <3>1. raft_servers[th[u].g] = th[u].s
      BY Zenon, <2>2 DEF JInv, Unregistered
    <3>2. ASSUME NEW s \in Servers, Stops(s) PROVE raft_servers'[th[u].g] = raft_servers[th[u].g]
      <4>1. th[u].g # srv[s].g
        BY Zenon, <2>2, <3>1, <3>2 DEF JoinHolds
      <4>2. raft_servers' = [raft_servers EXCEPT ![srv[s].g] = None] /\ srv[s].g \in Groups
        BY Zenon, <3>2
      <4> QED BY Zenon, <2>2, <4>1, <4>2 DEF AInv, TypeOK
    <3> QED BY Zenon, <1>2, <3>2
  <2>3. \A u \in Threads :
          /\ th[u].pc # "unwind"
          /\ th[u].pc \in {"init", "construct", "emplace"} => raft_servers[th[u].g] = None
          /\ th[u].pc \in {"ctx", "end"} => raft_servers[th[u].g] = th[u].s
    BY Zenon DEF JInv, Unregistered
  <2>4. ASSUME NEW u \in Threads
        PROVE  /\ th'[u].pc # "unwind"
               /\ th'[u].pc \in {"init", "construct", "emplace"} => raft_servers'[th'[u].g] = None
               /\ th'[u].pc \in {"ctx", "end"} => raft_servers'[th'[u].g] = th'[u].s
    <3>1. CASE th'[u].pc \in {"init", "construct", "emplace", "unwind"}
      <4>1. th'[u] = th[u] /\ th[u].g \in Groups
        BY Zenon, <2>1, <3>1
      <4> QED BY <1>4, <2>3, <3>1, <4>1
    <3>2. CASE th'[u].pc \in {"ctx", "end"}
      <4>1. th'[u] = th[u] /\ th[u].g \in Groups
        BY Zenon, <2>1, <3>2
      <4> QED BY <2>2, <2>3, <3>2, <4>1
    <3> QED BY Zenon, <3>1, <3>2
  <2> QED BY Zenon, <2>4 DEF Unregistered
<1>6. Known'
  <2>1. ASSUME NEW z \in Servers, Up(z)'
        PROVE  /\ Up(z) /\ srv'[z].g = srv[z].g
               /\ raft_servers[srv[z].g] = z => raft_servers'[srv[z].g] = z
    <3>1. CASE Untouched
      BY Zenon, <2>1, <3>1
    <3>2. CASE \E s \in Servers : Stops(s)
      <4>1. PICK s \in Servers : Stops(s)
        BY Zenon, <3>2
      <4>2. z # s /\ srv'[z] = srv[z]
        BY Zenon, <2>1, <4>1
      <4>3. Up(z)
        BY Zenon, <2>1, <4>2 DEF Up
      <4>4. srv[z].g \in Groups
        BY <4>3 DEF AInv, MadeInv, Up
      <4> QED BY Zenon, <4>1, <4>2, <4>3, <4>4 DEF AInv, TypeOK
    <3> QED BY Zenon, <1>2, <3>1, <3>2
  <2>2. \A u \in Threads : th[u].pc = "emplace" => th'[u] = th[u]
    BY Zenon, <1>1
  <2> QED BY <2>1, <2>2 DEF JInv, Known
<1>7. MgrInv'
  BY Zenon, <1>1, <1>4 DEF JInv, MgrInv, HoldsManager
<1> QED BY Zenon, <1>3, <1>5, <1>6, <1>7 DEF JInv

\* Raft events change nothing of this; ~ManagerImpl goes on only when nobody
\* holds the manager and then when nothing is registered.
LEMMA OtherOne ==
  ASSUME AInv, JInv,
         \/ \E s \in Servers : \/ BecomeLeader(s) \/ BecomeFollower(s)
                               \/ RemovedFromCluster(s) \/ ExitGroup(s)
                               \/ \E leader \in BOOLEAN : JoinedCluster(s, leader)
         \/ ManagerDestroy \/ GrpcShutdown \/ UNCHANGED vars
  PROVE  JInv'
<1>1. UNCHANGED <<raft_servers, srv, th>>
  BY Zenon DEF BecomeLeader, BecomeFollower, RemovedFromCluster, ExitGroup, JoinedCluster,
     ManagerDestroy, GrpcShutdown, vars
<1>2. MgrInv'
  BY Zenon, <1>1 DEF BecomeLeader, BecomeFollower, RemovedFromCluster, ExitGroup,
     JoinedCluster, ManagerDestroy, GrpcShutdown, vars, JInv, MgrInv, HoldsManager
<1> QED BY Zenon, <1>1, <1>2 DEF JInv, OneJoiner, Unregistered, Known, CallerInv, Up

\* Every step preserves it, while no two joins of one group have overlapped.
LEMMA NextOne ==
  ASSUME "join/join" \notin overlap', AInv, JInv, [Next]_vars
  PROVE  JInv'
<1>1. ASSUME NEW t \in Threads, ThreadStep(t) PROVE JInv'
  <2>1. ~ Unwind(t)
    BY Zenon DEF JInv, Unregistered, Unwind
  <2> QED BY Zenon, <1>1, <2>1, MoveOne, ConstructOne, TryEmplaceOne, JoinEndOne, StopOne
             DEF ThreadStep, JoinStep, LeaveStep
<1>2. ASSUME NEW t \in AppThreads, NEW g \in Groups,
             CreateGroup(t, g) \/ LeaveGroup(t, g) \/ \E m \in Smgrs : JoinGroup(t, g, m)
      PROVE  JInv'
  BY Zenon, <1>2, BeginOne DEF Threads
<1>3. ASSUME NEW t \in GrpcThreads, NEW g \in Groups, RaftStepJoin(t, g) PROVE JInv'
  BY Zenon, <1>3, BeginOne DEF Threads
<1> QED BY Zenon, <1>1, <1>2, <1>3, StopOne, OtherOne DEF Next, Terminated

\* What overlapped is not forgotten.
LEMMA HistoryKept == AInv /\ [Next]_vars => overlap \subseteq overlap'
<1> SUFFICES ASSUME AInv, [Next]_vars PROVE overlap \subseteq overlap'
  OBVIOUS
<1>1. ASSUME NEW t \in Threads, NEW g \in Groups,
             \/ CreateGroup(t, g) \/ LeaveGroup(t, g) \/ RaftStepJoin(t, g)
             \/ \E m \in Smgrs : JoinGroup(t, g, m)
      PROVE  overlap \subseteq overlap'
  BY Zenon, <1>1, OverlapGrows DEF CreateGroup, LeaveGroup, RaftStepJoin, JoinGroup, AInv
<1>2. ASSUME NEW t \in Threads, ThreadStep(t) PROVE overlap' = overlap
  BY Zenon, <1>2
     DEF ThreadStep, JoinStep, LeaveStep, JoinFind, GroupInitNoType, GroupInit, Construct,
     TryEmplace, MakeReplCtx, JoinEnd, Unwind, CreateJoined, JoinGroupJoined, StepJoined,
     WaitLeader, LeavePart, LeaveStop, LeaveShutdown, LeaveDestroy, history
<1>3. ASSUME NEW s \in Servers,
             \/ Reclaim(s) \/ BecomeLeader(s) \/ BecomeFollower(s) \/ RemovedFromCluster(s)
             \/ ExitGroup(s) \/ \E leader \in BOOLEAN : JoinedCluster(s, leader)
      PROVE  overlap' = overlap
  BY Zenon, <1>3 DEF Reclaim, BecomeLeader, BecomeFollower, RemovedFromCluster, ExitGroup,
     JoinedCluster, history
<1>4. ASSUME \/ ManagerDestroy \/ GrpcShutdown \/ UNCHANGED vars
             \/ \E g \in Groups : ServiceStop(g) \/ ServiceShutdown(g)
      PROVE  overlap' = overlap
  BY Zenon, <1>4 DEF ManagerDestroy, GrpcShutdown, ServiceStop, ServiceShutdown, vars, history
<1> QED BY Zenon, <1>1, <1>2, <1>3, <1>4 DEF Next, Terminated, Threads

\* It holds for as long as no two joins of one group have overlapped.
OneJoinInv == "join/join" \notin overlap => JInv

\* Until two calls of joinRaftGroup for a group overlap, a server that is up is
\* registered or its joiner is about to register it, whatever leaves it.
THEOREM OneJoinAtATime == Spec => []OneJoinInv
<1>1. Init => OneJoinInv
  BY DEF Init, OneJoinInv, JInv, OneJoiner, Unregistered, Known, CallerInv, MgrInv, JoinPCs,
     LeavePCs, Up
<1>2. AInv /\ OneJoinInv /\ [Next]_vars => OneJoinInv'
  BY Zenon, NextOne, HistoryKept DEF OneJoinInv
<1> QED BY <1>1, <1>2, AnyOverlap, PTL DEF Spec

\* Two servers on one state manager have one group; there one is registered,
\* or a single thread is about to register one.
LEMMA OneServerImplied == AInv /\ OneJoinInv => OneServerPerStorage
<1> SUFFICES ASSUME AInv, JInv, NEW s1 \in Servers, NEW s2 \in Servers,
                    Up(s1), Up(s2), srv[s1].m = srv[s2].m
             PROVE  s1 = s2
  BY Zenon DEF OneServerPerStorage, OneJoinInv
<1>1. srv[s1].g = srv[s2].g /\ srv[s1].g \in Groups
  BY DEF AInv, MadeInv, StoreInv, Uses, Up
<1>2. ASSUME NEW s \in Servers, NEW t \in Threads, th[t].pc = "emplace", th[t].s = s
      PROVE  srv[s].g = th[t].g /\ raft_servers[srv[s].g] = None
  <2>1. Own(t) /\ raft_servers[th[t].g] = None
    BY Zenon, <1>2 DEF AInv, LocalInv, JInv, Unregistered
  <2> QED BY <1>2, <2>1 DEF Own
<1>3. CASE raft_servers[srv[s1].g] = s1
  BY <1>1, <1>2, <1>3, NoneAssumption DEF JInv, Known
<1>4. CASE \E t \in Threads : th[t].pc = "emplace" /\ th[t].s = s1
  <2>1. PICK t \in Threads : th[t].pc = "emplace" /\ th[t].s = s1
    BY Zenon, <1>4
  <2>2. PICK u \in Threads : th[u].pc = "emplace" /\ th[u].s = s2
    BY <1>1, <1>2, <2>1, NoneAssumption DEF JInv, Known
  <2>3. th[t].g = th[u].g
    BY Zenon, <1>1, <1>2, <2>1, <2>2
  <2> QED BY Zenon, <2>1, <2>2, <2>3 DEF JInv, OneJoiner, JoinPCs
<1> QED BY Zenon, <1>3, <1>4 DEF JInv, Known

\* No two raft_servers are up on one state manager, that is on one log store,
\* as long as no two joins of a group have overlapped; leaves may overlap them.
THEOREM OneServer == Spec => []OneServerPerStorage
BY OneServerImplied, AnyOverlap, OneJoinAtATime, PTL

\* When ~ManagerImpl is done no raft_server runs, as long as no two joins of a
\* group have overlapped; leaves may overlap them.
THEOREM ShutdownStopsServers == Spec => []NoServerOutlivesManager
<1>1. AInv /\ OneJoinInv => NoServerOutlivesManager
  <2> SUFFICES ASSUME AInv, JInv, mgr = "down", NEW s \in Servers, Up(s) PROVE FALSE
    BY Zenon DEF OneJoinInv, NoServerOutlivesManager
  <2>1. srv[s].g \in Groups
    BY DEF AInv, MadeInv, Up
  <2> QED BY <2>1, NoneAssumption DEF JInv, Known, MgrInv, HoldsManager
<1> QED BY <1>1, AnyOverlap, OneJoinAtATime, PTL
===============================================================================
