------------------------- MODULE GroupCommandsProofs -------------------------
(***************************************************************************)
(* That the leader flag, the callers that wait for it and the raft event   *)
(* handler agree, for any number of callers and members; and that          *)
(* repl_service_ctx answers truly although it reads the role, the leader,  *)
(* the peers and the config at different moments, with any number of       *)
(* changes between the reads.                                              *)
(***************************************************************************)
EXTENDS ReplContext, TLAPS

\* What each event says of the flag while its handler is under way.
EventInv ==
  /\ event # Quiet => event.type \in Types /\ event.pc \in {"run", "notify"}
  /\ event # Quiet => registered
  /\ event.type = "BecomeLeader" => leader = Self
  /\ event.type = "BecomeFollower" => leader # Self
  /\ event.type \in {"BecomeFollower", "JoinedCluster"} => event.pc = "run"
  /\ event.pc = "notify" => FlagTrue
  /\ (registered /\ event.type \in {"none", "NewConfig", "JoinedCluster"}) => FlagTrue

\* A caller between its look at the flag and its decision has the lock, so
\* what it saw still holds.
LockInv(t) ==
  /\ cmd[t].pc \in {"locked", "read"} => lock = t
  /\ (cmd[t].pc = "read" /\ cmd[t].kind \in LeaderWaits)
       => cmd[t].saw = is_leader

\* No caller sleeps on a flag that is set.
WakeInv(t) ==
  (cmd[t].pc = "blocked" /\ cmd[t].kind \in LeaderWaits /\ is_leader)
    => event = [type |-> "BecomeLeader", pc |-> "notify"]

\* Who has _manager_lock is inside wait_for's predicate: Read and Decide, the
\* steps from there, wait for nothing, and least of all for NuRaft's lock.
HolderInside == lock # None => cmd[lock].pc \in {"locked", "read"}

CommandInv ==
  /\ TypeOK
  /\ EventInv
  /\ HolderInside
  /\ \A t \in Callers : LockInv(t) /\ WakeInv(t)

-----------------------------------------------------------------------------

\* A caller without a call has its type.
LEMMA IdleType == Idle \in Command
BY Zenon DEF Idle, Command

\* A joined group without calls satisfies the invariant.
LEMMA InitCommand == Init => CommandInv
<1> SUFFICES ASSUME Init PROVE CommandInv
  OBVIOUS
<1>1. TypeOK
  BY Zenon, IdleType DEF Init, TypeOK, Servers, Quiet, Idle
<1>2. EventInv
  BY Zenon, ServersAssumption DEF Init, EventInv, FlagTrue, Quiet, Types
<1>3. \A t \in Callers : LockInv(t) /\ WakeInv(t)
  BY Zenon, ServersAssumption DEF Init, LockInv, WakeInv, Idle
<1> QED BY Zenon, <1>1, <1>2, <1>3 DEF CommandInv, HolderInside, Init

\* A step of a caller that neither looks at the predicate nor goes to sleep.
LEMMA CallerStep ==
  ASSUME CommandInv, NEW t \in Callers, NEW c \in Command, Update(t, c),
         cmd[t].pc \notin {"locked", "read"},
         c.pc \notin {"locked", "read", "blocked"},
         UNCHANGED <<calls, raft, registered, flag, lock>>
  PROVE  CommandInv'
<1>1. \A u \in Callers : cmd'[u] = IF u = t THEN c ELSE cmd[u]
  BY Zenon DEF Update, CommandInv, TypeOK
<1>2. TypeOK'
  BY Zenon, <1>1 DEF Update, CommandInv, TypeOK, raft, flag
<1>3. EventInv'
  BY Zenon DEF CommandInv, EventInv, FlagTrue, raft, flag, Quiet
<1>4. \A u \in Callers : LockInv(u)' /\ WakeInv(u)'
  BY Zenon, <1>1 DEF CommandInv, LockInv, WakeInv, raft, flag
<1>5. HolderInside'
  BY Zenon, <1>1 DEF CommandInv, HolderInside, TypeOK
<1> QED BY Zenon, <1>2, <1>3, <1>4, <1>5 DEF CommandInv

\* Moving a caller on changes nothing else of its call.
LEMMA GotoStep ==
  ASSUME CommandInv, NEW t \in Callers, NEW pc \in {"ask", "again", "wake"},
         cmd[t].pc \notin {"locked", "read"},
         Goto(t, pc), UNCHANGED <<calls, raft, registered, flag, lock>>
  PROVE  CommandInv'
<1>1. cmd[t] \in Command
  BY Zenon DEF CommandInv, TypeOK
<1>2. [cmd[t] EXCEPT !.pc = pc] \in Command /\ [cmd[t] EXCEPT !.pc = pc].pc = pc
  BY Zenon, <1>1 DEF Command
<1> QED BY Zenon, <1>2, CallerStep DEF Goto

\* A caller that returns is idle and has a result code.
LEMMA ReturnStep ==
  ASSUME CommandInv, NEW t \in Callers, NEW code \in Codes, Return(t, code),
         cmd[t].pc \notin {"locked", "read"},
         UNCHANGED <<calls, raft, registered, flag, lock>>
  PROVE  CommandInv'
<1> DEFINE c == [Idle EXCEPT !.kind = cmd[t].kind, !.val = code]
<1>1. c \in Command /\ c.pc = "idle" /\ c.val = code
  BY Zenon DEF CommandInv, TypeOK, Command, Idle
<1> QED BY Zenon, <1>1, CallerStep DEF Return
-----------------------------------------------------------------------------

\* Elections, joins and config changes inside NuRaft keep the invariant.
LEMMA RaftSteps == CommandInv /\ RaftStep => CommandInv'
<1> SUFFICES ASSUME CommandInv, RaftStep PROVE CommandInv'
  OBVIOUS
<1>0. /\ registered /\ event = Quiet /\ FlagTrue
      /\ UNCHANGED <<registered, is_leader, told, lock, cmd>>
  BY Zenon DEF RaftStep, CommandInv, EventInv, Quiet, flag
<1>1. leader' \in Servers \cup {None} /\ members' \subseteq Servers
  BY Zenon DEF RaftStep, CommandInv, TypeOK, Elected, Joined, Follow, Commit, Servers
<1>2. \/ event' = Quiet /\ (leader' = Self <=> leader = Self)
      \/ event' = [type |-> "BecomeLeader", pc |-> "run"] /\ leader' = Self
      \/ event' = [type |-> "BecomeFollower", pc |-> "run"] /\ leader' # Self
      \/ /\ event' = [type |-> "JoinedCluster", pc |-> "run"]
         /\ UNCHANGED leader
      \/ event' = [type |-> "NewConfig", pc |-> "run"] /\ UNCHANGED leader
  BY Zenon, <1>0 DEF RaftStep, Elected, Joined, Follow, Commit, Raise
<1>3. event' \in [type : Types \cup {"none"}, pc : {"none", "run", "notify"}]
  BY <1>2 DEF Quiet, Types
<1>4. TypeOK'
  BY Zenon, <1>0, <1>1, <1>3 DEF CommandInv, TypeOK
<1>5. EventInv'
  BY <1>0, <1>2 DEF EventInv, FlagTrue, Quiet, Types
<1>6. \A t \in Callers : LockInv(t)' /\ WakeInv(t)'
  BY Zenon, <1>0 DEF CommandInv, LockInv, WakeInv, Quiet
<1> QED BY Zenon, <1>0, <1>4, <1>5, <1>6 DEF CommandInv, HolderInside

\* Leaving the group keeps it.
LEMMA LeaveSteps == CommandInv /\ Leave => CommandInv'
<1> SUFFICES ASSUME CommandInv, Leave PROVE CommandInv'
  OBVIOUS
<1>1. TypeOK'
  BY Zenon DEF CommandInv, TypeOK, Leave, raft, flag
<1>2. EventInv'
  BY Zenon DEF CommandInv, EventInv, FlagTrue, Leave, raft, flag, Quiet
<1>3. \A t \in Callers : LockInv(t)' /\ WakeInv(t)'
  BY Zenon DEF CommandInv, LockInv, WakeInv, Leave, raft, flag
<1> QED BY Zenon, <1>1, <1>2, <1>3 DEF CommandInv, HolderInside, Leave

\* The handler changes the flag only while no caller is between its look and
\* its decision.
LEMMA LockedSteps == CommandInv /\ Locked => CommandInv'
<1> SUFFICES ASSUME CommandInv, Locked PROVE CommandInv'
  OBVIOUS
<1>0. /\ event.pc = "run" /\ event.type \in Types /\ registered
      /\ UNCHANGED <<leader, members, registered, lock, cmd>>
  BY DEF Locked, CommandInv, EventInv, FlagTrue, Quiet
<1>1. event \in [type : Types \cup {"none"}, pc : {"none", "run", "notify"}]
  BY Zenon DEF CommandInv, TypeOK
<1>2. FlagTrue' /\ is_leader' \in BOOLEAN /\ told' \in BOOLEAN
  BY Zenon, <1>0 DEF Locked, NewFlag, CommandInv, TypeOK, EventInv, Types, FlagTrue
<1>3. \/ event' = [type |-> event.type, pc |-> "notify"]
         /\ event.type \in {"NewConfig", "BecomeLeader"}
      \/ event' = Quiet
  BY Zenon, <1>1 DEF Locked, Notifies
<1>4. TypeOK'
  <2>1. event' \in [type : Types \cup {"none"}, pc : {"none", "run", "notify"}]
    BY <1>3 DEF Quiet, Types
  <2> QED BY Zenon, <1>0, <1>2, <2>1 DEF CommandInv, TypeOK
<1>5. EventInv'
  BY <1>0, <1>2, <1>3 DEF CommandInv, EventInv, FlagTrue, Quiet, Types
<1>6. \A t \in Callers : LockInv(t)'
  <2>1. is_leader' = is_leader \/ lock = None
    BY Zenon, <1>0 DEF Locked, TakesLock, NewFlag
  <2> QED BY Zenon, <1>0, <2>1, ServersAssumption DEF CommandInv, LockInv
<1>7. \A t \in Callers : WakeInv(t)'
  <2>1. CASE is_leader
    BY <1>0, <2>1 DEF CommandInv, WakeInv
  <2>2. CASE ~is_leader
    <3>1. is_leader' => event.type = "BecomeLeader"
      BY Zenon, <1>0, <2>2 DEF Locked, NewFlag, FlagTrue, CommandInv, EventInv, Types
    <3>2. is_leader' => event' = [type |-> "BecomeLeader", pc |-> "notify"]
      BY Zenon, <1>1, <3>1 DEF Locked, Notifies
    <3> QED BY Zenon, <3>2 DEF WakeInv
  <2> QED BY Zenon, <2>1, <2>2
<1> QED BY Zenon, <1>0, <1>4, <1>5, <1>6, <1>7 DEF CommandInv, HolderInside

\* _config_change.notify_all() keeps it: nobody sleeps afterwards.
LEMMA NotifySteps == CommandInv /\ Notify => CommandInv'
<1> SUFFICES ASSUME CommandInv, Notify PROVE CommandInv'
  OBVIOUS
<1>0. /\ event' = Quiet /\ FlagTrue
      /\ UNCHANGED <<leader, members, registered, is_leader, told, lock>>
  BY Zenon DEF Notify, CommandInv, EventInv, flag
<1>1. ASSUME NEW t \in Callers
      PROVE  /\ cmd'[t] \in Command
             /\ cmd'[t].pc # "blocked"
             /\ cmd'[t] = cmd[t] \/ cmd'[t].pc = "wake"
             /\ cmd[t].pc \in {"locked", "read"} => cmd'[t] = cmd[t]
  BY DEF Notify, CommandInv, TypeOK, Command
<1>2. cmd' \in [Callers -> Command]
  BY <1>1 DEF Notify, Command
<1>3. TypeOK'
  BY Zenon, <1>0, <1>1, <1>2 DEF CommandInv, TypeOK, Quiet
<1>4. EventInv'
  BY Zenon, <1>0 DEF EventInv, FlagTrue, Quiet
<1>5. \A t \in Callers : LockInv(t)' /\ WakeInv(t)'
  BY Zenon, <1>0, <1>1 DEF CommandInv, LockInv, WakeInv
<1>6. HolderInside'
  BY Zenon, <1>0, <1>1 DEF CommandInv, HolderInside, TypeOK
<1> QED BY Zenon, <1>3, <1>4, <1>5, <1>6 DEF CommandInv

\* Beginning a call keeps it.
LEMMA CallSteps ==
  ASSUME CommandInv, NEW t \in Callers, NEW kind \in Kinds,
         NEW arg \in Others \cup {None}, Call(t, kind, arg)
  PROVE  CommandInv'
<1> DEFINE c == [Idle EXCEPT !.kind = kind, !.arg = arg,
                 !.pc = CASE kind = "create" -> "wake"
                          [] kind = "become" -> "check"
                          [] OTHER -> "ask"]
<1>1. c \in Command /\ c.pc \in {"wake", "check", "ask"}
  BY Zenon DEF Command, Idle
<1> QED BY Zenon, <1>1, CallerStep DEF Call

\* become_leader's first look at the flag, msg_service's requests to NuRaft and
\* CONTINUE_RESP keep it.
LEMMA AskSteps ==
  ASSUME CommandInv, NEW t \in Callers,
         Check(t) \/ Request(t) \/ Ask(t) \/ ContinueResp(t)
  PROVE  CommandInv'
<1>0. /\ UNCHANGED <<calls, raft, registered, flag, lock>>
      /\ cmd[t].pc \notin {"locked", "read"}
  BY Zenon DEF Check, Request, Ask, ContinueResp
<1>1. CASE \E pc \in {"ask", "again", "wake"} : Goto(t, pc)
  BY Zenon, <1>0, <1>1, GotoStep
<1>2. CASE \E code \in Codes : Return(t, code)
  BY Zenon, <1>0, <1>2, ReturnStep
<1>3. CASE \E pc \in {"asked", "hooked"}, v \in Codes \cup {None} :
             Update(t, [cmd[t] EXCEPT !.pc = pc, !.val = v])
  <2>1. PICK pc \in {"asked", "hooked"}, v \in Codes \cup {None} :
               Update(t, [cmd[t] EXCEPT !.pc = pc, !.val = v])
    BY Zenon, <1>3
  <2> DEFINE c == [cmd[t] EXCEPT !.pc = pc, !.val = v]
  <2>2. c \in Command /\ c.pc = pc
    BY ZenonT(40) DEF CommandInv, TypeOK, Command
  <2> QED BY Zenon, <1>0, <2>1, <2>2, CallerStep
<1>4. Submitted \subseteq Codes \cup {None}
  BY Zenon DEF Submitted, Codes
<1>5. ContinueResp(t) => \/ \E pc \in {"again", "wake"} : Goto(t, pc)
                         \/ \E code \in Codes : Return(t, code)
                         \/ \E v \in Codes \cup {None} :
                              Update(t, [cmd[t] EXCEPT !.pc = "hooked", !.val = v])
  <2>1. cmd[t].val # None => cmd[t].val \in Codes
    BY Zenon DEF CommandInv, TypeOK, Command
  <2>2. "SERVER_NOT_FOUND" \in Codes
    BY Zenon DEF Codes
  <2> QED BY Zenon, <1>4, <2>1, <2>2 DEF ContinueResp, Answered
<1>6. Check(t) \/ Request(t) \/ Ask(t) =>
        \/ \E pc \in {"ask", "wake"} : Goto(t, pc)
        \/ \E code \in Codes : Return(t, code)
        \/ \E v \in Codes \cup {None} :
             Update(t, [cmd[t] EXCEPT !.pc = "asked", !.val = v])
  BY Zenon, <1>4 DEF Check, Request, Ask, Codes
<1> QED BY Zenon, <1>1, <1>2, <1>3, <1>5, <1>6

\* NuRaft's answers and wait_for's time-out keep it.
LEMMA AnswerSteps ==
  ASSUME CommandInv, NEW t \in Callers, RaftAnswers(t) \/ Timeout(t)
  PROVE  CommandInv'
<1>0. /\ UNCHANGED <<calls, raft, registered, flag, lock>> /\ cmd[t] \in Command
      /\ cmd[t].pc \notin {"locked", "read"}
  BY Zenon DEF RaftAnswers, Timeout, CommandInv, TypeOK
<1>1. CASE RaftAnswers(t)
  <2>1. PICK v \in {"OK", "FAILED"} : Update(t, [cmd[t] EXCEPT !.val = v])
    BY Zenon, <1>1 DEF RaftAnswers
  <2> DEFINE c == [cmd[t] EXCEPT !.val = v]
  <2>2. c \in Command /\ c.pc \in {"asked", "hooked"}
    BY Zenon, <1>0, <1>1 DEF RaftAnswers, Command, Codes
  <2> QED BY Zenon, <1>0, <2>1, <2>2, CallerStep
<1>2. CASE Timeout(t)
  <2> DEFINE c == [cmd[t] EXCEPT !.pc = "wake", !.late = TRUE]
  <2>1. c \in Command /\ c.pc = "wake"
    BY Zenon, <1>0 DEF Command
  <2> QED BY Zenon, <1>0, <1>2, <2>1, CallerStep DEF Timeout
<1> QED BY Zenon, <1>1, <1>2

\* wait_for's locking, reading and sleeping keep it.
LEMMA WaitSteps ==
  ASSUME CommandInv, NEW t \in Callers, Lock(t) \/ Read(t) \/ Decide(t)
  PROVE  CommandInv'
<1>0. /\ UNCHANGED <<leader, members, event, registered, is_leader, told>>
      /\ cmd[t] \in Command
  BY Zenon DEF Lock, Read, Decide, CommandInv, TypeOK, raft, flag
<1>1. EventInv'
  BY Zenon, <1>0 DEF CommandInv, EventInv, FlagTrue, Quiet
<1>2. PICK c \in Command :
        /\ Update(t, c)
        /\ lock' \in {t, None}
        /\ c.pc \in {"locked", "read"} <=> lock' = t
        /\ (c.pc = "read" /\ c.kind \in LeaderWaits) => c.saw = is_leader
        /\ (c.pc = "blocked" /\ c.kind \in LeaderWaits) => ~is_leader
        /\ \A u \in Callers \ {t} : cmd[u].pc \in {"locked", "read"} => lock' = lock
  <2>1. CASE Lock(t)
    <3> DEFINE c == [cmd[t] EXCEPT !.pc = "locked"]
    <3>1. c \in Command /\ c.pc = "locked"
      BY Zenon, <1>0 DEF Command
    <3>2. \A u \in Callers : cmd[u].pc \notin {"locked", "read"}
      BY Zenon, <2>1, ServersAssumption DEF Lock, CommandInv, LockInv
    <3> QED BY Zenon, <2>1, <3>1, <3>2 DEF Lock, Goto
  <2>2. CASE Read(t)
    <3> DEFINE b == IF cmd[t].kind = "add"
                    THEN registered /\ cmd[t].arg \in members ELSE is_leader
               c == [cmd[t] EXCEPT !.pc = "read", !.saw = b]
    <3>1. b \in BOOLEAN
      BY Zenon DEF CommandInv, TypeOK
    <3>2. c \in Command /\ c.pc = "read" /\ c.saw = b /\ c.kind = cmd[t].kind
      BY <1>0, <3>1, Zenon DEF Command
    <3>3. c.kind \in LeaderWaits => c.saw = is_leader
      BY Zenon, <3>2 DEF LeaderWaits
    <3>4. lock' = lock /\ lock = t
      BY Zenon, <2>2 DEF Read, CommandInv, LockInv
    <3>5. Update(t, c)
      BY Zenon, <2>2 DEF Read
    <3> HIDE DEF c
    <3> QED BY Zenon, <3>2, <3>3, <3>4, <3>5
  <2>3. CASE Decide(t)
    <3>1. /\ lock = t /\ lock' = None /\ t # None
          /\ \A u \in Callers \ {t} : cmd[u].pc \notin {"locked", "read"}
      BY Zenon, <2>3, ServersAssumption DEF Decide, CommandInv, LockInv
    <3>2. CASE \E code \in Codes : Return(t, code)
      <4>1. PICK code \in Codes : Return(t, code)
        BY Zenon, <3>2
      <4> DEFINE c == [Idle EXCEPT !.kind = cmd[t].kind, !.val = code]
      <4>2. c \in Command /\ c.pc = "idle" /\ c.val = code
        BY Zenon, <1>0 DEF Command, Idle
      <4> QED BY Zenon, <3>1, <4>1, <4>2 DEF Return
    <3>3. CASE ~cmd[t].saw /\ Goto(t, "blocked")
      <4> DEFINE c == [cmd[t] EXCEPT !.pc = "blocked"]
      <4>1. c \in Command /\ c.pc = "blocked" /\ c.kind = cmd[t].kind
        BY Zenon, <1>0 DEF Command
      <4>2. c.kind \in LeaderWaits => ~is_leader
        BY Zenon, <2>3, <3>3, <4>1 DEF Decide, CommandInv, LockInv
      <4> QED BY Zenon, <3>1, <3>3, <4>1, <4>2 DEF Goto
    <3> QED BY Zenon, <2>3, <3>2, <3>3 DEF Decide, Codes
  <2> QED BY Zenon, <2>1, <2>2, <2>3
<1>3. \A u \in Callers : cmd'[u] = IF u = t THEN c ELSE cmd[u]
  BY Zenon, <1>2 DEF Update, CommandInv, TypeOK
<1>4. TypeOK'
  BY Zenon, <1>0, <1>2, <1>3 DEF Update, CommandInv, TypeOK
<1>5. \A u \in Callers : LockInv(u)'
  BY Zenon, <1>0, <1>2, <1>3 DEF CommandInv, LockInv
<1>6. \A u \in Callers : WakeInv(u)'
  BY Zenon, <1>0, <1>2, <1>3 DEF CommandInv, WakeInv
<1>7. HolderInside'
  BY Zenon, <1>2, <1>3 DEF HolderInside
<1> QED BY Zenon, <1>1, <1>4, <1>5, <1>6, <1>7 DEF CommandInv

\* Every step of the callers, the handler and NuRaft keeps the invariant.
LEMMA NextCommand == CommandInv /\ [Next]_vars => CommandInv'
<1> SUFFICES ASSUME CommandInv, [Next]_vars PROVE CommandInv'
  OBVIOUS
<1>1. CASE UNCHANGED vars
  <2>1. TypeOK'
    BY Zenon, <1>1 DEF CommandInv, TypeOK, vars, raft, flag
  <2>2. EventInv'
    BY Zenon, <1>1 DEF CommandInv, EventInv, FlagTrue, vars, raft, flag, Quiet
  <2>3. \A t \in Callers : LockInv(t)' /\ WakeInv(t)'
    BY Zenon, <1>1 DEF CommandInv, LockInv, WakeInv, vars, raft, flag
  <2> QED BY Zenon, <1>1, <2>1, <2>2, <2>3 DEF CommandInv, HolderInside, vars
<1>2. CASE Next
  BY Zenon, <1>2, RaftSteps, LeaveSteps, LockedSteps, NotifySteps, CallSteps, AskSteps,
     AnswerSteps, WaitSteps DEF Next, Run
<1> QED BY Zenon, <1>1, <1>2

-----------------------------------------------------------------------------
(* The results.                                                            *)

\* _manager_lock, the flag, the handler and the waiters of wait_for agree at all
\* times.
THEOREM CommandInvariant == Spec => []CommandInv
BY InitCommand, NextCommand, PTL DEF Spec

\* Types of the raft server's view, the handler and the calls.
THEOREM CommandTypes == Spec => []TypeOK
<1>1. CommandInv => TypeOK
  BY Zenon DEF CommandInv
<1> QED BY <1>1, CommandInvariant, PTL

\* generic_raft_event_handler keeps the flag of a registered group equal to its
\* raft_server's role between two events, from the first that sets it; before
\* that the flag may be one that an earlier incarnation of the group left set.
THEOREM FlagIsRole == Spec => []FlagFollowsRole
<1>1. CommandInv => FlagFollowsRole
  BY DEF CommandInv, EventInv, FlagTrue, FlagFollowsRole, Quiet
<1> QED BY <1>1, CommandInvariant, PTL

\* create_group and become_leader never sleep on a flag that is set, but for
\* the moment before notify_all.
THEOREM WakeupKept == Spec => []NoLostWakeup
<1>1. CommandInv => NoLostWakeup
  BY Zenon DEF CommandInv, WakeInv, NoLostWakeup
<1> QED BY <1>1, CommandInvariant, PTL

\* Nobody waits for ever for _manager_lock, the event handler under NuRaft's
\* lock included: its holder is inside wait_for's predicate, which takes no
\* other lock.
THEOREM LockIsGivenUp == Spec => []HolderInside
<1>1. CommandInv => HolderInside
  BY Zenon DEF CommandInv
<1> QED BY <1>1, CommandInvariant, PTL

\* A call ends by returning a result code; what become_leader's first look
\* returns is OK, and so is what wait_for returns if it saw its predicate hold.
LEMMA EndingStep ==
  ASSUME CommandInv, [Next]_vars, NEW t \in Callers,
         cmd[t].pc # "idle", cmd'[t].pc = "idle"
  PROVE  \E code \in Codes :
           /\ Return(t, code)
           /\ cmd[t].pc = "check" => code = "OK" /\ is_leader
           /\ cmd[t].pc = "read" => (code = "OK" <=> cmd[t].saw)
<1>1. cmd[t] \in Command /\ cmd'[t] # cmd[t] /\ (cmd[t].val # None => cmd[t].val \in Codes)
  BY Zenon DEF CommandInv, TypeOK, Command
<1>2. \A u \in Callers : \A c : Update(u, c) /\ u # t => cmd'[t] = cmd[t]
  BY DEF Update
<1>3. \A c : Update(t, c) => cmd'[t] = c
  BY Zenon DEF Update, CommandInv, TypeOK
<1>4. \A pc : Goto(t, pc) => pc = "idle"
  BY Zenon, <1>1, <1>3 DEF Goto, Command
<1>5. ~ (RaftStep \/ Leave \/ Locked \/ UNCHANGED vars)
  BY Zenon, <1>1 DEF RaftStep, Leave, Locked, vars
<1>6. ~ Notify
  BY <1>1 DEF Notify, Command
<1>7. PICK u \in Callers :
             \/ \E kind \in Kinds, arg \in Others \cup {None} : Call(u, kind, arg)
             \/ Run(u) \/ RaftAnswers(u) \/ Timeout(u)
  BY Zenon, <1>5, <1>6 DEF Next
<1>8. u = t
  BY Zenon, <1>1, <1>2, <1>7 DEF Call, Run, Check, Request, Ask, ContinueResp, Answered,
     Lock, Read, Decide, RaftAnswers, Timeout, Goto, Return
<1>9. CASE Check(t)
  BY Zenon, <1>4, <1>9 DEF Check, Codes
<1>10. CASE Request(t) \/ Ask(t) \/ ContinueResp(t)
  <2>1. ~ \E v, pc : pc # "idle" /\ Update(t, [cmd[t] EXCEPT !.pc = pc, !.val = v])
    BY Zenon, <1>1, <1>3 DEF Command
  <2>2. Request(t) \/ Ask(t) => \E code \in Codes : Return(t, code)
    BY Zenon, <1>4, <2>1 DEF Request, Ask, Codes
  <2>3. ContinueResp(t) => \E code \in Codes : Return(t, code)
    BY Zenon, <1>1, <1>4, <2>1 DEF ContinueResp, Answered, Codes
  <2> QED BY Zenon, <1>10, <2>2, <2>3 DEF Request, Ask, ContinueResp
<1>11. CASE Decide(t)
  <2>1. CASE cmd[t].saw
    BY Zenon, <1>11, <2>1 DEF Decide, Codes
  <2>2. CASE ~ cmd[t].saw
    BY Zenon, <1>4, <1>11, <2>2 DEF Decide, Codes
  <2> QED BY Zenon, <2>1, <2>2
<1>12. ~ (Lock(t) \/ Read(t))
  BY Zenon, <1>1, <1>3, <1>4 DEF Lock, Read, Command
<1>13. ~ (RaftAnswers(t) \/ Timeout(t))
  BY Zenon, <1>1, <1>3 DEF RaftAnswers, Timeout, Command
<1>14. ~ \E kind \in Kinds, arg \in Others \cup {None} : Call(t, kind, arg)
  BY Zenon DEF Call
<1> QED BY Zenon, <1>7, <1>8, <1>9, <1>10, <1>11, <1>12, <1>13, <1>14 DEF Run

\* Every call ends with a result code; the wait for leadership ends in OK
\* exactly if the flag is set at that moment, and then this server leads,
\* unless the group was left, a role change has not reached the flag or no
\* event has set it since the group was joined.
THEOREM OutcomeTrue == Spec => CallOutcome
<1>1. ASSUME CommandInv, [Next]_vars, NEW t \in Callers,
             cmd[t].pc # "idle", cmd'[t].pc = "idle"
      PROVE  /\ cmd'[t].val \in Codes
             /\ (cmd[t].pc \in {"check", "read"} /\ cmd[t].kind \in LeaderWaits) =>
                  /\ (cmd'[t].val = "OK") = is_leader
                  /\ (registered /\ event.pc # "run") => FlagTrue
  <2>1. PICK code \in Codes :
               /\ Return(t, code)
               /\ cmd[t].pc = "check" => code = "OK" /\ is_leader
               /\ cmd[t].pc = "read" => (code = "OK" <=> cmd[t].saw)
    BY Zenon, <1>1, EndingStep
  <2>2. cmd'[t].val = code
    BY Zenon, <1>1, <2>1 DEF Return, Update, CommandInv, TypeOK, Idle
  <2>3. is_leader \in BOOLEAN /\ cmd[t].saw \in BOOLEAN
    BY Zenon, <1>1 DEF CommandInv, TypeOK, Command
  <2>4. (cmd[t].pc = "read" /\ cmd[t].kind \in LeaderWaits) => cmd[t].saw = is_leader
    BY Zenon, <1>1 DEF CommandInv, LockInv
  <2>5. (registered /\ event.pc # "run") => FlagTrue
    BY <1>1 DEF CommandInv, EventInv, FlagTrue, TypeOK, Types, Quiet
  <2> QED BY Zenon, <2>1, <2>2, <2>3, <2>4, <2>5
<1>2. CommandInv /\ [Next]_vars =>
        [\A t \in Callers :
           (cmd[t].pc # "idle" /\ cmd'[t].pc = "idle") =>
             /\ cmd'[t].val \in Codes
             /\ (cmd[t].pc \in {"check", "read"} /\ cmd[t].kind \in LeaderWaits) =>
                  /\ (cmd'[t].val = "OK") = is_leader
                  /\ (registered /\ event.pc # "run") => FlagTrue]_vars
  BY Zenon, <1>1
<1> QED BY <1>2, CommandInvariant, PTL DEF Spec, CallOutcome

-----------------------------------------------------------------------------
(* repl_service_ctx (ReplContext).                                         *)

Answers == Servers \cup {"none", "BAD_REQUEST", "SERVER_NOT_FOUND", "throws"}

Asking ==
  [pc : {"idle", "role", "get", "name", "peers", "each", "self"},
   op : {"none", "LEADER", "status"}, at : Servers \cup {None},
   left : SUBSET Servers, got : SUBSET Servers, ans : Answers,
   leads : SUBSET (Servers \cup {None}), ever : SUBSET Servers,
   always : SUBSET Servers]

\* The history of a call under way contains the present.
Witnessed ==
  ask.pc # "idle" => /\ ask.op # "none"
                     /\ leader \in ask.leads
                     /\ members \subseteq ask.ever
                     /\ ask.always \subseteq members \ dropping

\* get_peer_id: past its first read somebody else led, or nobody; the leader
\* it has read led.
LeaderReads ==
  /\ ask.pc \in {"get", "name"} => ask.op = "LEADER" /\ ask.leads # {Self}
  /\ ask.pc = "name" => ask.at \in ask.leads /\ ask.at # None

\* get_raft_status: whoever was a member all along is listed or still to come.
StatusReads ==
  /\ ask.pc \in {"peers", "each", "self"} => ask.op = "status"
  /\ ask.pc = "role" => ask.got = {} /\ ask.left = {}
  /\ ask.pc \in {"peers", "each"} => Self \in ask.leads
  /\ ask.pc = "peers" => ask.got = {}
  /\ ask.pc = "each" =>
       /\ ask.got \subseteq ask.ever
       /\ ask.leads = {Self} => ask.always \subseteq ask.got \cup ask.left \cup {Self}
  /\ ask.pc = "self" =>
       /\ ask.got \subseteq ask.ever
       /\ ask.leads = {Self} => ask.always \subseteq ask.got \cup {Self}
       /\ Self \notin ask.leads => ask.got = {}

AskInv ==
  /\ ask \in Asking /\ dropping \subseteq members
  /\ Witnessed /\ LeaderReads /\ StatusReads
  /\ LeaderAnswer /\ StatusAnswer

-----------------------------------------------------------------------------

\* A context that was not asked yet satisfies the invariant.
LEMMA InitAsk == InitAll => AskInv
<1> SUFFICES ASSUME InitAll PROVE AskInv
  OBVIOUS
<1>1. ask \in Asking /\ dropping \subseteq members
  BY Zenon DEF InitAll, NotAsking, Asking, Answers
<1>2. ask.pc = "idle" /\ ask.op = "none"
  BY Zenon DEF InitAll, NotAsking
<1> QED
  BY Zenon, <1>1, <1>2 DEF AskInv, Witnessed, LeaderReads, StatusReads, LeaderAnswer,
     StatusAnswer

\* What the raft server does during a call becomes part of the call's history,
\* and what the call has read so far stays true of it.
LEMMA WatchAsk ==
  ASSUME AskInv, Watch, dropping' \subseteq members', members' \subseteq Servers,
         leader' \in Servers \cup {None}
  PROVE  AskInv'
<1>1. CASE ask.pc = "idle"
  <2>1. ask' = ask
    BY Zenon, <1>1 DEF Watch
  <2> QED BY Zenon, <1>1, <2>1 DEF AskInv, Witnessed, LeaderReads, StatusReads,
          LeaderAnswer, StatusAnswer
<1>2. CASE ask.pc # "idle"
  <2>1. ask \in Asking
    BY Zenon DEF AskInv
  <2>2. /\ ask'.pc = ask.pc /\ ask'.op = ask.op /\ ask'.at = ask.at
        /\ ask'.left = ask.left /\ ask'.got = ask.got /\ ask'.ans = ask.ans
        /\ ask'.leads = ask.leads \cup {leader'}
        /\ ask'.ever = ask.ever \cup members'
        /\ ask'.always = ask.always \cap (members' \ dropping')
    BY Zenon, <1>2, <2>1 DEF Watch, Asking
  <2>3. ask' \in Asking
    BY Zenon, <1>2, <2>1 DEF Watch, Asking
  <2>4. Witnessed'
    BY Zenon, <1>2, <2>2 DEF AskInv, Witnessed
  <2>5. LeaderReads'
    BY Zenon, <2>2 DEF AskInv, LeaderReads, Witnessed
  <2>6. StatusReads'
    <3>1. ask.leads \subseteq ask'.leads /\ (ask'.leads = {Self} => ask.leads = {Self})
      BY Zenon, <1>2, <2>2 DEF AskInv, Witnessed
    <3>2. ask'.always \subseteq ask.always /\ ask.ever \subseteq ask'.ever
      BY Zenon, <2>2
    <3> QED BY Zenon, <2>2, <3>1, <3>2 DEF AskInv, StatusReads
  <2>7. LeaderAnswer' /\ StatusAnswer'
    BY Zenon, <1>2, <2>2 DEF LeaderAnswer, StatusAnswer
  <2> QED BY Zenon, <2>3, <2>4, <2>5, <2>6, <2>7 DEF AskInv
<1> QED BY Zenon, <1>1, <1>2

\* A new call's history is the present, and it has read nothing yet.
LEMMA BeginAsk ==
  ASSUME AskInv, TypeOK, UNCHANGED <<vars, dropping>>,
         NEW op \in {"LEADER", "status"}, Begin(op)
  PROVE  AskInv'
<1>1. /\ ask'.pc = "role" /\ ask'.op = op /\ ask'.leads = {leader}
      /\ ask'.ever = members /\ ask'.always = members \ dropping
      /\ ask'.got = {} /\ ask'.left = {}
  BY Zenon DEF Begin, NotAsking
<1>2. ask' \in Asking
  BY Zenon DEF Begin, NotAsking, Asking, Answers, TypeOK
<1>3. leader' = leader /\ members' = members /\ dropping' = dropping
  BY Zenon DEF vars, raft, flag
<1> QED BY Zenon, <1>1, <1>2, <1>3 DEF AskInv, Witnessed, LeaderReads, StatusReads,
        LeaderAnswer, StatusAnswer

\* Each read of get_peer_id and get_raft_status is of the present, which the
\* history contains.
LEMMA ReadAsk ==
  ASSUME AskInv, TypeOK, UNCHANGED <<vars, dropping>>,
         is_raft_leader \/ get_leader \/ id_to_str
           \/ get_peer_info_all \/ EachPeer \/ OwnInfo
  PROVE  AskInv'
<1> USE DEF AskInv
<1>1. leader' = leader /\ members' = members /\ dropping' = dropping
  BY Zenon DEF vars, raft, flag
<1>2. CASE is_raft_leader
  <2>1. CASE ask.op = "LEADER" /\ leader = Self
    <3>1. ask' \in Asking /\ ask' = [ask EXCEPT !.pc = "idle", !.ans = "BAD_REQUEST"]
      BY Zenon, <1>2, <2>1 DEF is_raft_leader, Answer, Asking, Answers
    <3> QED BY Zenon, <1>1, <1>2, <2>1, <3>1 DEF is_raft_leader, Asking, Witnessed,
            LeaderReads, StatusReads, LeaderAnswer, StatusAnswer
  <2>2. CASE ask.op = "LEADER" /\ leader # Self
    <3>1. ask' \in Asking /\ ask' = [ask EXCEPT !.pc = "get"]
      BY Zenon, <1>2, <2>2 DEF is_raft_leader, Asking
    <3> QED BY Zenon, <1>1, <1>2, <2>2, <3>1 DEF is_raft_leader, Asking, Witnessed,
            LeaderReads, StatusReads, LeaderAnswer, StatusAnswer
  <2>3. CASE ask.op # "LEADER"
    <3>1. /\ ask' \in Asking
          /\ ask' = [ask EXCEPT !.pc = IF leader = Self THEN "peers" ELSE "self"]
      BY Zenon, <1>2, <2>3 DEF is_raft_leader, Asking
    <3> QED BY <1>1, <1>2, <2>3, <3>1 DEF is_raft_leader, Asking, Witnessed,
            LeaderReads, StatusReads, LeaderAnswer, StatusAnswer
  <2> QED BY Zenon, <2>1, <2>2, <2>3
<1>3. CASE get_leader
  <2>1. CASE leader = None
    <3>1. /\ ask' \in Asking
          /\ ask' = [ask EXCEPT !.pc = "idle", !.ans = "SERVER_NOT_FOUND"]
      BY Zenon, <1>3, <2>1 DEF get_leader, Answer, Asking, Answers
    <3> QED BY Zenon, <1>1, <1>3, <2>1, <3>1 DEF get_leader, Asking, Witnessed,
            LeaderReads, StatusReads, LeaderAnswer, StatusAnswer
  <2>2. CASE leader # None
    <3>1. ask' \in Asking /\ ask' = [ask EXCEPT !.pc = "name", !.at = leader]
      BY Zenon, <1>3, <2>2 DEF get_leader, Asking, TypeOK
    <3> QED BY <1>1, <1>3, <2>2, <3>1 DEF get_leader, Asking, Witnessed,
            LeaderReads, StatusReads, LeaderAnswer, StatusAnswer
  <2> QED BY Zenon, <2>1, <2>2
<1>4. CASE id_to_str
  <2>1. CASE ask.at \in members
    <3>1. /\ ask' \in Asking /\ ask' = [ask EXCEPT !.pc = "idle", !.ans = ask.at]
          /\ ask.at \notin {"none", "BAD_REQUEST", "SERVER_NOT_FOUND", "throws"}
      BY Zenon, <1>4, <2>1, AnswersAssumption
         DEF id_to_str, Answer, Asking, Answers, TypeOK
    <3> QED BY Zenon, <1>1, <1>4, <2>1, <3>1 DEF id_to_str, Asking, Witnessed,
            LeaderReads, StatusReads, LeaderAnswer, StatusAnswer
  <2>2. CASE ask.at \notin members
    <3>1. ask' \in Asking /\ ask' = [ask EXCEPT !.pc = "idle", !.ans = "throws"]
      BY Zenon, <1>4, <2>2 DEF id_to_str, Answer, Asking, Answers
    <3> QED BY Zenon, <1>1, <1>4, <2>2, <3>1 DEF id_to_str, Asking, Witnessed,
            LeaderReads, StatusReads, LeaderAnswer, StatusAnswer
  <2> QED BY Zenon, <2>1, <2>2
<1>5. CASE get_peer_info_all
  <2>1. /\ ask' \in Asking /\ ask' = [ask EXCEPT !.pc = "each", !.left = Peers]
    BY Zenon, <1>5 DEF get_peer_info_all, Asking, Peers, TypeOK
  <2> QED BY <1>1, <1>5, <2>1 DEF get_peer_info_all, Peers, Asking, Witnessed,
          LeaderReads, StatusReads, LeaderAnswer, StatusAnswer
<1>6. CASE EachPeer
  <2>1. CASE ask.left = {} /\ ask' = [ask EXCEPT !.pc = "self"]
    <3>1. ask' \in Asking
      BY Zenon, <2>1 DEF Asking
    <3> QED BY Zenon, <1>1, <1>6, <2>1, <3>1 DEF EachPeer, Asking, Witnessed,
            LeaderReads, StatusReads, LeaderAnswer, StatusAnswer
  <2>2. CASE \E p \in ask.left :
               ask' = [ask EXCEPT !.left = @ \ {p}, !.got = @ \cup ({p} \cap members)]
    <3>1. PICK p \in ask.left :
            ask' = [ask EXCEPT !.left = @ \ {p}, !.got = @ \cup ({p} \cap members)]
      BY Zenon, <2>2
    <3>2. ask' \in Asking
      BY Zenon, <3>1 DEF Asking, TypeOK
    <3> QED BY Zenon, <1>1, <1>6, <3>1, <3>2 DEF EachPeer, Asking, Witnessed,
            LeaderReads, StatusReads, LeaderAnswer, StatusAnswer
  <2> QED BY Zenon, <1>6, <2>1, <2>2 DEF EachPeer
<1>7. CASE OwnInfo
  <2>1. /\ ask' \in Asking
        /\ ask' = [ask EXCEPT !.pc = "idle", !.got = @ \cup ({Self} \cap members)]
    BY Zenon, <1>7 DEF OwnInfo, Asking, TypeOK
  <2> QED BY <1>1, <1>7, <2>1 DEF OwnInfo, Asking, Witnessed,
          LeaderReads, StatusReads, LeaderAnswer, StatusAnswer
<1> QED BY Zenon, <1>2, <1>3, <1>4, <1>5, <1>6, <1>7

\* The context's model adds askers to GroupCommands and takes nothing away: a
\* step of its own leaves the group's variables alone.
LEMMA GroupStep == [NextAll]_<<vars, askVars>> => [Next]_vars
BY Zenon DEF NextAll, Drop

\* Every step preserves the invariant of the calls.
LEMMA NextAsk ==
  ASSUME AskInv, TypeOK, TypeOK', [NextAll]_<<vars, askVars>>
  PROVE  AskInv'
<1>1. CASE Next /\ dropping' = dropping \cap members' /\ Watch
  BY Zenon, <1>1, WatchAsk DEF TypeOK
<1>2. CASE (\E p \in Others : Drop(p)) /\ Watch
  <2>1. dropping' \subseteq members'
    BY Zenon, <1>2 DEF Drop, Peers, vars, raft, flag, AskInv
  <2> QED BY Zenon, <1>2, <2>1, WatchAsk DEF TypeOK
<1>3. CASE (\E op \in {"LEADER", "status"} : Begin(op)) /\ UNCHANGED <<vars, dropping>>
  BY Zenon, <1>3, BeginAsk
<1>4. CASE /\ \/ is_raft_leader \/ get_leader \/ id_to_str
              \/ get_peer_info_all \/ EachPeer \/ OwnInfo
           /\ UNCHANGED <<vars, dropping>>
  BY Zenon, <1>4, ReadAsk
<1>5. CASE UNCHANGED <<vars, askVars>>
  BY <1>5 DEF vars, raft, flag, askVars, AskInv, Witnessed, LeaderReads, StatusReads,
     LeaderAnswer, StatusAnswer
<1> QED BY Zenon, <1>1, <1>2, <1>3, <1>4, <1>5 DEF NextAll

-----------------------------------------------------------------------------

\* repl_service_ctx only reads: with askers in the picture the group's calls,
\* flag and event handler behave as without, so what is proved of them holds.
THEOREM AskersOnlyRead == SpecAll => Spec
<1>1. InitAll => Init
  BY Zenon DEF InitAll
<1> QED BY <1>1, GroupStep, PTL DEF SpecAll, Spec

\* The invariant of the calls, for any number of members.
THEOREM AskInvariant == SpecAll => []AskInv
<1>1. SpecAll => []TypeOK
  BY AskersOnlyRead, CommandTypes, PTL
<1>2. AskInv /\ TypeOK /\ TypeOK' /\ [NextAll]_<<vars, askVars>> => AskInv'
  BY Zenon, NextAsk
<1> QED BY <1>1, <1>2, InitAsk, PTL DEF SpecAll

\* get_peer_id(LEADER) answers with what was true at some moment of the call,
\* whatever elections and config changes happen between its three reads.
THEOREM LeaderAnswerTrue == SpecAll => []LeaderAnswer
BY AskInvariant, PTL DEF AskInv

\* get_raft_status lists members only, misses no member that was there all
\* along if this server led all along, and always knows of itself.
THEOREM StatusAnswerTrue == SpecAll => []StatusAnswer
BY AskInvariant, PTL DEF AskInv
==============================================================================
