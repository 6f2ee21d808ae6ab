---------------------------- MODULE GroupCommands ----------------------------
(***************************************************************************)
(* Calls that wait for a Raft group: ManagerImpl's create_group (once the  *)
(* group is joined), become_leader, add_member, rem_member and             *)
(* append_entries with msg_service's part of them, against the raft event  *)
(* handler, which runs on NuRaft's threads.                                *)
(*                                                                         *)
(* NuRaft is external: it holds a lock of its own while it changes leader  *)
(* or config and calls the handler, and takes that lock in add_srv,        *)
(* remove_srv, append_entries and request_leadership; get_srv_config_all   *)
(* does without it.                                                        *)
(***************************************************************************)
EXTENDS Integers

CONSTANTS Callers,     \* threads that call the Manager API
          Self, Others, None,
          Mixes        \* which calls each thread makes: one choice per behaviour

ASSUME ServersAssumption ==
         Self \notin Others /\ None \notin Others \cup {Self} \cup Callers

Servers == {Self} \cup Others

VARIABLES calls,       \* the calls that each thread makes
          leader,      \* raft_server: the leader it knows of
          members,     \* raft_server: its config
          event,       \* the event handler's call under way
          registered,  \* the group is in _raft_servers
          is_leader,   \* ManagerImpl::_is_leader of the group
          told,        \* history: the handler has set the flag since the group was joined
          lock,        \* the caller that has _manager_lock, or None
          cmd          \* each caller's call

raft == <<leader, members, event>>
flag == <<is_leader, told>>
vars == <<calls, raft, registered, flag, lock, cmd>>

Quiet == [type |-> "none", pc |-> "none"]
Types == {"BecomeLeader", "BecomeFollower", "JoinedCluster", "NewConfig"}

LeaderWaits == {"create", "become"}
Kinds == LeaderWaits \cup {"add", "rem", "append"}
Codes == {"OK", "NOT_LEADER", "FAILED", "SERVER_NOT_FOUND", "CANCELLED",
          "TIMEOUT"}
Command == [pc : {"idle", "check", "ask", "asked", "again", "hooked", "wake",
                  "locked", "read", "blocked"},
            kind : Kinds \cup {"none"}, arg : Others \cup {None},
            val : Codes \cup {None}, saw : BOOLEAN, late : BOOLEAN]
Idle == [pc |-> "idle", kind |-> "none", arg |-> None, val |-> None,
         saw |-> FALSE, late |-> FALSE]

\* create_group's and join_group's insert keeps the flag that an earlier
\* incarnation of the group left behind.
Init ==
  /\ calls \in Mixes
  /\ leader = None
  /\ members \in {m \in SUBSET Servers : Self \in m}
  /\ event = Quiet
  /\ registered = TRUE
  /\ is_leader \in BOOLEAN /\ told = FALSE
  /\ lock = None
  /\ cmd = [t \in Callers |-> Idle]

-----------------------------------------------------------------------------
(* NuRaft.                                                                 *)

Raise(type) == event' = [type |-> type, pc |-> "run"]

Elected ==
  /\ leader' = Self /\ leader # Self
  /\ Self \in members
  /\ Raise("BecomeLeader")
  /\ UNCHANGED members

Follow(p) ==
  /\ leader' = p /\ p # Self
  /\ IF leader = Self THEN Raise("BecomeFollower") ELSE UNCHANGED event
  /\ UNCHANGED members

Joined == Raise("JoinedCluster") /\ UNCHANGED <<leader, members>>

Commit(p) ==
  /\ members' = IF p \in members THEN members \ {p} ELSE members \cup {p}
  /\ Raise("NewConfig")
  /\ UNCHANGED leader

RaftStep ==
  /\ registered /\ event = Quiet
  /\ \/ Elected \/ Joined
     \/ \E p \in Others \cup {None} : Follow(p)
     \/ \E p \in Servers : Commit(p)
  /\ UNCHANGED <<calls, registered, flag, lock, cmd>>

\* The group leaves this server; its raft_server raises no more events.
Leave ==
  /\ registered /\ event = Quiet
  /\ registered' = FALSE
  /\ UNCHANGED <<calls, raft, flag, lock, cmd>>

-----------------------------------------------------------------------------
(* generic_raft_event_handler.                                             *)

\* MUTANT: BecomeFollower leaves the flag.
NewFlagSticky ==
  CASE event.type \in {"NewConfig", "BecomeFollower"} -> is_leader
    [] event.type = "BecomeLeader" -> TRUE
    [] event.type = "JoinedCluster" -> leader = Self

NewFlag ==
  CASE event.type = "NewConfig" -> is_leader
    [] event.type = "BecomeLeader" -> TRUE
    [] event.type = "BecomeFollower" -> FALSE
    [] event.type = "JoinedCluster" -> leader = Self

\* MUTANT: BecomeFollower does without the lock.
TakesLockLess == event.type \notin {"NewConfig", "BecomeFollower"}

TakesLock == event.type # "NewConfig"

\* MUTANT: BecomeLeader tells nobody.
NotifiesConfigOnly == event.type = "NewConfig"

Notifies == event.type \in {"NewConfig", "BecomeLeader"}

\* The flag is set under _manager_lock,
Locked ==
  /\ event.pc = "run"
  /\ TakesLock => lock = None
  /\ is_leader' = NewFlag /\ told' = (told \/ event.type # "NewConfig")
  /\ event' = IF Notifies THEN [event EXCEPT !.pc = "notify"] ELSE Quiet
  /\ UNCHANGED <<calls, leader, members, registered, lock, cmd>>

\* then _config_change.notify_all(): the waiters wake up and go for the lock.
Notify ==
  /\ event.pc = "notify"
  /\ event' = Quiet
  /\ cmd' = [t \in Callers |-> IF cmd[t].pc = "blocked"
                               THEN [cmd[t] EXCEPT !.pc = "wake"] ELSE cmd[t]]
  /\ UNCHANGED <<calls, leader, members, registered, flag, lock>>

-----------------------------------------------------------------------------
(* The calls.                                                              *)

Update(t, c) == cmd' = [cmd EXCEPT ![t] = c]
Goto(t, pc) == Update(t, [cmd[t] EXCEPT !.pc = pc])
Return(t, code) == Update(t, [Idle EXCEPT !.kind = cmd[t].kind, !.val = code])

Call(t, kind, arg) ==
  /\ kind \in calls[t] /\ cmd[t].pc = "idle"
  /\ arg \in Others <=> kind = "add"
  /\ Update(t, [Idle EXCEPT !.kind = kind, !.arg = arg,
                !.pc = CASE kind = "create" -> "wake"
                         [] kind = "become" -> "check"
                         [] OTHER -> "ask"])
  /\ UNCHANGED <<calls, raft, registered, flag, lock>>

\* become_leader's first look at the flag.
Check(t) ==
  /\ cmd[t].pc = "check" /\ lock = None
  /\ IF is_leader THEN Return(t, "OK") ELSE Goto(t, "ask")
  /\ UNCHANGED <<calls, raft, registered, flag, lock>>

\* msg_service::become_leader; request_leadership (external) refuses when this
\* server leads, when it knows no leader and when it cannot send, and may throw,
\* which is caught and taken for a refusal.
Request(t) ==
  /\ cmd[t].pc = "ask" /\ cmd[t].kind = "become"
  /\ \/ registered /\ event = Quiet /\ leader \in Others /\ Goto(t, "wake")
     \/ (registered => event = Quiet) /\ Return(t, "CANCELLED")
  /\ UNCHANGED <<calls, raft, registered, flag, lock>>

\* add_srv, remove_srv and append_entries (external) answer at once, or accept a
\* request and answer later; a server that was shut down accepts none.
Submitted ==
  CASE registered /\ leader = Self -> {"OK", "FAILED", None}
    [] registered /\ leader # Self -> {"NOT_LEADER"}
    [] OTHER -> {"FAILED", "NOT_LEADER"}

\* msg_service::add_member, rem_member and append_entries: the group is looked
\* up, and a runtime_error on the way is reported as if it were not there.
Ask(t) ==
  /\ cmd[t].pc = "ask" /\ cmd[t].kind # "become"
  /\ \/ (registered => event = Quiet) /\ Return(t, "SERVER_NOT_FOUND")
     \/ /\ registered /\ event = Quiet
        /\ \E v \in Submitted :
             Update(t, [cmd[t] EXCEPT !.pc = "asked", !.val = v])
  /\ UNCHANGED <<calls, raft, registered, flag, lock>>

\* NuRaft (external) sets the result of a request it has accepted.
RaftAnswers(t) ==
  /\ cmd[t].pc \in {"asked", "hooked"} /\ cmd[t].val = None
  /\ \E v \in {"OK", "FAILED"} : Update(t, [cmd[t] EXCEPT !.val = v])
  /\ UNCHANGED <<calls, raft, registered, flag, lock>>

\* What follows the service's answer: add_member waits for the config.
Answered(t) ==
  /\ cmd[t].val # None
  /\ IF cmd[t].kind = "add" /\ cmd[t].val = "OK"
     THEN Goto(t, "wake") ELSE Return(t, cmd[t].val)

\* CONTINUE_RESP: get_result_code of the request, and if there is none yet
\* when_ready, whose handler (external) is called when there is one. The macro
\* names its argument twice, so when_ready belongs to a second submission of
\* the request, and the first one's result is never asked for.
ContinueResp(t) ==
  /\ \/ cmd[t].pc = "asked" /\ cmd[t].val = None /\ Goto(t, "again")
     \/ /\ cmd[t].pc = "again" /\ (registered => event = Quiet)
        /\ \/ Return(t, "SERVER_NOT_FOUND")
           \/ \E v \in Submitted :
                Update(t, [cmd[t] EXCEPT !.pc = "hooked", !.val = v])
     \/ cmd[t].pc \in {"asked", "hooked"} /\ Answered(t)
  /\ UNCHANGED <<calls, raft, registered, flag, lock>>

\* _config_change.wait_for: take the lock,
Lock(t) ==
  /\ cmd[t].pc = "wake" /\ lock = None
  /\ lock' = t
  /\ Goto(t, "locked")
  /\ UNCHANGED <<calls, raft, registered, flag>>

\* evaluate the predicate (the flag, or the group's config),
Read(t) ==
  /\ cmd[t].pc = "locked"
  /\ Update(t, [cmd[t] EXCEPT !.pc = "read",
                !.saw = IF cmd[t].kind = "add"
                        THEN registered /\ cmd[t].arg \in members ELSE is_leader])
  /\ UNCHANGED <<calls, raft, registered, flag, lock>>

\* and return, or give the lock up and sleep.
Decide(t) ==
  /\ cmd[t].pc = "read"
  /\ lock' = None
  /\ IF cmd[t].saw THEN Return(t, "OK")
     ELSE IF cmd[t].late
          THEN Return(t, IF cmd[t].kind = "become" THEN "TIMEOUT" ELSE "CANCELLED")
          ELSE Goto(t, "blocked")
  /\ UNCHANGED <<calls, raft, registered, flag>>

\* MUTANT: a time-out is taken for the answer.
TimeoutAnswers(t) ==
  /\ cmd[t].pc = "blocked"
  /\ Return(t, "CANCELLED")
  /\ UNCHANGED <<calls, raft, registered, flag, lock>>

\* MUTANT: every wake-up starts the time-out anew.
TimeoutAnew(t) ==
  /\ cmd[t].pc = "blocked"
  /\ Goto(t, "wake")
  /\ UNCHANGED <<calls, raft, registered, flag, lock>>

\* raft_leader_change_timeout_ms is over: one more look at the predicate.
Timeout(t) ==
  /\ cmd[t].pc = "blocked"
  /\ Update(t, [cmd[t] EXCEPT !.pc = "wake", !.late = TRUE])
  /\ UNCHANGED <<calls, raft, registered, flag, lock>>

Run(t) == Check(t) \/ Request(t) \/ Ask(t) \/ ContinueResp(t) \/ Lock(t)
            \/ Read(t) \/ Decide(t)

Next ==
  \/ RaftStep \/ Leave \/ Locked \/ Notify
  \/ \E t \in Callers :
       \/ \E kind \in Kinds, arg \in Others \cup {None} : Call(t, kind, arg)
       \/ Run(t) \/ RaftAnswers(t) \/ Timeout(t)

Spec == Init /\ [][Next]_vars

\* The handler's and the callers' threads run, nobody is kept out of a mutex
\* for ever, time passes, and NuRaft answers what it accepted.
Fairness ==
  /\ SF_vars(Locked) /\ WF_vars(Notify)
  /\ \A t \in Callers : /\ SF_vars(Run(t))
                        /\ SF_vars(Timeout(t)) /\ WF_vars(RaftAnswers(t))

-----------------------------------------------------------------------------
(* Properties.                                                             *)

\* Type invariant of the raft server's view, the handler and the calls.
TypeOK ==
  /\ leader \in Servers \cup {None} /\ members \subseteq Servers
  /\ event \in [type : Types \cup {"none"}, pc : {"none", "run", "notify"}]
  /\ registered \in BOOLEAN /\ is_leader \in BOOLEAN /\ told \in BOOLEAN
  /\ lock \in Callers \cup {None}
  /\ cmd \in [Callers -> Command]

\* The flag of a leader is set; that of another server is not, unless it comes
\* from an earlier incarnation of the group and no event has set it since.
FlagTrue ==
  /\ leader = Self => is_leader
  /\ told => is_leader = (leader = Self)

\* Between two calls of the handler the flag of a registered group says
\* whether its raft_server leads, whatever the order of elections,
\* step-downs, joins and config changes was, and whatever the flag was when the
\* group was joined; it errs only on a server that has not led or joined since.
FlagFollowsRole == (registered /\ event = Quiet) => FlagTrue

\* No lost wake-up in create_group and become_leader: a caller sleeps with the
\* flag set only while the BecomeLeader handler is on its way to notify_all.
NoLostWakeup ==
  \A t \in Callers :
    (cmd[t].pc = "blocked" /\ cmd[t].kind \in LeaderWaits /\ is_leader) =>
      event = [type |-> "BecomeLeader", pc |-> "notify"]

\* A call ends with a result code, and create_group and become_leader with the
\* flag's, also when elections race with the time-out: a look at the flag that
\* ends the call answers OK while the flag is set and TIMEOUT or CANCELLED while
\* it is not, and that is whether this server leads, unless the group was left, a
\* role change waits for the lock or the flag is an earlier incarnation's.
CallOutcome ==
  [][\A t \in Callers :
       (cmd[t].pc # "idle" /\ cmd'[t].pc = "idle") =>
         /\ cmd'[t].val \in Codes
         /\ (cmd[t].pc \in {"check", "read"} /\ cmd[t].kind \in LeaderWaits) =>
              /\ (cmd'[t].val = "OK") = is_leader
              /\ (registered /\ event.pc # "run") => FlagTrue]_vars

\* Every call returns, and so does the event handler: neither the waits under
\* _manager_lock nor the handler, which wants that lock under NuRaft's, keep
\* one another waiting for ever.
CallsEnd ==
  /\ \A t \in Callers : cmd[t].pc # "idle" ~> cmd[t].pc = "idle"
  /\ event # Quiet ~> event = Quiet

\* add_member may miss the notify_all between its look at the config and its
\* sleep, as NewConfig notifies without the lock; a member that is in the
\* config to stay is reported all the same.
MemberFound ==
  \A t \in Callers :
    [](/\ cmd[t].pc = "blocked" /\ cmd[t].kind = "add"
       /\ [](registered /\ cmd[t].arg \in members \cup {None})
       => <>(cmd[t].pc = "idle" /\ cmd[t].val = "OK"))
=============================================================================
