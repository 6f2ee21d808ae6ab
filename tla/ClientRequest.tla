---------------------------- MODULE ClientRequest ----------------------------
(***************************************************************************)
(* One out-of-band request to a Raft cluster: grpc_factory::add_server,    *)
(* rem_server or append_entry, with client_ctx (the promise and the current*)
(* destination) and respHandler (which follows the leader), through        *)
(* grpc_base_client::send and toResponse on this side and proto_service's  *)
(* step on the other.                                                      *)
(*                                                                         *)
(* The example client repeats a request that a changing cluster refused.   *)
(*                                                                         *)
(* Elections go on meanwhile, replies and requests get lost, and a member  *)
(* may still name a former leader.                                         *)
(***************************************************************************)
EXTENDS Integers

CONSTANTS Peers,              \* the members of the cluster
          None,
          Foreign,            \* an id that is no member's
          MaxElections,       \* bound on changes of the leader
          MaxRetries          \* bound on the example client's retries

ASSUME ElectionsAssumption == MaxElections \in Nat
ASSUME RetriesAssumption == MaxRetries \in Nat
ASSUME NoneAssumption == None \notin Peers
ASSUME ForeignAssumption == Foreign \notin Peers \cup {None}

\* nuraft::cmd_result_code, as far as this code tells the values apart.
OK == 0
CANCELLED == -1
NOT_LEADER == -3
CONFIG_CHANGING == -6
SERVER_IS_JOINING == -7
SERVER_NOT_FOUND == -8
Refusals == {CONFIG_CHANGING, SERVER_IS_JOINING}
Codes == {OK, CANCELLED, NOT_LEADER, SERVER_NOT_FOUND} \cup Refusals
Unset == 1

VARIABLES leader,     \* who leads (external)
          view,       \* the leader each member believes in (external)
          elections,
          retries,
          caller,     \* the calling thread: "start", "sending", "waiting"
          promise,    \* client_ctx::_promise: "initial", then "contract"
          value,      \* what client_ctx::set was called with
          lost,       \* set() was called on the promise future() replaced
          cur_dest,   \* client_ctx::_cur_dest
          at,         \* the member the last message went to
          net,        \* what is under way: "none", "request" or "reply"
          rsp,        \* the reply, as respHandler gets it
          accepts,    \* how often the cluster took this request
          crashed     \* send() was called on a null client

vars == <<leader, view, elections, retries, caller, promise, value, lost, cur_dest, at,
          net, rsp, accepts, crashed>>
cluster == <<leader, view, elections, retries>>

Response == [ok : BOOLEAN, accepted : BOOLEAN, rc : Codes,
             dst : Peers \cup {None}, addr : BOOLEAN]

\* rpc_exception and no resp_msg: a status that is not OK, or a message
\* without rc_response; respHandler then takes SERVER_NOT_FOUND.
Exception == [ok |-> FALSE, accepted |-> FALSE, rc |-> SERVER_NOT_FOUND,
              dst |-> None, addr |-> FALSE]

Init ==
  /\ leader \in Peers
  /\ view \in [Peers -> Peers \cup {None}]
  /\ view[leader] = leader
  /\ elections = 0
  /\ retries = 0
  /\ caller = "start"
  /\ promise = "initial"
  /\ value = Unset
  /\ lost = FALSE
  /\ cur_dest = None
  /\ at = None
  /\ net = "none"
  /\ rsp = Exception
  /\ accepts = 0
  /\ crashed = FALSE

-----------------------------------------------------------------------------
(* The cluster (external), and proto_service on a member.                  *)

Elect(p) ==
  /\ elections < MaxElections
  /\ p # leader
  /\ leader' = p
  /\ view' = [view EXCEPT ![p] = p, ![leader] = None]
  /\ elections' = elections + 1
  /\ UNCHANGED <<retries, caller, promise, value, lost, cur_dest, at, net, rsp,
                 accepts, crashed>>

\* A member hears of the leader.
Learn(p) ==
  /\ view[p] # leader
  /\ view' = [view EXCEPT ![p] = leader]
  /\ UNCHANGED <<leader, elections, retries, caller, promise, value, lost, cur_dest, at,
                 net, rsp, accepts, crashed>>

\* MUTANT: the sign of the result code is not changed back.
toResponseUnsigned(accepted, rc, dst, known) ==
  [ok |-> TRUE, accepted |-> accepted, rc |-> 0 - rc, dst |-> dst,
   addr |-> known /\ ~accepted /\ rc = NOT_LEADER]

\* fromRCResponse negates the code, toResponse negates it back; step() names
\* the address only when the request was not accepted and the config is known,
\* and toResponse keeps it only for NOT_LEADER.
toResponse(accepted, rc, dst, known) ==
  LET wire == [rc |-> 0 - rc, dest_addr |-> ~accepted /\ known]
      code == 0 - wire.rc
  IN [ok |-> TRUE, accepted |-> accepted, rc |-> code, dst |-> dst,
      addr |-> wire.dest_addr /\ code = NOT_LEADER]

\* process_req on the member the message went to: the leader takes the
\* request or refuses it, another member names the leader it knows.
Step ==
  /\ net = "request"
  /\ net' = "reply"
  /\ \/ /\ at = leader
        /\ accepts' = accepts + 1
        /\ rsp' = toResponse(TRUE, OK, leader, TRUE)
     \/ /\ at = leader
        /\ \E rc \in Refusals : rsp' = toResponse(FALSE, rc, leader, TRUE)
        /\ UNCHANGED accepts
     \/ /\ at # leader
        /\ \E known \in BOOLEAN :
             rsp' = toResponse(FALSE, NOT_LEADER, view[at],
                               known /\ view[at] # None)
        /\ UNCHANGED accepts
  /\ UNCHANGED <<cluster, caller, promise, value, lost, cur_dest, at, crashed>>

\* The deadline passes with the request or its answer lost, or the member's
\* status is not OK (it has no such group, or its server is stopping).
Fail ==
  /\ net = "request" \/ (net = "reply" /\ rsp.ok)
  /\ net' = "reply"
  /\ rsp' = Exception
  /\ UNCHANGED <<cluster, caller, promise, value, lost, cur_dest, at, accepts,
                 crashed>>

-----------------------------------------------------------------------------
(* The caller: add_server, rem_server, append_entry.                       *)

\* client_ctx::set.
Set(code) ==
  /\ value' = code
  /\ lost' = (promise = "initial")

Send(p) == at' = p /\ net' = "request"

\* create_or_reinit_client found a client for dest_cfg's endpoint: the message
\* goes out.  The id of dest_cfg need not be that member's (the example client
\* passes an index, a manager hashes its UUID).
Start(p, id) ==
  /\ caller = "start"
  /\ id \in {p, Foreign}
  /\ caller' = "sending"
  /\ cur_dest' = id
  /\ Send(p)
  /\ UNCHANGED <<cluster, promise, value, lost, rsp, accepts, crashed>>

\* It made a grpc_error_client: the handler runs inside send().
StartError(id) ==
  /\ caller = "start"
  /\ caller' = "sending"
  /\ cur_dest' = id
  /\ Set(SERVER_NOT_FOUND)
  /\ UNCHANGED <<cluster, promise, at, net, rsp, accepts,
                 crashed>>

\* The endpoint is no peer id: the call fails at once.
StartNull ==
  /\ caller = "start"
  /\ caller' = "waiting"
  /\ promise' = "contract"
  /\ value' = CANCELLED
  /\ UNCHANGED <<cluster, lost, cur_dest, at, net, rsp, accepts,
                 crashed>>

\* return ctx->future(): a new promise takes the place of the first one.
Future ==
  /\ caller = "sending" /\ ~crashed
  /\ caller' = "waiting"
  /\ promise' = "contract"
  /\ UNCHANGED <<cluster, value, lost, cur_dest, at, net, rsp, accepts,
                 crashed>>

\* MUTANT: what ended in an error is sent again, too.
Repeatable == Refusals \cup {SERVER_NOT_FOUND}

Repeats == Refusals

\* The loops of the example's send_message, add_new_server and remove_server.
Retry ==
  /\ caller = "waiting" /\ net = "none" /\ ~lost /\ value \in Repeats
  /\ retries < MaxRetries
  /\ retries' = retries + 1
  /\ caller' = "start"
  /\ promise' = "initial"
  /\ value' = Unset
  /\ UNCHANGED <<leader, view, elections, lost, cur_dest, at, net, rsp, accepts,
                 crashed>>

-----------------------------------------------------------------------------
(* respHandler, on a gRPC client thread.                                   *)

Handling == net = "reply" /\ ~crashed

\* The answers that end the request: an error, acceptance, a refusal by the
\* member asked, and one by a member that knows no leader.
Final == ~rsp.ok \/ rsp.accepted \/ rsp.dst = cur_dest \/ rsp.dst = None

\* MUTANT: whatever ends the request reports success.
HandleFinalOk ==
  /\ Handling /\ Final
  /\ Set(OK)
  /\ net' = "none"
  /\ UNCHANGED <<cluster, caller, promise, cur_dest, at, rsp, accepts, crashed>>

\* MUTANT: "No known leader!" returns without calling set().
HandleFinalSilent ==
  /\ Handling /\ Final
  /\ \/ rsp.ok /\ ~rsp.accepted /\ rsp.dst = None /\ UNCHANGED <<value, lost>>
     \/ (~rsp.ok \/ rsp.accepted \/ rsp.dst = cur_dest) /\ Set(rsp.rc)
  /\ net' = "none"
  /\ UNCHANGED <<cluster, caller, promise, cur_dest, at, rsp, accepts, crashed>>

HandleFinal ==
  /\ Handling /\ Final
  /\ Set(rsp.rc)
  /\ net' = "none"
  /\ UNCHANGED <<cluster, caller, promise, cur_dest, at, rsp, accepts, crashed>>

\* MUTANT: no return after set(): the refusal is reported and sent on, too.
HandleRedirectSets ==
  /\ Handling /\ ~Final
  /\ cur_dest' = rsp.dst
  /\ rsp.addr
  /\ Set(rsp.rc)
  /\ Send(rsp.dst)
  /\ UNCHANGED <<cluster, caller, promise, rsp, accepts, crashed>>

\* Not accepted: the message is sent on to the member named, through a client,
\* or a grpc_error_client whose handler sets the result at once, or the null
\* client that an empty address gives.
HandleRedirect ==
  /\ Handling /\ ~Final
  /\ cur_dest' = rsp.dst
  /\ \/ rsp.addr /\ Send(rsp.dst) /\ UNCHANGED <<value, lost, crashed>>
     \/ /\ rsp.addr
        /\ Set(SERVER_NOT_FOUND)
        /\ net' = "none"
        /\ UNCHANGED <<at, crashed>>
     \/ /\ ~rsp.addr
        /\ crashed' = TRUE
        /\ net' = "none"
        /\ UNCHANGED <<at, value, lost>>
  /\ UNCHANGED <<cluster, caller, promise, rsp, accepts>>

\* Nothing is under way any more (or the process is gone).
Done == crashed \/ (caller = "waiting" /\ net = "none")

Next ==
  \/ \E p \in Peers : Elect(p) \/ Learn(p)
  \/ \E id \in Peers \cup {Foreign} : StartError(id) \/ \E p \in Peers : Start(p, id)
  \/ StartNull \/ Future \/ Retry
  \/ Step \/ Fail
  \/ HandleFinal \/ HandleRedirect
  \/ Done /\ UNCHANGED vars

Spec == Init /\ [][Next]_vars

\* Threads run, a member answers, and heartbeats tell members of a leader.
Fairness ==
  /\ WF_vars(Future) /\ WF_vars(Step)
  /\ WF_vars(HandleFinal) /\ WF_vars(HandleRedirect)
  /\ \A p \in Peers : WF_vars(Learn(p))

FairSpec == Spec /\ Fairness

-----------------------------------------------------------------------------
(* Properties.                                                             *)

\* Type invariant; a result is one of NuRaft's codes again after its two
\* conversions.
TypeOK ==
  /\ leader \in Peers
  /\ view \in [Peers -> Peers \cup {None}]
  /\ elections \in 0..MaxElections
  /\ retries \in 0..MaxRetries
  /\ caller \in {"start", "sending", "waiting"}
  /\ promise \in {"initial", "contract"}
  /\ value \in Codes \cup {Unset}
  /\ lost \in BOOLEAN
  /\ cur_dest \in Peers \cup {None, Foreign}
  /\ at \in Peers \cup {None}
  /\ net \in {"none", "request", "reply"}
  /\ rsp \in Response
  /\ accepts \in Nat
  /\ crashed \in BOOLEAN

\* However leaders change and answers get lost, the cluster takes the request
\* at most once: respHandler forwards, and the example client repeats, only
\* what was refused.
AcceptedAtMostOnce == accepts <= 1

\* A caller that is told OK has its request in the cluster.
OkMeansAccepted == value = OK => accepts = 1

\* set() is called once on a promise, however often the request is sent on or
\* repeated: while an answer may still come, or before the first message, the
\* promise has no value (a second setValue would throw).
SetOnce == (net # "none" \/ caller = "start") => value = Unset

\* When respHandler has called set(), the future the caller waits for has it.
ResultDelivered == (caller = "waiting" /\ value # Unset) => ~lost

\* A request that was sent gets its result although members name former
\* leaders and it goes back and forth between them, once elections end.  (The
\* other end is a null client: a member knows the leader but not where, or the
\* leader refuses a request whose dest_cfg had a foreign id.)
RequestEnds == caller = "sending" ~> (value # Unset \/ crashed)
=============================================================================
