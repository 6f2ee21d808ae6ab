# A TLA+ verification of nuraft_mesg

nuraft_mesg puts many NuRaft groups behind one gRPC server. Each process has one
`Manager`; every group it belongs to is a NuRaft `raft_server` with its own
state manager (log store, vote, configuration). Messages of all groups arrive at
one RPC and are routed by group id; outgoing messages of all groups share one
transport per peer.

The consensus protocol itself is NuRaft's and is not modelled. What nuraft_mesg
adds is *bookkeeping shared between threads*: who is registered, which storage
belongs to which server, which transport a group holds, which pool answers a
message. The modules here are about that.

## The parts of the system and where they are

| Part | Source | Module |
|---|---|---|
| Group life cycle: `ManagerImpl`, `msg_service` | `src/src/lib/manager_impl.cpp`, `service.cpp` | `GroupLifecycle`, abstractly `GroupMembership`; proofs in `GroupOverlapProofs`, `GroupLifecycleProofs` |
| Waiting for a group: `create_group`'s wait, `become_leader`, `add_member`, `rem_member`, `append_entries`, the event handler | `manager_impl.cpp`, `service.cpp`, `grpc_server.cpp` | `GroupCommands`; proofs in `GroupCommandsProofs` |
| Replication context: finding the leader, `get_raft_status` | `src/src/lib/repl_service_ctx.cpp` | `ReplContext`; proofs in `GroupCommandsProofs` |
| gRPC server and data service: `restart_server`, `bind_data_service_request` | `manager_impl.cpp`, `service.cpp`, `data_service_grpc.cpp` | `DataService`; proofs in `DataServiceProofs` |
| Client caches: `grpc_factory`, `mesg_factory`, `group_factory` | `src/src/lib/factory.cpp`, `src/src/proto/proto_mesg_factory.cpp` | `ClientCache`; proofs in `ClientCacheProofs` |
| Out-of-band requests: `add_server`, `rem_server`, `append_entry`, `respHandler`; the example client's retries | `factory.cpp`, `proto_mesg_factory.cpp`, `src/test_package/example_client.cpp` | `ClientRequest`; proofs in `ClientRequestProofs` |
| The RaftStep service and its two pools | `src/src/proto/proto_service.cpp` | `RaftStep`; proofs in `RaftStepProofs` |
| Example log store and state manager | `src/test_package/in_memory_log_store.cpp`, `example_state_manager.cpp` | `LogStore`, abstractly `OffsetLog`; `StateManager`; proofs in `StorageProofs` |
| Wire format | `src/src/proto/utils.hpp`, `*.proto` | result codes and leader address in `ClientRequest` |
| Flatbuffers client, metrics, logging, the tests' log store, `example_server` | `src/src/flatb`, `src/src/tests`, `src/test_package` | not modelled |

`PROJECT.json` maps each definition to the lines it stands for, and lists the
hazards (what is hard to test here) with the properties that watch them.

The parts meet in few places. `RaftStep` has of a join and a leave what a message
can meet (a server that stops while it is registered, an entry that goes while its
server runs), `GroupLifecycle` has all their steps and treats a message as its join
request only. `GroupCommands` starts when `create_group` has joined and
takes a leave as one step; in exchange it has the condition variable step by
step, which `GroupLifecycle` has by its result. `ClientRequest` starts where
`ClientCache` ends: with a client, an error client or none. nuraft_mesg itself
persists nothing, so crash recovery is a matter of the application's storage;
`StateManager` has it for the storage that comes with the examples.

## GroupLifecycle

State: the two maps (`state_managers` = `_state_managers`, `raft_servers` =
`_raft_servers`), `is_leader`, the state managers and servers as objects with a
life of their own (`smgr`, `srv`), the server a state manager's
`repl_service_ctx` points at (`repl_ctx`), the manager object (`mgr`), and a
program counter with locals per thread (`th`). `exiting` is the state manager an
`exit_group` under way has found. `elected` and `overlap` are history.

A region under `_manager_lock` is one action, and so is one operation on the
concurrent map; what lies between them interleaves.

| Code | Actions |
|---|---|
| `create_group` | `CreateGroup`, joinRaftGroup, `CreateJoined`, `WaitLeader` |
| `join_group` | `JoinGroup`, joinRaftGroup, `JoinGroupJoined` |
| `raftStep` with a join request | `RaftStepJoin`, joinRaftGroup, `StepJoined` |
| `joinRaftGroup`, `group_init` | `JoinFind`, `GroupInitNoType` or `GroupInit`, `Construct`, `TryEmplace`, then `MakeReplCtx` and `JoinEnd`, or `Unwind` |
| `leave_group` | `LeaveGroup`, `LeavePart`, `LeaveStop`, `LeaveShutdown`, `LeaveDestroy` |
| raft events | `BecomeLeader`, `BecomeFollower`, `JoinedCluster`; `RemovedFromCluster` with `ExitGroup` |
| `~ManagerImpl` | `ManagerDestroy`, `ServiceStop`, `ServiceShutdown`, `GrpcShutdown` |

Decisions a reader may question:

* `JoinFind` does `_manager.lock()` and the lookup in one step. A thread that
  has locked the manager keeps it alive, so locking later changes nothing.
* A server is "running", "stopped" by `stop_server()` (it answers no more messages,
  but is registered and has its listener), "shutdown" or "destroyed".
  `raft_server::shutdown()` releases the listener, and so does the destructor;
  the last release runs the listener's destructor, which calls `shutdown_for` and
  erases by *group id*. `joinRaftGroup` has a `new_listner` of its own until it
  returns, so a server that is shut down meanwhile leaves the map only then
  (`JoinEnd`). That is NuRaft's behaviour as this code relies on it.
* NuRaft calls the event handler with its own lock held, and `shutdown()` and the
  destructor take that lock: they wait for an `exit_group` under way, and so does
  the manager's destructor, as the handler holds the manager. What `exit_group` has
  found is used after `_manager_lock` was released; other threads leave, destroy and
  join in between.
* `Reclaim` is the concurrent map and the reference counts: a server nobody
  refers to is destroyed at some later time.
* `create_group` returns a future whose continuation uses `this`; the model
  counts it as holding the manager until it ends.
* The time-out of that continuation is not separated from a notification: the
  predicate is evaluated at the end in both cases, and decides the result.
* State managers and servers are never reused, so a pool bounds how many
  incarnations a run has; `Room` starts a join only while the pools can serve
  all joins in flight.

Nothing in the code keeps calls on *one* group apart. `overlap` remembers which
ones met: "join/join", "join/leave". Properties that need calls to be apart say so
(`overlap = {} => ...`), so no behaviour is cut out of what they are stated about,
and the proofs hold for all of them. `Overlaps` is only a bound: a run does not
explore what lies behind an overlap that is not in it. `lifecycle` explores joins
that overlap joins, `join_leave` a join that overlaps a leave, `recreate` neither;
both together are more states than a run can have. Operations on different groups,
leaves with leaves, and everything with raft events and the destructor overlap
freely in every run.

`GroupMembership` is the promise without threads: storage first, then a server
on it, then the server stops, and only then the storage goes; what stopped never
serves again and what was destroyed never comes back. `GroupLifecycle`
implements it with `storage <- state_managers`, `serving <- raft_servers`, for as
long as calls on a group do not overlap.

## GroupCommands and ReplContext

`cmd` is each caller's call: where it is, what it asks, the result NuRaft set,
what the predicate saw, and whether the time-out is over. `lock` is
`_manager_lock`; `event` is the call of `generic_raft_event_handler` under way;
`leader` and `members` are the raft server's, `is_leader` is the manager's flag,
which starts with any value, as an earlier incarnation of the group may have left
it set (run `recreate`); the history variable `told` says that an event has set it
since.

| Code | Actions |
|---|---|
| `create_group` (after the join), `become_leader`, `add_member`, `rem_member`, `append_entries` | `Call`, `Check`, `Request` or `Ask`, `ContinueResp`, `Answered` |
| `_config_change.wait_for(lock, timeout, predicate)` | `Lock`, `Read`, `Decide`, `Timeout` |
| `generic_raft_event_handler` | `Locked`, `Notify` |
| NuRaft (external) | `RaftStep` (`Elected`, `Follow`, `Joined`, `Commit`), `RaftAnswers` |

`wait_for` is what the C++ library defines: evaluate the predicate under the
lock, sleep, and after a notification or the time-out evaluate it again, so the
predicate and not the time-out decides the result. `Read` and `Decide` are
separate because the config, unlike the flag, changes without `_manager_lock`.

External, from how this code uses NuRaft: it calls the handler with its own lock
held, takes that lock in `add_srv`, `remove_srv`, `append_entries` and
`request_leadership`, and reads its config without it; `when_ready` calls its
handler at once if the result is there; `request_leadership` refuses on a leader,
when no leader is known, and when it cannot send. Callers see the first of these
refusals: `become_leader` on a server that is elected between the look at the flag
and the request answers CANCELLED although it leads. Each call may throw a
`runtime_error`, which the service catches; it then answers `SERVER_NOT_FOUND`, or
takes it for a refusal of the leadership.

`CONTINUE_RESP(resp)` names its argument twice, and the argument is the call that
submits the command. When the first submission has no result yet, `when_ready` is
therefore set on a *second* submission, and the first one's result is never asked
for (`ContinueResp`, from "asked" to "again" to "hooked"). So `append_entries`, for
one, can append twice. The properties of results hold with it.

`ReplContext` adds a thread that asks for the leader or the status. Each read of
the raft server is one action, and `leads`, `ever` and `always` record what was
true during the call, so that the properties can say what a call that takes no
lock may answer. `Drop` is the peer list that runs ahead of the config, which a
comment in `get_raft_status` describes.

## DataService

`restart_server` is five steps (`Make`, `Reset`, `associate`, `run`, `bind`)
under `_manager_lock`; a request is bound in one step (`BindRequest`, under the
data service's own lock) at any time in between. The two pointers to the gRPC
server (`server` in the manager, `ptr` in the data service) are separate, `ptr`
is uninitialised at first, and `reg` is what each server has registered.
`make` may fail; `associate` and `bind` of the data service may throw, which ends
`restart_server` and, in `init_messaging`, takes the new manager with it (`Throw`);
those of `proto_service` may `abort()` ("aborted"). External: a `sisl::GrpcServer`
takes a name once and only while it runs, registering a service may fail, and
destroying it waits for its threads.

Requests are bound and join requests arrive at any time, restarts or not;
`thrown` and `overlapped` are history. Two things go wrong then, and the properties
name them. `CrashesKnown`: a request bound between `reset()` and `associate` uses a
server that is gone. `RestartEnds`: `_grpc_server.reset()` waits, with
`_manager_lock` held, for a gRPC thread that wants that lock in `group_init`; this
deadlock is reachable, and the exception `restart = "reset" /\ joining` is exactly
it. No line of the repository promises that a restart and a join request may
overlap, so it is described here and not listed among the findings.

## ClientCache

One wrapper per peer and group (`clients`), one transport per peer (`g_clients`,
shared by all groups). `mesg_factory`'s lock is a variable because it is held
across the call into `group_factory`; a region under the latter's lock is one
action. `create_client(string)` is NuRaft's entry and forces a new wrapper; data
requests look a wrapper up under the shared lock and refresh it when its
transport was found bad; cluster requests always go through
`create_or_reinit_client`. A transport is open or not, ready or not (the network
decides), bad or not (an answer decides). `setClient` against a concurrent
`send_raft` is a data race on one pointer in the code; the model takes that
assignment as atomic. A creation that fails does so by its result. An exception
between the insertion of the null entry and its removal is left out: the
application's `lookup_peer` could throw one, and a null entry would then stay in the
cache, so `NoNullVisible` is about applications whose `lookup_peer` does not.

## ClientRequest

One request with its promise, destination and answer. The cluster (who leads,
and what members believe) is external: elections happen up to `MaxElections`
times, a member learns of the leader at some time, and a refusal names the
leader the member believes in, with its address only if it knows the
configuration. `Fail` covers a deadline and every status that is not OK,
including an answer that is lost after the request was taken. The result code is
negated by `fromRCResponse` and again by `toResponse`, as in the code. A refusal
that names a leader without its address makes `respHandler` send through a null
client; the model ends there (`crashed`), and `RequestEnds` says so.

A caller identifies a member by an id and an address. The library derives the id
from the member's UUID, the example client passes an index, so `Start` has an id
that is the member's or `Foreign`. With a foreign id the test "the member asked
refused" fails at the first answer, and a leader's refusal for another reason than
`NOT_LEADER`, which carries no address, meets the null client.

`Retry` is the loop of the example's `send_message`, `add_new_server` and
`remove_server`: a new call, with a new promise, when the cluster answered that
it is changing.

## RaftStep

Messages of several groups are validated and looked up on gRPC threads, posted to
one of two pools by type, executed and answered. A join request may build a server
first (`Construct`, `TryEmplace`), and two that overlap erase each other's entry, as
in `GroupLifecycle`; a lambda keeps the server it captured (`held`), whatever
becomes of the entry. `Accept` covers a `joinRaftGroup` that builds none.

External, from how the code uses it: `process_req` has the server's own lock for a
whole message (`Locked`, `ProcessReq`), and `shutdown()` takes that lock; the gRPC
server's `shutdown()` returns when the calls it has are answered; destroying a
`thread_pool` drops its queue and joins its threads.

"Fast messages never wait behind slow operations" (`docs/io-thread-pool-design.md`)
is true of the pools and not of the lock. A vote waits, in a Raft thread, for the
lock that an append of the *same* group holds; once such votes fill the Raft pool,
other groups wait too. `FastAnswered` states what is left: fast messages of a group
whose storage does not hang are answered as long as the groups whose storage does
have fewer fast messages than there are Raft threads.

## LogStore, OffsetLog and StateManager

`LogStore` has `logs` (`logs_`, the dummy at 0 included), `start_idx` and what is
under way: a pack being applied and each reader's range. A region under
`logs_lock_` is one action. So `append`, `write_at` and `compact` are one action
each, `last_entry` two, `log_entries`, `log_entries_ext` and `pack` one per
entry, `apply_pack` one per entry and one for the end. An entry is its term. A
reader that misses its entry meets `assert(0)`: the process ends or, built with
`NDEBUG`, goes on with the dummy. `hit` and `want` are history.

What NuRaft does with a log store is assumed where it matters: one writer,
`write_at` no further than the next slot, packs of at least one entry that
continue the log or start an empty one, readers that ask for entries that are
there and for none of a log that is being installed.

At the end of a pack the first index is the first key behind the dummy
(`FirstKey`), or 1 if there is none; as packs have an entry, the second case is never
met.

`OffsetLog` is the promise: one entry per index from the first to the next slot.
A pack that starts an empty log elsewhere shows at its end, all at once.

`StateManager` puts the two files beside the store. A save truncates when it
opens the file and writes afterwards (`Save`, `Written`); both may fail silently,
and the process may die in between. `promised` is the last version NuRaft was
let act on after a save that could open its file. A save that cannot open it is
lost without a word, and `SavesNotForgotten` promises nothing about it. A file is its
version, and whether the config has a `user_ctx`, which is written and never read
back.

## Runs

| Run | Bounds | Distinct states | Shows |
|---|---|---|---|
| `lifecycle` | 1 group, 2 application threads, 1 gRPC thread, 2 state managers, 2 servers, joins overlap joins, fair | 177,879 | six safety properties and the refinement of `GroupMembership`, each until calls overlap; a leave ends with the group gone, duplicate servers on one log store go away again, the destructor ends |
| `client_cache` | 2 groups on the same transports, NuRaft in each, 1 request thread, 3 wrappers, 3 transports | 285,075 | four invariants of the caches |
| `client_request` | 3 members and a foreign id, 3 elections, 2 retries, fair | 135,282 | taken at most once, OK means taken, the promise is set once, the request ends |
| `raft_step` | an append in one group, 2 joins in another; 2 Raft threads, 1 I/O thread, 2 incarnations of each group, fair | 106,856 | one answer each, exact counters; everything is answered and the destructor ends if storage answers, a group's fast messages even if another's storage hangs |
| `group_commands` | 2 callers and a context's thread, 2 servers, four mixes of calls, any flag at the start, fair | 106,829 | the flag follows the role, no lost wake-up, every call ends with a code that is true, a member that stays is found; answers of the context are right for some moment of the call |
| `data_service` | 2 requests, 3 gRPC servers, fair | 9,747 | requests survive restarts, failed restarts leave a server, crashes only where named, a restart ends but for one deadlock |
| `storage` | 2 terms, 3 indices, 1 reader, 2 versions of each file | 863,982 | no gap, readers and `last_entry` right, `OffsetLog` implemented, no save forgotten |

`data_service` may stop: the manager is destroyed, the process has ended, or a restart
and a join wait for each other, which `RestartEnds` names.

Why the bounds are enough for the cases in question: two state managers and two
servers give a group a second incarnation or two servers that compete for one
entry, which is what stale entries, stale flags and reclaimed servers need, but not
both one after the other (the proofs have no such bound); two application threads
and a gRPC thread give two joins, two leaves, an eviction or the destructor their
overlaps, and a third call to see the result; three elections let a request go
around all three members; an append with two joins gives the I/O pool a step that
may hang, a loser and a winner of `try_emplace`, and a lambda whose server's entry
is gone; two callers, one of which waits, are
what a lost wake-up or a lock held too long needs, and `Mixes` lets one behaviour
have all kinds of calls on one thread, others a pair that overlaps, and one the
context's questions, which share no state with the calls; three
servers are a first one, its replacement and one more for a restart after a
failure; three indices leave room for an entry before, at and behind the place
where `write_at`, `compact` or a pack cuts.

Symmetry is used in runs that check invariants only, never with liveness. A vote
takes the path of a join request from the lookup on and a snapshot that of an
append, so `raft_step` has neither; `heartbeat` has a vote. With a vote beside the
append, so that a fast message waits for the lock, the run has 877,586 states and
passes, too; that takes longer than a run should.

### Runs that find a disagreement

| Run | Property | What happens |
|---|---|---|
| `join_join` | `JoinRegisters` | Two overlapping joins of one group: the loser of `try_emplace` destroys its server, whose listener erases the winner's entry. Both calls say OK and the group has no server. |
| `join_leave` | `NoServerOnDestroyedStorage` | A leave overlaps a join of the group: it looks for the server before the join has registered it, finds none to stop, and destroys the storage. The join's server stays registered on destroyed storage, and the next leave takes the group for one that is not there. |
| `recreate` | `LeaderFlagIsFresh` | A group left as leader and created again counts as led at once: `leave_group` keeps the flag and `insert` does not overwrite it. |
| `prompt_reply` | `ResultDelivered` | An answer handled before `future()` is set on the promise `future()` then replaces. |
| `heartbeat` | `HeartbeatAnswered` | A heartbeat is an `append_entries_request` by type, so it queues behind appends of any group, which the design document says it does not. |

`findings` in `PROJECT.json` quotes the lines on both sides.

## Fairness

Weak fairness of a thread's next step: the operating system schedules it, and
no thread here waits for another inside a step (locks are held for bounded
regions). In `GroupLifecycle` it is strong fairness, because a `shutdown()` waits for
NuRaft's lock, which event handlers take again and again and which in the end goes
to the one that waits. `Reclaim` is fair because the concurrent map reclaims retired
nodes, `ExitGroup` because the application's `leave()` returns.
Callers, elections, raft events, lost messages and the decision to shut down are
never fair. In `RaftStep` an append or a snapshot step on a running server may hang
for ever, with the server's lock, while every other step goes on (`FastSpec`);
`EveryMessageAnswered` and `ShutdownEnds` assume in addition that storage answers
(`StorageAnswers`). `ClientRequest` needs that members hear of the
leader (`Learn`): without it two members may name each other for ever.

`GroupCommands` has strong fairness where a thread wants a mutex (`Locked`,
`Run`): others take and release it for ever, and a mutex that starves one thread
for ever is none the code could work with. `Timeout` is strongly fair because
the deadline of `wait_for` is fixed when it is called, so notifications that
wake the caller again and again do not put it off. NuRaft answers what it
accepted (`RaftAnswers`). In `DataService` the thread inside `restart_server`
goes on, `GrpcServer::make` answers, and a gRPC thread that wants `_manager_lock`
gets it if it is free again and again.

## What is proved

Eight modules hold proofs. Each proves an inductive invariant (`...Invariant`, or
the theorem named below) and from it the safety properties of the runs, for every
value of the constants that satisfies the `ASSUME`s: constants that stand for
"nothing" or for an answer without a peer are none of the objects, threads of two
kinds are different, bounds are natural numbers. No bound is small in a proof.
Names in parentheses are the properties; those no run checks are stated in the
proof module.

**The life cycle** has three invariants, each for fewer overlaps than the one
before. All theorems are about `Spec` as it is; the history variable says how far
they reach. None of the properties is inductive: whether a server serves depends on
where the threads that create and stop it are.

| Holds | Invariant | Results |
|---|---|---|
| always, whatever overlaps | `AInv` (`AnyOverlap`) | `TypeCorrect`; `NeverStepsDestroyed` (what `raftStep` finds is of the group asked for and not destroyed, and shut down only until the join that registered it returns); `StorageNotShared` (a log store never serves two groups) |
| until two joins of a group overlap | `JInv` (`OneJoinAtATime`) | `OneServer` (`OneServerPerStorage`); `ShutdownStopsServers` (`NoServerOutlivesManager`) |
| until any calls on a group overlap | `IInv` (`InductiveInvariant`) | `RegisteredServers` (`RegisteredServerServes`); `StorageOutlivesServer` (`DestroyedAfterShutdown`); `JoinLeavesServer` (`JoinAloneRegisters`); `EvictionIsOwn` (`EvictionReachesOwnStorage`); `Refinement`: `GroupMembership` is implemented |

The first two rows are `GroupOverlapProofs`, the last is `GroupLifecycleProofs`.
So a leave that overlaps a join, which breaks `NoServerOnDestroyedStorage`, breaks
neither of the second row.

`AInv` says that a server whose thread has not registered it is known to nobody
else (`Own`: the loser of `try_emplace` stops no server but its own), what
each program counter says of a thread's locals (`LocalInv`), and that a state
manager is used for one group only, by the map, the servers and the threads
together (`StoreInv`). `JInv` adds that a group has one joiner, that nothing is
registered before the joiner gets to `try_emplace`, which therefore wins
(`Unregistered`), that a server that is up is registered or about to be (`Known`),
and that nobody holds a manager that is being destroyed (`MgrInv`). `IInv` has the
types and `MgrInv` from there, says that an eviction under way has found its own
server's storage (`EvictInv`), and adds five parts, `KInv`. `Exclusive`: a thread
inside `joinRaftGroup` is alone on its group, leaves included. `ThreadInv`: what
each program counter says of both maps. `RunInv`: a server that is up uses its
group's storage and is registered or about to be. `SmgrInv`: storage in use is
live and belongs to one group. `RegInv`: what is registered is up, for its group.
There is one lemma per action with one step per part. The refinement uses `IInv`.

**`GroupCommandsProofs`**: `CommandTypes`, `FlagIsRole`, `WakeupKept`,
`OutcomeTrue` (`CallOutcome`), `LockIsGivenUp` (`HolderInside`: who has
`_manager_lock` is between two steps that wait for nothing; the safety half of
"no deadlock between `_manager_lock` and NuRaft's lock"). `EventInv` says what an
event under way knows of the leader: the flag may differ from the role only
before `Locked`, or as an earlier incarnation's that no event has set since.
`LockInv`: a caller between reading and deciding has the lock, so what it read of the
flag still holds; that is why `wait_for` tells the truth.
`WakeInv` is `NoLostWakeup` per caller.

The same module has `ReplContext`: `LeaderAnswerTrue` and `StatusAnswerTrue`, and
`AskersOnlyRead`, by which everything above holds beside the context's threads.
`AskInv` says what a call has read at each of its steps in terms of what was true
since it began (`Witnessed`, `LeaderReads`, `StatusReads`).

**`DataServiceProofs`**: `RequestsServed`, `ServerStays`, `NoOtherCrash`, whatever
is bound or joined during a restart and wherever it fails. `ServerInv` says for each
position of `restart_server` which of the two servers exists, runs, and is known to
the data service. `RestartsClean` (`CleanRestarts`): as long as no request was bound
*during* a restart, `restart_server` has never thrown at a name that is there, and
the process has ended by itself only if there never was a server; requests that join
requests bind in `create_state_mgr` do no harm.

**`ClientCacheProofs`**: `CacheTypes`, `NullNeverSeen`, `CachedIsHeld`,
`IdentityFresh`, `BadAvoided`. `CacheInv` ties a null entry to the holder of the
factory's lock (`NullInv`), gives each wrapper one owner (`OneOwner`, the theorem
`WrapperNotShared`), and says of each call what it may rely on (`CallOK`): a
transport it avoids stays bad and open, and no other call of the factory is about
to bring it back (`Apart`). On top of it, `PeersKeptApart` (`TransportsApart`):
whatever is refreshed, fails or is replaced at the same time, no transport is used
for two peers; `RouteInv` collects everything that uses a transport for a peer, a
call that is about to install it included (`Carries`). `RefreshAlone`
(`LockMatches`): a thread is in the locked region of `create_or_reinit_client`
exactly when it has the lock.

**`ClientRequestProofs`**: `RequestTypes`, `TakenAtMostOnce`, `OkIsTaken`,
`PromiseSetOnce` (`SetOnce`), and `RefusalMovesOn` (two action properties:
`SentElsewhere`, a request is never sent on to the member that has just refused it,
unless the caller's foreign id was all there was to compare with, and
`RemembersMember`, after the first hop there is a member's id).
`RequestInv` says where the request is when the cluster can have it: never while
it is under way or was refused.

**`RaftStepProofs`**: `StepTypes`, `AnsweredOnce`, `CountersExact`, for any groups,
messages and pool sizes. `StepInv` counts answers by position, and says that a queue
holds just messages posted to it, each once. `QueuedOnce` has the converse
(`InItsQueue`): a message that waits is in its pool's queue, so none is lost on the
way to a thread.

**`StorageProofs`**: `LogTypes`, `NoGap`, `ReadersServed`, `LastEntryKept`,
`SavesKept`, and `LogRefines`: the store implements `OffsetLog`. `Shape` describes
the map in the middle of `apply_pack` as well; `SegmentSize` is the counting
argument behind `next_slot`. `LogInvariant` is about `LogStore` by itself;
`StoreAlone` carries it to `StateManager`'s specification, which the others are
about. `FileInv` does for the files what `LogInv` does for the store.

Type correctness is proved of every component; a run repeats it only where it says
more than types (`client_request`: codes survive their conversions).

Only model-checked: the liveness properties (`LeaveCompletes`,
`ShutdownCompletes`, `DuplicatesGoAway`, `CallsEnd`, `MemberFound`,
`RestartEnds`, `RequestEnds`, `EveryMessageAnswered`, `ShutdownEnds`,
`FastAnswered`), as fairness and `ENABLED` are out of the prover's reach;
`LeaveCompletes`, `ShutdownCompletes` and `DuplicatesGoAway` only with joins that
overlap joins. Every safety property of a passing run is proved.

## Not modelled

* NuRaft's consensus, gRPC and `sisl`, beyond what the modules take as external;
  TLS, tokens and message sizes.
* Field-by-field conversion of messages, and the flatbuffers client (a second
  serialisation without a server side): they have no state.
* `append_peers`, `lookup_state_manager`, `raft_leader_id` and
  `get_cluster_config` only read. The first uses an iterator after it released
  the lock, the last two hand out or use references into a config that may be
  replaced; these are questions of lifetime which a model of values cannot put.
* The manager whose last reference is dropped on a thread its destructor joins:
  what the joins of `sisl` and NuRaft do then is not in this repository.
* `register_mgr_type`: types are registered before groups are used.
* Metrics other than the two thread counters; logging.
* `example_server` (option parsing and one call of `init_messaging`, `join_group`
  or `create_group`), the echo state machine, and the tests' log store.

## Running

    tlc -workers 2 -config lifecycle.cfg MCGroupLifecycle
    tlc -workers 2 -config group_commands.cfg MCReplContext
    tlc -workers 2 -config storage.cfg StateManager
    tlapm GroupOverlapProofs.tla
    tlapm GroupLifecycleProofs.tla

Every `.cfg` is named after its run; `PROJECT.json` names the module it belongs to.
Definitions marked `MUTANT` are deliberately wrong variants that show that a
property can fail; no specification uses them.
