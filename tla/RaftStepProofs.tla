---------------------------- MODULE RaftStepProofs ----------------------------
(***************************************************************************)
(* That every message is answered once, the pools' counters do not leak    *)
(* and no queue loses a message, for any groups, messages and pool sizes.  *)
(***************************************************************************)
EXTENDS RaftStep, FiniteSetTheorems, TLAPS

Members(q) == {q[i] : i \in 1..Len(q)}
Distinct(q) == \A i, j \in 1..Len(q) : q[i] = q[j] => i = j

\* A pool's queue holds the messages posted to it, each of them once.
QueueInv(p) ==
  /\ \A r \in Members(queue[p]) : rpc[r] = "queued" /\ Pool(r) = p
  /\ Distinct(queue[p])

\* When gRPC has drained, no message is left in raftStep or in a pool's queue.
Drained ==
  service \in {"closed", "destroyed"} =>
    \A r \in Rpcs : rpc[r] \in {"unsent", "answered", "done"}

StepInv ==
  /\ TypeOK
  /\ \A r \in Rpcs : responses[r] = IF rpc[r] \in {"answered", "done"} THEN 1 ELSE 0
  /\ \A p \in Pools : QueueInv(p)
  /\ \A p \in Pools : active[p] = Cardinality(Running(p))
  /\ Drained

-----------------------------------------------------------------------------

\* What a post to a pool's queue does to its length and members.
LEMMA AppendFacts ==
  ASSUME NEW S, NEW q \in Seq(S), NEW x \in S
  PROVE  /\ Append(q, x) \in Seq(S)
         /\ Members(Append(q, x)) = Members(q) \cup {x}
         /\ Distinct(q) /\ x \notin Members(q) => Distinct(Append(q, x))
<1>1. /\ Append(q, x) \in Seq(S) /\ Len(q) \in Nat
      /\ Len(Append(q, x)) = Len(q) + 1 /\ Append(q, x)[Len(q) + 1] = x
      /\ \A i \in 1..Len(q) : Append(q, x)[i] = q[i]
  OBVIOUS
<1> QED BY <1>1 DEF Members, Distinct

\* What taking the head of a queue without duplicates leaves in it.
LEMMA TailFacts ==
  ASSUME NEW S, NEW q \in Seq(S), q # <<>>
  PROVE  /\ Tail(q) \in Seq(S) /\ Head(q) \in S /\ Head(q) \in Members(q)
         /\ Members(Tail(q)) \subseteq Members(q)
         /\ Members(q) \subseteq Members(Tail(q)) \cup {Head(q)}
         /\ Distinct(q) => Distinct(Tail(q)) /\ Head(q) \notin Members(Tail(q))
<1>1. /\ Tail(q) \in Seq(S) /\ Len(q) \in Nat /\ Len(q) > 0
      /\ Len(Tail(q)) = Len(q) - 1 /\ Head(q) = q[1] /\ q[1] \in S
      /\ \A i \in 1..(Len(q) - 1) : Tail(q)[i] = q[i + 1]
  OBVIOUS
<1>2. Distinct(q) => Distinct(Tail(q))
  BY <1>1 DEF Distinct
<1>3. Members(Tail(q)) \subseteq Members(q) /\ q[1] \in Members(q)
  BY <1>1 DEF Members
<1>4. Distinct(q) => q[1] \notin Members(Tail(q))
  BY <1>1 DEF Members, Distinct
<1>5. Members(q) \subseteq Members(Tail(q)) \cup {q[1]}
  <2> SUFFICES ASSUME NEW i \in 1..Len(q), i # 1
               PROVE  q[i] \in Members(Tail(q))
    BY DEF Members
  <2>1. i - 1 \in 1..Len(Tail(q)) /\ Tail(q)[i - 1] = q[i]
    BY <1>1
  <2> QED BY Zenon, <2>1 DEF Members
<1> QED BY <1>1, <1>2, <1>3, <1>4, <1>5

\* A queue holds messages.
LEMMA MembersType == ASSUME NEW S, NEW q \in Seq(S) PROVE Members(q) \subseteq S
BY DEF Members

\* is_slow_message routes every message to one of the two pools.
LEMMA PoolType == \A r \in Rpcs : Pool(r) \in Pools
BY DEF Pool, Pools

\* A pool runs finitely many messages.
LEMMA RunningFinite == \A p : IsFiniteSet(Running(p))
<1> SUFFICES ASSUME NEW p PROVE IsFiniteSet(Running(p))
  OBVIOUS
<1>1. Running(p) \in SUBSET Rpcs
  BY DEF Running
<1> QED BY <1>1, RpcsAssumption, FS_Subset

\* A service without messages satisfies the invariant.
LEMMA InitStep == Init => StepInv
<1> SUFFICES ASSUME Init PROVE StepInv
  OBVIOUS
<1>1. TypeOK
  <2>1. server \in [Groups -> 0..MaxServers]
    BY ServersAssumption DEF Init
  <2>2. life \in [Groups -> [Incarnations -> Lives]]
    BY DEF Init, Lives
  <2> QED BY <2>1, <2>2, ServersAssumption DEF Init, TypeOK, Statuses
<1>2. \A p \in Pools : QueueInv(p)
  BY DEF Init, QueueInv, Members, Distinct
<1>3. \A p \in Pools : active[p] = Cardinality(Running(p))
  <2>1. \A p : Running(p) = {}
    BY DEF Init, Running, Busy
  <2> QED BY Zenon, <2>1, FS_EmptySet DEF Init
<1> QED BY <1>1, <1>2, <1>3 DEF Init, StepInv, Drained

\* A step of a message that is in no queue and runs neither before nor after.
LEMMA OffPool ==
  ASSUME StepInv, NEW r \in Rpcs, NEW s, rpc' = [rpc EXCEPT ![r] = s],
         rpc[r] \notin {"queued"} \cup Busy,
         s \notin Busy, UNCHANGED <<queue, active>>
  PROVE  /\ \A p \in Pools : QueueInv(p)'
         /\ \A p \in Pools : active'[p] = Cardinality(Running(p)')
<1>1. \A q \in Rpcs : rpc'[q] = IF q = r THEN s ELSE rpc[q]
  BY DEF StepInv, TypeOK
<1>2. \A p \in Pools : Members(queue[p]) \subseteq Rpcs
  BY MembersType DEF StepInv, TypeOK
<1>3. \A p \in Pools : QueueInv(p)'
  BY <1>1, <1>2 DEF StepInv, QueueInv, Pool
<1>4. \A p : Running(p)' = Running(p)
  BY <1>1 DEF Running, Pool, Busy
<1> QED BY <1>3, <1>4 DEF StepInv

\* A server that starts, stops or goes keeps the types of the registry.
LEMMA LifeType ==
  ASSUME TypeOK, NEW g \in Groups, NEW s, NEW v \in Lives,
         life' = [life EXCEPT ![g][s] = v]
  PROVE  life' \in [Groups -> [Incarnations -> Lives]]
<1>1. [life[g] EXCEPT ![s] = v] \in [Incarnations -> Lives]
  BY DEF TypeOK
<1> QED BY <1>1 DEF TypeOK

\* A message that stays in raftStep keeps the invariant.
LEMMA OnGrpcThread ==
  ASSUME StepInv, TypeOK', NEW r \in Rpcs, NEW s \in {"arrived", "joining", "valid"},
         Goto(r, s), rpc[r] \in {"unsent", "arrived", "joining"},
         rpc[r] = "unsent" => service \in {"up", "stopping"},
         UNCHANGED <<service, responses, queue, active>>
  PROVE  StepInv'
<1>1. rpc' = [rpc EXCEPT ![r] = s]
  BY DEF Goto
<1>2. \A q \in Rpcs : responses'[q] = IF rpc'[q] \in {"answered", "done"} THEN 1 ELSE 0
  BY <1>1 DEF StepInv, TypeOK
<1>3. Drained'
  BY <1>1 DEF StepInv, TypeOK, Drained
<1>4. rpc[r] \notin {"queued"} \cup Busy /\ s \notin Busy
  BY DEF Busy
<1>5. /\ \A p \in Pools : QueueInv(p)'
      /\ \A p \in Pools : active'[p] = Cardinality(Running(p)')
  BY Zenon, <1>1, <1>4, OffPool
<1> QED BY <1>2, <1>3, <1>5 DEF StepInv

\* A message that arrives, passes validation or joins its group keeps it.
LEMMA ArriveStep ==
  ASSUME StepInv, NEW r \in Rpcs,
         Arrive(r) \/ Accept(r) \/ TryEmplace(r) \/ \E s \in Incarnations : Construct(r, s)
  PROVE  StepInv'
<1>1. Group[r] \in Groups
  BY GroupAssumption
<1>2. CASE Arrive(r) \/ Accept(r)
  <2>1. TypeOK'
    BY <1>2 DEF StepInv, TypeOK, Arrive, Accept, Goto, registry, answers, pools
  <2> QED BY <1>2, <2>1, OnGrpcThread DEF Arrive, Accept, registry, answers, pools
<1>3. ASSUME NEW s \in Incarnations, Construct(r, s) PROVE StepInv'
  <2>1. life' \in [Groups -> [Incarnations -> Lives]]
    BY <1>1, <1>3, LifeType DEF StepInv, Construct, Lives
  <2>2. TypeOK'
    BY <1>3, <2>1 DEF StepInv, TypeOK, Construct, Goto, answers, pools, Incarnations
  <2> QED BY <1>3, <2>2, OnGrpcThread DEF Construct, answers, pools
<1>4. CASE TryEmplace(r)
  <2>1. life' \in [Groups -> [Incarnations -> Lives]]
    <3>1. CASE UNCHANGED life
      BY <3>1 DEF StepInv, TypeOK
    <3>2. CASE Erase(Group[r], held[r])
      BY <1>1, <3>2, LifeType DEF StepInv, Erase, Lives
    <3> QED BY <1>4, <3>1, <3>2 DEF TryEmplace
  <2>2. server' \in [Groups -> 0..MaxServers]
    <3>1. server \in [Groups -> 0..MaxServers] /\ held[r] \in 0..MaxServers /\ 0 \in 0..MaxServers
      BY ServersAssumption DEF StepInv, TypeOK
    <3>2. \E v \in 0..MaxServers : server' = [server EXCEPT ![Group[r]] = v]
      BY <1>4, <3>1 DEF TryEmplace, Erase
    <3> QED BY <1>1, <3>1, <3>2
  <2>3. TypeOK'
    BY <1>4, <2>1, <2>2, ServersAssumption DEF StepInv, TypeOK, TryEmplace, Goto, answers, pools
  <2> QED BY <1>4, <2>3, OnGrpcThread DEF TryEmplace, answers, pools
<1> QED BY <1>2, <1>3, <1>4

\* raftStep's answers of its own keep it: the message goes to no pool.
LEMMA RefuseStep ==
  ASSUME StepInv, NEW r \in Rpcs, Reject(r) \/ LookupMissing(r)
  PROVE  StepInv'
<1>1. /\ rpc[r] \in {"arrived", "valid"} /\ rpc' = [rpc EXCEPT ![r] = "done"]
      /\ responses' = [responses EXCEPT ![r] = @ + 1]
      /\ UNCHANGED <<service, server, life, held, status, queue, active>>
  BY DEF Reject, LookupMissing, Respond, Goto, registry, pools
<1>2. TypeOK'
  BY <1>1 DEF StepInv, TypeOK
<1>3. \A q \in Rpcs : responses'[q] = IF rpc'[q] \in {"answered", "done"} THEN 1 ELSE 0
  BY <1>1 DEF StepInv, TypeOK
<1>4. Drained'
  BY <1>1 DEF StepInv, TypeOK, Drained
<1>5. /\ \A p \in Pools : QueueInv(p)'
      /\ \A p \in Pools : active'[p] = Cardinality(Running(p)')
  <2>1. rpc[r] \notin {"queued"} \cup Busy
    BY <1>1 DEF Busy
  <2>2. rpc' = [rpc EXCEPT ![r] = "done"] /\ "done" \notin Busy /\ UNCHANGED <<queue, active>>
    BY <1>1 DEF Busy
  <2> QED BY Zenon, <2>1, <2>2, OffPool
<1> QED BY <1>2, <1>3, <1>4, <1>5 DEF StepInv

\* Posting a message to its pool keeps it.
LEMMA PostStep == ASSUME StepInv, NEW r \in Rpcs, Post(r) PROVE StepInv'
<1>1. /\ rpc[r] = "valid" /\ rpc' = [rpc EXCEPT ![r] = "queued"]
      /\ held' = [held EXCEPT ![r] = server[Group[r]]]
      /\ queue' = [queue EXCEPT ![Pool(r)] = Append(@, r)]
      /\ UNCHANGED <<service, server, life, status, responses, active>>
  BY DEF Post, Goto, registry, answers
<1>2. \A q \in Rpcs : rpc'[q] = IF q = r THEN "queued" ELSE rpc[q]
  BY <1>1 DEF StepInv, TypeOK
<1>3. \A p \in Pools : /\ queue[p] \in Seq(Rpcs)
                       /\ queue'[p] = IF p = Pool(r) THEN Append(queue[p], r) ELSE queue[p]
  BY <1>1 DEF StepInv, TypeOK
<1>4. TypeOK'
  <2>1. queue' \in [Pools -> Seq(Rpcs)]
    BY <1>1, <1>3, PoolType, AppendFacts DEF StepInv, TypeOK
  <2>2. server[Group[r]] \in 0..MaxServers
    BY GroupAssumption DEF StepInv, TypeOK
  <2> QED BY SMTT(40), <1>1, <2>1, <2>2 DEF StepInv, TypeOK
<1>5. ASSUME NEW p \in Pools PROVE QueueInv(p)'
  <2>1. Members(queue[p]) \subseteq Rpcs /\ r \notin Members(queue[p])
    BY <1>1, <1>3, MembersType DEF StepInv, QueueInv
  <2>2. CASE p # Pool(r)
    BY <1>2, <1>3, <2>1, <2>2 DEF StepInv, QueueInv, Pool
  <2>3. CASE p = Pool(r)
    <3>1. PICK q \in Seq(Rpcs) : q = queue[p] /\ queue'[p] = Append(q, r)
      BY Zenon, <1>3, <2>3
    <3>2. Members(queue'[p]) = Members(q) \cup {r} /\ Distinct(queue'[p])
      BY <2>1, <3>1, AppendFacts DEF StepInv, QueueInv
    <3> QED BY <1>2, <2>1, <2>3, <3>1, <3>2 DEF StepInv, QueueInv, Pool
  <2> QED BY <2>2, <2>3
<1>6. \A p \in Pools : active'[p] = Cardinality(Running(p)')
  <2>1. \A p : Running(p)' = Running(p)
    BY <1>1, <1>2 DEF Running, Pool, Busy
  <2> QED BY <1>1, <2>1 DEF StepInv
<1>7. \A q \in Rpcs : responses'[q] = IF rpc'[q] \in {"answered", "done"} THEN 1 ELSE 0
  BY <1>1, <1>2 DEF StepInv
<1>8. Drained'
  BY <1>1, <1>2 DEF StepInv, Drained
<1> QED BY <1>4, <1>5, <1>6, <1>7, <1>8 DEF StepInv

\* A pool thread that takes a message and counts itself keeps it.
LEMMA TakeStep == ASSUME StepInv, NEW p \in Pools, Take(p) PROVE StepInv'
<1>1. PICK q \in Seq(Rpcs) : q = queue[p] /\ q # <<>>
  BY DEF Take, StepInv, TypeOK
<1>2. PICK h \in Rpcs : h = Head(q) /\ h \in Members(q)
  BY <1>1, TailFacts
<1>3. /\ rpc' = [rpc EXCEPT ![h] = "running"]
      /\ queue' = [queue EXCEPT ![p] = Tail(q)]
      /\ active' = [active EXCEPT ![p] = active[p] + 1]
      /\ UNCHANGED <<service, server, life, held, status, responses>>
  BY <1>1, <1>2 DEF Take, Goto, registry, answers
<1>4. rpc[h] = "queued" /\ Pool(h) = p
  BY <1>1, <1>2 DEF StepInv, QueueInv
<1>5. /\ \A x \in Rpcs : rpc'[x] = IF x = h THEN "running" ELSE rpc[x]
      /\ \A o \in Pools : queue'[o] = IF o = p THEN Tail(q) ELSE queue[o]
      /\ \A o \in Pools : active'[o] = IF o = p THEN active[o] + 1 ELSE active[o]
  BY <1>3 DEF StepInv, TypeOK
<1>6. TypeOK'
  <2>1. Tail(q) \in Seq(Rpcs)
    BY <1>1, TailFacts
  <2>2. queue' \in [Pools -> Seq(Rpcs)]
    BY <1>3, <2>1 DEF StepInv, TypeOK
  <2>3. active' \in [Pools -> Nat]
    BY <1>3 DEF StepInv, TypeOK
  <2> QED BY SMTT(40), <1>3, <2>2, <2>3 DEF StepInv, TypeOK
<1>7. ASSUME NEW o \in Pools PROVE QueueInv(o)'
  <2>1. Members(queue[o]) \subseteq Rpcs
    BY MembersType DEF StepInv, TypeOK
  <2>2. CASE o = p
    <3>1. /\ Members(Tail(q)) \subseteq Members(q) /\ Distinct(Tail(q))
          /\ h \notin Members(Tail(q))
      BY <1>1, <1>2, TailFacts DEF StepInv, QueueInv
    <3> QED BY <1>1, <1>5, <2>1, <2>2, <3>1 DEF StepInv, QueueInv, Pool
  <2>3. CASE o # p
    BY <1>4, <1>5, <2>1, <2>3 DEF StepInv, QueueInv, Pool
  <2> QED BY <2>2, <2>3
<1>8. ASSUME NEW o \in Pools PROVE active'[o] = Cardinality(Running(o)')
  <2>1. CASE o = p
    <3>1. Running(o)' = Running(o) \cup {h} /\ h \notin Running(o)
      BY <1>4, <1>5, <2>1 DEF Running, Pool, Busy
    <3>2. Cardinality(Running(o) \cup {h}) = Cardinality(Running(o)) + 1
      BY Zenon, <3>1, RunningFinite, FS_AddElement
    <3> QED BY <1>5, <2>1, <3>1, <3>2 DEF StepInv
  <2>2. CASE o # p
    <3>1. Running(o)' = Running(o)
      BY <1>4, <1>5, <2>2 DEF Running, Pool, Busy
    <3> QED BY <1>5, <2>2, <3>1 DEF StepInv
  <2> QED BY <2>1, <2>2
<1>9. \A x \in Rpcs : responses'[x] = IF rpc'[x] \in {"answered", "done"} THEN 1 ELSE 0
  BY <1>3, <1>4, <1>5 DEF StepInv
<1>10. Drained'
  BY <1>3, <1>4, <1>5 DEF StepInv, Drained
<1> QED BY <1>6, <1>7, <1>8, <1>9, <1>10 DEF StepInv

\* A message that stays with its pool thread keeps pools and counters.
LEMMA OnPoolThread ==
  ASSUME StepInv, NEW r \in Rpcs, NEW s \in Busy, rpc[r] \in Busy,
         rpc' = [rpc EXCEPT ![r] = s], UNCHANGED <<queue, active>>
  PROVE  /\ \A p \in Pools : QueueInv(p)'
         /\ \A p \in Pools : active'[p] = Cardinality(Running(p)')
<1>1. \A x \in Rpcs : rpc'[x] = IF x = r THEN s ELSE rpc[x]
  BY DEF StepInv, TypeOK
<1>2. ASSUME NEW p \in Pools PROVE QueueInv(p)'
  <2>1. Members(queue[p]) \subseteq Rpcs
    BY MembersType DEF StepInv, TypeOK
  <2>2. r \notin Members(queue[p])
    BY DEF StepInv, QueueInv, Busy
  <2> QED BY <1>1, <2>1, <2>2 DEF StepInv, QueueInv, Pool
<1>3. \A p : Running(p)' = Running(p)
  BY <1>1 DEF Running, Pool, Busy
<1> QED BY <1>2, <1>3 DEF StepInv

\* Taking NuRaft's lock keeps it.
LEMMA ProcessReqStep == ASSUME StepInv, NEW r \in Rpcs, ProcessReq(r) PROVE StepInv'
<1>1. /\ rpc[r] = "running" /\ rpc' = [rpc EXCEPT ![r] = "stepping"]
      /\ UNCHANGED <<service, server, life, held, status, responses, queue, active>>
  BY DEF ProcessReq, Goto, registry, answers, pools
<1>2. TypeOK'
  BY <1>1 DEF StepInv, TypeOK
<1>3. \A x \in Rpcs : responses'[x] = IF rpc'[x] \in {"answered", "done"} THEN 1 ELSE 0
  BY <1>1 DEF StepInv, TypeOK
<1>4. Drained'
  BY <1>1 DEF StepInv, TypeOK, Drained
<1>5. rpc[r] \in Busy /\ "stepping" \in Busy
  BY <1>1 DEF Busy
<1> QED BY Zenon, <1>1, <1>2, <1>3, <1>4, <1>5, OnPoolThread DEF StepInv

\* execute_step and its answer keep it.
LEMMA ExecuteStepStep == ASSUME StepInv, NEW r \in Rpcs, ExecuteStep(r) PROVE StepInv'
<1>1. /\ rpc[r] = "stepping" /\ rpc' = [rpc EXCEPT ![r] = "answered"]
      /\ \E s \in Statuses : status' = [status EXCEPT ![r] = s]
      /\ responses' = [responses EXCEPT ![r] = @ + 1]
      /\ UNCHANGED <<service, server, life, held, queue, active>>
  BY DEF ExecuteStep, Respond, Statuses, Goto, registry, pools
<1>2. TypeOK'
  BY <1>1 DEF StepInv, TypeOK
<1>3. \A x \in Rpcs : responses'[x] = IF rpc'[x] \in {"answered", "done"} THEN 1 ELSE 0
  BY <1>1 DEF StepInv, TypeOK
<1>4. Drained'
  BY <1>1 DEF StepInv, TypeOK, Drained
<1>5. rpc[r] \in Busy /\ "answered" \in Busy
  BY <1>1 DEF Busy
<1> QED BY Zenon, <1>1, <1>2, <1>3, <1>4, <1>5, OnPoolThread DEF StepInv

\* The guard's decrement keeps it, whatever the outcome of the step was.
LEMMA ReleaseStep == ASSUME StepInv, NEW r \in Rpcs, Release(r) PROVE StepInv'
<1>1. /\ rpc[r] = "answered" /\ rpc' = [rpc EXCEPT ![r] = "done"]
      /\ held' = [held EXCEPT ![r] = 0]
      /\ status' = [status EXCEPT ![r] = "none"]
      /\ active' = [active EXCEPT ![Pool(r)] = @ - 1]
      /\ UNCHANGED <<service, server, life, responses, queue>>
  BY DEF Release, Goto, registry
<1>2. \A x \in Rpcs : rpc'[x] = IF x = r THEN "done" ELSE rpc[x]
  BY <1>1 DEF StepInv, TypeOK
<1>3. \A p \in Pools : active'[p] = IF p = Pool(r) THEN active[p] - 1 ELSE active[p]
  BY <1>1 DEF StepInv, TypeOK
<1>4. ASSUME NEW p \in Pools
      PROVE  active'[p] = Cardinality(Running(p)') /\ active'[p] \in Nat
  <2>1. CASE p = Pool(r)
    <3>1. Running(p)' = Running(p) \ {r} /\ r \in Running(p)
      BY <1>1, <1>2, <2>1 DEF Running, Pool, Busy
    <3>2. /\ Cardinality(Running(p) \ {r}) = Cardinality(Running(p)) - 1
          /\ Cardinality(Running(p) \ {r}) \in Nat
      BY <3>1, RunningFinite, FS_RemoveElement, FS_CardinalityType
    <3> QED BY <1>3, <2>1, <3>1, <3>2 DEF StepInv
  <2>2. CASE p # Pool(r)
    <3>1. Running(p)' = Running(p)
      BY <1>1, <1>2, <2>2 DEF Running, Pool, Busy
    <3> QED BY <1>3, <2>2, <3>1 DEF StepInv, TypeOK
  <2> QED BY <2>1, <2>2
<1>5. TypeOK'
  <2>1. active' \in [Pools -> Nat]
    BY Zenon, <1>1, <1>4 DEF StepInv, TypeOK
  <2>2. held' \in [Rpcs -> 0..MaxServers]
    BY <1>1, ServersAssumption DEF StepInv, TypeOK
  <2>3. status' \in [Rpcs -> Statuses]
    BY <1>1 DEF StepInv, TypeOK, Statuses
  <2> QED BY SMTT(40), <1>1, <2>1, <2>2, <2>3 DEF StepInv, TypeOK
<1>6. ASSUME NEW p \in Pools PROVE QueueInv(p)'
  <2>1. Members(queue[p]) \subseteq Rpcs
    BY MembersType DEF StepInv, TypeOK
  <2> QED BY <1>1, <1>2, <2>1 DEF StepInv, QueueInv, Pool
<1>7. \A x \in Rpcs : responses'[x] = IF rpc'[x] \in {"answered", "done"} THEN 1 ELSE 0
  BY <1>1, <1>2 DEF StepInv
<1>8. Drained'
  BY <1>1, <1>2 DEF StepInv, Drained
<1> QED BY <1>4, <1>5, <1>6, <1>7, <1>8 DEF StepInv

\* Steps that leave messages and pools alone.
LEMMA ServiceStep ==
  ASSUME StepInv, TypeOK', UNCHANGED <<rpc, responses, queue, active>>, Drained'
  PROVE  StepInv'
<1>1. \A p : Running(p)' = Running(p) /\ (QueueInv(p) => QueueInv(p)')
  BY DEF Running, Pool, QueueInv
<1> QED BY <1>1 DEF StepInv

\* Every step of the service keeps the invariant.
LEMMA NextStep == StepInv /\ [Next]_vars => StepInv'
<1> SUFFICES ASSUME StepInv, [Next]_vars PROVE StepInv'
  OBVIOUS
<1>1. ASSUME NEW g \in Groups, StopServer(g) PROVE StepInv'
  <2>1. life' \in [Groups -> [Incarnations -> Lives]]
    BY <1>1, LifeType DEF StepInv, StopServer, Lives
  <2>2. UNCHANGED <<service, server, rpc, held, status, responses, queue, active>>
    BY <1>1 DEF StopServer, answers, pools
  <2>3. TypeOK' /\ Drained'
    BY <2>1, <2>2 DEF StepInv, TypeOK, Drained
  <2> QED BY <2>2, <2>3, ServiceStep
<1>2. ASSUME NEW g \in Groups, NEW s \in Incarnations, ListenerGone(g, s) \/ Reclaim(g, s)
      PROVE  StepInv'
  <2>1. /\ Erase(g, s)
        /\ UNCHANGED <<service, rpc, held, status, responses, queue, active>>
    BY <1>2 DEF ListenerGone, Reclaim, answers, pools
  <2>2. life' \in [Groups -> [Incarnations -> Lives]]
    BY <2>1, LifeType DEF StepInv, Erase, Lives
  <2>3. server' \in [Groups -> 0..MaxServers]
    BY <2>1, ServersAssumption DEF Erase, StepInv, TypeOK
  <2>4. TypeOK' /\ Drained'
    BY <2>1, <2>2, <2>3 DEF StepInv, TypeOK, Drained
  <2> QED BY <2>1, <2>4, ServiceStep
<1>3. CASE ServiceShutdown \/ GrpcShutdown
  <2>1. /\ service' \in {"stopping", "closing"}
        /\ UNCHANGED <<server, life, rpc, held, status, responses, queue, active>>
    BY <1>3 DEF ServiceShutdown, GrpcShutdown, registry, answers, pools
  <2>2. TypeOK' /\ Drained'
    BY <2>1 DEF StepInv, TypeOK, Drained
  <2> QED BY <2>1, <2>2, ServiceStep
<1>4. CASE GrpcDrained
  <2>1. /\ service' = "closed"
        /\ UNCHANGED <<server, life, rpc, held, status, responses, queue, active>>
    BY <1>4 DEF GrpcDrained, registry, answers, pools
  <2>2. TypeOK'
    BY <2>1 DEF StepInv, TypeOK
  <2>3. Drained'
    BY <1>4, <2>1 DEF GrpcDrained, StepInv, Drained
  <2> QED BY <2>1, <2>2, <2>3, ServiceStep
<1>5. CASE PoolsDestroyed
  <2>1. /\ service = "closed" /\ service' = "destroyed" /\ queue' = [p \in Pools |-> <<>>]
        /\ UNCHANGED <<server, life, rpc, held, status, responses, active>>
    BY <1>5 DEF PoolsDestroyed, registry, answers
  <2>2. TypeOK' /\ Drained'
    BY <2>1 DEF StepInv, TypeOK, Drained
  <2>3. \A p \in Pools : QueueInv(p)'
    BY <2>1 DEF QueueInv, Members, Distinct
  <2>4. \A p : Running(p)' = Running(p)
    BY <2>1 DEF Running, Pool, Busy
  <2> QED BY <2>1, <2>2, <2>3, <2>4 DEF StepInv
<1>6. CASE UNCHANGED vars
  <2>1. UNCHANGED <<service, server, life, rpc, held, status, responses, queue, active>>
    BY <1>6 DEF vars, registry, answers, pools
  <2>2. TypeOK' /\ Drained'
    BY <2>1 DEF StepInv, TypeOK, Drained
  <2> QED BY <2>1, <2>2, ServiceStep
<1> QED
  BY SMTT(40), <1>1, <1>2, <1>3, <1>4, <1>5, <1>6, ArriveStep, RefuseStep, PostStep,
     TakeStep, ProcessReqStep, ExecuteStepStep, ReleaseStep DEF Next, GrpcStep

-----------------------------------------------------------------------------
(* The results.                                                            *)

\* Each message is in one place, and answered where it has to be: raftStep, the
\* queues, the counters and the shutdown agree at all times.
THEOREM StepInvariant == Spec => []StepInv
BY InitStep, NextStep, PTL DEF Spec

\* Types of the service, its messages and its pools.
THEOREM StepTypes == Spec => []TypeOK
<1>1. StepInv => TypeOK
  BY DEF StepInv
<1> QED BY <1>1, StepInvariant, PTL

\* raftStep and execute_step answer a message once between them.
THEOREM AnsweredOnce == Spec => []OneResponse
<1>1. StepInv => OneResponse
  BY DEF StepInv, OneResponse
<1> QED BY <1>1, StepInvariant, PTL

\* atomic_counter_guard: a counter is the number of its pool's busy threads.
THEOREM CountersExact == Spec => []CountersDoNotLeak
<1>1. StepInv => CountersDoNotLeak
  BY DEF StepInv, CountersDoNotLeak
<1> QED BY <1>1, StepInvariant, PTL

-----------------------------------------------------------------------------
(* What a posted message waits for.                                        *)

\* A message that was posted and not taken is in the queue of its pool.
InItsQueue == \A r \in Rpcs : rpc[r] = "queued" => r \in Members(queue[Pool(r)])

\* The queues of a service without messages.
LEMMA InitQueued == Init => InItsQueue
BY DEF Init, InItsQueue

\* No step, the end of the pools included, loses a message that is queued.
LEMMA NextQueued == StepInv /\ InItsQueue /\ [Next]_vars => InItsQueue'
<1> SUFFICES ASSUME StepInv, InItsQueue, [Next]_vars, NEW x \in Rpcs, rpc'[x] = "queued"
             PROVE  x \in Members(queue'[Pool(x)])
  BY DEF InItsQueue, Pool
<1>1. Pool(x) \in Pools /\ queue \in [Pools -> Seq(Rpcs)]
  BY PoolType DEF StepInv, TypeOK
<1>2. CASE rpc[x] = "queued" /\ queue' = queue
  BY <1>2 DEF InItsQueue
<1>3. ASSUME NEW r \in Rpcs, Post(r) PROVE x \in Members(queue'[Pool(x)])
  <2>1. PICK q \in Seq(Rpcs) : q = queue[Pool(x)]
    BY <1>1
  <2>2. queue'[Pool(x)] = IF Pool(x) = Pool(r) THEN Append(q, r) ELSE q
    BY <1>1, <1>3, <2>1 DEF Post
  <2>3. Members(Append(q, r)) = Members(q) \cup {r}
    BY AppendFacts
  <2>4. x = r \/ x \in Members(q)
    BY <1>3, <2>1 DEF Post, Goto, StepInv, TypeOK, InItsQueue
  <2> QED BY <2>2, <2>3, <2>4
<1>4. ASSUME NEW p \in Pools, Take(p) PROVE x \in Members(queue'[Pool(x)])
  <2>1. PICK q \in Seq(Rpcs) : q = queue[p] /\ q # <<>>
    BY <1>1, <1>4 DEF Take
  <2>2. Head(q) \in Rpcs /\ Members(q) \subseteq Members(Tail(q)) \cup {Head(q)}
    BY <2>1, TailFacts
  <2>3. x # Head(q) /\ rpc[x] = "queued"
    BY <1>4, <2>1, <2>2 DEF Take, Goto, StepInv, TypeOK
  <2>4. queue'[Pool(x)] = IF Pool(x) = p THEN Tail(q) ELSE queue[Pool(x)]
    BY <1>1, <1>4, <2>1 DEF Take
  <2>5. x \in Members(queue[Pool(x)])
    BY <2>3 DEF InItsQueue
  <2> QED BY <2>1, <2>2, <2>3, <2>4, <2>5
<1>5. CASE PoolsDestroyed
  BY <1>5 DEF PoolsDestroyed, StepInv, Drained
<1>6. ASSUME NEW r \in Rpcs, NEW s, s # "queued", Goto(r, s), queue' = queue
      PROVE  x \in Members(queue'[Pool(x)])
  <2>1. rpc[x] = "queued"
    BY <1>6 DEF Goto, StepInv, TypeOK
  <2> QED BY <1>2, <1>6, <2>1
<1>7. ASSUME NEW r \in Rpcs,
             \/ Arrive(r) \/ Reject(r) \/ Accept(r) \/ LookupMissing(r) \/ TryEmplace(r)
             \/ ProcessReq(r) \/ ExecuteStep(r) \/ Release(r)
             \/ \E s \in Incarnations : Construct(r, s)
      PROVE  x \in Members(queue'[Pool(x)])
  BY <1>6, <1>7 DEF Arrive, Reject, Accept, Construct, TryEmplace, LookupMissing,
                    ProcessReq, ExecuteStep, Release, pools
<1>8. CASE \/ ServiceShutdown \/ GrpcShutdown \/ GrpcDrained \/ UNCHANGED vars
           \/ \E g \in Groups : \/ StopServer(g)
                               \/ \E s \in Incarnations : ListenerGone(g, s) \/ Reclaim(g, s)
  BY <1>2, <1>8 DEF StopServer, ListenerGone, Reclaim, ServiceShutdown, GrpcShutdown,
                    GrpcDrained, vars, pools
<1> QED BY <1>3, <1>4, <1>5, <1>7, <1>8 DEF Next, GrpcStep

\* asio::post and the pools: from raftStep to execute_step a message is in one
\* queue, its own pool's, and there once; so a free thread finds it.
THEOREM QueuedOnce == Spec => [](InItsQueue /\ \A p \in Pools : QueueInv(p))
<1>1. StepInv => \A p \in Pools : QueueInv(p)
  BY DEF StepInv
<1> QED BY <1>1, InitQueued, NextQueued, StepInvariant, PTL DEF Spec
=============================================================================
