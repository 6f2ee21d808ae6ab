-------------------------- MODULE DataServiceProofs --------------------------
(***************************************************************************)
(* That restarts keep a server and every request bound to it, for any      *)
(* number of restarts and names, and whatever overlaps them.               *)
(***************************************************************************)
EXTENDS DataService, TLAPS

Where == {"idle", "make", "reset", "associate", "run", "bind"}

Types ==
  /\ started \in BOOLEAN /\ enabled \in BOOLEAN
  /\ thrown \in {"nowhere", "associate", "bind"}
  /\ server \in Servers \cup {Null} /\ ptr \in Servers \cup {Garbage}
  /\ tmp \in Servers \cup {Null}
  /\ life \in [Servers -> {"none", "inited", "running", "dead"}]
  /\ reg \in [Servers -> SUBSET (Names \cup {"RaftStep"})]
  /\ map \subseteq Names /\ (~enabled => map = {})
  /\ restart \in Where

\* A server in service runs, unless its restart threw in associate, and the
\* data service has its pointer; it keeps both until Reset.
Serving ==
  /\ (restart \in {"idle", "make"} /\ server # Null) =>
       life[server] = (IF thrown = "associate" THEN "inited" ELSE "running")
  /\ (restart \in {"idle", "make", "reset"} /\ server # Null) =>
       life[server] # "dead" /\ (enabled => ptr = server)

\* Where restart_server is with the new one.
Making ==
  /\ restart = "reset" => tmp \in Servers /\ life[tmp] = "inited" /\ tmp # server
  /\ restart \in {"associate", "run"} => server # Null /\ life[server] = "inited"
  /\ restart = "bind" => server # Null /\ life[server] = "running"
  /\ restart \in {"run", "bind"} => (enabled => ptr = server)
  /\ restart \in {"reset", "associate", "run", "bind"} => thrown = "nowhere"
  /\ (restart \in {"idle", "make"} /\ server = Null)
       => \A s \in Servers : life[s] = "none"

\* Outside of the restart that replaces it, a server has all requests.
Served ==
  (restart \in {"idle", "make"} /\ server # Null /\ thrown = "nowhere") =>
    "RaftStep" \in reg[server] /\ map \subseteq reg[server]

ServerInv == Types /\ (proc = "up" => Serving /\ Making /\ Served)

\* Neither a null nor an uninitialised pointer is a server.
LEMMA ServerNumbers == 0 \notin Servers /\ -1 \notin Servers
BY MaxServersAssumption DEF Servers

\* A manager that starts satisfies the invariant.
LEMMA InitServer == Init => ServerInv
BY Zenon, ServerNumbers
   DEF Init, ServerInv, Types, Serving, Making, Served, Where, Null, Garbage

\* Binding a request, whoever does it, with the pointer the data service has.
LEMMA BindStep ==
  ASSUME ServerInv, proc = "up", NEW n \in Names, BindRequest(n),
         UNCHANGED <<started, enabled, server, ptr, life, restart, tmp, thrown>>
  PROVE  ServerInv'
<1>1. Types'
  BY DEF ServerInv, Types, BindRequest
<1>2. Serving' /\ Making'
  BY DEF ServerInv, Serving, Making
<1>3. ASSUME proc' = "up" PROVE Served'
  BY <1>3 DEF ServerInv, Types, Serving, Served, BindRequest
<1> QED BY <1>1, <1>2, <1>3 DEF ServerInv

\* Every step of restart_server and of its concurrent users keeps the invariant.
LEMMA NextServer == ServerInv /\ [Next]_vars => ServerInv'
<1> SUFFICES ASSUME ServerInv, [Next]_vars PROVE ServerInv'
  OBVIOUS
<1> USE ServerNumbers DEF Null, Garbage
<1>1. CASE Restart
  BY <1>1 DEF ServerInv, Types, Serving, Making, Served, Restart, Where, history
<1>2. CASE proc = "up" /\ Make
  <2>1. CASE Ends /\ UNCHANGED <<life, tmp, thrown>>
    BY <1>2, <2>1 DEF ServerInv, Types, Serving, Making, Served, Make, Ends, Where
  <2>2. CASE \E s \in Servers : /\ life[s] = "none"
                                /\ life' = [life EXCEPT ![s] = "inited"]
                                /\ tmp' = s
                                /\ restart' = "reset"
                                /\ thrown' = "nowhere"
                                /\ UNCHANGED started
    BY <1>2, <2>2 DEF ServerInv, Types, Serving, Making, Served, Make, Where
  <2> QED BY Zenon, <1>2, <2>1, <2>2 DEF Make
<1>3. CASE proc = "up" /\ Reset
  BY <1>3 DEF ServerInv, Types, Serving, Making, Served, Reset, Where, history
<1>4. CASE proc = "up" /\ associate
  <2>1. CASE restart' = "run" /\ UNCHANGED <<proc, started, life, thrown>>
    BY <1>4, <2>1 DEF ServerInv, Types, Serving, Making, Served, associate, Where
  <2>2. CASE Throw("associate")
    BY <1>4, <2>2 DEF ServerInv, Types, Serving, Making, Served, associate, Throw, Where
  <2>3. CASE proc' = "aborted" /\ UNCHANGED <<started, life, restart, thrown>>
    BY <1>4, <2>3 DEF ServerInv, Types, Making, associate
  <2> QED BY <1>4, <2>1, <2>2, <2>3 DEF associate
<1>5. CASE proc = "up" /\ run
  BY <1>5 DEF ServerInv, Types, Serving, Making, Served, run, Where, history
<1>6. CASE proc = "up" /\ bind
  <2>1. PICK some \in SUBSET (map \cup {"RaftStep"}) :
          reg' = [reg EXCEPT ![server] = @ \cup some]
    <3>1. CASE reg' = [reg EXCEPT ![server] = @ \cup map \cup {"RaftStep"}]
      <4> SUFFICES reg' = [reg EXCEPT ![server] = @ \cup (map \cup {"RaftStep"})]
        OBVIOUS
      <4> QED BY <1>6, <3>1 DEF ServerInv, Types, Making
    <3>2. CASE \E some \in SUBSET map : reg' = [reg EXCEPT ![server] = @ \cup some]
      BY <3>2
    <3> QED BY <1>6, <3>1, <3>2 DEF bind
  <2>2. reg' \in [Servers -> SUBSET (Names \cup {"RaftStep"})]
    BY <2>1 DEF ServerInv, Types
  <2>3. Types'
    <3>1. life' \in [Servers -> {"none", "inited", "running", "dead"}]
      BY <1>6 DEF ServerInv, Types, bind, Throw
    <3>2. /\ started' \in BOOLEAN /\ restart' \in Where
          /\ thrown' \in {"nowhere", "associate", "bind"}
      BY <1>6 DEF ServerInv, Types, bind, Throw, Ends, Where
    <3>3. UNCHANGED <<enabled, server, ptr, tmp, map>>
      BY <1>6 DEF bind
    <3> QED BY Zenon, <2>2, <3>1, <3>2, <3>3 DEF ServerInv, Types
  <2>4. proc' = "up" => /\ UNCHANGED <<enabled, server, ptr, life>>
                        /\ restart' = "idle"
                        /\ thrown' = thrown \/ thrown' = "bind"
    BY Zenon, <1>6 DEF bind, Throw, Ends
  <2>5. server # 0 /\ life[server] = "running" /\ (enabled => ptr = server)
    BY Zenon, <1>6 DEF ServerInv, Making, bind
  <2>6. thrown # "associate"
    BY <1>6 DEF ServerInv, Making, bind
  <2>7. proc' = "up" => Serving' /\ Making'
    BY <2>4, <2>5, <2>6 DEF Serving, Making
  <2>8. proc' = "up" => Served'
    BY <1>6 DEF ServerInv, Types, Making, Served, bind, Throw, Ends
  <2> QED BY <2>3, <2>7, <2>8 DEF ServerInv
<1>7. ASSUME NEW n \in Names, bind_data_service_request(n) PROVE ServerInv'
  BY <1>7, BindStep DEF bind_data_service_request
<1>8. CASE JoinArrives
  BY <1>8 DEF ServerInv, Types, Serving, Making, Served, JoinArrives, history
<1>9. CASE JoinBinds
  <2>1. CASE \E n \in Names : BindRequest(n)
    BY <1>9, <2>1, BindStep DEF JoinBinds, history
  <2>2. CASE UNCHANGED <<proc, map, reg>>
    BY <1>9, <2>2 DEF ServerInv, Types, Serving, Making, Served, JoinBinds, history
  <2> QED BY <1>9, <2>1, <2>2 DEF JoinBinds
<1>10. CASE Destroy
  <2>1. Types' /\ proc' # "up"
    BY <1>10 DEF ServerInv, Types, Destroy, history
  <2> QED BY <2>1 DEF ServerInv
<1>11. CASE UNCHANGED vars
  BY <1>11 DEF ServerInv, Types, Serving, Making, Served, vars, history
<1> QED BY <1>1, <1>2, <1>3, <1>4, <1>5, <1>6, <1>7, <1>8, <1>9, <1>10, <1>11
        DEF Next, Restarting

-----------------------------------------------------------------------------
(* The results.                                                            *)

\* Where restart_server is, both pointers and the registrations agree at all times.
THEOREM ServerInvariant == Spec => []ServerInv
BY InitServer, NextServer, PTL DEF Spec

\* After a restart_server that did not throw the new server serves every
\* request ever bound, whatever overlapped it.
THEOREM RequestsServed == Spec => []AllServed
<1>1. ServerInv => AllServed
  BY DEF ServerInv, Types, Served, AllServed
<1> QED BY <1>1, ServerInvariant, PTL

\* Between restarts a manager that ever had a server has one that runs, or that
\* associate refused, and the data service points to it.
THEOREM ServerStays == Spec => []ServerKept
<1>1. ServerInv => ServerKept
  BY DEF ServerInv, Types, Serving, Making, ServerKept, Null
<1> QED BY <1>1, ServerInvariant, PTL

\* But for abort(), only a manager that never had a server, or a request bound
\* between the end of the old server and associate, ends the process.
THEOREM NoOtherCrash == Spec => CrashesKnown
<1>1. ASSUME ServerInv, [Next]_vars, proc = "up", proc' = "crashed"
      PROVE  server = Null \/ restart = "associate"
  <2>1. ASSUME NEW n \in Names, BindRequest(n)
        PROVE  server = Null \/ restart = "associate"
    BY <1>1, <2>1, ServerNumbers
       DEF ServerInv, Types, Where, Serving, Making, BindRequest, Null
  <2>2. Destroy => server = Null
    BY <1>1 DEF Destroy
  <2>3. Destroy \/ \E n \in Names : BindRequest(n)
    BY <1>1 DEF Next, Restart, Restarting, Make, Reset, associate, run, bind, Throw,
       bind_data_service_request, JoinArrives, JoinBinds, vars
  <2> QED BY <2>1, <2>2, <2>3
<1>2. ServerInv /\ [Next]_vars =>
        [(proc = "up" /\ proc' = "crashed") =>
           server = Null \/ restart = "associate"]_vars
  BY <1>1
<1> QED BY <1>2, ServerInvariant, PTL DEF Spec, CrashesKnown

-----------------------------------------------------------------------------
(* What holds when the application keeps its calls apart.                  *)

\* A server that does not run yet has no request, and none is added before
\* msg_service::bind gives it those of the map.
NothingEarly ==
  /\ \A s \in Servers : life[s] \in {"none", "inited"} => reg[s] = {}
  /\ (proc = "up" /\ restart = "bind") => reg[server] = {}

\* msg_service::bind has not thrown, and only ~ManagerImpl or a bind of a manager
\* that never had a server has ended the process.
CleanRestarts == thrown # "bind" /\ (proc = "crashed" => server = Null)

Clean == ~overlapped => NothingEarly /\ CleanRestarts

\* Every step keeps them as long as no request is bound during a restart.
LEMMA NextClean ==
  ASSUME ServerInv, NothingEarly, CleanRestarts, [Next]_vars, ~overlapped'
  PROVE  NothingEarly' /\ CleanRestarts'
<1> USE ServerNumbers DEF Null, Garbage
<1>1. ASSUME NEW n \in Names, BindRequest(n), proc = "up", restart = "idle",
             UNCHANGED <<server, life, restart, thrown>>
      PROVE  NothingEarly' /\ CleanRestarts'
  <2>1. proc' = "crashed" => server = 0
    BY <1>1 DEF BindRequest, ServerInv, Types, Serving
  <2>2. \A s \in Servers : reg'[s] # reg[s] => life[s] = "running"
    BY <1>1 DEF BindRequest, ServerInv, Types
  <2> QED BY <1>1, <2>1, <2>2 DEF NothingEarly, CleanRestarts, ServerInv, Types
<1>2. CASE Restart \/ JoinArrives \/ Destroy \/ UNCHANGED vars
  BY <1>2 DEF Restart, JoinArrives, Destroy, vars, history, NothingEarly,
              CleanRestarts, ServerInv, Types
<1>3. CASE proc = "up" /\ Make
  <2>1. NothingEarly'
    BY <1>3 DEF Make, Ends, NothingEarly, ServerInv, Types
  <2>2. CleanRestarts'
    BY <1>3 DEF Make, Ends, CleanRestarts
  <2> QED BY <2>1, <2>2
<1>4. CASE proc = "up" /\ Reset
  BY <1>4 DEF Reset, history, NothingEarly, CleanRestarts, ServerInv, Types
<1>5. CASE proc = "up" /\ (associate \/ run)
  BY <1>5 DEF associate, run, Throw, history, NothingEarly, CleanRestarts, ServerInv,
              Types, Making
<1>6. CASE proc = "up" /\ bind
  <2>1. reg[server] = {} /\ server \in Servers /\ life[server] = "running"
    BY <1>6 DEF bind, NothingEarly, ServerInv, Types, Making
  <2>2. /\ UNCHANGED <<thrown, life, server>> /\ proc' # "crashed"
        /\ restart' = "idle" \/ proc' = "aborted"
    BY <1>6, <2>1 DEF bind, Ends
  <2>3. \A s \in Servers : s # server => reg'[s] = reg[s]
    BY <1>6 DEF bind, ServerInv, Types
  <2> QED BY <1>6, <2>1, <2>2, <2>3 DEF NothingEarly, CleanRestarts
<1>7. ASSUME NEW n \in Names, bind_data_service_request(n)
      PROVE  NothingEarly' /\ CleanRestarts'
  BY <1>1, <1>7 DEF bind_data_service_request
<1>8. CASE JoinBinds
  <2>1. CASE \E n \in Names : BindRequest(n)
    BY <1>1, <1>8, <2>1 DEF JoinBinds, history
  <2>2. CASE UNCHANGED <<proc, map, reg>>
    BY <1>8, <2>2 DEF JoinBinds, history, NothingEarly, CleanRestarts
  <2> QED BY <1>8, <2>1, <2>2 DEF JoinBinds
<1> QED
  BY <1>2, <1>3, <1>4, <1>5, <1>6, <1>7, <1>8 DEF Next, Restarting

\* As long as the application has bound no request while restart_server ran, no
\* restart has thrown at a request that is there already, and no bind has ended
\* the process of a manager that has had a server; a request bound in
\* create_state_mgr does no harm, as group_init waits for _manager_lock.
THEOREM RestartsClean == Spec => [](~overlapped => CleanRestarts)
<1>1. Init => Clean
  BY DEF Init, Clean, NothingEarly, CleanRestarts
<1>2. ServerInv /\ Clean /\ [Next]_vars => Clean'
  <2>1. [Next]_vars => (overlapped => overlapped')
    BY DEF Next, Restart, Restarting, Make, Reset, associate, run, bind,
           bind_data_service_request, JoinArrives, JoinBinds, Destroy, vars, history
  <2> QED BY <2>1, NextClean DEF Clean
<1>3. Clean => (~overlapped => CleanRestarts)
  BY DEF Clean
<1> QED BY <1>1, <1>2, <1>3, ServerInvariant, PTL DEF Spec
=============================================================================
