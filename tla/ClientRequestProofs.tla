------------------------- MODULE ClientRequestProofs -------------------------
(***************************************************************************)
(* That a request is taken at most once, that OK means it was, and that    *)
(* its promise is set once, for any number of members, elections and       *)
(* retries.                                                                *)
(***************************************************************************)
EXTENDS ClientRequest, TLAPS

\* Where the request is decides whether the cluster can have it: not while it
\* is under way or refused, and only once the leader took it.
RequestInv ==
  /\ TypeOK
  /\ caller = "start" => net = "none" /\ accepts = 0 /\ value = Unset
  /\ net = "request" => accepts = 0 /\ at \in Peers
  /\ net = "reply" /\ ~rsp.ok => rsp = Exception /\ accepts \in {0, 1}
  /\ net = "reply" /\ rsp.ok /\ rsp.accepted => rsp.rc = OK /\ accepts = 1
  /\ net = "reply" /\ rsp.ok /\ ~rsp.accepted => rsp.rc # OK /\ accepts = 0
  /\ value # Unset => net = "none"
  /\ value = OK => accepts = 1
  /\ value \in Refusals => accepts = 0
  /\ accepts \in {0, 1}

\* A request that was not sent yet satisfies the invariant.
LEMMA InitRequest == Init => RequestInv
<1> USE DEF Codes, OK, CANCELLED, NOT_LEADER, SERVER_NOT_FOUND, Refusals,
            CONFIG_CHANGING, SERVER_IS_JOINING, Unset
<1>1. Exception \in Response
  BY DEF Exception, Response
<1>2. 0 \in 0..MaxElections /\ 0 \in 0..MaxRetries /\ Unset \in Codes \cup {Unset}
  BY ElectionsAssumption, RetriesAssumption
<1> HIDE DEF Codes, OK, CANCELLED, NOT_LEADER, SERVER_NOT_FOUND, Refusals,
             CONFIG_CHANGING, SERVER_IS_JOINING, Unset
<1>3. ASSUME Init PROVE TypeOK
  <2>1. /\ leader \in Peers /\ view \in [Peers -> Peers \cup {None}]
        /\ elections \in 0..MaxElections /\ retries \in 0..MaxRetries
        /\ caller \in {"start", "sending", "waiting"}
        /\ promise \in {"initial", "contract"}
    BY <1>2, <1>3 DEF Init
  <2>2. value \in Codes \cup {Unset} /\ lost \in BOOLEAN
    BY Zenon, <1>2, <1>3 DEF Init
  <2>3. cur_dest \in Peers \cup {None, Foreign} /\ at \in Peers \cup {None}
    BY <1>2, <1>3 DEF Init
  <2>4. net \in {"none", "request", "reply"} /\ rsp \in Response
    BY <1>1, <1>3 DEF Init
  <2>5. accepts \in Nat /\ crashed \in BOOLEAN
    BY Zenon, <1>3 DEF Init
  <2> QED BY <2>1, <2>2, <2>3, <2>4, <2>5 DEF TypeOK
<1> QED
  BY Zenon, <1>3 DEF Init, RequestInv, Unset, OK, Refusals, CONFIG_CHANGING, SERVER_IS_JOINING

\* Every step of the request, its retries and the cluster keeps the invariant.
LEMMA NextRequest == RequestInv /\ [Next]_vars => RequestInv'
<1> SUFFICES ASSUME RequestInv, [Next]_vars PROVE RequestInv'
  OBVIOUS
<1> USE DEF Codes, OK, CANCELLED, NOT_LEADER, SERVER_NOT_FOUND, Refusals,
            CONFIG_CHANGING, SERVER_IS_JOINING, Unset
<1>e. Exception \in Response
  BY DEF Exception, Response
<1>1. ASSUME NEW p \in Peers, Elect(p) PROVE RequestInv'
  BY <1>1, ElectionsAssumption DEF RequestInv, TypeOK, Elect
<1>2. ASSUME NEW p \in Peers, Learn(p) PROVE RequestInv'
  BY <1>2 DEF RequestInv, TypeOK, Learn
<1>3. ASSUME NEW id \in Peers \cup {Foreign}, NEW p \in Peers, Start(p, id) PROVE RequestInv'
  BY <1>3 DEF RequestInv, TypeOK, Start, Send, cluster
<1>4. ASSUME NEW id \in Peers \cup {Foreign}, StartError(id) PROVE RequestInv'
  BY <1>4 DEF RequestInv, TypeOK, StartError, Set, cluster
<1>5. CASE StartNull
  BY <1>5 DEF RequestInv, TypeOK, StartNull, cluster
<1>6. CASE Future
  BY <1>6 DEF RequestInv, TypeOK, Future, cluster
<1>7. CASE Retry
  BY <1>7, RetriesAssumption DEF RequestInv, TypeOK, Retry, Repeats
<1>8. CASE Step
  <2>t. /\ net = "request" /\ accepts = 0 /\ value = Unset /\ caller # "start"
        /\ leader \in Peers /\ view[at] \in Peers \cup {None}
    BY <1>8 DEF RequestInv, TypeOK, Step
  <2>1. CASE /\ accepts' = accepts + 1
             /\ rsp' = toResponse(TRUE, OK, leader, TRUE)
    <3>1. /\ rsp' \in Response /\ rsp'.ok /\ rsp'.accepted /\ rsp'.rc = OK
      BY <2>t, <2>1 DEF toResponse, Response
    <3>2. accepts' = 1 /\ net' = "reply" /\ UNCHANGED <<caller, value>>
      BY <1>8, <2>t, <2>1 DEF Step
    <3>3. TypeOK'
      BY Zenon, <1>8, <3>1, <3>2 DEF RequestInv, TypeOK, Step, cluster
    <3> QED BY <2>t, <3>1, <3>2, <3>3 DEF RequestInv
  <2>2. CASE /\ \E rc \in Refusals : rsp' = toResponse(FALSE, rc, leader, TRUE)
             /\ UNCHANGED accepts
    <3>1. /\ rsp' \in Response /\ rsp'.ok /\ ~rsp'.accepted /\ rsp'.rc # OK
      BY <2>t, <2>2 DEF toResponse, Response
    <3> QED BY Zenon, <1>8, <2>t, <2>2, <3>1 DEF RequestInv, TypeOK, Step, cluster
  <2>3. CASE /\ \E known \in BOOLEAN :
                  rsp' = toResponse(FALSE, NOT_LEADER, view[at],
                                    known /\ view[at] # None)
             /\ UNCHANGED accepts
    <3>3. /\ rsp' \in Response /\ rsp'.ok /\ ~rsp'.accepted /\ rsp'.rc # OK
      BY <2>t, <2>3 DEF toResponse, Response
    <3> QED BY Zenon, <1>8, <2>t, <2>3, <3>3 DEF RequestInv, TypeOK, Step, cluster
  <2> QED BY Zenon, <1>8, <2>1, <2>2, <2>3 DEF Step
<1>9. CASE Fail
  BY <1>9, <1>e DEF RequestInv, TypeOK, Fail, Exception, cluster
<1>10. CASE HandleFinal
  <2>1. rsp.rc \in Codes
    BY DEF RequestInv, TypeOK, Response
  <2> QED
    BY <1>10, <2>1 DEF RequestInv, TypeOK, HandleFinal, Handling, Set, cluster, Exception
<1>11. CASE HandleRedirect
  <2>1. rsp.dst \in Peers /\ rsp.ok /\ ~rsp.accepted
    BY <1>11 DEF HandleRedirect, Final, RequestInv, TypeOK, Response
  <2>2. net = "reply" /\ accepts = 0 /\ value = Unset /\ caller # "start"
    BY <1>11, <2>1 DEF HandleRedirect, Handling, RequestInv
  <2>3. TypeOK'
    BY Zenon, <1>11, <2>1 DEF RequestInv, TypeOK, HandleRedirect, Set, Send, cluster
  <2> QED
    BY <1>11, <2>1, <2>2, <2>3 DEF RequestInv, HandleRedirect, Set, Send, cluster
<1>12. CASE UNCHANGED vars
  BY <1>12 DEF RequestInv, TypeOK, vars
<1> QED
  BY <1>1, <1>2, <1>3, <1>4, <1>5, <1>6, <1>7, <1>8, <1>9, <1>10, <1>11, <1>12
     DEF Next

\* respHandler and the retries keep RequestInv.
THEOREM RequestInvariant == Spec => []RequestInv
<1>1. QED BY InitRequest, NextRequest, PTL DEF Spec

\* Result codes survive their conversions, and every other variable has its type.
THEOREM RequestTypes == Spec => []TypeOK
<1>1. RequestInv => TypeOK
  BY DEF RequestInv
<1> QED BY <1>1, RequestInvariant, PTL

\* respHandler and the example client never have the cluster take a request twice.
THEOREM TakenAtMostOnce == Spec => []AcceptedAtMostOnce
<1>1. RequestInv => AcceptedAtMostOnce
  BY DEF RequestInv, AcceptedAtMostOnce
<1> QED BY <1>1, RequestInvariant, PTL

\* client_ctx::set(OK) is called only for a request that was taken.
THEOREM OkIsTaken == Spec => []OkMeansAccepted
<1>1. RequestInv => OkMeansAccepted
  BY DEF RequestInv, OkMeansAccepted
<1> QED BY <1>1, RequestInvariant, PTL

\* respHandler never calls client_ctx::set on a promise that has its value.
THEOREM PromiseSetOnce == Spec => []SetOnce
<1>1. RequestInv => SetOnce
  BY DEF RequestInv, SetOnce
<1> QED BY <1>1, RequestInvariant, PTL

-----------------------------------------------------------------------------
(* Where a refused request goes next.                                      *)

\* The message under way went to the destination that client_ctx remembers,
\* unless the caller gave it a foreign id to remember.
Destination == net # "none" => at = cur_dest \/ cur_dest = Foreign

\* respHandler sends a request on to another member than the one that has
\* just answered it, once _cur_dest is a member's id; only the caller's own
\* retry may ask that one again.
SentElsewhere ==
  [][(net = "reply" /\ net' = "request" /\ cur_dest # Foreign) => at' # at]_vars

\* From the first answer on, _cur_dest is a member's id.
RemembersMember == [][(net = "reply" /\ net' = "request") => cur_dest' \in Peers]_vars

\* client_ctx::_cur_dest and the member that is asked change together.
LEMMA NextDestination == RequestInv /\ Destination /\ [Next]_vars => Destination'
<1> SUFFICES ASSUME RequestInv, Destination, [Next]_vars PROVE Destination'
  OBVIOUS
<1>1. ASSUME NEW p \in Peers, Elect(p) \/ Learn(p) PROVE Destination'
  BY <1>1 DEF Destination, Elect, Learn
<1>2. ASSUME NEW id \in Peers \cup {Foreign},
             StartError(id) \/ \E p \in Peers : Start(p, id)
      PROVE  Destination'
  BY <1>2 DEF RequestInv, Destination, Start, StartError, Send
<1>3. CASE StartNull \/ Future \/ Retry \/ Step \/ Fail
  BY <1>3 DEF Destination, StartNull, Future, Retry, Step, Fail
<1>4. CASE HandleFinal \/ HandleRedirect
  BY <1>4 DEF Destination, HandleFinal, HandleRedirect, Send
<1>5. CASE UNCHANGED vars
  BY <1>5 DEF Destination, vars
<1> QED BY <1>1, <1>2, <1>3, <1>4, <1>5 DEF Next

\* A member that refuses a request and names itself ends it, except for the
\* first answer to a caller with a foreign id: the handler does not send to the
\* member it has just heard from (respHandler's test of _cur_dest), whatever
\* was elected since, and remembers the member it sends to.
THEOREM RefusalMovesOn == Spec => SentElsewhere /\ RemembersMember
<1>1. Init => Destination
  BY DEF Init, Destination
<1>2. ASSUME RequestInv, Destination, Next, net = "reply", net' = "request"
      PROVE  (cur_dest # Foreign => at' # at) /\ cur_dest' \in Peers
  <2>1. HandleRedirect
    BY <1>2 DEF RequestInv, Next, Elect, Learn, Start, StartError, StartNull, Future,
           Retry, Step, Fail, HandleFinal, vars, Done
  <2>2. rsp.dst \in Peers
    BY <1>2, <2>1 DEF HandleRedirect, Final, RequestInv, TypeOK, Response
  <2> QED BY <1>2, <2>1, <2>2 DEF HandleRedirect, Final, Send, Destination
<1>3. RequestInv /\ Destination /\ [Next]_vars
        => /\ [(net = "reply" /\ net' = "request" /\ cur_dest # Foreign) => at' # at]_vars
           /\ [(net = "reply" /\ net' = "request") => cur_dest' \in Peers]_vars
  BY <1>2 DEF vars
<1> QED
  BY <1>1, <1>3, NextDestination, RequestInvariant, PTL
     DEF Spec, SentElsewhere, RemembersMember
=============================================================================
