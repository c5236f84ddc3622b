----------------------- MODULE SignalingServerProofs -----------------------
(***************************************************************************)
(* The properties of SignalingServer, proved for any set of connections    *)
(* and ids.  The argument: what the server looks up in its map is always   *)
(* the connection that registered the id last, unless that one has closed, *)
(* since CLOSED removes exactly the entries that still point to it.        *)
(***************************************************************************)
EXTENDS SignalingServer, TLAPS

\* A connection that registered an id came with that id, and is not new.
HistoryInv ==
    \A i \in Ids : latest[i] # None => path[latest[i]] = i /\ conn[latest[i]] # "new"

SInv == TypeOK /\ LatestOpenOwnsId /\ HistoryInv

\* The server starts with no id registered.
LEMMA InitSInv == Init => SInv
  BY ServerAssumption
  DEF Init, SInv, TypeOK, LatestOpenOwnsId, HistoryInv, ServerAssumption

\* Every callback keeps SInv.
LEMMA NextSInv == SInv /\ [Next]_vars => SInv'
<1> SUFFICES ASSUME SInv, [Next]_vars PROVE SInv'
  OBVIOUS
<1> USE ServerAssumption DEF SInv, ServerAssumption
<1>1. ASSUME NEW w \in Conns, NEW i \in Ids \cup {None}, Established(w, i) PROVE SInv'
  <2>1. TypeOK'
    BY <1>1 DEF Established, TypeOK
  <2>2. HistoryInv'
    BY <1>1 DEF Established, TypeOK, HistoryInv
  <2>3. LatestOpenOwnsId'
    <3> SUFFICES ASSUME NEW j \in Ids
                 PROVE  clients'[j] = IF latest'[j] # None /\ conn'[latest'[j]] = "open"
                                      THEN latest'[j] ELSE None
      BY DEF LatestOpenOwnsId
    <3>1. CASE j = i
      BY <1>1, <3>1 DEF Established, TypeOK
    <3>2. CASE j # i
      <4>1. clients'[j] = clients[j] /\ latest'[j] = latest[j] /\ latest[j] # w
        BY <1>1, <3>2 DEF Established, HistoryInv
      <4>2. latest[j] # None => conn'[latest[j]] = conn[latest[j]]
        BY <1>1, <4>1 DEF Established, TypeOK
      <4> QED BY <4>1, <4>2 DEF LatestOpenOwnsId
    <3> QED BY <3>1, <3>2
  <2> QED BY <2>1, <2>2, <2>3
<1>2. ASSUME NEW w \in Conns, NEW dest \in Ids, Receive(w, dest) PROVE SInv'
  <2>1. TypeOK'
    BY <1>2 DEF Receive, IdsOf, TypeOK
  <2> QED BY <1>2, <2>1 DEF Receive, LatestOpenOwnsId, HistoryInv
<1>3. ASSUME NEW w \in Conns, Closed(w) PROVE SInv'
  <2>1. TypeOK'
    BY <1>3 DEF Closed, TypeOK
  <2>2. HistoryInv'
    BY <1>3 DEF Closed, TypeOK, HistoryInv
  <2>3. LatestOpenOwnsId'
    <3> SUFFICES ASSUME NEW j \in Ids
                 PROVE  clients'[j] = IF latest[j] # None /\ conn'[latest[j]] = "open"
                                      THEN latest[j] ELSE None
      BY <1>3 DEF Closed, LatestOpenOwnsId
    <3>1. clients'[j] = IF clients[j] = w THEN None ELSE clients[j]
      BY <1>3 DEF Closed
    <3>2. latest[j] # None => conn'[latest[j]] = IF latest[j] = w THEN "closed"
                                                 ELSE conn[latest[j]]
      BY <1>3 DEF Closed, TypeOK
    <3>3. conn[w] = "open"
      BY <1>3 DEF Closed
    <3> QED BY <3>1, <3>2, <3>3 DEF LatestOpenOwnsId
  <2> QED BY <2>1, <2>2, <2>3
<1>4. CASE UNCHANGED vars
  BY <1>4 DEF vars, TypeOK, LatestOpenOwnsId, HistoryInv
<1> QED BY <1>1, <1>2, <1>3, <1>4 DEF Next

LEMMA AlwaysSInv == Spec => []SInv
  BY InitSInv, NextSInv, PTL DEF Spec

\* The server's map, and what it writes, is well typed; in particular nothing
\* is ever written to a connection that does not exist.
THEOREM TypeCorrect == Spec => []TypeOK
  BY AlwaysSInv, PTL DEF SInv

\* An id belongs to its latest open connection, whichever connections register
\* it and whenever their CLOSED comes.
THEOREM IdsBelongToLatestOpen == Spec => []LatestOpenOwnsId
  BY AlwaysSInv, PTL DEF SInv

\* A message is written to the open connection that registered the id it is
\* addressed to last.
THEOREM MessagesReachOwners == Spec => WrittenToOwner
<1>1. SInv /\ [Next]_vars =>
         [sent' # sent => /\ path[sent'.to] = sent'.dest /\ conn[sent'.to] = "open"
                          /\ latest[sent'.dest] = sent'.to]_vars
  <2> SUFFICES ASSUME SInv, Next, sent' # sent
               PROVE  /\ path[sent'.to] = sent'.dest /\ conn[sent'.to] = "open"
                      /\ latest[sent'.dest] = sent'.to
    BY DEF vars
  <2>1. PICK w \in Conns, dest \in Ids : Receive(w, dest)
    BY DEF Next, Established, Closed
  <2>2. sent'.to = clients[dest] /\ sent'.dest = dest /\ clients[dest] # None
    BY <2>1 DEF Receive
  <2> QED BY <2>2 DEF SInv, LatestOpenOwnsId, HistoryInv
<1> QED BY <1>1, AlwaysSInv, PTL DEF Spec, WrittenToOwner
=============================================================================
