-------------------------- MODULE SignalingServer --------------------------
(***************************************************************************)
(* src/wsserver.cpp: the server that relays signaling messages between     *)
(* WebSocket connections.  A connection that comes with a path /<id>       *)
(* registers under that id, and registering an id again moves it to the    *)
(* new connection.  A message names the id of its destination; the server  *)
(* replaces that with the id of its sender and forwards it.                *)
(*                                                                         *)
(* libwebsockets calls callback_ws from one thread, so each callback is    *)
(* one action.  ESTABLISHED falls through into RECEIVE with no data, which *)
(* fails to parse there and changes nothing.                               *)
(***************************************************************************)
EXTENDS Naturals

CONSTANTS Conns,   \* connections, each used once (struct lws *)
          Ids,     \* what a path can name
          None     \* no connection, no id

ASSUME ServerAssumption == None \notin Conns /\ None \notin Ids

VARIABLES
    clients,  \* the wsi registered for each id, or None
    conn,     \* conn[w]: "new", "open" or "closed"
    path,     \* path[w]: the id that w came with, or None
    sent,     \* the last message written: from, to whom, addressed to, its id
    latest    \* history: the connection that registered each id last

vars == <<clients, conn, path, sent, latest>>

Nothing == [from |-> None, to |-> None, dest |-> None, id |-> None]

Init ==
    /\ clients = [i \in Ids |-> None]
    /\ conn = [w \in Conns |-> "new"]
    /\ path = [w \in Conns |-> None]
    /\ sent = Nothing
    /\ latest = [i \in Ids |-> None]

-----------------------------------------------------------------------------
(* Faulty variants of the definitions below, each a slip that the code does  *)
(* not make.  They take no part in Next: the properties are tested on them.  *)

\* Dropping the registration of the path that the connection came with.
ClosedByPath(w) ==
    /\ conn[w] = "open"
    /\ conn' = [conn EXCEPT ![w] = "closed"]
    /\ clients' = [i \in Ids |-> IF i = path[w] THEN None ELSE clients[i]]
    /\ UNCHANGED <<path, sent, latest>>

\* Keeping the registrations of a closed connection.
ClosedKeeping(w) ==
    /\ conn[w] = "open"
    /\ conn' = [conn EXCEPT ![w] = "closed"]
    /\ UNCHANGED <<clients, path, sent, latest>>

\* Writing without testing that the destination was found.
ReceiveUnchecked(w, dest) ==
    /\ conn[w] = "open"
    /\ sent' = [from |-> w, to |-> clients[dest], dest |-> dest, id |-> dest]
    /\ UNCHANGED <<clients, conn, path, latest>>

-----------------------------------------------------------------------------
\* LWS_CALLBACK_ESTABLISHED; i is None for an empty path.
Established(w, i) ==
    /\ conn[w] = "new"
    /\ conn' = [conn EXCEPT ![w] = "open"]
    /\ path' = [path EXCEPT ![w] = i]
    /\ clients' = [j \in Ids |-> IF j = i THEN w ELSE clients[j]]
    /\ latest' = [j \in Ids |-> IF j = i THEN w ELSE latest[j]]
    /\ UNCHANGED sent

\* The ids registered for connection w.
IdsOf(w) == {i \in Ids : clients[i] = w}

\* LWS_CALLBACK_RECEIVE of a message from w to dest: the id in it is replaced
\* by one that is registered for w, if there is one.
Receive(w, dest) ==
    /\ conn[w] = "open" /\ clients[dest] # None
    /\ \E i \in IF IdsOf(w) = {} THEN {dest} ELSE IdsOf(w) :
          sent' = [from |-> w, to |-> clients[dest], dest |-> dest, id |-> i]
    /\ UNCHANGED <<clients, conn, path, latest>>

\* LWS_CALLBACK_CLOSED: every registration of w goes, and only those.
Closed(w) ==
    /\ conn[w] = "open"
    /\ conn' = [conn EXCEPT ![w] = "closed"]
    /\ clients' = [i \in Ids |-> IF clients[i] = w THEN None ELSE clients[i]]
    /\ UNCHANGED <<path, sent, latest>>

Next ==
    \E w \in Conns :
        \/ \E i \in Ids \cup {None} : Established(w, i)
        \/ \E dest \in Ids : Receive(w, dest)
        \/ Closed(w)

Spec == Init /\ [][Next]_vars

-----------------------------------------------------------------------------
(* Properties.                                                              *)

TypeOK ==
    /\ clients \in [Ids -> Conns \cup {None}]
    /\ conn \in [Conns -> {"new", "open", "closed"}]
    /\ path \in [Conns -> Ids \cup {None}]
    /\ sent \in {Nothing} \cup [from : Conns, to : Conns, dest : Ids, id : Ids]
    /\ latest \in [Ids -> Conns \cup {None}]

\* An id belongs to the connection that registered it last, for as long as
\* that one is open: the late CLOSED of a connection that was replaced does
\* not take the id from its successor, and no message is ever written to a
\* connection that is gone.
LatestOpenOwnsId ==
    \A i \in Ids :
        clients[i] = IF latest[i] # None /\ conn[latest[i]] = "open"
                     THEN latest[i] ELSE None

\* A message is written to a connection that came with the id it is addressed
\* to, never to one whose id has since been given away.
WrittenToOwner ==
    [][sent' # sent => /\ path[sent'.to] = sent'.dest /\ conn[sent'.to] = "open"
                       /\ latest[sent'.dest] = sent'.to]_vars

\* "Replace id with sender's id": what a connection with an id sends arrives
\* with that id in it.
SenderIdReplaced ==
    sent.from # None /\ path[sent.from] # None => sent.id = path[sent.from]
=============================================================================
