--------------------------- MODULE WebRTCStreamer ---------------------------
(***************************************************************************)
(* The signaling half of src/WebRTCStreamer.cpp: how a request that comes  *)
(* over the signaling WebSocket becomes a Client, how the Client's offer   *)
(* goes out, the answer comes in and the end of the connection removes the *)
(* Client, and how the destructor brings all of it down.                   *)
(*                                                                         *)
(* Threads:  sig   _signalingThr, the owner of the registry;               *)
(*           out   signalingThreadOut, which collects what Clients say;    *)
(*           ws    the WebSocket's callbacks, which feed _signalingQueue;  *)
(*           main  ~WebRTCStreamer;                                        *)
(*           and for each Client its _signalingThread and the callbacks of *)
(*           its rtc::PeerConnection.                                      *)
(*                                                                         *)
(* Queues are used through what module BoundedFifo promises: a push waits  *)
(* for room unless the queue is stopped, a pop waits for an item.  The     *)
(* registry's shared_mutex has one reader that holds it for long, out      *)
(* (out.pc = "visit" or "push"); every other section under it is one step. *)
(*                                                                         *)
(* Clients are numbered in the order of their construction, so a peer that *)
(* requests twice has two Clients with the same id.                        *)
(***************************************************************************)
EXTENDS Naturals, Sequences

CONSTANTS Ids,          \* peers
          QueueCap,     \* capacity of _signalingQueue (256 in the code)
          MaxRequests,  \* bound: requests of all peers together
          MaxDrops,     \* bound: unexpected closures of the WebSocket
          MaxLosses,    \* bound: losses that one connection reports (one for
                        \* each of its transports, ICE, DTLS and SCTP)
          MaxStrays,    \* bound: messages no peer of this program sends
          NoClient      \* nullptr, and "not in the map"

ASSUME StreamerAssumption ==
    /\ QueueCap \in Nat \ {0}
    /\ MaxRequests \in Nat /\ MaxDrops \in Nat
    /\ MaxLosses \in Nat /\ MaxStrays \in Nat
    /\ NoClient \notin Nat

Clients == 1 .. MaxRequests

VARIABLES
    doTerm,     \* _do_term
    sigQ,       \* _signalingQueue: its items and whether it is stopped
    registry,   \* _clientsMap: the Client of each id
    client,     \* the Client objects
    sig,        \* sig: where it is, the message it handles, the Client it made
    out,        \* out: where it is, the ids left in this traversal, the message
    ws,         \* _signalingWS: its state, its pending callback, its closures
    main,       \* where the destructor is
    offers,     \* the peers: the Clients whose offers they have not answered
    requests,   \* history: number of requests of all peers
    strays,     \* history: number of stray messages of all peers
    aborted     \* "no", or whose exception reached std::terminate: that of send,
                \* of applying an answer or of reading a message

vars == <<doTerm, sigQ, registry, client, sig, out, ws, main, offers, requests, strays, aborted>>

\* Messages on _signalingQueue.  Field c is the Client that a message is about
\* (the code's messages name only the id); a request is about none, and so is an
\* answer whose description no PeerConnection accepts.
Request(i)    == [type |-> "request", id |-> i, c |-> NoClient]
Answer(i, c)  == [type |-> "answer", id |-> i, c |-> c]
Offer(i, c)   == [type |-> "offer", id |-> i, c |-> c]
Disconnect(i, c) == [type |-> "disconnect", id |-> i, c |-> c]
\* An answer without an sdp, or one that is no string; a message that lacks its
\* id or type, or has one that is no string.
BareAnswer(i) == [type |-> "bareAnswer", id |-> i, c |-> NoClient]
Malformed(i)  == [type |-> "malformed", id |-> i, c |-> NoClient]
NoMsg == [type |-> "none", id |-> NoClient, c |-> NoClient]

Unborn == [status |-> "unborn", id |-> NoClient, link |-> "new", losses |-> 0,
           gathered |-> FALSE, outQ |-> << >>, inQ |-> << >>]

Init ==
    /\ doTerm = FALSE
    /\ sigQ = [items |-> << >>, stopped |-> FALSE]
    /\ registry = [i \in Ids |-> NoClient]
    /\ client = [c \in Clients |-> Unborn]
    /\ sig = [pc |-> "start", msg |-> NoMsg, made |-> NoClient]
    /\ out = [pc |-> "off", todo |-> {}, msg |-> NoMsg]
    /\ ws = [state |-> "closed", cb |-> "none", drops |-> 0]
    /\ main = "run"
    /\ offers = [i \in Ids |-> {}]
    /\ requests = 0 /\ strays = 0
    /\ aborted = "no"

\* A faulty push, which never waits.
SigPushUnbounded(m) ==
    IF sigQ.stopped THEN UNCHANGED sigQ
    ELSE sigQ' = [sigQ EXCEPT !.items = Append(@, m)]

\* _signalingQueue.push(m): waits for room, discards once stopped.
SigPush(m) ==
    IF sigQ.stopped THEN UNCHANGED sigQ
    ELSE /\ Len(sigQ.items) < QueueCap
         /\ sigQ' = [sigQ EXCEPT !.items = Append(@, m)]

\* No exception has reached std::terminate: the program still runs.
Up == aborted = "no"

\* What becomes of a connection that is over.
Ended == {"lost", "closed"}

Alive(c) == client[c].status \in {"made", "registered"}

\* Callbacks push to _signalingQueueOut.  Its capacity of 32 exceeds what a
\* PeerConnection can say: an offer, MaxLosses losses and Closed.
Says(c, m) == [client[c] EXCEPT !.outQ = Append(@, m)]

\* ~Client, whose queues go with it.
Destroyed(c, status) ==
    [client[c] EXCEPT !.status = status, !.outQ = << >>, !.inQ = << >>]

\* out holds the registry's mutex shared for a whole traversal.
Traversing == out.pc \in {"visit", "push"}

\* sig has popped a message of this type; the end of handling it.
Handling(type) == sig.pc = "handle" /\ sig.msg.type = type
NextTurn == [pc |-> "loop", msg |-> NoMsg, made |-> NoClient]

\* _clientsMap.erase, once the mutex is held: destroys the Client that has the
\* id now.
EraseEntry ==
    /\ Up /\ Handling("disconnect")
    /\ LET i == sig.msg.id
           c == registry[i]
       IN  /\ registry' = [registry EXCEPT ![i] = NoClient]
           /\ client' = IF c = NoClient THEN client
                        ELSE [client EXCEPT ![c] = Destroyed(c, "erased")]
    /\ sig' = NextTurn
    /\ UNCHANGED <<doTerm, sigQ, out, ws, main, offers, requests, strays, aborted>>

-----------------------------------------------------------------------------
(* Faulty variants of the definitions below, each a slip that the code does  *)
(* not make.  They take no part in Next: the properties are tested on them.  *)

\* Gathering ends and nobody is told.
GatherSilent(c) ==
    /\ Up /\ Alive(c) /\ ~client[c].gathered /\ client[c].link # "closed"
    /\ client' = [client EXCEPT ![c].gathered = TRUE]
    /\ UNCHANGED <<doTerm, sigQ, registry, sig, out, ws, main, offers, requests, strays, aborted>>

\* OnStateChange taking every change of state for an end.
ClientThrNoisy(c) ==
    /\ Up /\ Alive(c) /\ client[c].inQ # << >>
    /\ client' = [client EXCEPT ![c] =
                    [Says(c, Disconnect(client[c].id, c)) EXCEPT
                       !.inQ = Tail(@), !.link = IF @ = "new" THEN "up" ELSE @]]
    /\ UNCHANGED <<doTerm, sigQ, registry, sig, out, ws, main, offers, requests, strays, aborted>>

\* A message that finds no room is dropped.
OutPushOrDrop ==
    /\ Up /\ out.pc = "push"
    /\ SigPush(out.msg) \/ (Len(sigQ.items) = QueueCap /\ UNCHANGED sigQ)
    /\ out' = [out EXCEPT !.pc = "visit", !.msg = NoMsg]
    /\ UNCHANGED <<doTerm, registry, client, sig, ws, main, offers, requests, strays, aborted>>

\* The next traversal starts with the mutex still held.
OutEndHolding ==
    /\ Up /\ out.pc = "visit" /\ out.todo = {}
    /\ out' = [out EXCEPT !.todo = {i \in Ids : registry[i] # NoClient}]
    /\ UNCHANGED <<doTerm, sigQ, registry, client, sig, ws, main, offers, requests, strays, aborted>>

\* An answer passed on twice, as after a retry.
SigAnswerTwice ==
    /\ Up /\ Handling("answer")
    /\ LET c == registry[sig.msg.id] IN
          client' = IF c = NoClient THEN client
                    ELSE [client EXCEPT ![c].inQ = Append(Append(@, sig.msg.c), sig.msg.c)]
    /\ sig' = NextTurn
    /\ UNCHANGED <<doTerm, sigQ, registry, out, ws, main, offers, requests, strays, aborted>>

\* Taking a Client out of the map without destroying it.
SigEraseLeaking ==
    /\ Up /\ Handling("disconnect") /\ ~Traversing
    /\ registry' = [registry EXCEPT ![sig.msg.id] = NoClient]
    /\ sig' = NextTurn
    /\ UNCHANGED <<doTerm, sigQ, client, out, ws, main, offers, requests, strays, aborted>>

\* _signalingThr returning without its join.
SigJoinNot ==
    /\ Up /\ sig.pc = "join"
    /\ sig' = [sig EXCEPT !.pc = "done"]
    /\ UNCHANGED <<doTerm, sigQ, registry, client, out, ws, main, offers, requests, strays, aborted>>

\* A destructor that closes the WebSocket first.
SetTermClosing ==
    /\ Up /\ main = "run"
    /\ doTerm' = TRUE
    /\ main' = "stop"
    /\ ws' = IF ws.state = "closed" THEN ws
             ELSE [ws EXCEPT !.state = "closed", !.cb = "check"]
    /\ UNCHANGED <<sigQ, registry, client, sig, out, offers, requests, strays, aborted>>

\* A destructor that does not stop the queue.
StopQueueNot ==
    /\ Up /\ main = "stop"
    /\ main' = "close"
    /\ UNCHANGED <<doTerm, sigQ, registry, client, sig, out, ws, offers, requests, strays, aborted>>

-----------------------------------------------------------------------------
(* A Client: its PeerConnection's callbacks and its thread.                 *)

\* ICE gathering is complete: onGatheringStateChange sends the offer.
GatherDone(c) ==
    /\ Up /\ Alive(c) /\ ~client[c].gathered /\ client[c].link # "closed"
    /\ client' = [client EXCEPT ![c] =
                    [Says(c, Offer(client[c].id, c)) EXCEPT !.gathered = TRUE]]
    /\ UNCHANGED <<doTerm, sigQ, registry, sig, out, ws, main, offers, requests, strays, aborted>>

\* A transport of the connection ends: onStateChange(Disconnected or Failed).
LinkLost(c) ==
    /\ Up /\ Alive(c) /\ client[c].link \in {"up", "lost"} /\ client[c].losses < MaxLosses
    /\ client' = [client EXCEPT ![c] =
                    [Says(c, Disconnect(client[c].id, c)) EXCEPT
                       !.link = "lost", !.losses = @ + 1]]
    /\ UNCHANGED <<doTerm, sigQ, registry, sig, out, ws, main, offers, requests, strays, aborted>>

\* onStateChange(Closed): libdatachannel closes such a connection itself, which
\* is heard last and, if it overtakes the losses, alone.
LinkClosed(c) ==
    /\ Up /\ Alive(c) /\ client[c].link \in {"up", "lost"}
    /\ client' = [client EXCEPT ![c] =
                    [Says(c, Disconnect(client[c].id, c)) EXCEPT !.link = "closed"]]
    /\ UNCHANGED <<doTerm, sigQ, registry, sig, out, ws, main, offers, requests, strays, aborted>>

\* Client::_signalingThread: setRemoteDescription(answer).  A description that is
\* none, and any for a PeerConnection that has an answer already, throws, and
\* nothing catches it.
ClientThr(c) ==
    /\ Up /\ Alive(c) /\ client[c].inQ # << >>
    /\ IF client[c].link = "new" /\ Head(client[c].inQ) # NoClient
       THEN /\ client' = [client EXCEPT ![c].inQ = Tail(@), ![c].link = "up"]
            /\ UNCHANGED aborted
       ELSE /\ aborted' = "answer"
            /\ UNCHANGED client
    /\ UNCHANGED <<doTerm, sigQ, registry, sig, out, ws, main, offers, requests, strays>>

-----------------------------------------------------------------------------
(* The signaling WebSocket and the peers behind it.                         *)

\* The server accepts the connection.
WsConnected ==
    /\ Up /\ ws.state = "connecting"
    /\ ws' = [ws EXCEPT !.state = "open"]
    /\ UNCHANGED <<doTerm, sigQ, registry, client, sig, out, main, offers, requests, strays, aborted>>

\* The connection breaks, or could not be made; libdatachannel calls onClosed.
WsDrop ==
    /\ Up /\ ws.state # "closed" /\ ws.cb = "none" /\ ws.drops < MaxDrops
    /\ ws' = [state |-> "closed", cb |-> "check", drops |-> ws.drops + 1]
    /\ UNCHANGED <<doTerm, sigQ, registry, client, sig, out, main, offers, requests, strays, aborted>>

\* onClosed, up to its test of _do_term.
OnClosed ==
    /\ Up /\ ws.cb = "check"
    /\ ws' = [ws EXCEPT !.cb = IF doTerm THEN "none" ELSE "reopen"]
    /\ UNCHANGED <<doTerm, sigQ, registry, client, sig, out, main, offers, requests, strays, aborted>>

\* onClosed after its sleep of 1 ms.
Reopen ==
    /\ Up /\ ws.cb = "reopen" /\ ws.state = "closed"
    /\ ws' = [ws EXCEPT !.cb = "none", !.state = "connecting"]
    /\ UNCHANGED <<doTerm, sigQ, registry, client, sig, out, main, offers, requests, strays, aborted>>

\* A peer's request arrives: onMessage.
PeerRequest(i) ==
    /\ Up /\ ws.state = "open" /\ requests < MaxRequests
    /\ SigPush(Request(i))
    /\ requests' = requests + 1
    /\ UNCHANGED <<doTerm, registry, client, sig, out, ws, main, offers, strays, aborted>>

\* A peer's answer to one of the offers it holds arrives: onMessage.
PeerAnswer(i, c) ==
    /\ Up /\ ws.state = "open" /\ c \in offers[i]
    /\ SigPush(Answer(i, c))
    /\ offers' = [offers EXCEPT ![i] = @ \ {c}]
    /\ UNCHANGED <<doTerm, registry, client, sig, out, ws, main, requests, strays, aborted>>

\* What a peer may send that no peer of this program would: an answer to an offer
\* that it answers once more, one that no PeerConnection accepts, one without a
\* description, a message that is none.
Strays(i) ==
    {Answer(i, c) : c \in offers[i] \cup {NoClient}} \cup {BareAnswer(i), Malformed(i)}

\* A stray message arrives: onMessage.
PeerStray(i) ==
    /\ Up /\ ws.state = "open" /\ strays < MaxStrays
    /\ \E m \in Strays(i) : SigPush(m)
    /\ strays' = strays + 1
    /\ UNCHANGED <<doTerm, registry, client, sig, out, ws, main, offers, requests, aborted>>

-----------------------------------------------------------------------------
(* signalingThreadOut.                                                      *)

\* The loop's test of _do_term, and the start of a traversal.
OutTop ==
    /\ Up /\ out.pc = "top"
    /\ out' = IF doTerm THEN [out EXCEPT !.pc = "done"]
              ELSE [out EXCEPT !.pc = "visit",
                               !.todo = {i \in Ids : registry[i] # NoClient}]
    /\ UNCHANGED <<doTerm, sigQ, registry, client, sig, ws, main, offers, requests, strays, aborted>>

\* signalingGet returns the Client's oldest message.
OutTake(i) ==
    /\ Up /\ out.pc = "visit" /\ i \in out.todo
    /\ LET c == registry[i] IN
          /\ client[c].outQ # << >>
          /\ out' = [pc |-> "push", todo |-> out.todo \ {i}, msg |-> Head(client[c].outQ)]
          /\ client' = [client EXCEPT ![c].outQ = Tail(@)]
    /\ UNCHANGED <<doTerm, sigQ, registry, sig, ws, main, offers, requests, strays, aborted>>

\* signalingGet returns nothing after 100 ms.
OutTimeout(i) ==
    /\ Up /\ out.pc = "visit" /\ i \in out.todo
    /\ client[registry[i]].outQ = << >>
    /\ out' = [out EXCEPT !.todo = @ \ {i}]
    /\ UNCHANGED <<doTerm, sigQ, registry, client, sig, ws, main, offers, requests, strays, aborted>>

\* The Client's message goes to _signalingQueue, with the mutex still held.
OutPush ==
    /\ Up /\ out.pc = "push"
    /\ SigPush(out.msg)
    /\ out' = [out EXCEPT !.pc = "visit", !.msg = NoMsg]
    /\ UNCHANGED <<doTerm, registry, client, sig, ws, main, offers, requests, strays, aborted>>

\* The traversal ends and the mutex is released.
OutEnd ==
    /\ Up /\ out.pc = "visit" /\ out.todo = {}
    /\ out' = [out EXCEPT !.pc = "top"]
    /\ UNCHANGED <<doTerm, sigQ, registry, client, sig, ws, main, offers, requests, strays, aborted>>

Out == OutTop \/ OutPush \/ OutEnd \/ \E i \in Ids : OutTake(i) \/ OutTimeout(i)

-----------------------------------------------------------------------------
(* _signalingThr.                                                           *)

\* Callbacks are set, signalingThreadOut is launched, the WebSocket opened.
SigStart ==
    /\ Up /\ sig.pc = "start"
    /\ sig' = [sig EXCEPT !.pc = "loop"]
    /\ out' = [out EXCEPT !.pc = "top"]
    /\ ws' = [ws EXCEPT !.state = "connecting"]
    /\ UNCHANGED <<doTerm, sigQ, registry, client, main, offers, requests, strays, aborted>>

\* while (!_do_term)
SigLoop ==
    /\ Up /\ sig.pc = "loop"
    /\ sig' = [sig EXCEPT !.pc = IF doTerm THEN "join" ELSE "pop"]
    /\ UNCHANGED <<doTerm, sigQ, registry, client, out, ws, main, offers, requests, strays, aborted>>

\* _signalingQueue.pop() returns a message, or nothing once stopped.
SigPop ==
    /\ Up /\ sig.pc = "pop"
    /\ \/ /\ sigQ.items # << >>
          /\ sig' = [sig EXCEPT !.pc = "handle", !.msg = Head(sigQ.items)]
          /\ sigQ' = [sigQ EXCEPT !.items = Tail(@)]
       \/ /\ sigQ.items = << >> /\ sigQ.stopped
          /\ sig' = [sig EXCEPT !.pc = "loop"]
          /\ UNCHANGED sigQ
    /\ UNCHANGED <<doTerm, registry, client, out, ws, main, offers, requests, strays, aborted>>

\* A request: make_shared<Client>, outside the registry's mutex.
SigMake ==
    /\ Up /\ Handling("request")
    /\ \E c \in Clients :
          /\ client[c].status = "unborn"
          /\ \A d \in Clients : d < c => client[d].status # "unborn"
          /\ client' = [client EXCEPT ![c].status = "made", ![c].id = sig.msg.id]
          /\ sig' = [sig EXCEPT !.pc = "emplace", !.made = c]
    /\ UNCHANGED <<doTerm, sigQ, registry, out, ws, main, offers, requests, strays, aborted>>

\* _clientsMap.emplace: an id that is there keeps its Client, and the new one
\* is destroyed.
SigEmplace ==
    /\ Up /\ sig.pc = "emplace" /\ ~Traversing
    /\ LET i == sig.msg.id
           c == sig.made
       IN  IF registry[i] = NoClient
           THEN /\ registry' = [registry EXCEPT ![i] = c]
                /\ client' = [client EXCEPT ![c].status = "registered"]
           ELSE /\ client' = [client EXCEPT ![c] = Destroyed(c, "refused")]
                /\ UNCHANGED registry
    /\ sig' = NextTurn
    /\ UNCHANGED <<doTerm, sigQ, out, ws, main, offers, requests, strays, aborted>>

\* An answer: _clientsMap.get, then signalingSet.
SigAnswer ==
    /\ Up /\ Handling("answer")
    /\ LET c == registry[sig.msg.id] IN
          client' = IF c = NoClient THEN client
                    ELSE [client EXCEPT ![c].inQ = Append(@, sig.msg.c)]
    /\ sig' = NextTurn
    /\ UNCHANGED <<doTerm, sigQ, registry, out, ws, main, offers, requests, strays, aborted>>

\* An answer without a string sdp: for a registered Client get<string> throws.
SigBareAnswer ==
    /\ Up /\ Handling("bareAnswer")
    /\ IF registry[sig.msg.id] = NoClient
       THEN sig' = NextTurn /\ UNCHANGED aborted
       ELSE aborted' = "message" /\ UNCHANGED sig
    /\ UNCHANGED <<doTerm, sigQ, registry, client, out, ws, main, offers, requests, strays>>

\* A message without id or type is skipped; for one that is no string get<string>
\* throws.
SigMalformed ==
    /\ Up /\ Handling("malformed")
    /\ \/ sig' = NextTurn /\ UNCHANGED aborted
       \/ aborted' = "message" /\ UNCHANGED sig
    /\ UNCHANGED <<doTerm, sigQ, registry, client, out, ws, main, offers, requests, strays>>

\* A disconnect: _clientsMap.erase destroys the Client that has the id now.
SigErase == ~Traversing /\ EraseEntry

\* An offer: WebSocket::send, which throws unless the WebSocket is open.
SigSend ==
    /\ Up /\ Handling("offer")
    /\ IF ws.state = "open"
       THEN /\ offers' = [offers EXCEPT ![sig.msg.id] = @ \cup {sig.msg.c}]
            /\ sig' = NextTurn
            /\ UNCHANGED aborted
       ELSE /\ aborted' = "send"
            /\ UNCHANGED <<offers, sig>>
    /\ UNCHANGED <<doTerm, sigQ, registry, client, out, ws, main, requests, strays>>

\* signalingThreadOut.join()
SigJoin ==
    /\ Up /\ sig.pc = "join" /\ out.pc = "done"
    /\ sig' = [sig EXCEPT !.pc = "done"]
    /\ UNCHANGED <<doTerm, sigQ, registry, client, out, ws, main, offers, requests, strays, aborted>>

\* The steps of sig that need the registry's mutex exclusively, and the rest.
SigWrite == SigEmplace \/ SigErase
SigRun == \/ SigStart \/ SigLoop \/ SigPop \/ SigMake \/ SigAnswer \/ SigBareAnswer
          \/ SigMalformed \/ SigSend \/ SigJoin

-----------------------------------------------------------------------------
(* ~WebRTCStreamer.                                                         *)

SetTerm ==
    /\ Up /\ main = "run"
    /\ doTerm' = TRUE
    /\ main' = "stop"
    /\ UNCHANGED <<sigQ, registry, client, sig, out, ws, offers, requests, strays, aborted>>

StopQueue ==
    /\ Up /\ main = "stop"
    /\ sigQ' = [sigQ EXCEPT !.stopped = TRUE]
    /\ main' = "close"
    /\ UNCHANGED <<doTerm, registry, client, sig, out, ws, offers, requests, strays, aborted>>

\* WebSocket::close does nothing to a closed WebSocket.
CloseWs ==
    /\ Up /\ main = "close"
    /\ ws' = IF ws.state = "closed" THEN ws
             ELSE [ws EXCEPT !.state = "closed", !.cb = "check"]
    /\ main' = "join"
    /\ UNCHANGED <<doTerm, sigQ, registry, client, sig, out, offers, requests, strays, aborted>>

JoinSig ==
    /\ Up /\ main = "join" /\ sig.pc = "done"
    /\ main' = "release"
    /\ UNCHANGED <<doTerm, sigQ, registry, client, sig, out, ws, offers, requests, strays, aborted>>

\* The members are destroyed: the WebSocket, then the map with its Clients.
Release ==
    /\ Up /\ main = "release"
    /\ ws' = [ws EXCEPT !.state = "closed", !.cb = "none"]
    /\ registry' = [i \in Ids |-> NoClient]
    /\ client' = [c \in Clients |->
                    IF \E i \in Ids : registry[i] = c
                    THEN Destroyed(c, "released") ELSE client[c]]
    /\ main' = "done"
    /\ UNCHANGED <<doTerm, sigQ, sig, out, offers, requests, strays, aborted>>

Shutdown == StopQueue \/ CloseWs \/ JoinSig \/ Release
-----------------------------------------------------------------------------
Callbacks(c) ==
    GatherDone(c) \/ LinkLost(c) \/ LinkClosed(c) \/ ClientThr(c)
WebSocket == WsConnected \/ WsDrop \/ OnClosed \/ Reopen
Peer(i) == PeerRequest(i) \/ PeerStray(i) \/ \E c \in Clients : PeerAnswer(i, c)

Next ==
    \/ \E c \in Clients : Callbacks(c)
    \/ WebSocket
    \/ \E i \in Ids : Peer(i)
    \/ Out \/ SigWrite \/ SigRun
    \/ SetTerm \/ Shutdown

Spec == Init /\ [][Next]_vars

\* Every thread that can run runs; gathering completes; the signaling server
\* accepts connections.  A writer of the registry's mutex needs strong
\* fairness: out releases it again and again but never for long (a glibc rwlock
\* hands itself to a waiting writer when its last reader leaves).  Peers,
\* connection losses and the signal to terminate are not fair: they need not
\* happen.
Fairness ==
    /\ WF_vars(SigRun) /\ SF_vars(SigWrite)
    /\ WF_vars(Out) /\ WF_vars(Shutdown)
    /\ WF_vars(WsConnected) /\ WF_vars(OnClosed \/ Reopen)
    /\ \A c \in Clients :
          WF_vars(GatherDone(c)) /\ WF_vars(ClientThr(c))

FairSpec == Spec /\ Fairness

-----------------------------------------------------------------------------
(* Safety.                                                                  *)

MessageTypes == {"request", "answer", "bareAnswer", "malformed", "offer", "disconnect"}

Messages == [type : MessageTypes \cup {"none"}, id : Ids \cup {NoClient},
             c : Clients \cup {NoClient}]

ClientStates ==
    [status : {"unborn", "made", "registered", "refused", "erased", "released"},
     id : Ids \cup {NoClient}, link : {"new", "up"} \cup Ended,
     losses : 0 .. MaxLosses, gathered : BOOLEAN, outQ : Seq(Messages),
     inQ : Seq(Clients \cup {NoClient})]

QueueStates == [items : Seq(Messages), stopped : BOOLEAN]
SigStates == [pc : {"start", "loop", "pop", "handle", "emplace", "join", "done"},
              msg : Messages, made : Clients \cup {NoClient}]
OutStates == [pc : {"off", "top", "visit", "push", "done"},
              todo : SUBSET Ids, msg : Messages]
WsStates == [state : {"closed", "connecting", "open"},
             cb : {"none", "check", "reopen"}, drops : Nat]

TypeOK ==
    /\ doTerm \in BOOLEAN
    /\ sigQ \in QueueStates /\ Len(sigQ.items) <= QueueCap
    /\ registry \in [Ids -> Clients \cup {NoClient}]
    /\ client \in [Clients -> ClientStates]
    /\ sig \in SigStates /\ out \in OutStates /\ ws \in WsStates
    /\ main \in {"run", "stop", "close", "join", "release", "done"}
    /\ requests \in 0 .. MaxRequests /\ strays \in 0 .. MaxStrays
    /\ offers \in [Ids -> SUBSET Clients]
    /\ aborted \in {"no", "send", "answer", "message"}

\* No Client is leaked and none is reachable after its destruction: the live
\* Clients are exactly those the map holds, each under its own id, and the
\* one that _signalingThr has made and not yet inserted.
RegistryIsLive ==
    /\ \A i \in Ids : registry[i] # NoClient =>
          client[registry[i]].status = "registered" /\ client[registry[i]].id = i
    /\ \A c \in Clients :
          /\ client[c].status = "registered" => registry[client[c].id] = c
          /\ client[c].status = "made" <=> sig.made = c

\* The traversal of signalingThreadOut, which sleeps up to 100 ms in each
\* Client's queue, never meets a Client that has been destroyed meanwhile.
TraversalIsSafe ==
    Traversing => \A i \in out.todo : registry[i] # NoClient

In(q, m) == \E k \in DOMAIN q : q[k] = m

\* Message m, which Client m.c has pushed, has not been handled completely.
InFlight(m) ==
    In(client[m.c].outQ, m) \/ out.msg = m \/ In(sigQ.items, m) \/ sig.msg = m

\* A registered Client whose connection has ended is on its way out: its
\* disconnect is never dropped between its queue, signalingThreadOut and
\* _signalingQueue (until the destructor stops that queue).
NoLostDisconnect ==
    ~sigQ.stopped =>
        \A c \in Clients :
            client[c].status = "registered" /\ client[c].link \in Ended
            => InFlight(Disconnect(client[c].id, c))

\* The handshake of a registered Client never gets stuck on this side: its
\* offer is under way, or with the peer, or the answer is under way to it.
HandshakeGoesOn ==
    ~sigQ.stopped =>
        \A c \in Clients :
            LET i == client[c].id IN
            client[c].status = "registered" /\ client[c].gathered
                /\ client[c].link = "new"
            => \/ InFlight(Offer(i, c)) \/ c \in offers[i]
               \/ In(sigQ.items, Answer(i, c)) \/ sig.msg = Answer(i, c)
               \/ In(client[c].inQ, c)

\* When the destructor returns, its threads are done and no Client is left.
CleanShutdown ==
    main = "done" =>
        sig.pc = "done" /\ out.pc = "done" /\ \A c \in Clients : ~Alive(c)

\* A Client that is the first its peer ever asked for is erased only after its
\* connection has ended: nobody else's disconnect can hit it.
FirstClientPersists ==
    \A c \in Clients :
        /\ client[c].status = "erased"
        /\ \A d \in Clients : d < c => client[d].id # client[c].id
        => client[c].link \in Ended

\* "The Client persists as long as the remote peer stays connected": only a
\* Client whose connection has ended is erased.
ClientPersists ==
    \A c \in Clients : client[c].status = "erased" => client[c].link \in Ended

\* Every answer that a Client is given answers the offer of that Client.
AnswersMeetOffers ==
    \A c \in Clients : \A k \in DOMAIN client[c].inQ : client[c].inQ[k] = c

\* Answers name only an id, and yet, as long as peers answer an offer once and in
\* words that can be read, they go astray or end the program in one way only: a
\* Client was erased by another one's disconnect.  A stray message may well end it.
AnswersMatch ==
    ClientPersists /\ strays = 0
    => AnswersMeetOffers /\ aborted \notin {"answer", "message"}

\* A send finds the WebSocket not open only after a closure that nobody wanted, or
\* once the destructor has closed it: not before the first open, as no Client is
\* there to have an offer, and not because of a stray message.
SendFailsAfterClosure ==
    aborted = "send" => ws.drops > 0 \/ main \notin {"run", "stop", "close"}

\* "A new Client is created when a remote peer initiates a WebRTC session":
\* no request is answered by destroying the new Client.
RequestsGetClients == \A c \in Clients : client[c].status # "refused"

\* No exception reaches std::terminate.
NeverAborts == aborted = "no"

\* signalingThreadOut waits for room in the queue with the registry's mutex held,
\* and _signalingThr, which makes room, for the mutex.
QueueDeadlock ==
    /\ out.pc = "push" /\ Len(sigQ.items) = QueueCap /\ ~sigQ.stopped
    /\ sig.pc = "emplace" \/ Handling("disconnect")

\* _signalingThr waits: for a message, for the mutex, for the other's end.
SigWaits ==
    \/ sig.pc = "pop" /\ sigQ.items = << >> /\ ~sigQ.stopped
    \/ (sig.pc = "emplace" \/ Handling("disconnect")) /\ Traversing
    \/ sig.pc = "join" /\ out.pc # "done"

\* signalingThreadOut waits for room, is not there yet, or no longer.
OutWaits ==
    \/ out.pc \in {"off", "done"}
    \/ out.pc = "push" /\ Len(sigQ.items) = QueueCap /\ ~sigQ.stopped

\* The two threads come to a standstill in one way only, QueueDeadlock, while
\* the streamer is in use; in the destructor only until it has stopped the
\* queue, so that it never joins a _signalingThr that nobody will wake.
OnlyQueueDeadlock ==
    SigWaits /\ OutWaits => main = "stop" \/ (main = "run" /\ QueueDeadlock)

-----------------------------------------------------------------------------
(* Liveness.                                                                *)

\* "When the peer disconnects [...] the Client instance is removed from the
\* registry."
DisconnectRemoves ==
    \A c \in Clients :
        (client[c].status = "registered" /\ client[c].link \in Ended)
            ~> (client[c].status # "registered" \/ aborted # "no")

\* The same but for the two threads' waiting for each other: nothing else keeps
\* an ended Client registered.
RemovedUnlessDeadlocked ==
    \A c \in Clients :
        (client[c].status = "registered" /\ client[c].link \in Ended)
            ~> (client[c].status # "registered" \/ aborted # "no" \/ QueueDeadlock)

\* The offer of a registered Client reaches its peer, unless the streamer is
\* shut down, something else ends the Client first or the threads wait for each
\* other.
OfferReachesPeer ==
    \A c \in Clients :
        (client[c].status = "registered" /\ client[c].link = "new")
            ~> \/ client[c].link # "new" \/ \E i \in Ids : c \in offers[i]
               \/ client[c].status # "registered" \/ doTerm \/ aborted # "no"
               \/ QueueDeadlock

\* The destructor returns, unless an exception ends the program first, also when
\* it finds _signalingThr and signalingThreadOut waiting for each other.
ShutdownEnds == main = "stop" ~> (main = "done" \/ aborted # "no")
=============================================================================
