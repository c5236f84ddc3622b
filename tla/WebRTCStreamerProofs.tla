------------------------ MODULE WebRTCStreamerProofs ------------------------
(***************************************************************************)
(* The safety properties of WebRTCStreamer, proved for any set of peers,   *)
(* any capacity of _signalingQueue and any number of requests and of       *)
(* closures of the WebSocket.                                              *)
(*                                                                         *)
(* The first invariant, Control, says where each thread can be relative to *)
(* the others and to what it holds.  It carries type correctness, the      *)
(* registry's invariant and the safety of the traversal, which need each   *)
(* other: signalingThreadOut is well typed because what it visits is       *)
(* registered, and stays registered because the traversal excludes         *)
(* writers.  The others are proved on top of it, one property at a time:   *)
(* at the end those of the messages on their way, of which none is lost    *)
(* between a Client and the peer, and what it takes for a send to fail.    *)
(***************************************************************************)
EXTENDS WebRTCStreamer, SequenceTheorems, TLAPS

\* What travels through the queues: a message of some kind, about a peer; those of
\* a Client are about that Client.
Sendable ==
    {m \in Messages : /\ m.type \in MessageTypes /\ m.id \in Ids
                      /\ m.type \in {"offer", "disconnect"} => m.c \in Clients}

\* The messages at hand are sendable, and a thread that handles none has none.
MessageInv ==
    /\ sigQ.items \in Seq(Sendable)
    /\ \A c \in Clients : client[c].outQ \in Seq(Sendable)
    /\ IF out.pc = "push" THEN out.msg \in Sendable ELSE out.msg = NoMsg
    /\ IF sig.pc \in {"handle", "emplace"} THEN sig.msg \in Sendable ELSE sig.msg = NoMsg

\* How far the threads are relative to each other.
OrderInv ==
    /\ out.pc = "off" <=> sig.pc = "start"
    /\ sig.pc = "done" => out.pc = "done"
    /\ main \in {"release", "done"} => sig.pc = "done"
    /\ main = "done" => \A i \in Ids : registry[i] = NoClient

\* The Client that _signalingThr has made is for the request it handles.
MadeInv ==
    /\ sig.pc = "emplace" <=> sig.made # NoClient
    /\ sig.pc = "emplace" =>
          sig.msg.type = "request" /\ client[sig.made].id = sig.msg.id
    /\ \A c \in Clients : Alive(c) => client[c].id \in Ids

Control == TypeOK /\ MessageInv /\ OrderInv /\ MadeInv /\ RegistryIsLive /\ TraversalIsSafe

-----------------------------------------------------------------------------
(* Queues and messages.                                                     *)

\* What push and pop do to the type and the length of a queue.
LEMMA PushPop ==
    ASSUME NEW S, NEW q \in Seq(S)
    PROVE  /\ \A x \in S : Append(q, x) \in Seq(S) /\ Len(Append(q, x)) = Len(q) + 1
           /\ q # << >> => /\ Head(q) \in S /\ Tail(q) \in Seq(S)
                           /\ Len(Tail(q)) = Len(q) - 1 /\ Len(q) > 0
  BY AppendProperties, HeadTailProperties, EmptySeq

\* The messages that the actions send are sendable.
LEMMA MessagesSendable ==
    ASSUME NEW i \in Ids, NEW c \in Clients
    PROVE  {Request(i), Answer(i, c), Offer(i, c), Disconnect(i, c)} \subseteq Sendable
  BY DEF Request, Answer, Offer, Disconnect, Sendable, Messages, MessageTypes

\* So are stray messages.
LEMMA StraysSendable == TypeOK => \A i \in Ids : Strays(i) \subseteq Sendable
  BY DEF TypeOK, Strays, Answer, BareAnswer, Malformed, Sendable, Messages, MessageTypes

\* "No message" is typed, and not sendable.
LEMMA NoMsgTyped == NoMsg \in Messages /\ NoMsg \notin Sendable
  BY DEF NoMsg, Sendable, Messages, MessageTypes

\* A Client has a number, which NoClient is not.
LEMMA NoClientIsNone == NoClient \notin Clients
  BY StreamerAssumption DEF StreamerAssumption, Clients

-----------------------------------------------------------------------------
(* The first invariant.                                                     *)

\* A freshly constructed streamer satisfies Control.
LEMMA InitControl == Init => Control
<1> SUFFICES ASSUME Init PROVE Control
  OBVIOUS
<1> USE StreamerAssumption, NoMsgTyped, NoClientIsNone DEF StreamerAssumption
<1>1. << >> \in Seq(Messages) /\ << >> \in Seq(Sendable) /\ << >> \in Seq(Clients \cup {NoClient})
      /\ Len(<< >>) = 0
  BY EmptySeq
<1>2. Unborn \in ClientStates
  BY <1>1 DEF Unborn, ClientStates
<1>3. TypeOK
  <2>1. sigQ \in QueueStates /\ Len(sigQ.items) <= QueueCap
    BY <1>1 DEF Init, QueueStates
  <2>2. requests \in 0 .. MaxRequests /\ strays \in 0 .. MaxStrays
    BY DEF Init
  <2>3. client \in [Clients -> ClientStates]
    BY <1>2 DEF Init
  <2>4. sig \in SigStates /\ out \in OutStates /\ ws \in WsStates
    BY DEF Init, SigStates, OutStates, WsStates
  <2> QED
    BY <2>1, <2>2, <2>3, <2>4 DEF Init, TypeOK
<1>4. MessageInv
  BY <1>1 DEF Init, MessageInv, Unborn
<1>5. OrderInv
  BY DEF Init, OrderInv
<1>6. MadeInv
  BY DEF Init, MadeInv, Alive, Unborn
<1>7. RegistryIsLive /\ TraversalIsSafe
  BY DEF Init, RegistryIsLive, TraversalIsSafe, Traversing, Unborn
<1> QED BY <1>3, <1>4, <1>5, <1>6, <1>7 DEF Control

\* Changing a Client's queue or status keeps it well typed.
LEMMA ClientUpdates ==
    ASSUME NEW r \in ClientStates
    PROVE  /\ \A q \in Seq(Messages) : [r EXCEPT !.outQ = q] \in ClientStates
           /\ \A q \in Seq(Clients \cup {NoClient}) : [r EXCEPT !.inQ = q] \in ClientStates
           /\ \A v \in {"made", "registered"} : [r EXCEPT !.status = v] \in ClientStates
           /\ \A i \in Ids : [r EXCEPT !.status = "made", !.id = i] \in ClientStates
           /\ \A v \in {"refused", "erased", "released"} :
                [r EXCEPT !.status = v, !.outQ = << >>, !.inQ = << >>] \in ClientStates
<1> USE DEF ClientStates
<1>1. << >> \in Seq(Messages) /\ << >> \in Seq(Clients \cup {NoClient})
  BY EmptySeq
<1>2. \A q \in Seq(Messages) : [r EXCEPT !.outQ = q] \in ClientStates
  OBVIOUS
<1>3. \A q \in Seq(Clients \cup {NoClient}) : [r EXCEPT !.inQ = q] \in ClientStates
  OBVIOUS
<1>4. \A v \in {"made", "registered"} : [r EXCEPT !.status = v] \in ClientStates
  OBVIOUS
<1>5. \A i \in Ids : [r EXCEPT !.status = "made", !.id = i] \in ClientStates
  OBVIOUS
<1>6. \A v \in {"refused", "erased", "released"} :
         [r EXCEPT !.status = v, !.outQ = << >>, !.inQ = << >>] \in ClientStates
  BY <1>1
<1> QED BY <1>2, <1>3, <1>4, <1>5, <1>6

\* A step of a Client's own, which changes neither its id nor its status.
LEMMA ClientStep ==
    ASSUME Control, NEW c \in Clients, NEW r \in ClientStates,
           client' = [client EXCEPT ![c] = r],
           r.outQ \in Seq(Sendable), r.id = client[c].id, r.status = client[c].status,
           aborted' \in {"no", "send", "answer", "message"},
           UNCHANGED <<doTerm, sigQ, registry, sig, out, ws, main, offers, requests, strays>>
    PROVE  Control'
<1> USE DEF Control
<1>1. TypeOK'
  BY DEF TypeOK
<1>2. /\ \A d \in Clients : client'[d] = IF d = c THEN r ELSE client[d]
      /\ \A d \in Clients : client'[d].id = client[d].id /\ client'[d].status = client[d].status
  BY DEF TypeOK
<1>3. MessageInv'
  BY <1>2 DEF MessageInv
<1>4. OrderInv'
  BY DEF OrderInv
<1>5. MadeInv'
  BY <1>2, NoClientIsNone DEF MadeInv, Alive, TypeOK
<1>6. RegistryIsLive' /\ TraversalIsSafe'
  BY <1>2, NoClientIsNone DEF RegistryIsLive, TraversalIsSafe, Traversing, TypeOK
<1> QED BY <1>1, <1>3, <1>4, <1>5, <1>6

\* What a Client says is sendable, and leaves it well typed.
LEMMA SaysTyped ==
    ASSUME Control, NEW c \in Clients, Alive(c), NEW m \in Sendable
    PROVE  /\ Says(c, m) \in ClientStates /\ Says(c, m).outQ \in Seq(Sendable)
           /\ Says(c, m).id = client[c].id /\ Says(c, m).status = client[c].status
           /\ Says(c, m).outQ = Append(client[c].outQ, m)
           /\ Says(c, m).inQ = client[c].inQ /\ Says(c, m).link = client[c].link
           /\ Says(c, m).gathered = client[c].gathered
           /\ Says(c, m).losses = client[c].losses
<1>1. client[c] \in ClientStates /\ client[c].outQ \in Seq(Sendable)
  BY DEF Control, TypeOK, MessageInv
<1>2. client[c].outQ \in Seq(Messages) /\ m \in Messages
  BY <1>1 DEF ClientStates, Sendable
<1>3. Append(client[c].outQ, m) \in Seq(Messages) /\ Append(client[c].outQ, m) \in Seq(Sendable)
  BY <1>1, <1>2, PushPop
<1> QED BY <1>1, <1>3 DEF Says, ClientStates

\* Steps that change neither a queue, nor a Client, nor where a thread other
\* than main is.
LEMMA OtherStep ==
    ASSUME Control, UNCHANGED <<registry, client, sig, out>>, TypeOK',
           UNCHANGED main \/ main' \in {"run", "stop", "close", "join"}
                          \/ (main' = "release" /\ sig.pc = "done"),
           sigQ'.items \in Seq(Sendable)
    PROVE  Control'
  BY DEF Control, MessageInv, OrderInv, MadeInv, Alive, RegistryIsLive, TraversalIsSafe,
         Traversing

\* Pushing to _signalingQueue keeps it well typed.
LEMMA SigPushTyped ==
    ASSUME Control, NEW m \in Sendable, SigPush(m)
    PROVE  /\ sigQ' \in QueueStates
           /\ Len(sigQ'.items) <= QueueCap
           /\ sigQ'.items \in Seq(Sendable)
           /\ sigQ'.stopped = sigQ.stopped
           /\ ~sigQ.stopped => sigQ'.items = Append(sigQ.items, m)
<1> USE DEF Control, TypeOK, QueueStates, MessageInv
<1>1. CASE sigQ.stopped
  BY <1>1 DEF SigPush
<1>2. CASE ~sigQ.stopped
  <2>1. sigQ' = [sigQ EXCEPT !.items = Append(@, m)] /\ Len(sigQ.items) < QueueCap
    BY <1>2 DEF SigPush
  <2>2. sigQ.items \in Seq(Sendable) /\ sigQ.items \in Seq(Messages) /\ m \in Messages
    BY DEF Sendable
  <2>3. Append(sigQ.items, m) \in Seq(Sendable) /\ Append(sigQ.items, m) \in Seq(Messages)
        /\ Len(Append(sigQ.items, m)) = Len(sigQ.items) + 1
    BY <2>2, PushPop
  <2>4. Len(sigQ.items) + 1 <= QueueCap
    BY <2>1, <2>2, LenProperties, StreamerAssumption DEF StreamerAssumption
  <2> QED BY <1>2, <2>1, <2>3, <2>4
<1> QED BY <1>1, <1>2

\* Every step keeps Control.
LEMMA NextControl == Control /\ [Next]_vars => Control'
<1> SUFFICES ASSUME Control, [Next]_vars PROVE Control'
  OBVIOUS
<1> USE DEF Control
<1>1. ASSUME NEW c \in Clients, GatherDone(c) PROVE Control'
  <2> DEFINE m == Offer(client[c].id, c)
             r == [Says(c, m) EXCEPT !.gathered = TRUE]
  <2>1. m \in Sendable /\ Alive(c)
    BY <1>1, MessagesSendable DEF GatherDone, MadeInv
  <2>2. r \in ClientStates /\ r.outQ \in Seq(Sendable)
        /\ r.id = client[c].id /\ r.status = client[c].status
    <3>1. /\ Says(c, m) \in ClientStates /\ Says(c, m).outQ \in Seq(Sendable)
          /\ Says(c, m).id = client[c].id /\ Says(c, m).status = client[c].status
      BY <2>1, SaysTyped
    <3> HIDE DEF m
    <3> QED BY <3>1 DEF ClientStates
  <2> QED BY <1>1, <2>2, ClientStep DEF GatherDone, TypeOK, Control
<1>2. ASSUME NEW c \in Clients, LinkLost(c) PROVE Control'
  <2> DEFINE m == Disconnect(client[c].id, c)
             r == [Says(c, m) EXCEPT !.link = "lost", !.losses = @ + 1]
  <2>1. m \in Sendable /\ Alive(c)
    BY <1>2, MessagesSendable DEF LinkLost, MadeInv
  <2>2. r \in ClientStates /\ r.outQ \in Seq(Sendable)
        /\ r.id = client[c].id /\ r.status = client[c].status
    <3>1. /\ Says(c, m) \in ClientStates /\ Says(c, m).outQ \in Seq(Sendable)
          /\ Says(c, m).id = client[c].id /\ Says(c, m).status = client[c].status
          /\ Says(c, m).losses = client[c].losses
      BY <2>1, SaysTyped
    <3>2. client[c].losses + 1 \in 0 .. MaxLosses
      BY <1>2, StreamerAssumption DEF LinkLost, TypeOK, ClientStates, StreamerAssumption
    <3> HIDE DEF m
    <3> QED BY <3>1, <3>2 DEF ClientStates, Ended
  <2> QED BY <1>2, <2>2, ClientStep DEF LinkLost, TypeOK, Control
<1>3. ASSUME NEW c \in Clients, LinkClosed(c) PROVE Control'
  <2> DEFINE m == Disconnect(client[c].id, c)
             r == [Says(c, m) EXCEPT !.link = "closed"]
  <2>1. m \in Sendable /\ Alive(c)
    BY <1>3, MessagesSendable DEF LinkClosed, MadeInv
  <2>2. r \in ClientStates /\ r.outQ \in Seq(Sendable)
        /\ r.id = client[c].id /\ r.status = client[c].status
    <3>1. /\ Says(c, m) \in ClientStates /\ Says(c, m).outQ \in Seq(Sendable)
          /\ Says(c, m).id = client[c].id /\ Says(c, m).status = client[c].status
      BY <2>1, SaysTyped
    <3> HIDE DEF m
    <3> QED BY <3>1 DEF ClientStates, Ended
  <2> QED BY <1>3, <2>2, ClientStep DEF LinkClosed, TypeOK, Control
<1>4. ASSUME SigBareAnswer \/ SigMalformed PROVE Control'
  <2>1. /\ sig.pc = "handle" /\ sig.msg.type \in {"bareAnswer", "malformed"}
        /\ UNCHANGED <<doTerm, sigQ, registry, client, out, ws, main, offers, requests, strays>>
        /\ \/ sig' = NextTurn /\ UNCHANGED aborted
           \/ UNCHANGED sig /\ aborted' = "message"
    BY <1>4 DEF SigBareAnswer, SigMalformed, Handling
  <2>2. CASE sig' = NextTurn /\ UNCHANGED aborted
    <3>1. /\ sig' \in SigStates /\ sig'.pc = "loop" /\ sig'.made = NoClient
          /\ sig'.msg = NoMsg
      BY <2>2, NoMsgTyped DEF NextTurn, SigStates
    <3>2. TypeOK'
      BY <2>1, <2>2, <3>1 DEF TypeOK
    <3>3. MessageInv' /\ OrderInv' /\ MadeInv'
      BY <2>1, <3>1 DEF MessageInv, OrderInv, MadeInv, Alive
    <3>4. RegistryIsLive' /\ TraversalIsSafe'
      BY <2>1, <3>1, NoClientIsNone
      DEF RegistryIsLive, TraversalIsSafe, Traversing, MadeInv
    <3> QED BY <3>2, <3>3, <3>4
  <2>3. CASE UNCHANGED sig /\ aborted' = "message"
    BY <2>1, <2>3 DEF TypeOK, MessageInv, OrderInv, MadeInv, Alive, RegistryIsLive,
                      TraversalIsSafe, Traversing
  <2> QED BY <2>1, <2>2, <2>3
<1>5. ASSUME NEW c \in Clients, ClientThr(c) PROVE Control'
  <2>1. /\ client[c] \in ClientStates /\ client[c].inQ # << >>
        /\ client[c].outQ \in Seq(Sendable)
        /\ UNCHANGED <<doTerm, sigQ, registry, sig, out, ws, main, offers, requests, strays>>
        /\ aborted' \in {"no", "send", "answer", "message"}
    BY <1>5 DEF ClientThr, TypeOK, MessageInv
  <2>2. Tail(client[c].inQ) \in Seq(Clients \cup {NoClient})
    BY <2>1, PushPop DEF ClientStates
  <2>3. PICK r \in ClientStates :
           /\ client' = [client EXCEPT ![c] = r] /\ r.outQ \in Seq(Sendable)
           /\ r.id = client[c].id /\ r.status = client[c].status
    <3>1. CASE UNCHANGED client
      <4>1. client' = [client EXCEPT ![c] = client[c]]
        BY <3>1 DEF TypeOK
      <4> QED BY <2>1, <4>1
    <3>2. CASE client' = [client EXCEPT ![c].inQ = Tail(@), ![c].link = "up"]
      <4> DEFINE s == [client[c] EXCEPT !.inQ = Tail(@), !.link = "up"]
      <4>1. s \in ClientStates /\ s.outQ \in Seq(Sendable)
            /\ s.id = client[c].id /\ s.status = client[c].status
        BY <2>1, <2>2 DEF ClientStates
      <4>2. client' = [client EXCEPT ![c] = s]
        BY <3>2 DEF TypeOK
      <4> QED BY <4>1, <4>2
    <3> QED BY <1>5, <3>1, <3>2 DEF ClientThr
  <2> QED BY <2>1, <2>3, ClientStep
<1>6. ASSUME WsConnected \/ WsDrop \/ OnClosed \/ Reopen \/ SetTerm \/ CloseWs PROVE Control'
  <2>1. ws' \in WsStates
    <3>1. CASE UNCHANGED ws
      BY <3>1 DEF TypeOK
    <3>2. CASE WsDrop
      BY <3>2 DEF WsDrop, TypeOK, WsStates
    <3>3. CASE WsConnected \/ OnClosed \/ Reopen \/ CloseWs
      BY <3>3 DEF WsConnected, OnClosed, Reopen, CloseWs, TypeOK, WsStates
    <3> QED BY <1>6, <3>1, <3>2, <3>3 DEF SetTerm
  <2>2. doTerm' \in BOOLEAN /\ (UNCHANGED main \/ main' \in {"stop", "join"})
        /\ UNCHANGED <<sigQ, registry, client, sig, out, offers, requests, strays, aborted>>
    BY <1>6 DEF WsConnected, WsDrop, OnClosed, Reopen, SetTerm, CloseWs, TypeOK
  <2>3. TypeOK'
    BY <2>1, <2>2 DEF TypeOK
  <2> QED BY <2>2, <2>3, OtherStep DEF MessageInv
<1>7. ASSUME NEW i \in Ids, PeerRequest(i) PROVE Control'
  <2>1. Request(i) \in Sendable
    BY DEF Request, Sendable, Messages, MessageTypes
  <2>2. sigQ'.items \in Seq(Sendable)
    BY <1>7, <2>1, SigPushTyped DEF PeerRequest
  <2>3. requests' \in 0 .. MaxRequests
    BY <1>7, StreamerAssumption DEF PeerRequest, TypeOK, StreamerAssumption
  <2>4. TypeOK'
    BY <1>7, <2>1, <2>3, SigPushTyped DEF PeerRequest, TypeOK
  <2> QED BY <1>7, <2>2, <2>4, OtherStep DEF PeerRequest
<1>8. ASSUME NEW i \in Ids, NEW c \in Clients, PeerAnswer(i, c) PROVE Control'
  <2>1. Answer(i, c) \in Sendable
    BY MessagesSendable
  <2>2. sigQ'.items \in Seq(Sendable)
    BY <1>8, <2>1, SigPushTyped DEF PeerAnswer
  <2>3. TypeOK'
    BY <1>8, <2>1, SigPushTyped DEF PeerAnswer, TypeOK
  <2> QED BY <1>8, <2>2, <2>3, OtherStep DEF PeerAnswer
<1>22. ASSUME NEW i \in Ids, PeerStray(i) PROVE Control'
  <2>1. PICK m \in Sendable : SigPush(m)
    BY <1>22, StraysSendable DEF PeerStray
  <2>2. strays' \in 0 .. MaxStrays
    BY <1>22, StreamerAssumption DEF PeerStray, TypeOK, StreamerAssumption
  <2>3. sigQ' \in QueueStates /\ Len(sigQ'.items) <= QueueCap /\ sigQ'.items \in Seq(Sendable)
    BY <2>1, SigPushTyped
  <2>4. TypeOK'
    BY <1>22, <2>2, <2>3 DEF PeerStray, TypeOK
  <2> QED BY <1>22, <2>3, <2>4, OtherStep DEF PeerStray
<1>9. ASSUME StopQueue \/ JoinSig PROVE Control'
  <2>1. TypeOK' /\ sigQ'.items = sigQ.items
    BY <1>9 DEF StopQueue, JoinSig, TypeOK, QueueStates
  <2> QED BY <1>9, <2>1, OtherStep DEF StopQueue, JoinSig, MessageInv
<1>10. ASSUME OutTop \/ OutEnd \/ (\E i \in Ids : OutTimeout(i)) PROVE Control'
  <2>1. /\ UNCHANGED <<sigQ, registry, client, sig, ws, main, offers, requests, strays, aborted, doTerm>>
        /\ out.pc \in {"top", "visit"} /\ out'.pc \in {"top", "visit", "done"}
        /\ out'.msg = out.msg /\ out' \in OutStates
        /\ out'.pc = "visit" => \A i \in out'.todo : registry[i] # NoClient
    <3>1. CASE OutTop
      BY <3>1 DEF OutTop, TypeOK, OutStates
    <3>2. CASE OutEnd
      BY <3>2 DEF OutEnd, TypeOK, OutStates
    <3>3. CASE \E i \in Ids : OutTimeout(i)
      BY <3>3 DEF OutTimeout, TypeOK, OutStates, TraversalIsSafe, Traversing
    <3> QED BY <1>10, <3>1, <3>2, <3>3
  <2> QED
    BY <2>1 DEF TypeOK, MessageInv, OrderInv, MadeInv, Alive, RegistryIsLive, TraversalIsSafe,
                Traversing
<1>11. ASSUME NEW i \in Ids, OutTake(i) PROVE Control'
  <2> DEFINE c == registry[i]
             r == [client[c] EXCEPT !.outQ = Tail(@)]
  <2>1. /\ UNCHANGED <<sigQ, registry, sig, ws, main, offers, requests, strays, aborted, doTerm>>
        /\ out.pc = "visit" /\ i \in out.todo /\ client[c].outQ # << >>
        /\ out' = [pc |-> "push", todo |-> out.todo \ {i}, msg |-> Head(client[c].outQ)]
        /\ client' = [client EXCEPT ![c] = r]
    BY <1>11 DEF OutTake, TypeOK
  <2>2. c \in Clients /\ client[c] \in ClientStates
    BY <2>1 DEF TypeOK, TraversalIsSafe, Traversing
  <2>3. client[c].outQ \in Seq(Sendable) /\ client[c].outQ \in Seq(Messages)
    BY <2>2 DEF MessageInv, ClientStates
  <2>4. /\ Head(client[c].outQ) \in Sendable /\ Tail(client[c].outQ) \in Seq(Sendable)
        /\ Tail(client[c].outQ) \in Seq(Messages)
    BY <2>1, <2>3, PushPop
  <2>5. /\ r \in ClientStates /\ r.outQ \in Seq(Sendable)
        /\ r.id = client[c].id /\ r.status = client[c].status
    <3>1. r \in ClientStates
      BY <2>2, <2>4, ClientUpdates
    <3> QED BY <2>2, <2>4, <3>1 DEF ClientStates
  <2> HIDE DEF r
  <2>6. /\ client' \in [Clients -> ClientStates]
        /\ \A d \in Clients : client'[d].id = client[d].id /\ client'[d].status = client[d].status
        /\ \A d \in Clients : client'[d].outQ \in Seq(Sendable)
    BY <2>1, <2>2, <2>5 DEF TypeOK, MessageInv
  <2>7. out' \in OutStates
    BY <2>1, <2>4 DEF TypeOK, OutStates, Sendable
  <2>8. TypeOK'
    BY <2>1, <2>6, <2>7 DEF TypeOK
  <2>9. MessageInv'
    BY <2>1, <2>4, <2>6 DEF MessageInv
  <2>10. OrderInv' /\ MadeInv'
    BY <2>1, <2>6, NoClientIsNone DEF OrderInv, MadeInv, Alive, TypeOK
  <2>11. RegistryIsLive' /\ TraversalIsSafe'
    BY <2>1, <2>6 DEF RegistryIsLive, TraversalIsSafe, Traversing, TypeOK
  <2> QED BY <2>8, <2>9, <2>10, <2>11
<1>12. ASSUME OutPush PROVE Control'
  <2>1. out.msg \in Sendable /\ SigPush(out.msg) /\ out.pc = "push"
        /\ out' = [out EXCEPT !.pc = "visit", !.msg = NoMsg]
        /\ UNCHANGED <<registry, client, sig, ws, main, offers, requests, strays, aborted, doTerm>>
    BY <1>12 DEF OutPush, MessageInv
  <2>2. /\ out' \in OutStates /\ out'.pc = "visit" /\ out'.msg = NoMsg /\ out'.todo = out.todo
    BY <2>1, NoMsgTyped DEF TypeOK, OutStates
  <2>3. sigQ' \in QueueStates /\ Len(sigQ'.items) <= QueueCap /\ sigQ'.items \in Seq(Sendable)
    BY <2>1, SigPushTyped
  <2>4. TypeOK'
    BY <2>1, <2>2, <2>3 DEF TypeOK
  <2>5. MessageInv'
    BY <2>1, <2>2, <2>3 DEF MessageInv
  <2>6. OrderInv' /\ MadeInv' /\ RegistryIsLive' /\ TraversalIsSafe'
    BY <2>1, <2>2 DEF OrderInv, MadeInv, Alive, RegistryIsLive, TraversalIsSafe, Traversing
  <2> QED BY <2>4, <2>5, <2>6
<1>13. ASSUME SigStart \/ SigLoop \/ SigJoin PROVE Control'
  <2>1. sig' \in SigStates /\ out' \in OutStates /\ ws' \in WsStates
    BY <1>13 DEF SigStart, SigLoop, SigJoin, TypeOK, SigStates, OutStates, WsStates
  <2>2. TypeOK'
    BY <1>13, <2>1 DEF SigStart, SigLoop, SigJoin, TypeOK
  <2>3. MessageInv'
    BY <1>13 DEF SigStart, SigLoop, SigJoin, MessageInv, OrderInv, TypeOK, SigStates, OutStates
  <2>4. OrderInv' /\ MadeInv' /\ RegistryIsLive'
    BY <1>13 DEF SigStart, SigLoop, SigJoin, OrderInv, MadeInv, Alive, RegistryIsLive, TypeOK,
                 SigStates, OutStates
  <2>5. TraversalIsSafe'
    BY <1>13 DEF SigStart, SigLoop, SigJoin, TraversalIsSafe, Traversing, TypeOK, OutStates
  <2> QED BY <2>2, <2>3, <2>4, <2>5
<1>14. ASSUME SigPop PROVE Control'
  <2>1. sig.pc = "pop" /\ sig \in SigStates /\ sigQ \in QueueStates
        /\ UNCHANGED <<doTerm, registry, client, out, ws, main, offers, requests, strays, aborted>>
    BY <1>14 DEF SigPop, TypeOK
  <2>2. /\ sigQ' \in QueueStates /\ Len(sigQ'.items) <= QueueCap
        /\ sigQ'.items \in Seq(Sendable)
        /\ sig' \in SigStates /\ sig'.made = sig.made
        /\ \/ sig'.pc = "handle" /\ sig'.msg \in Sendable
           \/ sig'.pc = "loop" /\ sig'.msg = sig.msg
    <3>1. CASE sigQ.items = << >>
      <4>1. sigQ' = sigQ /\ sig' = [sig EXCEPT !.pc = "loop"]
        BY <1>14, <3>1 DEF SigPop
      <4> QED BY <2>1, <4>1 DEF TypeOK, MessageInv, SigStates
    <3>2. CASE sigQ.items # << >>
      <4>1. /\ sigQ' = [sigQ EXCEPT !.items = Tail(@)]
            /\ sig' = [sig EXCEPT !.pc = "handle", !.msg = Head(sigQ.items)]
        BY <1>14, <3>2 DEF SigPop
      <4>2. sigQ.items \in Seq(Sendable) /\ sigQ.items \in Seq(Messages)
            /\ Len(sigQ.items) \in Nat /\ Len(sigQ.items) <= QueueCap
        BY <2>1, LenProperties DEF TypeOK, MessageInv, QueueStates
      <4>3. /\ Head(sigQ.items) \in Sendable /\ Tail(sigQ.items) \in Seq(Sendable)
            /\ Tail(sigQ.items) \in Seq(Messages)
            /\ Len(Tail(sigQ.items)) = Len(sigQ.items) - 1
        BY <3>2, <4>2, PushPop
      <4>4. Len(Tail(sigQ.items)) <= QueueCap
        BY <4>2, <4>3, StreamerAssumption DEF StreamerAssumption
      <4>5. sigQ' \in QueueStates /\ sigQ'.items = Tail(sigQ.items)
        BY <2>1, <4>1, <4>3 DEF QueueStates
      <4>6. /\ sig' \in SigStates /\ sig'.made = sig.made
            /\ sig'.pc = "handle" /\ sig'.msg \in Sendable
        BY <2>1, <4>1, <4>3 DEF SigStates, Sendable
      <4> QED BY <4>3, <4>4, <4>5, <4>6
    <3> QED BY <3>1, <3>2
  <2>3. TypeOK'
    BY <2>1, <2>2 DEF TypeOK
  <2>4. MessageInv'
    BY <2>1, <2>2 DEF MessageInv
  <2>5. OrderInv' /\ MadeInv' /\ RegistryIsLive' /\ TraversalIsSafe'
    BY <2>1, <2>2 DEF OrderInv, MadeInv, Alive, RegistryIsLive, TraversalIsSafe, Traversing
  <2> QED BY <2>3, <2>4, <2>5
<1>15. ASSUME SigMake PROVE Control'
  <2>1. PICK c \in Clients :
           /\ client[c].status = "unborn"
           /\ client' = [client EXCEPT ![c] =
                           [client[c] EXCEPT !.status = "made", !.id = sig.msg.id]]
           /\ sig' = [sig EXCEPT !.pc = "emplace", !.made = c]
    BY <1>15 DEF SigMake, TypeOK
  <2>2. /\ sig.pc = "handle" /\ sig.msg.type = "request" /\ sig.msg.id \in Ids
        /\ UNCHANGED <<doTerm, sigQ, registry, out, ws, main, offers, requests, strays, aborted>>
    BY <1>15 DEF SigMake, Handling, MessageInv, Sendable
  <2> DEFINE r == [client[c] EXCEPT !.status = "made", !.id = sig.msg.id]
  <2>3. /\ r \in ClientStates /\ r.status = "made" /\ r.id = sig.msg.id
        /\ r.outQ = client[c].outQ
    <3>1. client[c] \in ClientStates
      BY DEF TypeOK
    <3>2. r \in ClientStates
      BY <2>2, <3>1, ClientUpdates
    <3> QED BY <3>1, <3>2 DEF ClientStates
  <2> HIDE DEF r
  <2>4. /\ client' \in [Clients -> ClientStates] /\ client'[c] = r
        /\ \A d \in Clients \ {c} : client'[d] = client[d]
    BY <2>1, <2>3 DEF TypeOK, r
  <2>5. /\ sig' \in SigStates /\ sig'.pc = "emplace" /\ sig'.made = c /\ sig'.msg = sig.msg
    BY <2>1 DEF TypeOK, SigStates
  <2>6. TypeOK'
    BY <2>2, <2>4, <2>5 DEF TypeOK
  <2>7. MessageInv'
    BY <2>2, <2>3, <2>4, <2>5 DEF MessageInv
  <2>8. OrderInv' /\ TraversalIsSafe'
    BY <2>2, <2>5 DEF OrderInv, TraversalIsSafe, Traversing
  <2>9. MadeInv'
    BY <2>2, <2>3, <2>4, <2>5, NoClientIsNone DEF MadeInv, Alive
  <2>10. RegistryIsLive'
    BY <2>1, <2>2, <2>3, <2>4, <2>5, NoClientIsNone DEF RegistryIsLive, MadeInv, TypeOK
  <2> QED BY <2>6, <2>7, <2>8, <2>9, <2>10
<1>16. ASSUME SigEmplace PROVE Control'
  <2> DEFINE i == sig.msg.id
             c == sig.made
  <2>1. /\ sig.pc = "emplace" /\ ~Traversing /\ sig' = NextTurn
        /\ UNCHANGED <<doTerm, sigQ, out, ws, main, offers, requests, strays, aborted>>
        /\ i \in Ids /\ c \in Clients /\ client[c] \in ClientStates
        /\ client[c].status = "made" /\ client[c].id = i
    <3>1. /\ sig.pc = "emplace" /\ ~Traversing /\ sig' = NextTurn
          /\ UNCHANGED <<doTerm, sigQ, out, ws, main, offers, requests, strays, aborted>>
      BY <1>16 DEF SigEmplace
    <3>2. i \in Ids /\ c \in Clients
      BY <3>1 DEF MadeInv, TypeOK, SigStates, MessageInv, Sendable
    <3> QED BY <3>1, <3>2 DEF MadeInv, RegistryIsLive, TypeOK
  <2>2. PICK r \in ClientStates :
           /\ client' = [client EXCEPT ![c] = r]
           /\ r.id = i /\ r.outQ \in Seq(Sendable)
           /\ \/ registry[i] = NoClient /\ registry' = [registry EXCEPT ![i] = c]
                 /\ r.status = "registered"
              \/ registry[i] # NoClient /\ registry' = registry /\ r.status = "refused"
    <3>1. CASE registry[i] = NoClient
      <4> DEFINE s == [client[c] EXCEPT !.status = "registered"]
      <4>1. s \in ClientStates
        BY <2>1, ClientUpdates
      <4>2. client' = [client EXCEPT ![c] = s] /\ registry' = [registry EXCEPT ![i] = c]
        BY <1>16, <3>1 DEF SigEmplace
      <4>3. s.id = i /\ s.outQ \in Seq(Sendable) /\ s.status = "registered"
        BY <2>1 DEF MessageInv, ClientStates
      <4> QED BY <3>1, <4>1, <4>2, <4>3
    <3>2. CASE registry[i] # NoClient
      <4> DEFINE s == Destroyed(c, "refused")
      <4>1. s \in ClientStates
        BY <2>1, ClientUpdates DEF Destroyed
      <4>2. client' = [client EXCEPT ![c] = s] /\ registry' = registry
        BY <1>16, <3>2 DEF SigEmplace
      <4>3. s.id = i /\ s.outQ \in Seq(Sendable) /\ s.status = "refused"
        BY <2>1, EmptySeq DEF ClientStates, Destroyed
      <4> QED BY <3>2, <4>1, <4>2, <4>3
    <3> QED BY <3>1, <3>2
  <2>3. /\ client' \in [Clients -> ClientStates] /\ client'[c] = r
        /\ \A d \in Clients \ {c} : client'[d] = client[d]
    BY <2>1, <2>2 DEF TypeOK
  <2>4. /\ registry' \in [Ids -> Clients \cup {NoClient}]
        /\ \A j \in Ids : registry'[j] = IF j = i /\ registry[i] = NoClient THEN c
                                         ELSE registry[j]
    BY <2>1, <2>2 DEF TypeOK
  <2>5. /\ sig' \in SigStates /\ sig'.pc = "loop" /\ sig'.made = NoClient /\ sig'.msg = NoMsg
    BY <2>1, NoMsgTyped DEF NextTurn, SigStates
  <2>6. TypeOK'
    BY <2>1, <2>3, <2>4, <2>5 DEF TypeOK
  <2>7. MessageInv'
    BY <2>1, <2>2, <2>3, <2>5 DEF MessageInv
  <2>8. OrderInv'
    BY <2>1, <2>5 DEF OrderInv
  <2>9. TraversalIsSafe'
    BY <2>1 DEF TraversalIsSafe, Traversing
  <2>10. MadeInv'
    BY <2>1, <2>2, <2>3, <2>5 DEF MadeInv, Alive
  <2>11. RegistryIsLive'
    <3>1. \A j \in Ids : registry[j] # c
      BY <2>1, NoClientIsNone DEF RegistryIsLive
    <3>2. \A j \in Ids : registry'[j] # NoClient =>
             client'[registry'[j]].status = "registered" /\ client'[registry'[j]].id = j
      BY <2>1, <2>2, <2>3, <2>4, <3>1 DEF RegistryIsLive, TypeOK
    <3>3. \A d \in Clients : client'[d].status = "registered" => registry'[client'[d].id] = d
      <4> SUFFICES ASSUME NEW d \in Clients, client'[d].status = "registered"
                   PROVE  registry'[client'[d].id] = d
        OBVIOUS
      <4>1. CASE d = c
        BY <2>1, <2>2, <2>3, <2>4, <4>1
      <4>2. CASE d # c
        <5>1. client'[d] = client[d] /\ registry[client[d].id] = d /\ client[d].id \in Ids
          BY <2>3, <4>2 DEF RegistryIsLive, MadeInv, Alive
        <5> QED BY <2>1, <2>4, <5>1, NoClientIsNone
      <4> QED BY <4>1, <4>2
    <3>4. \A d \in Clients : client'[d].status = "made" <=> sig'.made = d
      BY <2>1, <2>2, <2>3, <2>5, NoClientIsNone DEF RegistryIsLive
    <3> QED BY <3>2, <3>3, <3>4 DEF RegistryIsLive
  <2> QED BY <2>6, <2>7, <2>8, <2>9, <2>10, <2>11
<1>17. ASSUME SigAnswer PROVE Control'
  <2>1. /\ sig.pc = "handle" /\ sig.msg.type = "answer" /\ sig' = NextTurn
        /\ UNCHANGED <<doTerm, sigQ, registry, out, ws, main, offers, requests, strays, aborted>>
        /\ sig.msg.id \in Ids /\ sig.msg.c \in Clients \cup {NoClient}
    BY <1>17 DEF SigAnswer, Handling, MessageInv, Sendable, Messages
  <2>2. /\ client' \in [Clients -> ClientStates]
        /\ \A d \in Clients : /\ client'[d].id = client[d].id
                               /\ client'[d].status = client[d].status
                               /\ client'[d].outQ = client[d].outQ
    <3>1. CASE registry[sig.msg.id] = NoClient
      BY <1>17, <3>1 DEF SigAnswer, TypeOK
    <3>2. CASE registry[sig.msg.id] # NoClient
      <4> DEFINE c == registry[sig.msg.id]
                 q == Append(client[c].inQ, sig.msg.c)
                 r == [client[c] EXCEPT !.inQ = q]
      <4>1. c \in Clients /\ client[c] \in ClientStates
        BY <2>1, <3>2 DEF TypeOK
      <4>2. q \in Seq(Clients \cup {NoClient})
        BY <2>1, <4>1, PushPop DEF ClientStates
      <4>3. client' = [client EXCEPT ![c] = r]
        BY <1>17, <3>2 DEF SigAnswer
      <4>4. r \in ClientStates
        BY <4>1, <4>2, ClientUpdates
      <4>5. r.id = client[c].id /\ r.status = client[c].status /\ r.outQ = client[c].outQ
        BY <4>1 DEF ClientStates
      <4> HIDE DEF c, r
      <4> QED BY <4>1, <4>3, <4>4, <4>5 DEF TypeOK
    <3> QED BY <3>1, <3>2
  <2>3. /\ sig' \in SigStates /\ sig'.pc = "loop" /\ sig'.made = NoClient /\ sig'.msg = NoMsg
    BY <2>1, NoMsgTyped DEF NextTurn, SigStates
  <2>4. TypeOK'
    BY <2>1, <2>2, <2>3 DEF TypeOK
  <2>5. MessageInv'
    BY <2>1, <2>2, <2>3 DEF MessageInv
  <2>6. OrderInv' /\ MadeInv'
    BY <2>1, <2>2, <2>3 DEF OrderInv, MadeInv, Alive
  <2>7. RegistryIsLive' /\ TraversalIsSafe'
    BY <2>1, <2>2, <2>3, NoClientIsNone
    DEF RegistryIsLive, TraversalIsSafe, Traversing, MadeInv, TypeOK
  <2> QED BY <2>4, <2>5, <2>6, <2>7
<1>18. ASSUME SigErase PROVE Control'
  <2> DEFINE i == sig.msg.id
             c == registry[i]
             r == Destroyed(c, "erased")
  <2>1. /\ sig.pc = "handle" /\ ~Traversing /\ sig' = NextTurn /\ i \in Ids
        /\ UNCHANGED <<doTerm, sigQ, out, ws, main, offers, requests, strays, aborted>>
        /\ registry' = [registry EXCEPT ![i] = NoClient]
        /\ client' = IF c = NoClient THEN client ELSE [client EXCEPT ![c] = r]
    BY <1>18 DEF SigErase, EraseEntry, Handling, MessageInv, Sendable
  <2>2. c # NoClient => /\ c \in Clients /\ client[c] \in ClientStates
                        /\ client[c].status = "registered" /\ client[c].id = i
    BY <2>1 DEF RegistryIsLive, TypeOK
  <2>3. c # NoClient => /\ r \in ClientStates
                        /\ r.id = i /\ r.status = "erased" /\ r.outQ \in Seq(Sendable)
    <3>1. c # NoClient => r \in ClientStates
      BY <2>2, ClientUpdates DEF Destroyed
    <3> QED BY <2>2, <3>1, EmptySeq DEF Destroyed, ClientStates
  <2> HIDE DEF r
  <2>4. /\ client' \in [Clients -> ClientStates]
        /\ c # NoClient => client'[c] = r
        /\ \A d \in Clients : d # c => client'[d] = client[d]
    BY <2>1, <2>2, <2>3 DEF TypeOK
  <2>5. /\ registry' \in [Ids -> Clients \cup {NoClient}]
        /\ \A j \in Ids : registry'[j] = IF j = i THEN NoClient ELSE registry[j]
    BY <2>1 DEF TypeOK
  <2>6. /\ sig' \in SigStates /\ sig'.pc = "loop" /\ sig'.made = NoClient /\ sig'.msg = NoMsg
    BY <2>1, NoMsgTyped DEF NextTurn, SigStates
  <2> HIDE DEF c
  <2>7. TypeOK'
    BY <2>1, <2>4, <2>5, <2>6 DEF TypeOK
  <2>8. MessageInv'
    BY <2>1, <2>2, <2>3, <2>4, <2>6, NoClientIsNone DEF MessageInv
  <2>9. OrderInv'
    BY <2>1, <2>5, <2>6 DEF OrderInv
  <2>10. TraversalIsSafe'
    BY <2>1 DEF TraversalIsSafe, Traversing
  <2>11. MadeInv'
    BY <2>1, <2>2, <2>3, <2>4, <2>6, NoClientIsNone DEF MadeInv, Alive
  <2>12. RegistryIsLive'
    <3>1. sig.made = NoClient /\ \A d \in Clients : client[d].status # "made"
      BY <2>1, NoClientIsNone DEF MadeInv, RegistryIsLive
    <3>2. \A j \in Ids \ {i} : registry[j] = c => c = NoClient
      BY <2>2 DEF RegistryIsLive
    <3>3. \A j \in Ids : registry'[j] # NoClient =>
             client'[registry'[j]].status = "registered" /\ client'[registry'[j]].id = j
      BY <2>4, <2>5, <3>2 DEF RegistryIsLive, TypeOK
    <3>4. \A d \in Clients : client'[d].status = "registered" => registry'[client'[d].id] = d
      <4> SUFFICES ASSUME NEW d \in Clients, client'[d].status = "registered"
                   PROVE  registry'[client'[d].id] = d
        OBVIOUS
      <4>1. d # c /\ client'[d] = client[d]
        BY <2>3, <2>4, NoClientIsNone
      <4>2. registry[client[d].id] = d /\ client[d].id \in Ids
        BY <4>1 DEF RegistryIsLive, MadeInv, Alive
      <4> QED BY <2>5, <4>1, <4>2 DEF c
    <3>5. \A d \in Clients : client'[d].status = "made" <=> sig'.made = d
      BY <2>2, <2>3, <2>4, <2>6, <3>1, NoClientIsNone
    <3> QED BY <3>3, <3>4, <3>5 DEF RegistryIsLive
  <2> QED BY <2>7, <2>8, <2>9, <2>10, <2>11, <2>12
<1>19. ASSUME SigSend PROVE Control'
  <2>1. /\ sig.pc = "handle" /\ sig.msg \in Sendable /\ sig.msg.type = "offer"
        /\ UNCHANGED <<doTerm, sigQ, registry, client, out, ws, main, requests, strays>>
    BY <1>19 DEF SigSend, Handling, MessageInv
  <2>2. CASE sig' = NextTurn /\ UNCHANGED aborted
             /\ offers' = [offers EXCEPT ![sig.msg.id] = @ \cup {sig.msg.c}]
    <3>1. /\ sig' \in SigStates /\ sig'.pc = "loop" /\ sig'.made = NoClient
          /\ sig'.msg = NoMsg
      BY <2>2, NoMsgTyped DEF NextTurn, SigStates
    <3>2. offers' \in [Ids -> SUBSET Clients]
      BY <2>1, <2>2 DEF TypeOK, Sendable
    <3>3. TypeOK'
      BY <2>1, <2>2, <3>1, <3>2 DEF TypeOK
    <3>4. MessageInv' /\ OrderInv' /\ MadeInv'
      BY <2>1, <3>1 DEF MessageInv, OrderInv, MadeInv, Alive
    <3>5. RegistryIsLive' /\ TraversalIsSafe'
      BY <2>1, <3>1, NoClientIsNone
      DEF RegistryIsLive, TraversalIsSafe, Traversing, MadeInv
    <3> QED BY <3>3, <3>4, <3>5
  <2>3. CASE UNCHANGED <<sig, offers>> /\ aborted' = "send"
    BY <2>1, <2>3 DEF TypeOK, MessageInv, OrderInv, MadeInv, Alive, RegistryIsLive,
                      TraversalIsSafe, Traversing
  <2> QED BY <1>19, <2>2, <2>3 DEF SigSend
<1>20. ASSUME Release PROVE Control'
  <2>1. /\ main = "release" /\ main' = "done" /\ sig.pc = "done" /\ out.pc = "done"
        /\ UNCHANGED <<doTerm, sigQ, sig, out, offers, requests, strays, aborted>>
        /\ registry' = [j \in Ids |-> NoClient]
        /\ ws' = [ws EXCEPT !.state = "closed", !.cb = "none"]
        /\ client' = [d \in Clients |-> IF \E j \in Ids : registry[j] = d
                                        THEN Destroyed(d, "released") ELSE client[d]]
    BY <1>20 DEF Release, OrderInv
  <2>2. \A d \in Clients : /\ Destroyed(d, "released") \in ClientStates
                           /\ Destroyed(d, "released").outQ = << >>
                           /\ Destroyed(d, "released").id = client[d].id
                           /\ Destroyed(d, "released").status = "released"
    <3>1. \A d \in Clients : Destroyed(d, "released") \in ClientStates
      BY ClientUpdates DEF Destroyed, TypeOK
    <3> QED BY <3>1 DEF Destroyed, TypeOK, ClientStates
  <2>3. /\ client' \in [Clients -> ClientStates]
        /\ \A d \in Clients : client'[d].outQ \in Seq(Sendable)
        /\ \A d \in Clients : client'[d].id = client[d].id
        /\ \A d \in Clients : client'[d].status =
              IF \E j \in Ids : registry[j] = d THEN "released" ELSE client[d].status
    BY <2>1, <2>2, EmptySeq DEF TypeOK, MessageInv
  <2>4. ws' \in WsStates /\ registry' \in [Ids -> Clients \cup {NoClient}]
    BY <2>1 DEF TypeOK, WsStates
  <2>5. TypeOK'
    BY <2>1, <2>3, <2>4 DEF TypeOK
  <2>6. MessageInv' /\ OrderInv' /\ TraversalIsSafe'
    BY <2>1, <2>3 DEF MessageInv, OrderInv, TraversalIsSafe, Traversing
  <2>7. \A d \in Clients : client'[d].status \notin {"registered", "made"}
    <3>1. sig.made = NoClient
      BY <2>1 DEF MadeInv
    <3>2. \A d \in Clients : client[d].status = "registered" => \E j \in Ids : registry[j] = d
      BY DEF RegistryIsLive, MadeInv, Alive
    <3> QED BY <2>3, <3>1, <3>2, NoClientIsNone DEF RegistryIsLive
  <2>8. MadeInv'
    BY <2>1, <2>7 DEF MadeInv, Alive
  <2>9. RegistryIsLive'
    BY <2>1, <2>7, NoClientIsNone DEF RegistryIsLive, MadeInv
  <2> QED BY <2>5, <2>6, <2>8, <2>9
<1>21. CASE UNCHANGED vars
  BY <1>21
  DEF vars, TypeOK, MessageInv, OrderInv, MadeInv, Alive, RegistryIsLive, TraversalIsSafe,
      Traversing
<1> QED
  BY <1>1, <1>2, <1>3, <1>4, <1>5, <1>6, <1>7, <1>8, <1>9, <1>10, <1>11, <1>12, <1>13,
     <1>14, <1>15, <1>16, <1>17, <1>18, <1>19, <1>20, <1>21, <1>22
  DEF Next, Callbacks, WebSocket, Peer, Out, SigWrite, SigRun, Shutdown

LEMMA AlwaysControl == Spec => []Control
  BY InitControl, NextControl, PTL DEF Spec

\* Whatever peers, connections and the shutdown do, in any order, the state is
\* well typed; in particular _signalingQueue never exceeds its capacity.
THEOREM TypeCorrect == Spec => []TypeOK
  BY AlwaysControl, PTL DEF Control

\* The Clients alive are those that the map holds, each under its own id, and
\* the one on its way into the map.
THEOREM RegistryHoldsTheLiving == Spec => []RegistryIsLive
  BY AlwaysControl, PTL DEF Control

\* signalingThreadOut never visits an entry that has been erased meanwhile.
THEOREM TraversalMeetsNoDestroyedClient == Spec => []TraversalIsSafe
  BY AlwaysControl, PTL DEF Control

\* The destructor returns with its threads ended and no Client left.
THEOREM ShutdownIsClean == Spec => []CleanShutdown
<1>1. Control => CleanShutdown
  BY NoClientIsNone DEF Control, TypeOK, OrderInv, MadeInv, RegistryIsLive, CleanShutdown, Alive
<1> QED BY <1>1, AlwaysControl, PTL

-----------------------------------------------------------------------------
(* Who waits for whom.                                                      *)

\* _do_term and the end of the queue, as the destructor sets them and the
\* threads have seen them.
TermInv ==
    /\ doTerm <=> main # "run"
    /\ sigQ.stopped <=> main \notin {"run", "stop"}
    /\ sig.pc \in {"join", "done"} => doTerm
    /\ out.pc = "done" => doTerm

\* A push leaves open whether the queue is stopped.
LEMMA PushStopsNot ==
    ASSUME TypeOK, NEW m, SigPush(m)
    PROVE  sigQ'.stopped = sigQ.stopped
  BY DEF SigPush, TypeOK, QueueStates

\* Every step keeps TermInv: the destructor sets, the threads read.
LEMMA NextTerm == Control /\ TermInv /\ [Next]_vars => TermInv'
<1> SUFFICES ASSUME TypeOK, TermInv, [Next]_vars PROVE TermInv'
  BY DEF Control
<1> USE DEF TermInv
<1>0. sigQ \in QueueStates /\ out \in OutStates /\ sig \in SigStates
  BY DEF TypeOK
<1>1. CASE UNCHANGED vars
  BY <1>1 DEF vars
<1>2. ASSUME NEW c \in Clients, Callbacks(c) PROVE TermInv'
  BY <1>2 DEF Callbacks, GatherDone, LinkLost, LinkClosed, ClientThr
<1>3. CASE WebSocket
  BY <1>3 DEF WebSocket, WsConnected, WsDrop, OnClosed, Reopen
<1>4. ASSUME NEW i \in Ids, Peer(i) PROVE TermInv'
  <2>1. UNCHANGED <<doTerm, main, sig, out>>
    BY <1>4 DEF Peer, PeerRequest, PeerStray, PeerAnswer
  <2>2. sigQ'.stopped = sigQ.stopped
    BY <1>4, PushStopsNot DEF Peer, PeerRequest, PeerStray, PeerAnswer
  <2> QED BY <2>1, <2>2
<1>5. CASE Out
  <2>1. UNCHANGED <<doTerm, main, sig>>
    BY <1>5 DEF Out, OutTop, OutTake, OutTimeout, OutPush, OutEnd
  <2>2. sigQ'.stopped = sigQ.stopped
    BY <1>5, PushStopsNot DEF Out, OutTop, OutTake, OutTimeout, OutPush, OutEnd
  <2>3. out'.pc = "done" => doTerm \/ out.pc = "done"
    <3>1. CASE OutTop \/ OutPush \/ OutEnd
      BY <1>0, <3>1 DEF OutTop, OutPush, OutEnd, OutStates
    <3>2. ASSUME NEW i \in Ids, OutTake(i) PROVE out'.pc = "push"
      BY <3>2 DEF OutTake
    <3>3. ASSUME NEW i \in Ids, OutTimeout(i) PROVE out'.pc = out.pc
      BY <1>0, <3>3 DEF OutTimeout, OutStates
    <3> QED BY <1>5, <3>1, <3>2, <3>3 DEF Out, OutTimeout
  <2> QED BY <2>1, <2>2, <2>3
<1>6. CASE SigRun \/ SigWrite
  <2>1. UNCHANGED <<doTerm, main>>
    BY <1>6
    DEF SigRun, SigWrite, SigStart, SigLoop, SigPop, SigMake, SigAnswer,
        SigBareAnswer, SigMalformed, SigSend, SigJoin, SigEmplace, SigErase, EraseEntry
  <2>2. CASE SigStart \/ SigLoop \/ SigJoin
    <3>1. UNCHANGED sigQ /\ out'.pc \in {"top", out.pc}
      BY <1>0, <2>2 DEF SigStart, SigLoop, SigJoin, OutStates
    <3>2. sig'.pc \in {"join", "done"} => doTerm \/ sig.pc \in {"join", "done"}
      BY <1>0, <2>2 DEF SigStart, SigLoop, SigJoin, SigStates
    <3> QED BY <2>1, <3>1, <3>2
  <2>3. CASE SigPop
    <3>1. sigQ'.stopped = sigQ.stopped /\ UNCHANGED out
      BY <1>0, <2>3 DEF SigPop, QueueStates
    <3>2. sig'.pc \notin {"join", "done"}
      BY <1>0, <2>3 DEF SigPop, SigStates
    <3> QED BY <2>1, <3>1, <3>2
  <2>4. CASE SigMake \/ SigAnswer \/ SigBareAnswer \/ SigMalformed \/ SigSend \/ SigWrite
    <3>1. UNCHANGED <<sigQ, out>>
      BY <2>4
      DEF SigMake, SigAnswer, SigBareAnswer, SigMalformed, SigSend, SigWrite, SigEmplace,
          SigErase, EraseEntry
    <3>2. CASE SigMake
      <4>1. sig'.pc = "emplace"
        BY <1>0, <3>2 DEF SigMake, SigStates
      <4> QED BY <2>1, <3>1, <4>1
    <3>3. CASE SigAnswer \/ SigBareAnswer \/ SigMalformed \/ SigSend \/ SigWrite
      <4>1. sig' \in {NextTurn, sig}
        BY <3>3
        DEF SigAnswer, SigBareAnswer, SigMalformed, SigSend, SigWrite, SigEmplace, SigErase,
            EraseEntry
      <4> QED BY <2>1, <3>1, <4>1 DEF NextTurn
    <3> QED BY <2>4, <3>2, <3>3
  <2> QED BY <1>6, <2>2, <2>3, <2>4 DEF SigRun
<1>7. CASE SetTerm \/ Shutdown
  BY <1>0, <1>7 DEF SetTerm, Shutdown, StopQueue, CloseWs, JoinSig, Release, QueueStates
<1> QED BY <1>1, <1>2, <1>3, <1>4, <1>5, <1>6, <1>7 DEF Next

\* _signalingThr and signalingThreadOut wait for each other in one way only:
\* one for room, the other, which would make room, for the mutex; and in the
\* destructor no longer than until the queue is stopped.
THEOREM ThreadsGetOn == Spec => []OnlyQueueDeadlock
<1>1. Init => TermInv
  BY DEF Init, TermInv
<1>2. Control /\ TermInv => OnlyQueueDeadlock
  <2> SUFFICES ASSUME Control, TermInv, SigWaits, OutWaits, main # "stop"
               PROVE  main = "run" /\ QueueDeadlock
    BY DEF OnlyQueueDeadlock
  <2>1. out.pc # "off"
    BY DEF SigWaits, Handling, Control, OrderInv
  <2>2. main = "run"
    BY <2>1 DEF SigWaits, OutWaits, TermInv, Traversing
  <2>3. out.pc = "push" /\ Len(sigQ.items) = QueueCap /\ ~sigQ.stopped
    BY <2>1, <2>2 DEF OutWaits, TermInv
  <2>4. sigQ.items # << >>
    BY <2>3, StreamerAssumption, EmptySeq DEF StreamerAssumption
  <2>5. sig.pc = "emplace" \/ Handling("disconnect")
    BY <2>2, <2>4 DEF SigWaits, TermInv
  <2> QED BY <2>2, <2>3, <2>5 DEF QueueDeadlock
<1> QED BY <1>1, <1>2, AlwaysControl, NextTerm, PTL DEF Spec

-----------------------------------------------------------------------------
(* The way of a message.                                                    *)

\* What push and pop do to the items of a queue.
LEMMA InQueue ==
    ASSUME NEW S, NEW q \in Seq(S), NEW m
    PROVE  /\ \A x : In(Append(q, x), m) <=> In(q, m) \/ x = m
           /\ q # << >> => (In(q, m) <=> Head(q) = m \/ In(Tail(q), m))
<1>1. ASSUME NEW x PROVE In(Append(q, x), m) <=> In(q, m) \/ x = m
  <2>1. q \in Seq(S \cup {x}) /\ x \in S \cup {x} /\ Len(q) \in Nat /\ DOMAIN q = 1 .. Len(q)
    BY LenProperties, SeqMonotonic
  <2>2. /\ DOMAIN Append(q, x) = 1 .. Len(q) + 1
        /\ \A k \in 1 .. Len(q) : Append(q, x)[k] = q[k]
        /\ Append(q, x)[Len(q) + 1] = x
    BY <2>1, AppendProperties, LenProperties
  <2>3. In(q, m) => In(Append(q, x), m)
    BY <2>1, <2>2 DEF In
  <2>4. x = m => In(Append(q, x), m)
    BY <2>1, <2>2 DEF In
  <2>5. In(Append(q, x), m) => In(q, m) \/ x = m
    <3> SUFFICES ASSUME NEW k \in 1 .. Len(q) + 1, Append(q, x)[k] = m PROVE In(q, m) \/ x = m
      BY <2>2 DEF In
    <3>1. CASE k = Len(q) + 1
      BY <2>2, <3>1
    <3>2. CASE k # Len(q) + 1
      <4>1. k \in 1 .. Len(q)
        BY <2>1, <3>2
      <4> QED BY <2>1, <2>2, <4>1 DEF In
    <3> QED BY <3>1, <3>2
  <2> QED BY <2>3, <2>4, <2>5
<1>2. ASSUME q # << >> PROVE In(q, m) <=> Head(q) = m \/ In(Tail(q), m)
  <2>1. Len(q) \in Nat \ {0} /\ DOMAIN q = 1 .. Len(q)
    BY <1>2, LenProperties, EmptySeq
  <2>2. /\ Head(q) = q[1] /\ DOMAIN Tail(q) = 1 .. Len(q) - 1
        /\ \A k \in 1 .. Len(q) - 1 : Tail(q)[k] = q[k + 1]
    BY <1>2, <2>1, HeadTailProperties, LenProperties
  <2>3. Head(q) = m => In(q, m)
    BY <2>1, <2>2 DEF In
  <2>4. In(Tail(q), m) => In(q, m)
    <3> SUFFICES ASSUME NEW k \in 1 .. Len(q) - 1, Tail(q)[k] = m PROVE In(q, m)
      BY <2>2 DEF In
    <3>1. k + 1 \in 1 .. Len(q) /\ q[k + 1] = m
      BY <2>1, <2>2
    <3> QED BY <2>1, <3>1 DEF In
  <2>5. In(q, m) => Head(q) = m \/ In(Tail(q), m)
    <3> SUFFICES ASSUME NEW k \in 1 .. Len(q), q[k] = m, k # 1 PROVE In(Tail(q), m)
      BY <2>1, <2>2 DEF In
    <3>1. k - 1 \in 1 .. Len(q) - 1 /\ Tail(q)[k - 1] = q[(k - 1) + 1] /\ (k - 1) + 1 = k
      BY <2>1, <2>2
    <3> QED BY <2>2, <3>1 DEF In
  <2> QED BY <2>3, <2>4, <2>5
<1> QED BY <1>1, <1>2
-----------------------------------------------------------------------------
(* Nothing is lost on the way.                                              *)

\* The disconnect of a Client whose connection has ended is under way.
DisconnectGoes(c) ==
    client[c].link \in Ended => InFlight(Disconnect(client[c].id, c))

\* The offer of a Client that waits for its answer is under way, or the answer.
HandshakeGoes(c) ==
    LET i == client[c].id IN
    client[c].gathered /\ client[c].link = "new"
    => \/ InFlight(Offer(i, c)) \/ c \in offers[i]
       \/ In(sigQ.items, Answer(i, c)) \/ sig.msg = Answer(i, c)
       \/ In(client[c].inQ, c)

\* The properties also hold of a Client on its way into the map, and one that
\* does not exist yet has nothing to say.
FlowInv ==
    \A c \in Clients :
        /\ client[c].status = "unborn" => client[c].link = "new" /\ ~client[c].gathered
        /\ ~sigQ.stopped /\ Alive(c) => DisconnectGoes(c) /\ HandshakeGoes(c)

\* A step that leaves Client c alone loses none of its messages if it loses
\* none at any place between c and its peer.
LEMMA FlowGoesOn ==
    ASSUME FlowInv, NEW c \in Clients, ~sigQ.stopped, Alive(c),
           client'[c].id = client[c].id, client'[c].link = client[c].link,
           client'[c].gathered = client[c].gathered,
           \A m : In(client[c].outQ, m) => In(client'[c].outQ, m) \/ out'.msg = m,
           \A m : m.c = c /\ out.msg = m => out'.msg = m \/ In(sigQ'.items, m),
           \A m : In(sigQ.items, m) => In(sigQ'.items, m) \/ sig'.msg = m,
           sig.msg.c = c /\ sig.msg.type # "request" => sig'.msg = sig.msg,
           c \in offers[client[c].id] => \/ c \in offers'[client[c].id]
                                         \/ In(sigQ'.items, Answer(client[c].id, c)),
           In(client[c].inQ, c) => In(client'[c].inQ, c)
    PROVE  DisconnectGoes(c)' /\ HandshakeGoes(c)'
<1> DEFINE i == client[c].id
<1>1. ASSUME NEW m, m.c = c, m.type # "request", InFlight(m) PROVE InFlight(m)'
  BY <1>1 DEF InFlight
<1>2. /\ Disconnect(i, c).c = c /\ Disconnect(i, c).type # "request"
      /\ Offer(i, c).c = c /\ Offer(i, c).type # "request"
      /\ Answer(i, c).c = c /\ Answer(i, c).type # "request"
  BY DEF Disconnect, Offer, Answer
<1>3. DisconnectGoes(c) /\ HandshakeGoes(c)
  BY DEF FlowInv
<1>4. InFlight(Disconnect(i, c)) => InFlight(Disconnect(i, c))'
  BY <1>1, <1>2
<1>5. InFlight(Offer(i, c)) => InFlight(Offer(i, c))'
  BY <1>1, <1>2
<1>6. Disconnect(i, c)' = Disconnect(client'[c].id, c) /\ Offer(i, c)' = Offer(client'[c].id, c)
  OBVIOUS
<1>7. DisconnectGoes(c)'
  BY <1>3, <1>4 DEF DisconnectGoes
<1>8. HandshakeGoes(c)'
  BY <1>2, <1>3, <1>5 DEF HandshakeGoes
<1> QED BY <1>7, <1>8

\* Every step keeps FlowInv.
LEMMA NextFlow == Control /\ Control' /\ FlowInv /\ [Next]_vars => FlowInv'
<1> DEFINE Goal(d) ==
       /\ client'[d].status = "unborn" => client'[d].link = "new" /\ ~client'[d].gathered
       /\ ~sigQ'.stopped /\ Alive(d)' => DisconnectGoes(d)' /\ HandshakeGoes(d)'
<1> SUFFICES ASSUME Control, Control', FlowInv, [Next]_vars, NEW d \in Clients PROVE Goal(d)
  BY DEF FlowInv
<1>1. /\ client \in [Clients -> ClientStates] /\ client[d] \in ClientStates
      /\ client[d].outQ \in Seq(Sendable) /\ client[d].inQ \in Seq(Clients \cup {NoClient})
      /\ sigQ \in QueueStates /\ sigQ.items \in Seq(Sendable)
      /\ sig \in SigStates /\ out \in OutStates
  BY DEF Control, TypeOK, MessageInv, ClientStates
<1>2. ASSUME client'[d] = client[d], UNCHANGED <<sigQ, offers>>,
             out'.msg = out.msg, sig'.msg = sig.msg
      PROVE  Goal(d)
  BY <1>2, FlowGoesOn DEF FlowInv, Alive
<1>3. ASSUME WebSocket \/ SetTerm \/ CloseWs \/ JoinSig \/ OutTop \/ OutEnd
             \/ (\E i \in Ids : OutTimeout(i)) \/ SigStart \/ SigLoop \/ SigJoin
             \/ UNCHANGED vars
      PROVE  Goal(d)
  <2>1. client'[d] = client[d] /\ UNCHANGED <<sigQ, offers>> /\ out'.msg = out.msg
        /\ sig'.msg = sig.msg
    BY <1>1, <1>3
    DEF WebSocket, WsConnected, WsDrop, OnClosed, Reopen, SetTerm, CloseWs, JoinSig,
        OutTop, OutEnd, OutTimeout, SigStart, SigLoop, SigJoin, vars, OutStates, SigStates
  <2> QED BY <1>2, <2>1
<1>4. ASSUME NEW i \in Ids, Peer(i) PROVE Goal(d)
  <2>1. PICK m \in Sendable :
           /\ SigPush(m) /\ UNCHANGED <<client, sig, out>>
           /\ \/ UNCHANGED offers
              \/ \E c \in Clients : /\ m = Answer(i, c)
                                    /\ offers' = [offers EXCEPT ![i] = @ \ {c}]
    <3>1. \A c \in Clients : Answer(i, c) \in Sendable
      BY MessagesSendable
    <3>2. Request(i) \in Sendable
      BY DEF Request, Sendable, Messages, MessageTypes
    <3>3. Strays(i) \subseteq Sendable
      BY StraysSendable DEF Control
    <3>4. CASE PeerRequest(i)
      BY <3>2, <3>4 DEF PeerRequest
    <3>5. CASE PeerStray(i)
      BY <3>3, <3>5 DEF PeerStray
    <3>6. ASSUME NEW c \in Clients, PeerAnswer(i, c)
          PROVE  /\ SigPush(Answer(i, c)) /\ UNCHANGED <<client, sig, out>>
                 /\ offers' = [offers EXCEPT ![i] = @ \ {c}]
      BY <3>6 DEF PeerAnswer
    <3> QED BY <1>4, <3>1, <3>4, <3>5, <3>6 DEF Peer
  <2>2. SUFFICES ASSUME ~sigQ'.stopped, Alive(d) PROVE DisconnectGoes(d)' /\ HandshakeGoes(d)'
    BY <2>1 DEF FlowInv, Alive
  <2>3. ~sigQ.stopped /\ sigQ'.items = Append(sigQ.items, m)
    BY <2>1, <2>2, SigPushTyped
  <2>4. \A x : In(sigQ.items, x) \/ x = m => In(sigQ'.items, x)
    BY <1>1, <2>3, InQueue
  <2>5. offers \in [Ids -> SUBSET Clients] /\ client[d].id \in Ids
    BY <2>2 DEF Control, TypeOK, MadeInv
  <2>6. d \in offers[client[d].id] => \/ d \in offers'[client[d].id]
                                      \/ In(sigQ'.items, Answer(client[d].id, d))
    BY <2>1, <2>4, <2>5
  <2> QED BY <2>1, <2>2, <2>3, <2>4, <2>6, FlowGoesOn
<1>5. ASSUME NEW i \in Ids, OutTake(i) PROVE Goal(d)
  <2> DEFINE c == registry[i]
             r == [client[c] EXCEPT !.outQ = Tail(@)]
  <2>1. /\ UNCHANGED <<sigQ, sig, offers>> /\ out.pc = "visit"
        /\ out'.msg = Head(client[c].outQ) /\ client[c].outQ # << >>
        /\ client' = [client EXCEPT ![c] = r]
    BY <1>5 DEF OutTake
  <2>2. client'[d] = IF d = c THEN r ELSE client[d]
    <3> HIDE DEF c, r
    <3> QED BY <1>1, <2>1
  <2>3. /\ client'[d].id = client[d].id /\ client'[d].link = client[d].link
        /\ client'[d].gathered = client[d].gathered /\ client'[d].status = client[d].status
        /\ client'[d].inQ = client[d].inQ
        /\ client'[d].outQ = IF d = c THEN Tail(client[d].outQ) ELSE client[d].outQ
    BY <1>1, <2>2 DEF ClientStates
  <2>4. \A m : In(client[d].outQ, m) => In(client'[d].outQ, m) \/ out'.msg = m
    BY <1>1, <2>1, <2>3, InQueue
  <2>5. out.msg.c # d
    BY <2>1, NoClientIsNone DEF Control, MessageInv, NoMsg
  <2>6. ~sigQ.stopped /\ Alive(d) => DisconnectGoes(d)' /\ HandshakeGoes(d)'
    BY <2>1, <2>3, <2>4, <2>5, FlowGoesOn
  <2> QED BY <2>1, <2>3, <2>6 DEF FlowInv, Alive
<1>6. ASSUME OutPush PROVE Goal(d)
  <2>1. SigPush(out.msg) /\ out.msg \in Sendable /\ UNCHANGED <<client, sig, offers>>
    BY <1>6 DEF OutPush, Control, MessageInv
  <2>2. SUFFICES ASSUME ~sigQ'.stopped, Alive(d) PROVE DisconnectGoes(d)' /\ HandshakeGoes(d)'
    BY <2>1 DEF FlowInv, Alive
  <2>3. ~sigQ.stopped /\ sigQ'.items = Append(sigQ.items, out.msg)
    BY <2>1, <2>2, SigPushTyped
  <2>4. \A x : In(sigQ.items, x) \/ x = out.msg => In(sigQ'.items, x)
    BY <1>1, <2>3, InQueue
  <2> QED BY <2>1, <2>2, <2>3, <2>4, FlowGoesOn
<1>7. ASSUME SigPop PROVE Goal(d)
  <2>1. UNCHANGED <<client, out, offers>> /\ sig.pc = "pop"
    BY <1>7 DEF SigPop
  <2>2. CASE sigQ.items = << >>
    BY <1>1, <1>2, <1>7, <2>2 DEF SigPop, SigStates
  <2>3. CASE sigQ.items # << >>
    <3>1. /\ sigQ'.items = Tail(sigQ.items) /\ sigQ'.stopped = sigQ.stopped
          /\ sig'.msg = Head(sigQ.items)
      BY <1>1, <1>7, <2>3 DEF SigPop, QueueStates, SigStates
    <3>2. \A m : In(sigQ.items, m) => In(sigQ'.items, m) \/ sig'.msg = m
      BY <1>1, <2>3, <3>1, InQueue
    <3>3. sig.msg.c # d
      BY <2>1, NoClientIsNone DEF Control, MessageInv, NoMsg
    <3>4. ~sigQ.stopped /\ Alive(d) => DisconnectGoes(d)' /\ HandshakeGoes(d)'
      BY <2>1, <3>2, <3>3, FlowGoesOn
    <3> QED BY <2>1, <3>1, <3>4 DEF FlowInv, Alive
  <2> QED BY <2>2, <2>3
<1>8. ASSUME NEW c \in Clients, Callbacks(c) PROVE Goal(d)
  <2>1. /\ UNCHANGED <<sigQ, sig, out, offers>> /\ Alive(c)
    BY <1>8 DEF Callbacks, GatherDone, LinkLost, LinkClosed, ClientThr
  <2>2. CASE c # d
    <3>1. client'[d] = client[d]
      BY <1>1, <1>8, <2>2
      DEF Callbacks, GatherDone, LinkLost, LinkClosed, ClientThr
    <3> QED BY <1>2, <2>1, <3>1
  <2>3. CASE c = d
    <3> DEFINE i == client[d].id
    <3>1. sigQ.stopped \/ (DisconnectGoes(d) /\ HandshakeGoes(d))
      BY <2>1, <2>3 DEF FlowInv
    <3>2. Disconnect(i, d).c = d /\ Offer(i, d).c = d
      BY DEF Disconnect, Offer
    <3>3. \A m, x : In(Append(client[d].outQ, m), x) <=> In(client[d].outQ, x) \/ x = m
      <4> TAKE m, x
      <4> QED BY <1>1, InQueue
    <3>4. ASSUME NEW m, NEW x, m.c = d, client'[d].outQ = Append(client[d].outQ, x)
          PROVE  InFlight(m)' <=> InFlight(m) \/ x = m
      BY <2>1, <3>3, <3>4 DEF InFlight
    <3>5. CASE GatherDone(d)
      <4>1. /\ client'[d].status = client[d].status /\ client'[d].id = i
            /\ client'[d].link = client[d].link
            /\ client'[d].outQ = Append(client[d].outQ, Offer(i, d))
        BY <1>1, <3>5 DEF GatherDone, Says, ClientStates
      <4>2. InFlight(Offer(i, d))' /\ (InFlight(Disconnect(i, d)) => InFlight(Disconnect(i, d))')
        BY <3>2, <3>4, <4>1
      <4>3. client'[d].status # "unborn"
        BY <2>1, <2>3, <4>1 DEF Alive
      <4> QED BY <2>1, <3>1, <4>1, <4>2, <4>3 DEF DisconnectGoes, HandshakeGoes
    <3>6. CASE LinkLost(d) \/ LinkClosed(d)
      <4>1. /\ client'[d].status = client[d].status /\ client'[d].id = i
            /\ client'[d].link # "new"
            /\ client'[d].outQ = Append(client[d].outQ, Disconnect(i, d))
        <5>1. CASE LinkLost(d)
          BY <1>1, <5>1 DEF LinkLost, Says, ClientStates
        <5>2. CASE LinkClosed(d)
          BY <1>1, <5>2 DEF LinkClosed, Says, ClientStates
        <5> QED BY <3>6, <5>1, <5>2
      <4>2. InFlight(Disconnect(i, d))'
        BY <3>2, <3>4, <4>1
      <4>3. client'[d].status # "unborn"
        BY <2>1, <2>3, <4>1 DEF Alive
      <4> QED BY <2>1, <3>1, <4>1, <4>2, <4>3 DEF DisconnectGoes, HandshakeGoes
    <3>7. CASE ClientThr(d)
      <4>1. /\ client'[d].status = client[d].status /\ client'[d].id = i
            /\ client'[d].outQ = client[d].outQ
            /\ client'[d].gathered = client[d].gathered
            /\ \/ client'[d].link = client[d].link /\ client'[d].inQ = client[d].inQ
               \/ client'[d].link = "up"
        BY <1>1, <3>7 DEF ClientThr, ClientStates
      <4>2. /\ InFlight(Disconnect(i, d)) => InFlight(Disconnect(i, d))'
            /\ InFlight(Offer(i, d)) => InFlight(Offer(i, d))'
        BY <2>1, <3>2, <4>1 DEF InFlight
      <4>3. client'[d].status # "unborn"
        BY <2>1, <2>3, <4>1 DEF Alive
      <4> QED BY <2>1, <3>1, <4>1, <4>2, <4>3 DEF DisconnectGoes, HandshakeGoes, Ended
    <3> QED BY <1>8, <2>3, <3>5, <3>6, <3>7 DEF Callbacks
  <2> QED BY <2>2, <2>3
<1>9. ASSUME SigMake PROVE Goal(d)
  <2>1. PICK c \in Clients :
           /\ client[c].status = "unborn" /\ UNCHANGED <<sigQ, out, offers>>
           /\ client' = [client EXCEPT ![c] =
                           [client[c] EXCEPT !.status = "made", !.id = sig.msg.id]]
           /\ sig'.msg = sig.msg
    BY <1>1, <1>9 DEF SigMake, SigStates
  <2>2. CASE c # d
    <3>1. client'[d] = client[d]
      BY <1>1, <2>1, <2>2
    <3> QED BY <1>2, <2>1, <3>1
  <2>3. CASE c = d
    <3>1. client'[d].link = "new" /\ ~client'[d].gathered
      BY <1>1, <2>1, <2>3 DEF FlowInv, ClientStates
    <3> QED BY <3>1 DEF DisconnectGoes, HandshakeGoes, Ended
  <2> QED BY <2>2, <2>3
<1>10. ASSUME SigEmplace PROVE Goal(d)
  <2> DEFINE c == sig.made
             r == [client[c] EXCEPT !.status = "registered"]
  <2>1. /\ UNCHANGED <<sigQ, out, offers>> /\ sig.pc = "emplace" /\ sig.msg.type = "request"
        /\ c \in Clients /\ client[c].status = "made"
    BY <1>10 DEF SigEmplace, Control, MadeInv, RegistryIsLive, TypeOK, SigStates
  <2>2. client' = [client EXCEPT ![c] = r]
        \/ client' = [client EXCEPT ![c] = Destroyed(c, "refused")]
    BY <1>10 DEF SigEmplace
  <2>3. Destroyed(c, "refused").status = "refused"
    BY <1>1, <2>1 DEF Destroyed, ClientStates
  <2>4. CASE c # d
    <3>1. client'[d] = client[d]
      <4> HIDE DEF c, r
      <4> QED BY <1>1, <2>2, <2>4
    <3>2. ~sigQ.stopped /\ Alive(d) => DisconnectGoes(d)' /\ HandshakeGoes(d)'
      BY <2>1, <3>1, FlowGoesOn
    <3> QED BY <2>1, <3>1, <3>2 DEF FlowInv, Alive
  <2>5. CASE client' = [client EXCEPT ![c] = r] /\ c = d
    <3>1. /\ client'[d].id = client[d].id /\ client'[d].link = client[d].link
          /\ client'[d].gathered = client[d].gathered /\ client'[d].status = "registered"
          /\ client'[d].outQ = client[d].outQ /\ client'[d].inQ = client[d].inQ
      BY <1>1, <2>5 DEF ClientStates
    <3>2. ~sigQ.stopped /\ Alive(d) => DisconnectGoes(d)' /\ HandshakeGoes(d)'
      BY <2>1, <3>1, FlowGoesOn
    <3> QED BY <2>1, <2>5, <3>1, <3>2 DEF FlowInv, Alive
  <2>6. CASE client' = [client EXCEPT ![c] = Destroyed(c, "refused")] /\ c = d
    <3>1. client'[d].status = "refused"
      <4> HIDE DEF c
      <4> QED BY <1>1, <2>3, <2>6
    <3> QED BY <3>1 DEF Alive
  <2> QED BY <2>2, <2>4, <2>5, <2>6
<1>11. ASSUME SigAnswer PROVE Goal(d)
  <2> DEFINE c == registry[sig.msg.id]
             r == [client[c] EXCEPT !.inQ = Append(@, sig.msg.c)]
  <2>1. /\ UNCHANGED <<sigQ, out, offers, registry>> /\ sig.pc = "handle"
        /\ sig.msg.type = "answer" /\ sig.msg \in Sendable
        /\ client' = IF c = NoClient THEN client ELSE [client EXCEPT ![c] = r]
    BY <1>11 DEF SigAnswer, Handling, Control, MessageInv
  <2>2. client'[d] = IF c = d THEN r ELSE client[d]
    <3> HIDE DEF c, r
    <3> QED BY <1>1, <2>1, NoClientIsNone
  <2>3. /\ client'[d].id = client[d].id /\ client'[d].link = client[d].link
        /\ client'[d].gathered = client[d].gathered /\ client'[d].status = client[d].status
        /\ client'[d].outQ = client[d].outQ
        /\ client'[d].inQ = IF c = d THEN Append(client[d].inQ, sig.msg.c) ELSE client[d].inQ
    BY <1>1, <2>2 DEF ClientStates
  <2>4. \A x : In(Append(client[d].inQ, sig.msg.c), x) <=> In(client[d].inQ, x) \/ sig.msg.c = x
    BY <1>1, InQueue
  <2>5. SUFFICES ASSUME ~sigQ.stopped, Alive(d) PROVE DisconnectGoes(d)' /\ HandshakeGoes(d)'
    BY <2>1, <2>3 DEF FlowInv, Alive
  <2>6. DisconnectGoes(d) /\ HandshakeGoes(d)
    BY <2>5 DEF FlowInv
  <2>7. registry[client[d].id] = d
    <3>1. sig.made = NoClient
      BY <2>1 DEF Control, MadeInv
    <3>2. client[d].status = "made" => sig.made = d
      BY DEF Control, RegistryIsLive
    <3> QED BY <2>5, <3>1, <3>2, NoClientIsNone DEF Control, RegistryIsLive, Alive
  <2>8. \A m : m.c = d /\ m.type # "answer" /\ InFlight(m) => InFlight(m)'
    BY <2>1, <2>3 DEF InFlight
  <2>9. /\ Disconnect(client[d].id, d).c = d /\ Disconnect(client[d].id, d).type # "answer"
        /\ Offer(client[d].id, d).c = d /\ Offer(client[d].id, d).type # "answer"
        /\ Answer(client[d].id, d).c = d /\ Answer(client[d].id, d).id = client[d].id
    BY DEF Disconnect, Offer, Answer
  <2>10. DisconnectGoes(d)'
    BY <2>3, <2>6, <2>8, <2>9 DEF DisconnectGoes
  <2>11. sig.msg = Answer(client[d].id, d) => In(client'[d].inQ, d)
    BY <2>3, <2>4, <2>7, <2>9
  <2>12. HandshakeGoes(d)'
    <3>1. InFlight(Offer(client[d].id, d)) => InFlight(Offer(client[d].id, d))'
      BY <2>3, <2>8, <2>9
    <3>2. In(client[d].inQ, d) => In(client'[d].inQ, d)
      BY <2>3, <2>4
    <3> QED BY <2>1, <2>3, <2>6, <2>11, <3>1, <3>2 DEF HandshakeGoes
  <2> QED BY <2>10, <2>12
<1>12. ASSUME SigErase PROVE Goal(d)
  <2> DEFINE c == registry[sig.msg.id]
  <2>1. /\ UNCHANGED <<sigQ, out, offers>> /\ sig.pc = "handle" /\ sig.msg.type = "disconnect"
        /\ sig.msg.id \in Ids
        /\ client' = IF c = NoClient THEN client
                     ELSE [client EXCEPT ![c] = Destroyed(c, "erased")]
    BY <1>12 DEF SigErase, EraseEntry, Handling, Control, MessageInv, Sendable
  <2>2. client'[d] = IF c = d THEN Destroyed(d, "erased") ELSE client[d]
    <3> HIDE DEF c
    <3> QED BY <1>1, <2>1, NoClientIsNone
  <2>3. CASE c = d
    <3>1. client'[d].status = "erased"
      BY <1>1, <2>2, <2>3 DEF Destroyed, ClientStates
    <3> QED BY <3>1 DEF Alive
  <2>4. CASE c # d
    <3>1. client'[d] = client[d]
      BY <2>2, <2>4
    <3>2. SUFFICES ASSUME ~sigQ.stopped, Alive(d) PROVE DisconnectGoes(d)' /\ HandshakeGoes(d)'
      BY <2>1, <3>1 DEF FlowInv, Alive
    <3>3. DisconnectGoes(d) /\ HandshakeGoes(d)
      BY <3>2 DEF FlowInv
    <3>4. registry[client[d].id] = d
      BY <2>1, <3>2, NoClientIsNone DEF Control, MadeInv, RegistryIsLive, Alive
    <3>5. sig.msg.id # client[d].id
      BY <2>4, <3>4
    <3>6. \A m : m.c = d /\ m.id = client[d].id /\ InFlight(m) => InFlight(m)'
      BY <2>1, <3>1, <3>5 DEF InFlight
    <3>7. /\ Disconnect(client[d].id, d).c = d /\ Disconnect(client[d].id, d).id = client[d].id
          /\ Offer(client[d].id, d).c = d /\ Offer(client[d].id, d).id = client[d].id
          /\ Answer(client[d].id, d).id = client[d].id
      BY DEF Disconnect, Offer, Answer
    <3>8. DisconnectGoes(d)'
      BY <3>1, <3>3, <3>6, <3>7 DEF DisconnectGoes
    <3>9. HandshakeGoes(d)'
      BY <2>1, <3>1, <3>3, <3>5, <3>6, <3>7 DEF HandshakeGoes
    <3> QED BY <3>8, <3>9
  <2> QED BY <2>3, <2>4
<1>13. ASSUME SigSend PROVE Goal(d)
  <2>1. /\ UNCHANGED <<client, sigQ, out>> /\ sig.msg.type = "offer" /\ sig.msg \in Sendable
        /\ \/ UNCHANGED <<offers, sig>>
           \/ offers' = [offers EXCEPT ![sig.msg.id] = @ \cup {sig.msg.c}]
    BY <1>13 DEF SigSend, Handling, Control, MessageInv
  <2>2. CASE UNCHANGED <<offers, sig>>
    BY <1>2, <2>1, <2>2
  <2>3. CASE offers' = [offers EXCEPT ![sig.msg.id] = @ \cup {sig.msg.c}]
    <3>1. SUFFICES ASSUME ~sigQ.stopped, Alive(d) PROVE DisconnectGoes(d)' /\ HandshakeGoes(d)'
      BY <2>1 DEF FlowInv, Alive
    <3>2. DisconnectGoes(d) /\ HandshakeGoes(d) /\ client[d].id \in Ids
      BY <3>1 DEF FlowInv, Control, MadeInv
    <3>3. offers \in [Ids -> SUBSET Clients] /\ sig.msg.id \in Ids
      BY <2>1 DEF Control, TypeOK, Sendable
    <3>4. \A m : m.c = d /\ m.type # "offer" /\ InFlight(m) => InFlight(m)'
      BY <2>1 DEF InFlight
    <3>5. /\ Disconnect(client[d].id, d).c = d /\ Disconnect(client[d].id, d).type # "offer"
          /\ Offer(client[d].id, d).c = d /\ Offer(client[d].id, d).id = client[d].id
          /\ Answer(client[d].id, d).type # "offer"
      BY DEF Disconnect, Offer, Answer
    <3>6. d \in offers[client[d].id] => d \in offers'[client[d].id]
      BY <2>3, <3>2, <3>3
    <3>7. InFlight(Offer(client[d].id, d)) =>
             InFlight(Offer(client[d].id, d))' \/ d \in offers'[client[d].id]
      BY <2>1, <2>3, <3>2, <3>3, <3>5 DEF InFlight
    <3>8. DisconnectGoes(d)'
      BY <2>1, <3>2, <3>4, <3>5 DEF DisconnectGoes
    <3>9. HandshakeGoes(d)'
      BY <2>1, <3>2, <3>5, <3>6, <3>7 DEF HandshakeGoes
    <3> QED BY <3>8, <3>9
  <2> QED BY <2>1, <2>2, <2>3
<1>14. ASSUME SigBareAnswer \/ SigMalformed PROVE Goal(d)
  <2>1. /\ UNCHANGED <<client, sigQ, out, offers>>
        /\ sig.msg.type \in {"bareAnswer", "malformed"}
    BY <1>14 DEF SigBareAnswer, SigMalformed, Handling
  <2>2. SUFFICES ASSUME ~sigQ.stopped, Alive(d) PROVE DisconnectGoes(d)' /\ HandshakeGoes(d)'
    BY <2>1 DEF FlowInv, Alive
  <2>3. DisconnectGoes(d) /\ HandshakeGoes(d)
    BY <2>2 DEF FlowInv
  <2>4. \A m : m.type \in {"disconnect", "offer"} /\ InFlight(m) => InFlight(m)'
    BY <2>1 DEF InFlight
  <2>5. /\ Disconnect(client[d].id, d).type = "disconnect"
        /\ Offer(client[d].id, d).type = "offer" /\ Answer(client[d].id, d).type = "answer"
    BY DEF Disconnect, Offer, Answer
  <2>6. DisconnectGoes(d)'
    BY <2>1, <2>3, <2>4, <2>5 DEF DisconnectGoes
  <2>7. HandshakeGoes(d)'
    BY <2>1, <2>3, <2>4, <2>5 DEF HandshakeGoes
  <2> QED BY <2>6, <2>7
<1>15. ASSUME StopQueue PROVE Goal(d)
  BY <1>1, <1>15 DEF StopQueue, QueueStates, FlowInv
<1>16. ASSUME Release PROVE Goal(d)
  <2>1. main' = "done" /\ sig'.pc = "done"
    BY <1>16 DEF Release, Control, OrderInv
  <2>2. ~Alive(d)'
    BY <2>1, NoClientIsNone DEF Control, TypeOK, OrderInv, MadeInv, RegistryIsLive, Alive
  <2>3. client'[d] = client[d] \/ client'[d] = Destroyed(d, "released")
    BY <1>16 DEF Release
  <2>4. Destroyed(d, "released").status = "released"
    BY <1>1 DEF Destroyed, ClientStates
  <2> QED BY <2>2, <2>3, <2>4 DEF FlowInv
<1> QED
  BY <1>3, <1>4, <1>5, <1>6, <1>7, <1>8, <1>9, <1>10, <1>11, <1>12, <1>13, <1>14, <1>15, <1>16
  DEF Next, Out, SigWrite, SigRun, Shutdown

LEMMA AlwaysFlow == Spec => []FlowInv
<1>1. Init => FlowInv
  BY DEF Init, FlowInv, Unborn, Alive
<1> QED BY <1>1, NextFlow, AlwaysControl, PTL DEF Spec

\* The disconnect of a Client whose connection has ended is never dropped on
\* its way to _signalingThr, however its messages, the traversals and the
\* registry's other Clients interleave, until the destructor stops the queue.
THEOREM DisconnectsAreNotLost == Spec => []NoLostDisconnect
<1>1. FlowInv => NoLostDisconnect
  BY DEF FlowInv, NoLostDisconnect, DisconnectGoes, Alive
<1> QED BY <1>1, AlwaysFlow, PTL

\* The handshake of a registered Client is never stuck between its offer and
\* the answer: one of them is under way, or the peer holds the offer.
THEOREM HandshakesGoOn == Spec => []HandshakeGoesOn
<1>1. FlowInv => HandshakeGoesOn
  BY DEF FlowInv, HandshakeGoesOn, HandshakeGoes, Alive
<1> QED BY <1>1, AlwaysFlow, PTL

-----------------------------------------------------------------------------
(* What it takes for a send to fail.                                        *)

\* Nobody has said anything: there is no Client and no message.
Quiet == /\ \A c \in Clients : client[c].status = "unborn"
         /\ sigQ.items = << >>
         /\ sig.pc \notin {"handle", "emplace"} /\ out.pc # "push"

\* No closure has happened, and the destructor has not closed the WebSocket.
Undisturbed == ws.drops = 0 /\ main \in {"run", "stop", "close"}

\* Until then the WebSocket, once open, stays so, and before it is, all is quiet.
SendInv ==
    Undisturbed =>
        /\ ws.cb = "none" /\ aborted # "send"
        /\ sig.pc = "start" => ws.state = "closed"
        /\ ws.state # "open" => Quiet

\* What disturbs does not go away, and only WsConnected and SigStart change an
\* undisturbed WebSocket.
LEMMA WsMoves ==
    ASSUME Control, SendInv, [Next]_vars, Undisturbed'
    PROVE  /\ Undisturbed
           /\ \/ UNCHANGED ws
              \/ WsConnected /\ ws'.state = "open" /\ ws'.cb = ws.cb
              \/ SigStart /\ ws'.state = "connecting" /\ ws'.cb = ws.cb
<1>1. ws \in WsStates /\ ws.drops \in Nat
  BY DEF Control, TypeOK, WsStates
<1>2. CASE WsConnected
  BY <1>1, <1>2 DEF WsConnected, Undisturbed, WsStates
<1>3. CASE SigStart
  BY <1>1, <1>3 DEF SigStart, Undisturbed, WsStates
<1>4. CASE WsDrop
  BY <1>1, <1>4 DEF WsDrop, Undisturbed
<1>5. CASE OnClosed \/ Reopen
  <2>1. ws'.drops = ws.drops /\ main' = main /\ ws.cb # "none"
    BY <1>1, <1>5 DEF OnClosed, Reopen, WsStates
  <2> QED BY <2>1 DEF Undisturbed, SendInv
<1>6. CASE CloseWs \/ JoinSig \/ Release
  BY <1>6 DEF CloseWs, JoinSig, Release, Undisturbed
<1>7. CASE SetTerm \/ StopQueue
  BY <1>7 DEF SetTerm, StopQueue, Undisturbed
<1>8. CASE UNCHANGED <<ws, main>>
  BY <1>8 DEF Undisturbed
<1>9. ASSUME \/ (\E c \in Clients : Callbacks(c)) \/ (\E i \in Ids : Peer(i)) \/ Out \/ SigWrite
             \/ (SigRun /\ ~SigStart) \/ UNCHANGED vars
      PROVE  UNCHANGED <<ws, main>>
  BY <1>9
  DEF Callbacks, GatherDone, LinkLost, LinkClosed, ClientThr, Peer, PeerRequest, PeerStray,
      PeerAnswer, Out, OutTop, OutPush, OutEnd, OutTake, OutTimeout, SigWrite, SigEmplace,
      SigErase, EraseEntry, SigRun, SigLoop, SigPop, SigMake, SigAnswer, SigBareAnswer,
      SigMalformed, SigSend, SigJoin, vars
<1> QED
  BY <1>2, <1>3, <1>4, <1>5, <1>6, <1>7, <1>8, <1>9 DEF Next, WebSocket, Shutdown

\* As long as the WebSocket has never been open, it stays quiet.
LEMMA QuietStays ==
    ASSUME Control, Quiet, ws.state # "open", [Next]_vars
    PROVE  main' # "done" => Quiet' /\ aborted' \in {aborted, "answer", "message"}
<1>1. /\ sigQ \in QueueStates /\ sig \in SigStates /\ out \in OutStates
  BY DEF Control, TypeOK
<1>2. \A c \in Clients : ~Alive(c)
  BY DEF Quiet, Alive
<1>3. ASSUME NEW c \in Clients, Callbacks(c) PROVE FALSE
  BY <1>2, <1>3 DEF Callbacks, GatherDone, LinkLost, LinkClosed, ClientThr
<1>4. ASSUME NEW i \in Ids, Peer(i) \/ OutTake(i) PROVE FALSE
  <2>1. ~OutTake(i)
    BY NoClientIsNone
    DEF OutTake, Control, TypeOK, TraversalIsSafe, Traversing, RegistryIsLive, Quiet
  <2> QED BY <1>4, <2>1 DEF Peer, PeerRequest, PeerStray, PeerAnswer
<1>5. ~OutPush /\ ~SigWrite /\ ~SigMake /\ ~SigAnswer /\ ~SigBareAnswer /\ ~SigMalformed
      /\ ~SigSend
  BY DEF Quiet, OutPush, SigWrite, SigEmplace, SigErase, EraseEntry, SigMake, SigAnswer,
         SigBareAnswer, SigMalformed, SigSend, Handling
<1>6. CASE OutTop \/ OutEnd \/ \E i \in Ids : OutTimeout(i)
  <2>1. UNCHANGED <<client, sigQ, sig, aborted>> /\ out'.pc # "push"
    BY <1>1, <1>6 DEF OutTop, OutEnd, OutTimeout, OutStates
  <2> QED BY <2>1 DEF Quiet
<1>7. CASE SigStart \/ SigLoop \/ SigJoin
  <2>1. UNCHANGED <<client, sigQ, aborted>> /\ out'.pc \in {out.pc, "top"}
        /\ sig'.pc \notin {"handle", "emplace"}
    BY <1>1, <1>7 DEF SigStart, SigLoop, SigJoin, OutStates, SigStates
  <2> QED BY <2>1 DEF Quiet
<1>8. CASE SigPop
  <2>1. UNCHANGED <<client, sigQ, out, aborted>> /\ sig'.pc = "loop"
    BY <1>1, <1>8 DEF SigPop, SigStates, Quiet
  <2> QED BY <2>1 DEF Quiet
<1>9. CASE WebSocket \/ SetTerm \/ CloseWs \/ JoinSig \/ UNCHANGED vars
  <2>1. UNCHANGED <<client, sigQ, sig, out, aborted>>
    BY <1>9 DEF WebSocket, WsConnected, WsDrop, OnClosed, Reopen, SetTerm, CloseWs, JoinSig, vars
  <2> QED BY <2>1 DEF Quiet
<1>10. CASE StopQueue
  <2>1. UNCHANGED <<client, sig, out, aborted>> /\ sigQ'.items = sigQ.items
    BY <1>1, <1>10 DEF StopQueue, QueueStates
  <2> QED BY <2>1 DEF Quiet
<1>11. CASE Release
  BY <1>11 DEF Release
<1> QED
  BY <1>3, <1>4, <1>5, <1>6, <1>7, <1>8, <1>9, <1>10, <1>11
  DEF Next, Out, SigRun, Shutdown

\* Every step keeps SendInv.
LEMMA NextSend == Control /\ SendInv /\ [Next]_vars => SendInv'
<1> SUFFICES ASSUME Control, SendInv, [Next]_vars, Undisturbed'
             PROVE  /\ ws'.cb = "none" /\ aborted' # "send"
                    /\ sig'.pc = "start" => ws'.state = "closed"
                    /\ ws'.state # "open" => Quiet'
  BY DEF SendInv
<1>1. /\ Undisturbed /\ ws.cb = "none" /\ aborted # "send"
      /\ sig.pc = "start" => ws.state = "closed"
      /\ ws.state # "open" => Quiet
  BY WsMoves DEF SendInv
<1>2. ws'.cb = "none"
  BY <1>1, WsMoves
<1>3. ws.state = "open" => ws'.state = "open"
  <2>1. ws.state = "open" => ~SigStart /\ ~WsConnected
    BY <1>1 DEF SigStart, WsConnected
  <2> QED BY <2>1, WsMoves
<1>4. ws'.state # "open" => Quiet'
  BY <1>1, <1>3, QuietStays DEF Undisturbed
<1>5. aborted' # "send"
  <2>1. CASE ws.state # "open"
    BY <1>1, <2>1, QuietStays DEF Undisturbed
  <2>2. CASE ws.state = "open"
    BY <1>1, <2>2
    DEF Next, vars, Callbacks, GatherDone, LinkLost, LinkClosed, ClientThr,
        WebSocket, WsConnected, WsDrop, OnClosed, Reopen, Peer, PeerRequest, PeerAnswer,
        PeerStray, Out, OutTop, OutPush, OutEnd, OutTake, OutTimeout, SigWrite, SigEmplace,
        SigErase, EraseEntry, SigRun, SigStart, SigLoop, SigPop, SigMake, SigAnswer,
        SigBareAnswer, SigMalformed, SigSend, SigJoin, SetTerm, Shutdown, StopQueue, CloseWs,
        JoinSig, Release
  <2> QED BY <2>1, <2>2
<1>6. sig'.pc = "start" => sig.pc = "start" /\ ~SigStart /\ ~WsConnected
  <2>1. sig \in SigStates
    BY DEF Control, TypeOK
  <2>2. ASSUME SigStart \/ SigLoop \/ SigPop \/ SigMake \/ SigJoin PROVE sig'.pc # "start"
    BY <2>1, <2>2 DEF SigStart, SigLoop, SigPop, SigMake, SigJoin, SigStates
  <2>3. ASSUME \/ SigWrite \/ SigAnswer \/ SigBareAnswer \/ SigMalformed \/ SigSend
        PROVE  sig'.pc # "start"
    BY <2>1, <2>3
    DEF SigWrite, SigEmplace, SigErase, EraseEntry, SigAnswer, SigBareAnswer, SigMalformed,
        SigSend, Handling, NextTurn
  <2>4. ASSUME ~SigRun, ~SigWrite PROVE UNCHANGED sig
    BY <2>4
    DEF Next, vars, Callbacks, GatherDone, LinkLost, LinkClosed, ClientThr,
        WebSocket, WsConnected, WsDrop, OnClosed, Reopen, Peer, PeerRequest, PeerAnswer,
        PeerStray, Out, OutTop, OutPush, OutEnd, OutTake, OutTimeout, SetTerm, Shutdown,
        StopQueue, CloseWs, JoinSig, Release
  <2>5. sig.pc = "start" => ~WsConnected
    BY <1>1 DEF WsConnected
  <2> QED BY <2>2, <2>3, <2>4, <2>5 DEF SigRun
<1>7. sig'.pc = "start" => ws'.state = "closed"
  BY <1>1, <1>6, WsMoves
<1> QED BY <1>2, <1>4, <1>5, <1>7

\* A send throws only after a closure that nobody wanted or once the destructor has
\* closed the WebSocket.  Whatever peers send, an offer has a Client behind it and a
\* Client a request, which an open WebSocket has brought.
THEOREM SendsFailAfterClosures == Spec => []SendFailsAfterClosure
<1>1. Init => SendInv
  BY DEF Init, SendInv, Quiet, Unborn
<1>2. Control /\ SendInv => SendFailsAfterClosure
  <2> SUFFICES ASSUME Control, SendInv, aborted = "send", main \in {"run", "stop", "close"}
               PROVE  ws.drops > 0
    BY DEF SendFailsAfterClosure
  <2>1. ws.drops # 0
    BY DEF SendInv, Undisturbed
  <2>2. ws.drops \in Nat
    BY DEF Control, TypeOK, WsStates
  <2> QED BY <2>1, <2>2
<1> QED BY <1>1, <1>2, NextSend, AlwaysControl, PTL DEF Spec
=============================================================================
