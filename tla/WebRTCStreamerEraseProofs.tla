---------------------- MODULE WebRTCStreamerEraseProofs ----------------------
(***************************************************************************)
(* Whom a disconnect erases, and whom an answer reaches.  Messages name an *)
(* id, which one Client after another may have.  A disconnect may hit a    *)
(* Client that did not send it; a peer's first Client is safe from that,   *)
(* because no other Client of the peer ever has a connection while the     *)
(* first is registered.  An answer reaches the Client whose offer it       *)
(* answers as long as no Client was erased by another one's disconnect and *)
(* no stray message has come.                                              *)
(***************************************************************************)
EXTENDS WebRTCStreamerProofs

\* What a step can do to Client d: the connection only moves forward, and only
\* while d is alive; status and id change where _signalingThr or the destructor
\* change them; answers are queued for a registered Client only.
LEMMA ClientMoves ==
    ASSUME Control, [Next]_vars, NEW d \in Clients
    PROVE  /\ \/ client'[d].link = client[d].link
              \/ /\ client[d].link = "new" /\ client'[d].link = "up"
                 /\ Alive(d) /\ client[d].inQ # << >>
              \/ client[d].link # "new" /\ client'[d].link \in Ended /\ Alive(d)
           /\ \/ client'[d].status = client[d].status /\ client'[d].id = client[d].id
              \/ /\ SigMake /\ sig'.made = d
                 /\ client[d].status = "unborn" /\ client'[d].status = "made"
                 /\ \A e \in Clients : e < d => client[e].status # "unborn"
              \/ /\ SigEmplace /\ sig.made = d /\ client'[d].id = client[d].id
                 /\ client[d].status = "made"
                 /\ \/ client'[d].status = "refused"
                    \/ client'[d].status = "registered" /\ registry[client[d].id] = NoClient
              \/ /\ SigErase /\ registry[sig.msg.id] = d /\ client'[d].id = client[d].id
                 /\ client[d].status = "registered" /\ client'[d].status = "erased"
              \/ /\ Release /\ client'[d].id = client[d].id
                 /\ client[d].status = "registered" /\ client'[d].status = "released"
           /\ client'[d].inQ # << >> =>
                 \/ client'[d].status = "registered"
                 \/ client[d].inQ # << >> /\ client'[d].status \in {client[d].status, "made"}
           /\ \/ /\ client'[d].inQ \in {client[d].inQ, << >>}
                 /\ client'[d].link = client[d].link \/ client[d].link # "new"
              \/ /\ client[d].inQ # << >> /\ client'[d].inQ = Tail(client[d].inQ)
                 /\ client'[d].link # "new"
              \/ /\ SigAnswer /\ registry[sig.msg.id] = d /\ client'[d].link = client[d].link
                 /\ client'[d].inQ = Append(client[d].inQ, sig.msg.c)
           /\ \/ client'[d].gathered = client[d].gathered
              \/ ~client[d].gathered /\ client'[d].outQ =
                                           Append(client[d].outQ, Offer(client[d].id, d))
           /\ \/ client'[d].outQ \in {client[d].outQ, << >>}
              \/ client[d].outQ # << >> /\ client'[d].outQ = Tail(client[d].outQ)
              \/ /\ Alive(d) /\ ~client[d].gathered /\ client'[d].gathered
                 /\ client'[d].outQ = Append(client[d].outQ, Offer(client[d].id, d))
              \/ /\ Alive(d) /\ client'[d].link \in Ended
                 /\ client'[d].outQ = Append(client[d].outQ, Disconnect(client[d].id, d))
<1> DEFINE Same == /\ client'[d].status = client[d].status /\ client'[d].id = client[d].id
                   /\ client'[d].link = client[d].link /\ client'[d].inQ = client[d].inQ
                   /\ client'[d].gathered = client[d].gathered
                   /\ \/ client'[d].outQ = client[d].outQ
                      \/ client[d].outQ # << >> /\ client'[d].outQ = Tail(client[d].outQ)
           Gone(v) == /\ client'[d].status = v /\ client'[d].id = client[d].id
                      /\ client'[d].link = client[d].link /\ client'[d].inQ = << >>
                      /\ client'[d].gathered = client[d].gathered /\ client'[d].outQ = << >>
           Hears == /\ client'[d].status = client[d].status /\ client'[d].id = client[d].id
                    /\ client'[d].link = client[d].link /\ client[d].status = "registered"
                    /\ client'[d].gathered = client[d].gathered
                    /\ client'[d].outQ = client[d].outQ
                    /\ SigAnswer /\ registry[sig.msg.id] = d
                    /\ client'[d].inQ = Append(client[d].inQ, sig.msg.c)
           Moves == /\ client'[d].status = client[d].status /\ client'[d].id = client[d].id
                    /\ Alive(d)
                    /\ \/ /\ client'[d].inQ = client[d].inQ
                          /\ \/ /\ client'[d].link = client[d].link
                                /\ ~client[d].gathered /\ client'[d].gathered
                                /\ client'[d].outQ =
                                      Append(client[d].outQ, Offer(client[d].id, d))
                             \/ /\ client[d].link # "new" /\ client'[d].link \in Ended
                                /\ client'[d].gathered = client[d].gathered
                                /\ client'[d].outQ =
                                      Append(client[d].outQ, Disconnect(client[d].id, d))
                       \/ /\ client[d].inQ # << >> /\ client'[d].inQ = Tail(client[d].inQ)
                          /\ client'[d].gathered = client[d].gathered
                          /\ client'[d].outQ = client[d].outQ
                          /\ client[d].link = "new" /\ client'[d].link = "up"
           Made == /\ SigMake /\ sig'.made = d
                   /\ client[d].status = "unborn" /\ client'[d].status = "made"
                   /\ \A e \in Clients : e < d => client[e].status # "unborn"
                   /\ client'[d].link = client[d].link /\ client'[d].inQ = client[d].inQ
                   /\ client'[d].gathered = client[d].gathered
                   /\ client'[d].outQ = client[d].outQ
           Enters == /\ SigEmplace /\ sig.made = d /\ client'[d].id = client[d].id
                     /\ client[d].status = "made"
                     /\ client'[d].link = client[d].link
                     /\ client'[d].gathered = client[d].gathered
                     /\ client'[d].outQ \in {client[d].outQ, << >>}
                     /\ \/ client'[d].status = "refused" /\ client'[d].inQ = << >>
                        \/ /\ client'[d].status = "registered"
                           /\ registry[client[d].id] = NoClient
                           /\ client'[d].inQ = client[d].inQ
           Erased == /\ SigErase /\ registry[sig.msg.id] = d
                     /\ client[d].status = "registered" /\ Gone("erased")
           Released == Release /\ client[d].status = "registered" /\ Gone("released")
<1>1. /\ client \in [Clients -> ClientStates] /\ client[d] \in ClientStates
      /\ sig \in SigStates
  BY DEF Control, TypeOK
<1>2. \A v \in {"refused", "erased", "released"} :
         client'[d] = Destroyed(d, v) => Gone(v)
  BY <1>1 DEF Destroyed, ClientStates
<1>3. ASSUME NEW c \in Clients, Callbacks(c) PROVE Same \/ Moves
  <2>1. CASE c # d
    BY <1>1, <1>3, <2>1
    DEF Callbacks, GatherDone, LinkLost, LinkClosed, ClientThr
  <2>2. CASE c = d
    <3>1. Alive(d)
      BY <1>3, <2>2 DEF Callbacks, GatherDone, LinkLost, LinkClosed, ClientThr
    <3>2. CASE GatherDone(d)
      BY <1>1, <3>1, <3>2 DEF GatherDone, Says, ClientStates
    <3>3. CASE LinkLost(d)
      BY <1>1, <3>1, <3>3 DEF LinkLost, Says, ClientStates, Ended
    <3>4. CASE LinkClosed(d)
      BY <1>1, <3>1, <3>4 DEF LinkClosed, Says, ClientStates, Ended
    <3>5. CASE ClientThr(d)
      BY <1>1, <3>1, <3>5 DEF ClientThr, ClientStates
    <3> QED BY <1>3, <2>2, <3>2, <3>3, <3>4, <3>5 DEF Callbacks
  <2> QED BY <2>1, <2>2
<1>4. ASSUME NEW i \in Ids, OutTake(i) PROVE Same
  <2> DEFINE c == registry[i]
             r == [client[c] EXCEPT !.outQ = Tail(@)]
  <2>1. client' = [client EXCEPT ![c] = r] /\ client[c].outQ # << >>
    BY <1>4 DEF OutTake
  <2>2. client'[d] = IF d = c THEN r ELSE client[d]
    <3> HIDE DEF c, r
    <3> QED BY <1>1, <2>1
  <2> QED BY <1>1, <2>1, <2>2 DEF ClientStates
<1>5. ASSUME SigMake PROVE Same \/ Made
  <2>1. PICK c \in Clients :
           /\ client[c].status = "unborn"
           /\ \A e \in Clients : e < c => client[e].status # "unborn"
           /\ client' = [client EXCEPT ![c].status = "made", ![c].id = sig.msg.id]
           /\ sig' = [sig EXCEPT !.pc = "emplace", !.made = c]
    BY <1>5 DEF SigMake
  <2>2. CASE c # d
    BY <1>1, <2>1, <2>2
  <2>3. CASE c = d
    BY <1>1, <1>5, <2>1, <2>3 DEF ClientStates, SigStates
  <2> QED BY <2>2, <2>3
<1>6. ASSUME SigEmplace PROVE Same \/ Enters
  <2> DEFINE c == sig.made
             r == [client[c] EXCEPT !.status = "registered"]
  <2>1. \/ client' = [client EXCEPT ![c] = r] /\ registry[sig.msg.id] = NoClient
        \/ client' = [client EXCEPT ![c] = Destroyed(c, "refused")]
    BY <1>6 DEF SigEmplace
  <2>2. client[c].id = sig.msg.id /\ (c = d => client[d].status = "made")
    BY <1>6 DEF SigEmplace, Control, MadeInv, RegistryIsLive
  <2>3. CASE c # d
    <3>1. client'[d] = client[d]
      <4> HIDE DEF c, r
      <4> QED BY <1>1, <2>1, <2>3
    <3> QED BY <3>1
  <2>4. CASE c = d /\ client' = [client EXCEPT ![c] = Destroyed(c, "refused")]
    <3>1. client'[d] = Destroyed(d, "refused")
      <4> HIDE DEF c
      <4> QED BY <1>1, <2>4
    <3> QED BY <1>2, <1>6, <2>2, <2>4, <3>1
  <2>5. CASE c = d /\ client' = [client EXCEPT ![c] = r] /\ registry[sig.msg.id] = NoClient
    BY <1>1, <1>6, <2>2, <2>5 DEF ClientStates
  <2> QED BY <2>1, <2>3, <2>4, <2>5
<1>7. ASSUME SigAnswer PROVE Same \/ Hears
  <2> DEFINE c == registry[sig.msg.id]
             r == [client[c] EXCEPT !.inQ = Append(@, sig.msg.c)]
  <2>1. client' = IF c = NoClient THEN client ELSE [client EXCEPT ![c] = r]
    BY <1>7 DEF SigAnswer
  <2>2. client'[d] = IF c = d THEN r ELSE client[d]
    <3> HIDE DEF c, r
    <3> QED BY <1>1, <2>1, NoClientIsNone
  <2>3. c = d => client[d].status = "registered"
    <3>1. sig.msg.id \in Ids
      BY <1>7 DEF SigAnswer, Handling, Control, MessageInv, Sendable
    <3> QED BY <3>1, NoClientIsNone DEF Control, RegistryIsLive
  <2>4. CASE c # d
    BY <2>2, <2>4
  <2>5. CASE c = d
    <3>1. client'[d] = [client[d] EXCEPT !.inQ = Append(@, sig.msg.c)]
      BY <2>2, <2>5
    <3> QED BY <1>1, <1>7, <2>3, <2>5, <3>1 DEF ClientStates
  <2> QED BY <2>4, <2>5
<1>8. ASSUME SigErase PROVE Same \/ Erased
  <2> DEFINE c == registry[sig.msg.id]
  <2>1. client' = IF c = NoClient THEN client
                  ELSE [client EXCEPT ![c] = Destroyed(c, "erased")]
    BY <1>8 DEF SigErase, EraseEntry
  <2>2. client'[d] = IF c = d THEN Destroyed(d, "erased") ELSE client[d]
    <3> HIDE DEF c
    <3> QED BY <1>1, <2>1, NoClientIsNone
  <2>3. c = d => client[d].status = "registered"
    <3>1. sig.msg.id \in Ids
      BY <1>8 DEF SigErase, EraseEntry, Handling, Control, MessageInv, Sendable
    <3> QED BY <3>1, NoClientIsNone DEF Control, RegistryIsLive
  <2> QED BY <1>2, <1>8, <2>2, <2>3
<1>9. ASSUME Release PROVE Same \/ Released
  <2>1. \/ client'[d] = client[d]
        \/ client'[d] = Destroyed(d, "released") /\ \E i \in Ids : registry[i] = d
    BY <1>9 DEF Release
  <2>2. (\E i \in Ids : registry[i] = d) => client[d].status = "registered"
    BY NoClientIsNone DEF Control, RegistryIsLive
  <2> QED BY <1>2, <1>9, <2>1, <2>2
<1>10. ASSUME WebSocket \/ (\E i \in Ids : Peer(i)) \/ SetTerm \/ StopQueue \/ CloseWs \/ JoinSig
              \/ OutTop \/ OutPush \/ OutEnd \/ (\E i \in Ids : OutTimeout(i))
              \/ SigStart \/ SigLoop \/ SigPop \/ SigBareAnswer \/ SigMalformed \/ SigSend
              \/ SigJoin \/ UNCHANGED vars
       PROVE  Same
  <2>1. UNCHANGED client
    BY <1>10
    DEF WebSocket, WsConnected, WsDrop, OnClosed, Reopen, Peer, PeerRequest, PeerAnswer,
        PeerStray, SetTerm, StopQueue, CloseWs, JoinSig, OutTop, OutPush, OutEnd, OutTimeout,
        SigStart, SigLoop, SigPop, SigBareAnswer, SigMalformed, SigSend, SigJoin, vars
  <2> QED BY <2>1
<1>11. Same \/ Moves \/ Hears \/ Made \/ Enters \/ Erased \/ Released
  <2> HIDE DEF Same, Moves, Hears, Made, Enters, Erased, Released, Gone
  <2>1. CASE \E c \in Clients : Callbacks(c)
    BY <1>3, <2>1
  <2>2. CASE Out
    BY <1>4, <1>10, <2>2 DEF Out
  <2>3. CASE SigWrite \/ SigRun
    BY <1>5, <1>6, <1>7, <1>8, <1>10, <2>3 DEF SigWrite, SigRun
  <2>4. CASE Shutdown
    BY <1>9, <1>10, <2>4 DEF Shutdown
  <2>5. CASE WebSocket \/ (\E i \in Ids : Peer(i)) \/ SetTerm \/ UNCHANGED vars
    BY <1>10, <2>5
  <2> QED BY <2>1, <2>2, <2>3, <2>4, <2>5 DEF Next
<1>12. \/ client'[d].link = client[d].link
       \/ /\ client[d].link = "new" /\ client'[d].link = "up"
          /\ Alive(d) /\ client[d].inQ # << >>
       \/ client[d].link # "new" /\ client'[d].link \in Ended /\ Alive(d)
  BY <1>11
<1>13. client'[d].inQ # << >> =>
          \/ client'[d].status = "registered"
          \/ client[d].inQ # << >> /\ client'[d].status \in {client[d].status, "made"}
  BY <1>11
<1>14. \/ /\ client'[d].inQ \in {client[d].inQ, << >>}
          /\ client'[d].link = client[d].link \/ client[d].link # "new"
       \/ /\ client[d].inQ # << >> /\ client'[d].inQ = Tail(client[d].inQ)
          /\ client'[d].link # "new"
       \/ /\ SigAnswer /\ registry[sig.msg.id] = d /\ client'[d].link = client[d].link
          /\ client'[d].inQ = Append(client[d].inQ, sig.msg.c)
  BY <1>11
<1>15. \/ client'[d].gathered = client[d].gathered
       \/ ~client[d].gathered /\ client'[d].outQ =
                                    Append(client[d].outQ, Offer(client[d].id, d))
  BY <1>11
<1>16. \/ client'[d].outQ \in {client[d].outQ, << >>}
       \/ client[d].outQ # << >> /\ client'[d].outQ = Tail(client[d].outQ)
       \/ /\ Alive(d) /\ ~client[d].gathered /\ client'[d].gathered
          /\ client'[d].outQ = Append(client[d].outQ, Offer(client[d].id, d))
       \/ /\ Alive(d) /\ client'[d].link \in Ended
          /\ client'[d].outQ = Append(client[d].outQ, Disconnect(client[d].id, d))
  BY <1>11
<1>17. \/ client'[d].status = client[d].status /\ client'[d].id = client[d].id
       \/ /\ SigMake /\ sig'.made = d
          /\ client[d].status = "unborn" /\ client'[d].status = "made"
          /\ \A e \in Clients : e < d => client[e].status # "unborn"
       \/ /\ SigEmplace /\ sig.made = d /\ client'[d].id = client[d].id
          /\ client[d].status = "made"
          /\ \/ client'[d].status = "refused"
             \/ client'[d].status = "registered" /\ registry[client[d].id] = NoClient
       \/ /\ SigErase /\ registry[sig.msg.id] = d /\ client'[d].id = client[d].id
          /\ client[d].status = "registered" /\ client'[d].status = "erased"
       \/ /\ Release /\ client'[d].id = client[d].id
          /\ client[d].status = "registered" /\ client'[d].status = "released"
  BY <1>11
<1> HIDE DEF Same, Moves, Hears, Made, Enters, Erased, Released, Gone
<1> QED BY <1>12, <1>13, <1>14, <1>15, <1>16, <1>17

-----------------------------------------------------------------------------
(* Where messages go.                                                       *)

\* Message m enters _signalingQueue: a request, what signalingThreadOut has got
\* from a Client, a peer's answer to an offer, which it then holds no more, or a
\* stray message.
Arrives(m) ==
    \/ m.type = "request"
    \/ m = out.msg /\ out'.msg = NoMsg
    \/ \E i \in Ids : \E c \in offers[i] :
          m = Answer(i, c) /\ offers' = [offers EXCEPT ![i] = @ \ {c}]
    \/ \E i \in Ids : m \in Strays(i) /\ strays' = strays + 1

\* Messages move one at a time, from one hand to the next.
LEMMA MessagesMove ==
    ASSUME Control, [Next]_vars
    PROVE  /\ \/ sigQ'.items = sigQ.items
              \/ sigQ.items # << >> /\ sigQ'.items = Tail(sigQ.items)
              \/ \E m \in Sendable : sigQ'.items = Append(sigQ.items, m) /\ Arrives(m)
           /\ out'.msg \in {out.msg, NoMsg} \/ \E i \in Ids : OutTake(i)
           /\ \/ sig'.msg \in {sig.msg, NoMsg}
              \/ /\ sigQ.items # << >> /\ sigQ'.items = Tail(sigQ.items)
                 /\ sig'.msg = Head(sigQ.items)
           /\ \A i \in Ids : \/ offers'[i] \subseteq offers[i]
                             \/ /\ SigSend /\ i = sig.msg.id /\ sig'.msg = NoMsg
                                /\ offers'[i] = offers[i] \cup {sig.msg.c}
<1> DEFINE Pops == /\ sigQ.items # << >> /\ sigQ'.items = Tail(sigQ.items)
                   /\ sig'.msg = Head(sigQ.items)
           ItemsOK == \/ sigQ'.items = sigQ.items \/ Pops
                      \/ \E m \in Sendable : sigQ'.items = Append(sigQ.items, m) /\ Arrives(m)
           OutOK == out'.msg \in {out.msg, NoMsg} \/ \E i \in Ids : OutTake(i)
           SigOK == sig'.msg \in {sig.msg, NoMsg} \/ Pops
           OffersOK == \A i \in Ids :
                          \/ offers'[i] \subseteq offers[i]
                          \/ /\ SigSend /\ i = sig.msg.id /\ sig'.msg = NoMsg
                             /\ offers'[i] = offers[i] \cup {sig.msg.c}
<1>1. /\ sigQ \in QueueStates /\ sig \in SigStates /\ out \in OutStates
      /\ offers \in [Ids -> SUBSET Clients]
  BY DEF Control, TypeOK
<1>2. ASSUME NEW m \in Sendable, SigPush(m), Arrives(m) PROVE ItemsOK
  <2>1. CASE sigQ.stopped
    BY <1>2, <2>1 DEF SigPush
  <2>2. CASE ~sigQ.stopped
    BY <1>2, <2>2, SigPushTyped
  <2> QED BY <2>1, <2>2
<1>3. ASSUME NEW i \in Ids, PeerRequest(i) PROVE ItemsOK /\ OutOK /\ SigOK /\ OffersOK
  <2>1. Request(i) \in Sendable /\ Arrives(Request(i))
    BY DEF Request, Sendable, Messages, MessageTypes, Arrives
  <2> QED BY <1>2, <1>3, <2>1 DEF PeerRequest
<1>4. ASSUME NEW i \in Ids, NEW c \in Clients, PeerAnswer(i, c)
      PROVE  ItemsOK /\ OutOK /\ SigOK /\ OffersOK
  <2>1. Answer(i, c) \in Sendable /\ Arrives(Answer(i, c))
    BY <1>4, MessagesSendable DEF PeerAnswer, Arrives
  <2>2. OffersOK
    BY <1>1, <1>4 DEF PeerAnswer
  <2> QED BY <1>2, <1>4, <2>1, <2>2 DEF PeerAnswer
<1>5. ASSUME OutPush PROVE ItemsOK /\ OutOK /\ SigOK /\ OffersOK
  <2>1. out.msg \in Sendable /\ out'.msg = NoMsg /\ Arrives(out.msg)
    BY <1>1, <1>5 DEF OutPush, Control, MessageInv, OutStates, Arrives
  <2> QED BY <1>2, <1>5, <2>1 DEF OutPush
<1>6. ASSUME SigPop PROVE ItemsOK /\ OutOK /\ SigOK /\ OffersOK
  <2>1. CASE sigQ.items = << >>
    <3>1. UNCHANGED <<sigQ, out, offers>> /\ sig' = [sig EXCEPT !.pc = "loop"]
      BY <1>6, <2>1 DEF SigPop
    <3>2. sig'.msg = sig.msg
      BY <1>1, <3>1 DEF SigStates
    <3> QED BY <3>1, <3>2
  <2>2. CASE sigQ.items # << >>
    BY <1>1, <1>6, <2>2 DEF SigPop, QueueStates, SigStates
  <2> QED BY <2>1, <2>2
<1>7. ASSUME SigSend PROVE ItemsOK /\ OutOK /\ SigOK /\ OffersOK
  <2>1. UNCHANGED <<sigQ, out>>
    BY <1>7 DEF SigSend
  <2>2. \/ UNCHANGED <<offers, sig>>
        \/ /\ offers' = [offers EXCEPT ![sig.msg.id] = @ \cup {sig.msg.c}]
           /\ sig'.msg = NoMsg
    BY <1>7 DEF SigSend, NextTurn
  <2>3. OffersOK
    BY <1>1, <1>7, <2>2
  <2> QED BY <2>1, <2>2, <2>3
<1>8. ASSUME UNCHANGED <<sigQ, offers>>, OutOK, sig'.msg \in {sig.msg, NoMsg}
      PROVE  ItemsOK /\ OutOK /\ SigOK /\ OffersOK
  BY <1>8
<1>9. ASSUME \/ (\E c \in Clients : Callbacks(c)) \/ WebSocket \/ SetTerm
             \/ CloseWs \/ JoinSig \/ Release \/ UNCHANGED vars
      PROVE  ItemsOK /\ OutOK /\ SigOK /\ OffersOK
  BY <1>8, <1>9
  DEF Callbacks, GatherDone, LinkLost, LinkClosed, ClientThr, WebSocket,
      WsConnected, WsDrop, OnClosed, Reopen, SetTerm, CloseWs, JoinSig, Release, vars
<1>10. ASSUME StopQueue PROVE ItemsOK /\ OutOK /\ SigOK /\ OffersOK
  <2>1. UNCHANGED <<sig, out, offers>> /\ sigQ'.items = sigQ.items
    BY <1>1, <1>10 DEF StopQueue, QueueStates
  <2> QED BY <2>1
<1>11. ASSUME Out /\ ~OutPush PROVE ItemsOK /\ OutOK /\ SigOK /\ OffersOK
  <2>1. UNCHANGED <<sigQ, sig, offers>>
    BY <1>11 DEF Out, OutTop, OutEnd, OutTake, OutTimeout
  <2>2. OutOK
    BY <1>1, <1>11 DEF Out, OutTop, OutEnd, OutTimeout, OutStates
  <2> QED BY <1>8, <2>1, <2>2
<1>12. ASSUME SigStart \/ SigLoop \/ SigMake \/ SigJoin PROVE ItemsOK /\ OutOK /\ SigOK /\ OffersOK
  <2>1. UNCHANGED <<sigQ, offers>>
    BY <1>12 DEF SigStart, SigLoop, SigMake, SigJoin
  <2>2. out'.msg = out.msg /\ sig'.msg = sig.msg
    BY <1>1, <1>12 DEF SigStart, SigLoop, SigMake, SigJoin, OutStates, SigStates
  <2> QED BY <1>8, <2>1, <2>2
<1>13. ASSUME SigWrite \/ SigAnswer \/ SigBareAnswer \/ SigMalformed
       PROVE  ItemsOK /\ OutOK /\ SigOK /\ OffersOK
  <2>1. UNCHANGED <<sigQ, out, offers>> /\ sig'.msg \in {sig.msg, NoMsg}
    BY <1>13
    DEF SigWrite, SigEmplace, SigErase, EraseEntry, SigAnswer, SigBareAnswer, SigMalformed,
        NextTurn
  <2> QED BY <1>8, <2>1
<1>14. ASSUME NEW i \in Ids, PeerStray(i) PROVE ItemsOK /\ OutOK /\ SigOK /\ OffersOK
  <2>1. PICK m \in Strays(i) : SigPush(m) /\ strays' = strays + 1
                               /\ UNCHANGED <<sig, out, offers>>
    BY <1>14 DEF PeerStray
  <2>2. m \in Sendable
    BY StraysSendable DEF Control
  <2>3. Arrives(m)
    BY <2>1 DEF Arrives
  <2> QED BY <1>2, <2>1, <2>2, <2>3
<1>15. ItemsOK /\ OutOK /\ SigOK /\ OffersOK
  <2> HIDE DEF ItemsOK, OutOK, SigOK, OffersOK
  <2>1. CASE \E i \in Ids : Peer(i)
    BY <1>3, <1>4, <1>14, <2>1 DEF Peer
  <2>2. CASE Out
    BY <1>5, <1>11, <2>2
  <2>3. CASE SigWrite \/ SigRun
    BY <1>6, <1>7, <1>12, <1>13, <2>3 DEF SigRun
  <2>4. CASE Shutdown
    BY <1>9, <1>10, <2>4 DEF Shutdown
  <2> QED BY <1>9, <2>1, <2>2, <2>3, <2>4 DEF Next
<1> QED BY <1>15

-----------------------------------------------------------------------------
(* Messages tell the truth.                                                 *)

\* A message but a request that names a Client names one that exists, under its own
\* id; a disconnect names one whose connection has ended.  As long as no stray
\* message has come, all of them name one and none is unreadable.
Truthful ==
    {m \in Sendable :
        /\ m.type # "request" /\ m.c \in Clients =>
              /\ client[m.c].id = m.id /\ client[m.c].status # "unborn"
              /\ m.type = "disconnect" => client[m.c].link \in Ended
        /\ strays = 0 => \/ m.type = "request"
                         \/ m.type \in {"answer", "offer", "disconnect"} /\ m.c \in Clients}

\* What a Client has to say about itself.
Own(c) == {m \in Truthful : m.c = c}

TruthInv ==
    /\ sigQ.items \in Seq(Truthful)
    /\ \A c \in Clients : client[c].outQ \in Seq(Own(c))
    /\ out.msg \in Truthful \cup {NoMsg} /\ sig.msg \in Truthful \cup {NoMsg}
    /\ \A i \in Ids : \A c \in offers[i] : client[c].id = i /\ client[c].status # "unborn"

\* What a message says stays true: a connection that has ended does not come
\* back, and a Client keeps its id.
LEMMA TruthLasts ==
    ASSUME Control, [Next]_vars
    PROVE  /\ \A c \in Clients : client[c].status # "unborn" =>
                 client'[c].status # "unborn" /\ client'[c].id = client[c].id
           /\ Truthful \subseteq Truthful'
           /\ \A q \in Seq(Truthful) : q \in Seq(Truthful')
           /\ \A c \in Clients : \A q \in Seq(Own(c)) : q \in Seq(Own(c)')
           /\ strays' = 0 => strays = 0
<1>1. ASSUME NEW c \in Clients, client[c].status # "unborn"
      PROVE  /\ client'[c].status # "unborn" /\ client'[c].id = client[c].id
             /\ client[c].link \in Ended => client'[c].link \in Ended
  BY <1>1, ClientMoves DEF Ended
<1>2. strays' = 0 => strays = 0
  <2>1. strays \in Nat
    BY StreamerAssumption DEF Control, TypeOK, StreamerAssumption
  <2>2. strays' \in {strays, strays + 1}
    BY DEF Next, vars, Callbacks, GatherDone, LinkLost, LinkClosed, ClientThr,
        WebSocket, WsConnected, WsDrop, OnClosed, Reopen, Peer, PeerRequest, PeerAnswer,
        PeerStray, Out, OutTop, OutPush, OutEnd, OutTake, OutTimeout, SigWrite, SigEmplace,
        SigErase, EraseEntry, SigRun, SigStart, SigLoop, SigPop, SigMake, SigAnswer,
        SigBareAnswer, SigMalformed, SigSend, SigJoin, SetTerm, Shutdown, StopQueue, CloseWs,
        JoinSig, Release
  <2> QED BY <2>1, <2>2
<1>3. ASSUME NEW m \in Truthful PROVE m \in Truthful'
  BY <1>1, <1>2 DEF Truthful
<1>4. Truthful \subseteq Truthful'
  BY <1>3
<1>5. \A c \in Clients : Own(c) \subseteq Own(c)'
  BY <1>4 DEF Own
<1> QED BY <1>1, <1>4, <1>5, <1>2, SeqMonotonic

\* Every step keeps TruthInv.
LEMMA NextTruth == Control /\ TruthInv /\ [Next]_vars => TruthInv'
<1> SUFFICES ASSUME Control, TruthInv, [Next]_vars PROVE TruthInv'
  OBVIOUS
<1>1. /\ sigQ.items \in Seq(Truthful') /\ \A c \in Clients : client[c].outQ \in Seq(Own(c)')
      /\ out.msg \in Truthful' \cup {NoMsg} /\ sig.msg \in Truthful' \cup {NoMsg}
  BY TruthLasts DEF TruthInv
<1>2. \A c \in Clients : client[c].status # "unborn" =>
         client'[c].status # "unborn" /\ client'[c].id = client[c].id
  BY TruthLasts
<1>3. ASSUME NEW d \in Clients PROVE client'[d].outQ \in Seq(Own(d)')
  <2> DEFINE i == client[d].id
  <2>1. CASE client'[d].outQ \in {client[d].outQ, << >>}
    BY <1>1, <2>1, EmptySeq
  <2>2. CASE client[d].outQ # << >> /\ client'[d].outQ = Tail(client[d].outQ)
    BY <1>1, <2>2, PushPop
  <2>3. CASE Alive(d) /\ client'[d].outQ = Append(client[d].outQ, Offer(i, d))
    <3>1. /\ Offer(i, d) \in Sendable /\ Offer(i, d).type = "offer"
          /\ Offer(i, d).c = d /\ Offer(i, d).id = i
      BY <2>3, MessagesSendable DEF Control, MadeInv, Offer
    <3>2. Offer(i, d) \in Own(d)'
      BY <1>2, <2>3, <3>1 DEF Truthful, Own, Alive
    <3> QED BY <1>1, <2>3, <3>2, PushPop
  <2>4. CASE /\ Alive(d) /\ client'[d].link \in Ended
             /\ client'[d].outQ = Append(client[d].outQ, Disconnect(i, d))
    <3>1. /\ Disconnect(i, d) \in Sendable /\ Disconnect(i, d).type = "disconnect"
          /\ Disconnect(i, d).c = d /\ Disconnect(i, d).id = i
      BY <2>4, MessagesSendable DEF Control, MadeInv, Disconnect
    <3>2. Disconnect(i, d) \in Own(d)'
      BY <1>2, <2>4, <3>1 DEF Truthful, Own, Alive
    <3> QED BY <1>1, <2>4, <3>2, PushPop
  <2> QED BY <2>1, <2>2, <2>3, <2>4, ClientMoves
<1>4. sigQ'.items \in Seq(Truthful')
  <2>1. ASSUME NEW m \in Sendable, Arrives(m) PROVE m \in Truthful'
    <3>1. CASE m.type = "request"
      BY <3>1 DEF Truthful
    <3>2. CASE m = out.msg
      BY <1>1, <3>2, NoMsgTyped
    <3>3. ASSUME NEW i \in Ids, NEW c \in offers[i], m = Answer(i, c) PROVE m \in Truthful'
      <4>1. c \in Clients
        BY DEF Control, TypeOK
      <4>2. m.c = c /\ m.id = i /\ m.type = "answer"
        BY <3>3 DEF Answer
      <4>3. client'[c].id = i /\ client'[c].status # "unborn"
        BY <1>2, <4>1 DEF TruthInv
      <4> QED BY <4>1, <4>2, <4>3 DEF Truthful
    <3>4. ASSUME NEW i \in Ids, m \in Strays(i), strays' = strays + 1 PROVE m \in Truthful'
      <4>1. CASE \E c \in offers[i] : m = Answer(i, c)
        BY <3>3, <4>1
      <4>2. CASE m \in {Answer(i, NoClient), BareAnswer(i), Malformed(i)}
        <5>1. m.c \notin Clients
          BY <4>2, NoClientIsNone DEF Answer, BareAnswer, Malformed
        <5>2. strays' # 0
          BY <3>4, StreamerAssumption DEF Control, TypeOK, StreamerAssumption
        <5> QED BY <5>1, <5>2 DEF Truthful
      <4> QED BY <3>4, <4>1, <4>2 DEF Strays
    <3> QED BY <2>1, <3>1, <3>2, <3>3, <3>4 DEF Arrives
  <2>2. CASE sigQ'.items = sigQ.items
    BY <1>1, <2>2
  <2>3. CASE sigQ.items # << >> /\ sigQ'.items = Tail(sigQ.items)
    BY <1>1, <2>3, PushPop
  <2>4. ASSUME NEW m \in Sendable, Arrives(m), sigQ'.items = Append(sigQ.items, m)
        PROVE  sigQ'.items \in Seq(Truthful')
    BY <1>1, <2>1, <2>4, PushPop
  <2> QED BY <2>2, <2>3, <2>4, MessagesMove
<1>5. out'.msg \in Truthful' \cup {NoMsg}
  <2>1. ASSUME NEW i \in Ids, OutTake(i) PROVE out'.msg \in Truthful'
    <3>1. registry[i] \in Clients
      BY <2>1 DEF OutTake, Control, TypeOK, TraversalIsSafe, Traversing
    <3>2. out'.msg \in Own(registry[i])'
      BY <1>1, <2>1, <3>1, PushPop DEF OutTake
    <3> QED BY <3>2 DEF Own
  <2> QED BY <1>1, <2>1, MessagesMove
<1>6. sig'.msg \in Truthful' \cup {NoMsg}
  BY <1>1, PushPop, MessagesMove
<1>7. ASSUME NEW i \in Ids, NEW c \in offers'[i]
      PROVE  client'[c].id = i /\ client'[c].status # "unborn"
  <2>1. offers[i] \subseteq Clients
    BY DEF Control, TypeOK
  <2>2. CASE c \in offers[i]
    BY <1>2, <2>1, <2>2 DEF TruthInv
  <2>3. CASE c \notin offers[i]
    <3>1. SigSend /\ i = sig.msg.id /\ c = sig.msg.c
      BY <1>7, <2>3, MessagesMove
    <3>2. sig.msg.type = "offer" /\ sig.msg \in Truthful'
      BY <1>1, <3>1 DEF SigSend, Handling, NoMsg
    <3> QED BY <3>1, <3>2 DEF Truthful, Sendable
  <2> QED BY <2>2, <2>3
<1> QED BY <1>3, <1>4, <1>5, <1>6, <1>7 DEF TruthInv

-----------------------------------------------------------------------------
(* A peer's first Client.                                                   *)

\* Clients are born in order, the one that is made is the youngest, answers
\* wait for registered Clients only, and as long as a Client is registered no
\* younger one of the same peer gets into the map or gets a connection.
BirthInv ==
    /\ \A c, d \in Clients :
          d < c /\ client[c].status # "unborn" => client[d].status # "unborn"
    /\ \A c, d \in Clients :
          c < d /\ client[c].status = "made" => client[d].status = "unborn"
    /\ \A c \in Clients : client[c].status # "registered" => client[c].inQ = << >>
    /\ \A c, d \in Clients :
          c < d /\ client[c].status = "registered" /\ client[c].id = client[d].id
          => client[d].link = "new" /\ client[d].status # "registered"

\* Every step keeps BirthInv.
LEMMA NextBirth ==
    ASSUME Control, Control', FlowInv, BirthInv, [Next]_vars PROVE BirthInv'
<1>1. ASSUME NEW c \in Clients, NEW d \in Clients, d < c, client'[c].status # "unborn"
      PROVE  client'[d].status # "unborn"
  <2>1. client[d].status # "unborn"
    BY <1>1, ClientMoves DEF BirthInv
  <2> QED BY <2>1, ClientMoves
<1>2. ASSUME NEW c \in Clients, NEW d \in Clients, c < d, client'[c].status = "made"
      PROVE  client'[d].status = "unborn"
  <2>1. sig'.made = c /\ c # d
    BY <1>2 DEF Control, RegistryIsLive, Clients
  <2>2. client[d].status = "unborn"
    BY <1>2, ClientMoves DEF BirthInv
  <2> QED BY <2>1, <2>2, ClientMoves
<1>3. ASSUME NEW c \in Clients, client'[c].status # "registered"
      PROVE  client'[c].inQ = << >>
  <2> SUFFICES ASSUME client'[c].inQ # << >> PROVE FALSE
    OBVIOUS
  <2>1. client[c].inQ # << >> /\ client'[c].status \in {client[c].status, "made"}
    BY <1>3, ClientMoves
  <2>2. client[c].status = "registered"
    BY <2>1 DEF BirthInv
  <2> QED BY <1>3, <2>1, <2>2, ClientMoves
<1>4. ASSUME NEW c \in Clients, NEW d \in Clients, c < d, client'[c].status = "registered",
             client'[c].id = client'[d].id
      PROVE  client'[d].link = "new" /\ client'[d].status # "registered"
  <2>1. CASE client[d].status = "unborn"
    <3>1. client[d].link = "new"
      BY <2>1 DEF FlowInv
    <3> QED BY <2>1, <3>1, ClientMoves DEF Alive
  <2>2. CASE client[d].status # "unborn"
    <3>1. client[c].status = "registered"
      <4>1. client[c].status # "made"
        BY <1>4, <2>2 DEF BirthInv
      <4> QED BY <1>4, <4>1, ClientMoves
    <3>2. client'[c].id = client[c].id /\ client'[d].id = client[d].id
      BY <2>2, <3>1, ClientMoves
    <3>3. client[d].link = "new" /\ client[d].status # "registered" /\ client[d].inQ = << >>
      BY <1>4, <3>1, <3>2 DEF BirthInv
    <3>4. client'[d].link = "new"
      BY <3>3, ClientMoves
    <3>5. registry[client[d].id] # NoClient
      <4>1. registry[client[c].id] = c
        BY <3>1 DEF Control, RegistryIsLive
      <4>2. client[c].id = client[d].id
        BY <1>4, <3>2
      <4> QED BY <4>1, <4>2, NoClientIsNone
    <3> QED BY <3>3, <3>4, <3>5, ClientMoves
  <2> QED BY <2>1, <2>2
<1> QED BY <1>1, <1>2, <1>3, <1>4 DEF BirthInv

\* Every step keeps FirstClientPersists: the disconnect that erases a peer's
\* first Client is its own, since no other Client of the peer had anything to
\* say.
LEMMA NextFirst ==
    ASSUME Control, FlowInv, TruthInv, BirthInv, FirstClientPersists, [Next]_vars
    PROVE  FirstClientPersists'
<1> SUFFICES ASSUME NEW c \in Clients, client'[c].status = "erased",
                    \A d \in Clients : d < c => client'[d].id # client'[c].id
             PROVE  client'[c].link \in Ended
  BY DEF FirstClientPersists
<1>1. \A d \in Clients : client[d].status # "unborn" => client'[d].id = client[d].id
  <2> TAKE d \in Clients
  <2> QED BY ClientMoves
<1>2. client[c].link \in Ended => client'[c].link \in Ended
  BY ClientMoves DEF Ended
<1>3. CASE client[c].status = "erased"
  <2>1. \A d \in Clients : d < c => client[d].id # client[c].id
    BY <1>1, <1>3 DEF BirthInv
  <2> QED BY <1>2, <1>3, <2>1 DEF FirstClientPersists
<1>4. CASE client[c].status # "erased"
  <2>1. SigErase /\ registry[sig.msg.id] = c /\ client[c].status = "registered"
    BY <1>4, ClientMoves
  <2>2. sig.msg \in Sendable /\ sig.msg.type = "disconnect" /\ sig.msg.id \in Ids
    BY <2>1 DEF SigErase, EraseEntry, Handling, Control, MessageInv, Sendable
  <2>3. client[c].id = sig.msg.id
    BY <2>1, <2>2, NoClientIsNone DEF Control, RegistryIsLive
  <2> DEFINE e == sig.msg.c
  <2>4. e \in Clients /\ client[e].link \in Ended /\ client[e].id = sig.msg.id
    BY <2>2, NoMsgTyped DEF TruthInv, Truthful, Sendable
  <2>5. client[e].status # "unborn"
    BY <2>4 DEF FlowInv, Ended
  <2>6. ~(e < c)
    BY <1>1, <2>1, <2>3, <2>4, <2>5
  <2>7. ~(c < e)
    BY <2>1, <2>3, <2>4 DEF BirthInv, Ended
  <2>8. e = c
    BY <2>4, <2>6, <2>7, StreamerAssumption DEF Clients, StreamerAssumption
  <2> QED BY <1>2, <2>4, <2>8
<1> QED BY <1>3, <1>4

\* A Client that is its peer's first is erased only after its connection has
\* ended: disconnects that come late, or twice, hit later Clients only.
THEOREM FirstClientsPersist == Spec => []FirstClientPersists
<1>1. Init => TruthInv /\ BirthInv /\ FirstClientPersists
  <2> SUFFICES ASSUME Init PROVE TruthInv /\ BirthInv /\ FirstClientPersists
    OBVIOUS
  <2>1. TruthInv
    BY EmptySeq DEF Init, TruthInv, Unborn
  <2> QED BY <2>1 DEF Init, BirthInv, FirstClientPersists, Unborn
<1> QED
  BY <1>1, NextTruth, NextBirth, NextFirst, AlwaysControl, AlwaysFlow, PTL DEF Spec

-----------------------------------------------------------------------------
(* One answer for one offer.                                                *)

\* Message m carries the handshake of Client d: its offer, or the answer to it.
Handshake(m, d) == m.type \in {"offer", "answer"} /\ m.c = d
Has(q, d) == \E k \in DOMAIN q : Handshake(q[k], d)
Once(q, d) == \A j, k \in DOMAIN q : Handshake(q[j], d) /\ Handshake(q[k], d) => j = k

\* Where the handshake of Client d is.
Places(d) ==
    {p \in {"client", "outQ", "out", "sigQ", "sig", "peer", "inQ", "done"} :
        \/ p = "client" /\ ~client[d].gathered
        \/ p = "outQ" /\ Has(client[d].outQ, d)
        \/ p = "out" /\ Handshake(out.msg, d)
        \/ p = "sigQ" /\ Has(sigQ.items, d)
        \/ p = "sig" /\ Handshake(sig.msg, d)
        \/ p = "peer" /\ \E i \in Ids : d \in offers[i]
        \/ p = "inQ" /\ client[d].inQ # << >>
        \/ p = "done" /\ client[d].link # "new"}

\* It is at one place at a time, once, and has not left a Client that has not
\* been in the map.
HandshakeInv(d) ==
    /\ \A p, r \in Places(d) : p = r
    /\ Once(client[d].outQ, d) /\ Once(sigQ.items, d)
    /\ client[d].inQ \in {<< >>, <<d>>}
    /\ client[d].status \in {"unborn", "made", "refused"} => Places(d) \subseteq {"client", "outQ"}

AnswersInv ==
    ClientPersists /\ strays = 0
    => aborted \notin {"answer", "message"} /\ \A d \in Clients : HandshakeInv(d)

ReleasedInv == \A c \in Clients : client[c].status = "released" => main = "done"

\* The handshakes in a queue after a push and after a pop.
LEMMA HandshakeQueue ==
    ASSUME NEW S, NEW q \in Seq(S), NEW d
    PROVE  /\ ~Has(<< >>, d) /\ Once(<< >>, d)
           /\ \A m \in S : Has(Append(q, m), d) => Has(q, d) \/ Handshake(m, d)
           /\ \A m \in S : Once(q, d) /\ ~(Has(q, d) /\ Handshake(m, d))
                           => Once(Append(q, m), d)
           /\ q # << >> =>
                 /\ Has(Tail(q), d) => Has(q, d)
                 /\ Once(q, d) => Once(Tail(q), d)
                 /\ Handshake(Head(q), d) => Has(q, d)
                 /\ Once(q, d) /\ Handshake(Head(q), d) => ~Has(Tail(q), d)
<1>1. ~Has(<< >>, d) /\ Once(<< >>, d)
  BY DEF Has, Once
<1>2. ASSUME NEW m \in S
      PROVE  /\ DOMAIN Append(q, m) = 1 .. (Len(q) + 1) /\ DOMAIN q = 1 .. Len(q)
             /\ Len(q) \in Nat
             /\ \A k \in 1 .. Len(q) : Append(q, m)[k] = q[k]
             /\ Append(q, m)[Len(q) + 1] = m
  BY AppendProperties
<1>3. ASSUME NEW m \in S, Has(Append(q, m), d) PROVE Has(q, d) \/ Handshake(m, d)
  BY <1>2, <1>3 DEF Has
<1>4. ASSUME NEW m \in S, Once(q, d), ~(Has(q, d) /\ Handshake(m, d))
      PROVE  Once(Append(q, m), d)
  BY <1>2, <1>4 DEF Has, Once
<1>5. ASSUME q # << >>
      PROVE  /\ Has(Tail(q), d) => Has(q, d)
             /\ Once(q, d) => Once(Tail(q), d)
             /\ Handshake(Head(q), d) => Has(q, d)
             /\ Once(q, d) /\ Handshake(Head(q), d) => ~Has(Tail(q), d)
  <2>1. /\ DOMAIN q = 1 .. Len(q) /\ Len(q) \in Nat /\ Len(q) > 0 /\ Head(q) = q[1]
        /\ DOMAIN Tail(q) = 1 .. (Len(q) - 1)
        /\ \A k \in 1 .. (Len(q) - 1) : Tail(q)[k] = q[k + 1]
    BY <1>5, HeadTailProperties, EmptySeq
  <2> QED BY <2>1 DEF Has, Once
<1> QED BY <1>1, <1>3, <1>4, <1>5

\* Erased Clients stay erased with their connections as they are.
LEMMA PersistsBackwards == Control /\ [Next]_vars /\ ClientPersists' => ClientPersists
<1> SUFFICES ASSUME Control, [Next]_vars, ClientPersists',
                    NEW d \in Clients, client[d].status = "erased"
             PROVE  client[d].link \in Ended
  BY DEF ClientPersists
<1>1. client'[d].status = "erased" /\ client'[d].link = client[d].link
  BY ClientMoves DEF Alive
<1> QED BY <1>1 DEF ClientPersists

\* Clients are released by the last step of the destructor.
LEMMA NextReleased == Control /\ ReleasedInv /\ [Next]_vars => ReleasedInv'
<1> SUFFICES ASSUME Control, ReleasedInv, [Next]_vars,
                    NEW c \in Clients, client'[c].status = "released"
             PROVE  main' = "done"
  BY DEF ReleasedInv
<1>1. CASE client[c].status = "released"
  <2>1. main = "done"
    BY <1>1 DEF ReleasedInv
  <2> QED
    BY <2>1
    DEF Next, vars, Callbacks, GatherDone, LinkLost, LinkClosed, ClientThr,
        WebSocket, WsConnected, WsDrop, OnClosed, Reopen, Peer, PeerRequest, PeerAnswer,
        PeerStray, Out, OutTop, OutPush, OutEnd, OutTake, OutTimeout, SigWrite, SigEmplace,
        SigErase, EraseEntry, SigRun, SigStart, SigLoop, SigPop, SigMake, SigAnswer,
        SigBareAnswer, SigMalformed, SigSend, SigJoin, SetTerm, Shutdown, StopQueue, CloseWs,
        JoinSig, Release
<1>2. CASE client[c].status # "released"
  BY <1>2, ClientMoves DEF Release
<1> QED BY <1>1, <1>2

\* An answer is passed to the Client whose offer it answers: the message names
\* an id, and the Client that holds the id now is the one that made the offer.
LEMMA AnswerFinds ==
    ASSUME Control, TruthInv, ReleasedInv, ClientPersists, strays = 0,
           \A c \in Clients : HandshakeInv(c), SigAnswer, NEW d \in Clients,
           registry[sig.msg.id] = d
    PROVE  sig.msg.c = d
<1> DEFINE c == sig.msg.c
<1>1. sig.msg \in Sendable /\ sig.msg.type = "answer" /\ sig.pc = "handle"
  BY DEF SigAnswer, Handling, Control, MessageInv
<1>2. c \in Clients /\ client[c].id = sig.msg.id /\ client[c].status # "unborn"
  BY <1>1, NoMsgTyped DEF TruthInv, Truthful, Sendable
<1>3. "sig" \in Places(c)
  BY <1>1 DEF Places, Handshake
<1>4. client[c].status \notin {"unborn", "made", "refused"}
  BY <1>2, <1>3 DEF HandshakeInv
<1>5. client[c].status # "released"
  BY <1>1, <1>2 DEF ReleasedInv, Control, OrderInv
<1>6. client[c].status # "erased"
  <2>1. client[c].link \in Ended => "done" \in Places(c)
    BY DEF Places, Ended
  <2> QED BY <1>2, <1>3, <2>1 DEF HandshakeInv, ClientPersists
<1>7. client[c].status = "registered"
  BY <1>2, <1>4, <1>5, <1>6 DEF Control, TypeOK, ClientStates
<1> QED BY <1>2, <1>7 DEF Control, RegistryIsLive

\* The handshake of Client d comes to a place, and leaves one.
Comes(d, p) == p \in Places(d)' /\ p \notin Places(d)
Leaves(d, p) == p \in Places(d) /\ p \notin Places(d)'

\* It goes round: from the Client to its queue, signalingThreadOut,
\* _signalingQueue, _signalingThr, the peer, and as an answer from the peer by
\* _signalingQueue and _signalingThr to the Client's other queue and its thread.
LEMMA HandshakeMoves ==
    ASSUME Control, TruthInv, [Next]_vars, strays' = 0, NEW d \in Clients, HandshakeInv(d),
           SigAnswer /\ registry[sig.msg.id] = d => sig.msg.c = d
    PROVE  /\ ~Comes(d, "client")
           /\ Comes(d, "outQ") => Leaves(d, "client")
           /\ Comes(d, "out") => Leaves(d, "outQ") /\ client[d].status = "registered"
           /\ Comes(d, "sigQ") => Leaves(d, "out") \/ Leaves(d, "peer")
           /\ Comes(d, "sig") => Leaves(d, "sigQ")
           /\ Comes(d, "peer") => Leaves(d, "sig") /\ sig.msg.type = "offer"
           /\ Comes(d, "inQ") => Leaves(d, "sig") /\ sig.msg.type = "answer"
           /\ Comes(d, "done") => Leaves(d, "inQ")
           /\ Once(client'[d].outQ, d) /\ Once(sigQ'.items, d)
<1> DEFINE i == client[d].id
<1>1. client[d].outQ \in Seq(Sendable) /\ sigQ.items \in Seq(Sendable)
  BY DEF Control, MessageInv
<1>2. /\ Once(client[d].outQ, d) /\ Once(sigQ.items, d)
      /\ \A p, r \in Places(d) : p = r
  BY DEF HandshakeInv
<1>3. ~Comes(d, "client")
  BY ClientMoves DEF Comes, Places
<1>4. (Comes(d, "outQ") => Leaves(d, "client")) /\ Once(client'[d].outQ, d)
  <2>1. CASE client'[d].outQ \in {client[d].outQ, << >>}
    BY <1>1, <1>2, <2>1, HandshakeQueue DEF Comes, Places
  <2>2. CASE client[d].outQ # << >> /\ client'[d].outQ = Tail(client[d].outQ)
    BY <1>1, <1>2, <2>2, HandshakeQueue DEF Comes, Places
  <2>3. CASE /\ Alive(d) /\ ~client[d].gathered /\ client'[d].gathered
             /\ client'[d].outQ = Append(client[d].outQ, Offer(i, d))
    <3>1. "client" \in Places(d) /\ "client" \notin Places(d)'
      BY <2>3 DEF Places
    <3>2. "outQ" \notin Places(d)
      BY <1>2, <3>1
    <3>3. ~Has(client[d].outQ, d)
      BY <3>2 DEF Places
    <3>4. Offer(i, d) \in Sendable
      BY <2>3, MessagesSendable DEF Control, MadeInv
    <3> QED BY <1>1, <1>2, <2>3, <3>1, <3>3, <3>4, HandshakeQueue DEF Leaves
  <2>4. CASE Alive(d) /\ client'[d].outQ = Append(client[d].outQ, Disconnect(i, d))
    <3>1. Disconnect(i, d) \in Sendable /\ ~Handshake(Disconnect(i, d), d)
      BY <2>4, MessagesSendable DEF Control, MadeInv, Handshake, Disconnect
    <3> QED BY <1>1, <1>2, <2>4, <3>1, HandshakeQueue DEF Comes, Places
  <2> QED BY <2>1, <2>2, <2>3, <2>4, ClientMoves
<1>5. Comes(d, "out") => Leaves(d, "outQ") /\ client[d].status = "registered"
  <2> SUFFICES ASSUME Comes(d, "out") PROVE Leaves(d, "outQ") /\ client[d].status = "registered"
    OBVIOUS
  <2>1. Handshake(out'.msg, d) /\ ~Handshake(out.msg, d)
    BY DEF Comes, Places
  <2>2. PICK j \in Ids : OutTake(j)
    BY <2>1, MessagesMove DEF Handshake, NoMsg
  <2>3. registry[j] \in Clients /\ client[registry[j]].outQ # << >>
        /\ client[registry[j]].status = "registered"
    BY <2>2 DEF OutTake, Control, TypeOK, TraversalIsSafe, Traversing, RegistryIsLive
  <2>4. out'.msg \in Own(registry[j])
    BY <2>2, <2>3, PushPop DEF OutTake, TruthInv
  <2>5. registry[j] = d
    BY <2>1, <2>4 DEF Own, Handshake
  <2>6. out'.msg = Head(client[d].outQ) /\ client'[d].outQ = Tail(client[d].outQ)
    BY <2>2, <2>5 DEF OutTake, Control, TypeOK, ClientStates
  <2>7. Has(client[d].outQ, d) /\ ~Has(client'[d].outQ, d)
    BY <1>1, <1>2, <2>1, <2>3, <2>5, <2>6, HandshakeQueue
  <2> QED BY <2>3, <2>5, <2>7 DEF Leaves, Places
<1>6. (Comes(d, "sigQ") => Leaves(d, "out") \/ Leaves(d, "peer")) /\ Once(sigQ'.items, d)
  <2>1. CASE sigQ'.items = sigQ.items
    BY <1>2, <2>1 DEF Comes, Places
  <2>2. CASE sigQ.items # << >> /\ sigQ'.items = Tail(sigQ.items)
    BY <1>1, <1>2, <2>2, HandshakeQueue DEF Comes, Places
  <2>3. ASSUME NEW m \in Sendable, Arrives(m), sigQ'.items = Append(sigQ.items, m)
        PROVE  (Comes(d, "sigQ") => Leaves(d, "out") \/ Leaves(d, "peer")) /\ Once(sigQ'.items, d)
    <3>1. CASE ~Handshake(m, d)
      BY <1>1, <1>2, <2>3, <3>1, HandshakeQueue DEF Comes, Places
    <3>2. CASE Handshake(m, d)
      <4>1. Leaves(d, "out") \/ Leaves(d, "peer")
        <5>1. CASE m = out.msg /\ out'.msg = NoMsg
          BY <3>2, <5>1 DEF Leaves, Places, Handshake, NoMsg
        <5>2. ASSUME NEW j \in Ids, NEW c \in offers[j], m = Answer(j, c),
                     offers' = [offers EXCEPT ![j] = @ \ {c}]
              PROVE  Leaves(d, "peer")
          <6>1. c = d
            BY <3>2, <5>2 DEF Handshake, Answer
          <6>2. \A k \in Ids : d \in offers[k] => k = j
            BY <6>1 DEF TruthInv
          <6>3. \A k \in Ids : d \notin offers'[k]
            BY <5>2, <6>1, <6>2 DEF Control, TypeOK
          <6> QED BY <6>1, <6>3 DEF Leaves, Places
        <5>3. strays' # strays + 1
          BY StreamerAssumption DEF Control, TypeOK, StreamerAssumption
        <5> QED BY <2>3, <3>2, <5>1, <5>2, <5>3 DEF Arrives, Handshake
      <4>2. "sigQ" \notin Places(d)
        BY <1>2, <4>1 DEF Leaves
      <4>3. ~Has(sigQ.items, d)
        BY <4>2 DEF Places
      <4> QED BY <1>1, <1>2, <2>3, <4>1, <4>3, HandshakeQueue
    <3> QED BY <3>1, <3>2
  <2> QED BY <2>1, <2>2, <2>3, MessagesMove
<1>7. Comes(d, "sig") => Leaves(d, "sigQ")
  <2> SUFFICES ASSUME Comes(d, "sig") PROVE Leaves(d, "sigQ")
    OBVIOUS
  <2>1. Handshake(sig'.msg, d) /\ ~Handshake(sig.msg, d)
    BY DEF Comes, Places
  <2>2. /\ sigQ.items # << >> /\ sigQ'.items = Tail(sigQ.items)
        /\ sig'.msg = Head(sigQ.items)
    BY <2>1, MessagesMove DEF Handshake, NoMsg
  <2> QED BY <1>1, <1>2, <2>1, <2>2, HandshakeQueue DEF Leaves, Places
<1>8. Comes(d, "peer") => Leaves(d, "sig") /\ sig.msg.type = "offer"
  <2> SUFFICES ASSUME Comes(d, "peer") PROVE Leaves(d, "sig") /\ sig.msg.type = "offer"
    OBVIOUS
  <2>1. PICK j \in Ids : d \in offers'[j] /\ d \notin offers[j]
    BY DEF Comes, Places
  <2>2. SigSend /\ sig'.msg = NoMsg /\ d = sig.msg.c
    BY <2>1, MessagesMove
  <2> QED BY <2>2 DEF SigSend, Handling, Leaves, Places, Handshake, NoMsg
<1>9. Comes(d, "done") => Leaves(d, "inQ")
  <2> SUFFICES ASSUME Comes(d, "done") PROVE Leaves(d, "inQ")
    OBVIOUS
  <2>1. client'[d].link # "new" /\ client[d].link = "new"
    BY DEF Comes, Places
  <2>2. client[d].inQ # << >> /\ client'[d].inQ = Tail(client[d].inQ)
    BY <2>1, ClientMoves
  <2>3. client[d].inQ \in Seq(Clients \cup {NoClient}) /\ Len(client[d].inQ) = 1
    BY <2>2 DEF HandshakeInv, Control, TypeOK, ClientStates
  <2>4. Tail(client[d].inQ) \in Seq(Clients \cup {NoClient}) /\ Len(Tail(client[d].inQ)) = 0
    BY <2>2, <2>3, PushPop
  <2>5. client'[d].inQ = << >>
    BY <2>2, <2>4, EmptySeq
  <2> QED BY <2>2, <2>5 DEF Leaves, Places
<1>10. Comes(d, "inQ") => Leaves(d, "sig") /\ sig.msg.type = "answer"
  <2> SUFFICES ASSUME Comes(d, "inQ") PROVE Leaves(d, "sig") /\ sig.msg.type = "answer"
    OBVIOUS
  <2>1. client'[d].inQ # << >> /\ client[d].inQ = << >>
    BY DEF Comes, Places
  <2>2. SigAnswer /\ registry[sig.msg.id] = d
    BY <2>1, ClientMoves
  <2> QED BY <2>2 DEF SigAnswer, Handling, NextTurn, Leaves, Places, Handshake, NoMsg
<1> QED BY <1>3, <1>4, <1>5, <1>6, <1>7, <1>8, <1>9, <1>10

\* Every step keeps AnswersInv.
LEMMA NextAnswers ==
    Control /\ TruthInv /\ ReleasedInv /\ AnswersInv /\ [Next]_vars => AnswersInv'
<1> SUFFICES ASSUME Control, TruthInv, ReleasedInv, AnswersInv, [Next]_vars, ClientPersists',
                    strays' = 0
             PROVE  aborted' \notin {"answer", "message"} /\ \A d \in Clients : HandshakeInv(d)'
  BY DEF AnswersInv
<1>1. /\ ClientPersists /\ strays = 0 /\ aborted \notin {"answer", "message"}
      /\ \A d \in Clients : HandshakeInv(d)
  BY PersistsBackwards, TruthLasts DEF AnswersInv
<1>2. \A d \in Clients : SigAnswer /\ registry[sig.msg.id] = d => sig.msg.c = d
  BY <1>1, AnswerFinds
<1>3. aborted' \notin {"answer", "message"}
  <2>1. ASSUME NEW c \in Clients, ClientThr(c) PROVE UNCHANGED aborted
    <3>1. "inQ" \in Places(c)
      BY <2>1 DEF ClientThr, Places
    <3>2. "done" \notin Places(c)
      BY <1>1, <3>1 DEF HandshakeInv
    <3>3. client[c].link = "new"
      BY <3>2 DEF Places
    <3>4. Head(client[c].inQ) = c
      BY <1>1, <2>1 DEF HandshakeInv, ClientThr
    <3> QED BY <2>1, <3>3, <3>4, NoClientIsNone DEF ClientThr
  <2>2. ~SigBareAnswer /\ ~SigMalformed
    BY <1>1 DEF SigBareAnswer, SigMalformed, Handling, TruthInv, Truthful, NoMsg
  <2> QED
    BY <1>1, <2>1, <2>2
    DEF Next, vars, Callbacks, GatherDone, LinkLost, LinkClosed,
        WebSocket, WsConnected, WsDrop, OnClosed, Reopen, Peer, PeerRequest, PeerAnswer,
        PeerStray, Out, OutTop, OutPush, OutEnd, OutTake, OutTimeout, SigWrite, SigEmplace,
        SigErase, EraseEntry, SigRun, SigStart, SigLoop, SigPop, SigMake, SigAnswer, SigSend,
        SigJoin, SetTerm, Shutdown, StopQueue, CloseWs, JoinSig, Release
<1>4. ASSUME NEW d \in Clients PROVE HandshakeInv(d)'
  <2>1. HandshakeInv(d) /\ (SigAnswer /\ registry[sig.msg.id] = d => sig.msg.c = d)
    BY <1>1, <1>2
  <2>2. /\ ~Comes(d, "client")
        /\ Comes(d, "outQ") => Leaves(d, "client")
        /\ Comes(d, "out") => Leaves(d, "outQ") /\ client[d].status = "registered"
        /\ Comes(d, "sigQ") => Leaves(d, "out") \/ Leaves(d, "peer")
        /\ Comes(d, "sig") => Leaves(d, "sigQ")
        /\ Comes(d, "peer") => Leaves(d, "sig") /\ sig.msg.type = "offer"
        /\ Comes(d, "inQ") => Leaves(d, "sig") /\ sig.msg.type = "answer"
        /\ Comes(d, "done") => Leaves(d, "inQ")
        /\ Once(client'[d].outQ, d) /\ Once(sigQ'.items, d)
    BY <2>1, HandshakeMoves
  <2>3. \A p \in Places(d)' : p \in {"client", "outQ", "out", "sigQ", "sig", "peer", "inQ", "done"}
    BY DEF Places
  <2>4. \A p, r \in Places(d)' : p = r
    <3>1. \A p, r \in Places(d) : p = r
      BY <2>1 DEF HandshakeInv
    <3> QED BY <2>2, <2>3, <3>1 DEF Comes, Leaves
  <2>5. client'[d].inQ \in {<< >>, <<d>>}
    <3>1. CASE client'[d].inQ \in {client[d].inQ, << >>}
      BY <2>1, <3>1 DEF HandshakeInv
    <3>2. CASE client[d].inQ # << >> /\ client'[d].inQ = Tail(client[d].inQ)
      <4>1. client[d].inQ \in Seq(Clients \cup {NoClient}) /\ Len(client[d].inQ) = 1
        BY <2>1, <3>2 DEF HandshakeInv, Control, TypeOK, ClientStates
      <4>2. Tail(client[d].inQ) \in Seq(Clients \cup {NoClient}) /\ Len(Tail(client[d].inQ)) = 0
        BY <3>2, <4>1, PushPop
      <4> QED BY <3>2, <4>2, EmptySeq
    <3>3. CASE /\ SigAnswer /\ registry[sig.msg.id] = d
               /\ client'[d].inQ = Append(client[d].inQ, sig.msg.c)
      <4>1. "sig" \in Places(d)
        BY <2>1, <3>3 DEF SigAnswer, Handling, Places, Handshake
      <4>2. "inQ" \notin Places(d)
        BY <2>1, <4>1 DEF HandshakeInv
      <4>3. client[d].inQ = << >>
        BY <4>2 DEF Places
      <4> QED BY <2>1, <3>3, <4>3
    <3> QED BY <3>1, <3>2, <3>3, ClientMoves
  <2>6. ASSUME client'[d].status \in {"unborn", "made", "refused"}
        PROVE  Places(d)' \subseteq {"client", "outQ"}
    <3>1. client[d].status \in {"unborn", "made", "refused"}
      BY <2>6, ClientMoves
    <3>2. Places(d) \subseteq {"client", "outQ"}
      BY <2>1, <3>1 DEF HandshakeInv
    <3> QED BY <2>2, <2>3, <3>1, <3>2 DEF Comes, Leaves
  <2> QED BY <2>2, <2>4, <2>5, <2>6 DEF HandshakeInv
<1> QED BY <1>3, <1>4

\* As long as peers answer an offer once and in words that can be read, a Client is
\* handed its own offer's answer, once: answers go astray, or reach a Client that
\* has one and end the program, only after a Client was erased by the disconnect of
\* another.
THEOREM AnswersFindTheirOffers == Spec => []AnswersMatch
<1>1. Init => TruthInv /\ ReleasedInv /\ AnswersInv
  <2> SUFFICES ASSUME Init PROVE TruthInv /\ ReleasedInv /\ AnswersInv
    OBVIOUS
  <2>1. TruthInv
    BY EmptySeq DEF Init, TruthInv, Unborn
  <2>2. ASSUME NEW d \in Clients PROVE HandshakeInv(d)
    <3>1. Places(d) = {"client"}
      BY DEF Init, Unborn, Places, Has, Handshake, NoMsg
    <3> QED BY <3>1 DEF Init, Unborn, HandshakeInv, Once
  <2> QED BY <2>1, <2>2 DEF Init, Unborn, ReleasedInv, AnswersInv
<1>2. AnswersInv => AnswersMatch
  BY DEF AnswersInv, HandshakeInv, AnswersMatch, AnswersMeetOffers
<1> QED BY <1>1, <1>2, NextTruth, NextReleased, NextAnswers, AlwaysControl, PTL DEF Spec
=============================================================================
