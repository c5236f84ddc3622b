--------------------------- MODULE ClientLifecycle ---------------------------
(***************************************************************************)
(* The end of a WebRTCStreamer::Client: its destructor against the threads *)
(* of libdatachannel that are still at work for its rtc::PeerConnection.   *)
(*                                                                         *)
(* Threads:  owner      the thread that runs ~Client;                      *)
(*           processor  impl::PeerConnection::mProcessor, which runs its   *)
(*                      tasks one after the other;                         *)
(*           the ICE, DTLS and SCTP transports, which report their ends;   *)
(*           thr        the Client's _signalingThread.                     *)
(*                                                                         *)
(* The Client registers two callbacks, onStateChange and                   *)
(* onGatheringStateChange.  Each is a synchronized_callback: calling,      *)
(* moving and resetting it take its mutex, so whoever resets it waits for  *)
(* a call that is under way.  Both push to _signalingQueueOut.             *)
(*                                                                         *)
(* WebRTCStreamer models what a Client says to the streamer while it is    *)
(* alive; its destructor is one step there, and is taken apart here.       *)
(***************************************************************************)
EXTENDS Naturals, Sequences

CONSTANT OutCap     \* capacity of _signalingQueueOut (32 in the code)

ASSUME LifecycleAssumption == OutCap \in Nat \ {0}

VARIABLES
    conn,     \* the impl::PeerConnection: state, closing, whether gathering is
              \* complete, whether it still has its transports
    cbs,      \* whether the two callbacks are set
    tasks,    \* mProcessor's queue
    proc,     \* what the processor is doing
    closer,   \* how far owner and processor are in closeTransports
    net,      \* the transports
    owner,    \* how far ~Client is
    thr,      \* where _signalingThread is
    answer,   \* the answer of the peer, from its offer on
    outQ,     \* _signalingQueueOut
    reports   \* history: the ends that onStateChange was called for

vars == <<conn, cbs, tasks, proc, closer, net, owner, thr, answer, outQ, reports>>

Transports == {"ice", "dtls", "sctp"}
Lost == {"disconnected", "failed"}
Threads == {"owner", "processor"}

\* The constructor has returned: gathering is under way, ICE exists.
Init ==
    /\ conn = [state |-> "new", closing |-> FALSE, gathered |-> FALSE, links |-> TRUE]
    /\ cbs = [state |-> TRUE, gathering |-> TRUE]
    /\ tasks = << >>
    /\ proc = "idle"
    /\ closer = [t \in Threads |-> "no"]
    /\ net = [n \in Transports |-> IF n = "ice" THEN "on" ELSE "off"]
    /\ owner = "use" /\ thr = "top" /\ answer = "none"
    /\ outQ = << >> /\ reports = << >>

\* Faulty variants: the queue of the callbacks is never stopped.
OutNeverStopped == FALSE

\* ~Client's progress, as others see it: _do_term is set, the queues are
\* stopped, _signalingQueueOut is destroyed, the PeerConnection is released.
Term == owner # "use"
InStopped == owner \notin {"use", "stopIn"}
OutStopped == owner \notin {"use", "stopIn", "stopOut"}
QueueGone == owner \in {"drop", "dropping", "gone"}
Released == owner \in {"dropping", "gone"}

\* Faulty variant: a push that never waits.
PushUnbounded(m) ==
    IF OutStopped THEN UNCHANGED outQ ELSE outQ' = Append(outQ, m)

\* _signalingQueueOut.push(m)
Push(m) ==
    IF OutStopped THEN UNCHANGED outQ
    ELSE Len(outQ) < OutCap /\ outQ' = Append(outQ, m)

\* PeerConnection::changeState(s), up to its compare_exchange, for an s other
\* than Closed.  Closed is final.
Changed(s) == IF conn.state = "closed" THEN "closed" ELSE s

\* Transport n has ended in s and calls changeState(s).  A state that is new is
\* still to be told (net[n] = s), otherwise changeState has returned false.
EndIn(n, s) ==
    /\ conn' = [conn EXCEPT !.state = Changed(s)]
    /\ net' = [net EXCEPT ![n] = IF conn.state \in {"closed", s} THEN "report" ELSE s]

\* The callback of a transport, which is under way from EndIn on, holds a mutex.
Reporting == Lost \cup {"report"}

-----------------------------------------------------------------------------
(* Faulty variants of the definitions below, each a slip that the code does  *)
(* not make.  They take no part in Next: the properties are tested on them.  *)

\* Callbacks are reset without waiting for one that runs.
ResetAtOnce(t) ==
    /\ closer[t] = "reset" /\ \A n \in Transports : net[n] \notin Reporting
    /\ cbs' = [cbs EXCEPT !.gathering = FALSE]
    /\ conn' = [conn EXCEPT !.links = FALSE]
    /\ closer' = [closer EXCEPT ![t] = "no"]
    /\ IF t = "owner" THEN owner' = (IF owner = "closing" THEN "join" ELSE "gone") /\ UNCHANGED proc
       ELSE proc' = "idle" /\ UNCHANGED owner
    /\ UNCHANGED <<tasks, net, thr, answer, outQ, reports>>

\* onStateChange is called for Closed, and stays set.
StealNot(t) ==
    /\ closer[t] = "steal"
    /\ t = "processor" \/ proc # "state"
    /\ closer' = [closer EXCEPT ![t] = "call"]
    /\ reports' = Append(reports, "closed")
    /\ UNCHANGED <<conn, cbs, tasks, proc, net, owner, thr, answer, outQ>>

\* ~Client closes nothing: its thread is joined and the members go.
OwnerCloseNot ==
    /\ owner = "close"
    /\ owner' = "join"
    /\ UNCHANGED <<conn, cbs, tasks, proc, closer, net, thr, answer, outQ, reports>>

\* onStateChange is dropped when the connection closes, without a last call.
StealSilently(t) ==
    /\ closer[t] = "steal"
    /\ t = "processor" \/ proc # "state"
    /\ cbs' = [cbs EXCEPT !.state = FALSE]
    /\ closer' = [closer EXCEPT ![t] = "reset"]
    /\ UNCHANGED <<conn, tasks, proc, net, owner, thr, answer, outQ, reports>>

-----------------------------------------------------------------------------
(* The streamer's use of the Client, and the Client's thread.               *)

\* signalingGet: an offer that is taken reaches the peer, which may answer.
Collect ==
    /\ owner = "use" /\ outQ # << >>
    /\ outQ' = Tail(outQ)
    /\ answer' = IF Head(outQ) = "offer" /\ answer = "none" THEN "asked" ELSE answer
    /\ UNCHANGED <<conn, cbs, tasks, proc, closer, net, owner, thr, reports>>

\* signalingSet
Deliver ==
    /\ owner = "use" /\ answer = "asked"
    /\ answer' = "waiting"
    /\ UNCHANGED <<conn, cbs, tasks, proc, closer, net, owner, thr, outQ, reports>>

\* while (!_do_term)
ThrTop ==
    /\ thr = "top"
    /\ thr' = IF Term THEN "done" ELSE "pop"
    /\ UNCHANGED <<conn, cbs, tasks, proc, closer, net, owner, answer, outQ, reports>>

\* _signalingQueueIn.pop()
ThrPop ==
    /\ thr = "pop"
    /\ \/ answer = "waiting" /\ answer' = "taken" /\ thr' = "apply"
       \/ answer # "waiting" /\ InStopped /\ thr' = "top" /\ UNCHANGED answer
    /\ UNCHANGED <<conn, cbs, tasks, proc, closer, net, owner, outQ, reports>>

\* setRemoteDescription, which lets ICE connect.
ThrApply ==
    /\ thr = "apply"
    /\ answer' = "applied" /\ thr' = "top"
    /\ UNCHANGED <<conn, cbs, tasks, proc, closer, net, owner, outQ, reports>>

Thr == ThrTop \/ ThrPop \/ ThrApply

-----------------------------------------------------------------------------
(* The transports.                                                          *)

\* ICE has gathered: changeGatheringState(Complete).  This report of ICE is not
\* silenced when the connection closes.
Gathered ==
    /\ ~conn.gathered
    /\ conn' = [conn EXCEPT !.gathered = TRUE]
    /\ tasks' = Append(tasks, "gathered")
    /\ UNCHANGED <<cbs, proc, closer, net, owner, thr, answer, outQ, reports>>

\* A transport starts above the one below it, unless the PeerConnection is
\* closing (see emplaceTransport).
Above == [n \in {"ice", "dtls"} |-> IF n = "ice" THEN "dtls" ELSE "sctp"]
Start(n) ==
    /\ conn.links /\ ~conn.closing /\ answer = "applied"
    /\ net[n] = "on" /\ net[Above[n]] = "off"
    /\ net' = [net EXCEPT ![Above[n]] = IF n = "ice" THEN "on" ELSE "connecting"]
    /\ UNCHANGED <<conn, cbs, tasks, proc, closer, owner, thr, answer, outQ, reports>>

\* SCTP is connected, and with it the PeerConnection.
Connected ==
    /\ conn.links /\ net["sctp"] = "connecting"
    /\ net' = [net EXCEPT !["sctp"] = "on"]
    /\ conn' = [conn EXCEPT !.state = Changed("connected")]
    /\ UNCHANGED <<cbs, tasks, proc, closer, owner, thr, answer, outQ, reports>>

\* A transport reports its end: changeState, up to its compare_exchange ...
Lose(n, s) ==
    /\ conn.links /\ answer = "applied" /\ net[n] \in {"connecting", "on"}
    /\ EndIn(n, s)
    /\ UNCHANGED <<cbs, tasks, proc, closer, owner, thr, answer, outQ, reports>>

\* ... the rest of changeState, which has the new state told ...
LoseTell(n) ==
    /\ net[n] \in Lost
    /\ net' = [net EXCEPT ![n] = "report"]
    /\ tasks' = Append(tasks, net[n])
    /\ UNCHANGED <<conn, cbs, proc, closer, owner, thr, answer, outQ, reports>>

\* ... and remoteClose, on the processor.
LoseClose(n) ==
    /\ net[n] = "report"
    /\ net' = [net EXCEPT ![n] = "ended"]
    /\ tasks' = Append(tasks, "remoteClose")
    /\ UNCHANGED <<conn, cbs, proc, closer, owner, thr, answer, outQ, reports>>

-----------------------------------------------------------------------------
(* PeerConnection::closeTransports, run by thread t.                        *)

\* changeState(Closed) succeeds.
BeginClosing(t) ==
    /\ conn' = [conn EXCEPT !.state = "closed", !.closing = TRUE]
    /\ closer' = [closer EXCEPT ![t] = "steal"]

\* changeState(Closed) moves the callback out, once no call of it is under way,
\* and calls it.
Steal(t) ==
    /\ closer[t] = "steal"
    /\ t = "processor" \/ proc # "state"
    /\ cbs' = [cbs EXCEPT !.state = FALSE]
    /\ closer' = [closer EXCEPT ![t] = "call"]
    /\ reports' = Append(reports, "closed")
    /\ UNCHANGED <<conn, tasks, proc, net, owner, thr, answer, outQ>>

\* The Client's onStateChange(Closed).
CallClosed(t) ==
    /\ closer[t] = "call"
    /\ Push("disconnect")
    /\ closer' = [closer EXCEPT ![t] = "reset"]
    /\ UNCHANGED <<conn, cbs, tasks, proc, net, owner, thr, answer, reports>>

\* resetCallbacks, and the transports are taken and silenced: both wait for
\* calls under way.
Reset(t) ==
    /\ closer[t] = "reset"
    /\ t = "processor" \/ proc # "gather"
    /\ \A n \in Transports : net[n] \notin Reporting
    /\ cbs' = [cbs EXCEPT !.gathering = FALSE]
    /\ conn' = [conn EXCEPT !.links = FALSE]
    /\ closer' = [closer EXCEPT ![t] = "no"]
    /\ IF t = "owner" THEN owner' = (IF owner = "closing" THEN "join" ELSE "gone") /\ UNCHANGED proc
       ELSE proc' = "idle" /\ UNCHANGED owner
    /\ UNCHANGED <<tasks, net, thr, answer, outQ, reports>>

Close(t) == Steal(t) \/ CallClosed(t) \/ Reset(t)

\* close() of the first to close, when there is an SCTP transport, leaves the
\* rest to SctpTransport::stop.
FirstToStop == ~conn.closing /\ net["sctp"] # "off"

\* SctpTransport::stop reports Failed itself, and before it returns, when SCTP is
\* still connecting and its callback is set; otherwise its end comes later.
EarlyShutdown == conn.links /\ net["sctp"] = "connecting"

-----------------------------------------------------------------------------
(* The processor.                                                           *)

Due(kind) == proc = "idle" /\ tasks # << >> /\ Head(tasks) \in kind

\* trigger(stateChangeCallback), which finds the callback set or not.
RunReport ==
    /\ Due(Lost)
    /\ tasks' = Tail(tasks)
    /\ IF cbs.state THEN proc' = "state" /\ reports' = Append(reports, Head(tasks))
       ELSE UNCHANGED <<proc, reports>>
    /\ UNCHANGED <<conn, cbs, closer, net, owner, thr, answer, outQ>>

\* The Client's onStateChange(Disconnected or Failed).
EndReport ==
    /\ proc = "state"
    /\ Push("disconnect")
    /\ proc' = "idle"
    /\ UNCHANGED <<conn, cbs, tasks, closer, net, owner, thr, answer, reports>>

\* trigger(gatheringStateChangeCallback): the Client's callback does nothing
\* unless its weak_ptr still leads to the PeerConnection, which it then holds.
RunGathered ==
    /\ Due({"gathered"})
    /\ tasks' = Tail(tasks)
    /\ proc' = IF cbs.gathering /\ ~Released THEN "gather" ELSE "idle"
    /\ UNCHANGED <<conn, cbs, closer, net, owner, thr, answer, outQ, reports>>

\* The offer is pushed; a PeerConnection that ~Client has left to this callback
\* is destroyed at its end.
EndGathered ==
    /\ proc = "gather"
    /\ Push("offer")
    /\ IF owner = "gone" /\ conn.state # "closed"
       THEN BeginClosing("processor") /\ proc' = "close"
       ELSE proc' = "idle" /\ UNCHANGED <<conn, closer>>
    /\ UNCHANGED <<cbs, tasks, net, owner, thr, answer, reports>>

\* remoteClose, once its close() has returned.
CloseRest ==
    IF conn.state # "closed"
    THEN BeginClosing("processor") /\ proc' = "close"
    ELSE proc' = "idle" /\ UNCHANGED <<conn, closer>>

\* remoteClose, which calls close() first.
RunRemoteClose ==
    /\ Due({"remoteClose"})
    /\ tasks' = Tail(tasks)
    /\ IF FirstToStop
       THEN conn' = [conn EXCEPT !.closing = TRUE] /\ proc' = "stopping" /\ UNCHANGED closer
       ELSE CloseRest
    /\ UNCHANGED <<cbs, net, owner, thr, answer, outQ, reports>>

\* SctpTransport::stop, on the processor, and its return after a report.
StopOnProcessor ==
    /\ \/ /\ proc = "stopping" /\ EarlyShutdown
          /\ EndIn("sctp", "failed") /\ proc' = "failing" /\ UNCHANGED closer
       \/ /\ \/ proc = "stopping" /\ ~EarlyShutdown
             \/ proc = "failing" /\ net["sctp"] = "ended"
          /\ CloseRest /\ UNCHANGED net
    /\ UNCHANGED <<cbs, tasks, owner, thr, answer, outQ, reports>>

Processor ==
    \/ RunReport \/ EndReport \/ RunGathered \/ EndGathered
    \/ RunRemoteClose \/ StopOnProcessor

-----------------------------------------------------------------------------
(* ~Client.                                                                 *)

\* _do_term = true
Begin ==
    /\ owner = "use" /\ owner' = "stopIn"
    /\ UNCHANGED <<conn, cbs, tasks, proc, closer, net, thr, answer, outQ, reports>>

\* _signalingQueueIn.stop(); _signalingQueueOut.stop()
Stop ==
    /\ \/ owner = "stopIn" /\ owner' = "stopOut"
       \/ owner = "stopOut" /\ owner' = "close"
    /\ UNCHANGED <<conn, cbs, tasks, proc, closer, net, thr, answer, outQ, reports>>

\* _peerConnection->close() leaves the rest to whoever has begun to close, to
\* the SCTP transport when there is one, or does it all.
OwnerClose ==
    /\ owner = "close"
    /\ \/ /\ conn.closing /\ owner' = "join" /\ UNCHANGED <<conn, closer>>
       \/ /\ FirstToStop /\ owner' = "stopping"
          /\ conn' = [conn EXCEPT !.closing = TRUE] /\ UNCHANGED closer
       \/ /\ ~conn.closing /\ net["sctp"] = "off"
          /\ owner' = "closing" /\ BeginClosing("owner")
    /\ UNCHANGED <<cbs, tasks, proc, net, thr, answer, outQ, reports>>

\* SctpTransport::stop, on the thread of ~Client, and its return after a report.
StopOnOwner ==
    /\ \/ /\ owner = "stopping" /\ EarlyShutdown
          /\ EndIn("sctp", "failed") /\ owner' = "failing"
       \/ /\ \/ owner = "stopping" /\ ~EarlyShutdown
             \/ owner = "failing" /\ net["sctp"] = "ended"
          /\ owner' = "join" /\ UNCHANGED <<conn, net>>
    /\ UNCHANGED <<cbs, tasks, proc, closer, thr, answer, outQ, reports>>

\* _signalingThread.join()
Join ==
    /\ owner = "join" /\ thr = "done" /\ owner' = "destroy"
    /\ UNCHANGED <<conn, cbs, tasks, proc, closer, net, thr, answer, outQ, reports>>

\* The members declared after _peerConnection are destroyed, the queues with
\* them.
DestroyQueues ==
    /\ owner = "destroy" /\ owner' = "drop"
    /\ UNCHANGED <<conn, cbs, tasks, proc, closer, net, thr, answer, outQ, reports>>

\* _peerConnection is released: ~PeerConnection calls remoteClose, unless the
\* gathering callback still holds it.
DropConnection ==
    /\ owner = "drop"
    /\ IF conn.state = "closed" \/ proc = "gather"
       THEN owner' = "gone" /\ UNCHANGED <<conn, closer>>
       ELSE BeginClosing("owner") /\ owner' = "dropping"
    /\ UNCHANGED <<cbs, tasks, proc, net, thr, answer, outQ, reports>>

Destructor ==
    Stop \/ OwnerClose \/ StopOnOwner \/ Join \/ DestroyQueues \/ DropConnection
-----------------------------------------------------------------------------
Next ==
    \/ Collect \/ Deliver \/ Thr
    \/ Gathered \/ Connected \/ (\E n \in {"ice", "dtls"} : Start(n))
    \/ \E n \in Transports :
          LoseTell(n) \/ LoseClose(n) \/ \E s \in Lost : Lose(n, s)
    \/ Processor \/ \E t \in Threads : Close(t)
    \/ Begin \/ Destructor

Spec == Init /\ [][Next]_vars

\* Every thread that can run runs.  Nothing makes a connection get lost or a
\* Client be destroyed, and nothing makes the network succeed.
FairSpec ==
    /\ Spec
    /\ WF_vars(Collect) /\ WF_vars(Thr) /\ WF_vars(Processor) /\ WF_vars(Destructor)
    /\ \A t \in Threads : WF_vars(Close(t))
    /\ \A n \in Transports : WF_vars(LoseTell(n) \/ LoseClose(n))

-----------------------------------------------------------------------------
(* Safety.                                                                  *)

ConnStates == [state : {"new", "connected", "closed"} \cup Lost, closing : BOOLEAN,
               gathered : BOOLEAN, links : BOOLEAN]
Tasks == Lost \cup {"gathered", "remoteClose"}
ProcStates == {"idle", "state", "gather", "stopping", "failing", "close"}
CloserStates == {"no", "steal", "call", "reset"}
NetStates == {"off", "connecting", "on", "ended"} \cup Reporting
OwnerStates == {"use", "stopIn", "stopOut", "close", "stopping", "failing", "closing",
                "join", "destroy", "drop", "dropping", "gone"}

TypeOK ==
    /\ conn \in ConnStates
    /\ cbs \in [state : BOOLEAN, gathering : BOOLEAN]
    /\ tasks \in Seq(Tasks)
    /\ proc \in ProcStates
    /\ closer \in [Threads -> CloserStates]
    /\ net \in [Transports -> NetStates]
    /\ owner \in OwnerStates
    /\ thr \in {"top", "pop", "apply", "done"}
    /\ answer \in {"none", "asked", "waiting", "taken", "applied"}
    /\ outQ \in Seq({"offer", "disconnect"}) /\ Len(outQ) <= OutCap
    /\ reports \in Seq(Lost \cup {"closed"})

\* Thread t is in a callback of the Client, before its push.
InCallback(t) ==
    closer[t] = "call" \/ (t = "processor" /\ proc \in {"state", "gather"})

\* When closeTransports has returned, whoever ran it, no callback of the Client
\* is running, and none will be called again.
ClosedIsQuiet ==
    (conn.state = "closed" /\ \A t \in Threads : closer[t] = "no")
        => ~cbs.state /\ ~cbs.gathering /\ \A t \in Threads : ~InCallback(t)

\* A Client whose peer has not answered, as one that emplace refuses, can be
\* destroyed at any moment, also while it gathers: its destructor closes the
\* PeerConnection itself, and no callback meets the destroyed queue.
UnansweredIsSafe ==
    QueueGone /\ answer # "applied" => \A t \in Threads : ~InCallback(t)

\* Closed is the last thing a Client hears of its connection, and it hears it
\* once, whoever closes.
NothingAfterClosed ==
    \A k \in DOMAIN reports : reports[k] = "closed" => k = Len(reports)

\* "Ensures all signaling threads and clients are cleanly terminated": no
\* callback that the destroying thread itself runs meets the destroyed queue.
OwnCallbackSafe == QueueGone => ~InCallback("owner")

\* The same of the callbacks that libdatachannel's processor runs.
LibraryCallbackSafe == QueueGone => ~InCallback("processor")

-----------------------------------------------------------------------------
(* Liveness.                                                                *)

\* ~Client returns, also when it finds a callback blocked in the full queue
\* with the mutex that closing needs.
DestructorEnds == owner = "stopIn" ~> owner = "gone"

\* A Client whose connection is lost, and not yet closed, still has a disconnect
\* to give to the streamer, unless it is destroyed first.
LostIsTold ==
    conn.state \in Lost ~> (Term \/ \E k \in DOMAIN outQ : outQ[k] = "disconnect")
=============================================================================
