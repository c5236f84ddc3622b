--------------------------- MODULE MediaPipeline ---------------------------
(***************************************************************************)
(* The way of a video frame, from src/VideoProducer.cpp through            *)
(* WebRTCStreamer::pushData and _multimediaThr to the tracks of the        *)
(* Clients, and the order in which main takes the threads down.            *)
(*                                                                         *)
(* Threads:  prod  VideoProducer::dummyStreamThr;                          *)
(*           mm    WebRTCStreamer::_multimediaThr;                         *)
(*           main  main and the destructors it runs: streamer is declared  *)
(*                 before videoSource, so ~VideoProducer comes first.      *)
(* The signaling threads appear as what they do to the registry, and       *)
(* libdatachannel as what it does to a track.                              *)
(*                                                                         *)
(* mm holds the registry's mutex shared while mm.pc is "visit" or "send";  *)
(* a Client is inserted or erased only outside of that.                    *)
(***************************************************************************)
EXTENDS Naturals, Sequences

CONSTANTS Ids,        \* peers
          FramesCap,  \* capacity of _framesQueueIn (256 in the code)
          MaxFrames,  \* bound: frames the encoder produces
          NoId        \* no peer

ASSUME PipelineAssumption ==
    /\ FramesCap \in Nat \ {0} /\ MaxFrames \in Nat
    /\ NoId \notin Ids

VARIABLES
    prodTerm,  \* VideoProducer::_do_term
    doTerm,    \* WebRTCStreamer::_do_term
    frames,    \* _framesQueueIn: its frames, by number, and whether it is stopped
    prod,      \* prod: where it is, the last frame it encoded
    mm,        \* mm: where it is, the frame, the peers left, the peer in turn
    track,     \* each peer's Client: "none", or its track "new", "open", "closed"
    got,       \* history: the last frame sent on the track, 0 for none
    main,      \* where main is
    aborted    \* an exception has reached std::terminate

vars == <<prodTerm, doTerm, frames, prod, mm, track, got, main, aborted>>

Init ==
    /\ prodTerm = FALSE /\ doTerm = FALSE
    /\ frames = [items |-> << >>, stopped |-> FALSE]
    /\ prod = [pc |-> "start", frame |-> 0]
    /\ mm = [pc |-> "loop", frame |-> 0, todo |-> {}, peer |-> NoId]
    /\ track = [i \in Ids |-> "none"]
    /\ got = [i \in Ids |-> 0]
    /\ main = "run"
    /\ aborted = FALSE

\* The program still runs.
Up == ~aborted

Traversing == mm.pc \in {"visit", "send"}

\* _signalingThr runs until ~WebRTCStreamer joins it.
Signaling == main \in {"run", "join prod", "set term", "join sig"}

-----------------------------------------------------------------------------
(* Faulty variants of the definitions below, each a slip that the code does  *)
(* not make.  They take no part in Next: the properties are tested on them.  *)

\* A push that never waits, and one that drops the frame that finds no room.
ProdPushUnbounded ==
    /\ Up /\ prod.pc = "push"
    /\ frames' = [frames EXCEPT !.items = Append(@, prod.frame)]
    /\ prod' = [prod EXCEPT !.pc = "loop"]
    /\ UNCHANGED <<prodTerm, doTerm, mm, track, got, main, aborted>>

ProdPushOrDrop ==
    /\ Up /\ prod.pc = "push"
    /\ frames' = IF Len(frames.items) = FramesCap THEN frames
                 ELSE [frames EXCEPT !.items = Append(@, prod.frame)]
    /\ prod' = [prod EXCEPT !.pc = "loop"]
    /\ UNCHANGED <<prodTerm, doTerm, mm, track, got, main, aborted>>

\* Erasing a Client in the middle of a traversal.
UnregisterUnlocked(i) ==
    /\ Up /\ Signaling /\ track[i] # "none"
    /\ track' = [track EXCEPT ![i] = "none"]
    /\ got' = [got EXCEPT ![i] = 0]
    /\ UNCHANGED <<prodTerm, doTerm, frames, prod, mm, main, aborted>>

\* ~WebRTCStreamer joining _multimediaThread without stopping its queue.
StopFramesNot ==
    /\ Up /\ main = "stop frames"
    /\ main' = "join mm"
    /\ UNCHANGED <<prodTerm, doTerm, frames, prod, mm, track, got, aborted>>

-----------------------------------------------------------------------------
(* VideoProducer.                                                           *)

\* The H.264 encoder is missing or does not open: the thread returns.
ProdNoCodec ==
    /\ Up /\ prod.pc = "start"
    /\ prod' = [prod EXCEPT !.pc = "done"]
    /\ UNCHANGED <<prodTerm, doTerm, frames, mm, track, got, main, aborted>>

\* while (!_do_term): encode the next frame.
ProdEncode ==
    /\ Up /\ prod.pc \in {"start", "loop"} /\ ~prodTerm /\ prod.frame < MaxFrames
    /\ prod' = [pc |-> "push", frame |-> prod.frame + 1]
    /\ UNCHANGED <<prodTerm, doTerm, frames, mm, track, got, main, aborted>>

ProdEnd ==
    /\ Up /\ prod.pc \in {"start", "loop"} /\ prodTerm
    /\ prod' = [prod EXCEPT !.pc = "done"]
    /\ UNCHANGED <<prodTerm, doTerm, frames, mm, track, got, main, aborted>>

\* sampleHandler, that is pushData: _publicApiMutex has no other taker, and
\* _framesQueueIn.push waits for room unless the queue is stopped.
ProdPush ==
    /\ Up /\ prod.pc = "push"
    /\ \/ frames.stopped /\ UNCHANGED frames
       \/ /\ ~frames.stopped /\ Len(frames.items) < FramesCap
          /\ frames' = [frames EXCEPT !.items = Append(@, prod.frame)]
    /\ prod' = [prod EXCEPT !.pc = "loop"]
    /\ UNCHANGED <<prodTerm, doTerm, mm, track, got, main, aborted>>

Prod == ProdNoCodec \/ ProdEncode \/ ProdEnd \/ ProdPush

-----------------------------------------------------------------------------
(* _multimediaThr.                                                          *)

\* while (!_do_term)
MmLoop ==
    /\ Up /\ mm.pc = "loop"
    /\ mm' = [mm EXCEPT !.pc = IF doTerm THEN "done" ELSE "pop"]
    /\ UNCHANGED <<prodTerm, doTerm, frames, prod, track, got, main, aborted>>

\* _framesQueueIn.pop()
MmPop ==
    /\ Up /\ mm.pc = "pop"
    /\ \/ /\ frames.items # << >>
          /\ mm' = [mm EXCEPT !.pc = "lock", !.frame = Head(frames.items)]
          /\ frames' = [frames EXCEPT !.items = Tail(@)]
       \/ /\ frames.items = << >> /\ frames.stopped
          /\ mm' = [mm EXCEPT !.pc = "loop"]
          /\ UNCHANGED frames
    /\ UNCHANGED <<prodTerm, doTerm, prod, track, got, main, aborted>>

\* The traversal starts with the registry's mutex held shared.
MmLock ==
    /\ Up /\ mm.pc = "lock"
    /\ mm' = [mm EXCEPT !.pc = "visit", !.todo = {i \in Ids : track[i] # "none"}]
    /\ UNCHANGED <<prodTerm, doTerm, frames, prod, track, got, main, aborted>>

\* sendFrame: videoTrack->isOpen().
MmIsOpen(i) ==
    /\ Up /\ mm.pc = "visit" /\ i \in mm.todo
    /\ mm' = IF track[i] = "open"
             THEN [mm EXCEPT !.pc = "send", !.todo = @ \ {i}, !.peer = i]
             ELSE [mm EXCEPT !.todo = @ \ {i}]
    /\ UNCHANGED <<prodTerm, doTerm, frames, prod, track, got, main, aborted>>

\* sendFrame: videoTrack->sendFrame(...), which throws if the track has closed
\* since, and what it throws is not what is caught.
MmSend ==
    /\ Up /\ mm.pc = "send"
    /\ IF track[mm.peer] = "open"
       THEN /\ got' = [got EXCEPT ![mm.peer] = mm.frame]
            /\ mm' = [mm EXCEPT !.pc = "visit", !.peer = NoId]
            /\ UNCHANGED aborted
       ELSE /\ aborted' = TRUE
            /\ UNCHANGED <<got, mm>>
    /\ UNCHANGED <<prodTerm, doTerm, frames, prod, track, main>>

MmEnd ==
    /\ Up /\ mm.pc = "visit" /\ mm.todo = {}
    /\ mm' = [mm EXCEPT !.pc = "loop"]
    /\ UNCHANGED <<prodTerm, doTerm, frames, prod, track, got, main, aborted>>

Mm == MmLoop \/ MmPop \/ MmLock \/ (\E i \in Ids : MmIsOpen(i)) \/ MmSend \/ MmEnd

-----------------------------------------------------------------------------
(* The registry, as the signaling thread changes it, and the tracks.        *)

Register(i) ==
    /\ Up /\ Signaling /\ ~Traversing /\ track[i] = "none"
    /\ track' = [track EXCEPT ![i] = "new"]
    /\ UNCHANGED <<prodTerm, doTerm, frames, prod, mm, got, main, aborted>>

\* A disconnect that was late may also hit a Client that is not closed.
Unregister(i) ==
    /\ Up /\ Signaling /\ ~Traversing /\ track[i] # "none"
    /\ track' = [track EXCEPT ![i] = "none"]
    /\ got' = [got EXCEPT ![i] = 0]
    /\ UNCHANGED <<prodTerm, doTerm, frames, prod, mm, main, aborted>>

TrackOpen(i) ==
    /\ Up /\ track[i] = "new"
    /\ track' = [track EXCEPT ![i] = "open"]
    /\ UNCHANGED <<prodTerm, doTerm, frames, prod, mm, got, main, aborted>>

\* The connection is lost; libdatachannel closes the track, at any moment.
TrackClose(i) ==
    /\ Up /\ track[i] \in {"new", "open"}
    /\ track' = [track EXCEPT ![i] = "closed"]
    /\ UNCHANGED <<prodTerm, doTerm, frames, prod, mm, got, main, aborted>>

-----------------------------------------------------------------------------
(* main.                                                                    *)

\* SIGTERM or SIGINT has ended the loop of main: ~VideoProducer.
StopProducer ==
    /\ Up /\ main = "run"
    /\ prodTerm' = TRUE
    /\ main' = "join prod"
    /\ UNCHANGED <<doTerm, frames, prod, mm, track, got, aborted>>

JoinProducer ==
    /\ Up /\ main = "join prod" /\ prod.pc = "done"
    /\ main' = "set term"
    /\ UNCHANGED <<prodTerm, doTerm, frames, prod, mm, track, got, aborted>>

\* ~WebRTCStreamer.
SetTerm ==
    /\ Up /\ main = "set term"
    /\ doTerm' = TRUE
    /\ main' = "join sig"
    /\ UNCHANGED <<prodTerm, frames, prod, mm, track, got, aborted>>

\* The signaling threads are stopped and joined (module WebRTCStreamer).
JoinSig ==
    /\ Up /\ main = "join sig"
    /\ main' = "stop frames"
    /\ UNCHANGED <<prodTerm, doTerm, frames, prod, mm, track, got, aborted>>

StopFrames ==
    /\ Up /\ main = "stop frames"
    /\ frames' = [frames EXCEPT !.stopped = TRUE]
    /\ main' = "join mm"
    /\ UNCHANGED <<prodTerm, doTerm, prod, mm, track, got, aborted>>

JoinMm ==
    /\ Up /\ main = "join mm" /\ mm.pc = "done"
    /\ main' = "done"
    /\ UNCHANGED <<prodTerm, doTerm, frames, prod, mm, track, got, aborted>>

TakeDown == JoinProducer \/ SetTerm \/ JoinSig \/ StopFrames \/ JoinMm

-----------------------------------------------------------------------------
Next ==
    \/ Prod \/ Mm \/ StopProducer \/ TakeDown
    \/ \E i \in Ids :
          Register(i) \/ Unregister(i) \/ TrackOpen(i) \/ TrackClose(i)

Spec == Init /\ [][Next]_vars

\* Threads that can run do; the frames, the signal and what happens to the
\* peers are up to the environment.
FairSpec ==
    /\ Spec
    /\ WF_vars(ProdEnd \/ ProdPush)
    /\ WF_vars(Mm)
    /\ WF_vars(TakeDown)

-----------------------------------------------------------------------------
(* Properties.                                                              *)

QueueStates == [items : Seq(1 .. MaxFrames), stopped : BOOLEAN]
ProdStates == [pc : {"start", "loop", "push", "done"}, frame : 0 .. MaxFrames]
MmStates == [pc : {"loop", "pop", "lock", "visit", "send", "done"}, frame : 0 .. MaxFrames,
             todo : SUBSET Ids, peer : Ids \cup {NoId}]

TypeOK ==
    /\ prodTerm \in BOOLEAN /\ doTerm \in BOOLEAN /\ aborted \in BOOLEAN
    /\ frames \in QueueStates /\ Len(frames.items) <= FramesCap
    /\ prod \in ProdStates /\ mm \in MmStates
    /\ track \in [Ids -> {"none", "new", "open", "closed"}]
    /\ got \in [Ids -> 0 .. MaxFrames]
    /\ main \in {"run", "join prod", "set term", "join sig", "stop frames",
                 "join mm", "done"}

\* From the first frame on a track to its end the peer is sent every frame,
\* once and in order: none is lost to a full queue, to a traversal or to
\* another peer's coming and going.
NoFrameSkipped ==
    [][\A i \in Ids : got'[i] # got[i] /\ got[i] # 0 /\ got'[i] # 0
                      => got'[i] = got[i] + 1]_vars

\* A Client in turn for a frame is not destroyed before its turn is over.
SendIsSafe ==
    Traversing => \A i \in mm.todo \cup ({mm.peer} \ {NoId}) : track[i] # "none"

\* The program ends after the signal, also when the producer waits for room in
\* the queue at that moment.
ShutdownEnds == main = "join prod" ~> (main = "done" \/ aborted)

\* "The Client persists as long as the remote peer stays connected": a peer
\* that leaves does not take the streamer down with it.
NeverAborts == ~aborted
=============================================================================
