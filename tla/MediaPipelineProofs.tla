------------------------ MODULE MediaPipelineProofs ------------------------
(***************************************************************************)
(* The safety properties of MediaPipeline, proved for any set of peers,    *)
(* any capacity of _framesQueueIn and any number of frames.                *)
(*                                                                         *)
(* NoFrameSkipped rests on three facts: the queue is stopped only after    *)
(* the producer has ended, so no frame is discarded; hence the frames from *)
(* the one mm handles to the last one pushed are consecutive; and a track  *)
(* that is open has got the frame of the last traversal that visited it,   *)
(* which visits every Client that is there.                                *)
(***************************************************************************)
EXTENDS MediaPipeline, SequenceTheorems, TLAPS

\* pushData never runs on a streamer that is being destroyed: main is written so.
ProducerGoneFirst ==
    main \in {"set term", "join sig", "stop frames", "join mm", "done"}
        => prod.pc = "done"

\* main's progress, and what it implies of the threads.
OrderInv ==
    /\ ProducerGoneFirst
    /\ frames.stopped => prod.pc = "done"

\* The last frame that was pushed.
Pushed == IF prod.pc = "push" THEN prod.frame - 1 ELSE prod.frame

\* The queue holds the frames between mm's and the last one pushed, in order.
FramesInv ==
    /\ prod.pc = "push" => prod.frame > 0
    /\ mm.frame + Len(frames.items) = Pushed
    /\ \A k \in 1 .. Len(frames.items) : frames.items[k] = mm.frame + k

\* Peer i has still to be visited for mm's frame.
Awaits(i) ==
    \/ mm.pc = "lock" \/ (mm.pc = "visit" /\ i \in mm.todo)
    \/ (mm.pc = "send" /\ (i \in mm.todo \/ i = mm.peer))

\* An open track is up to date: it has got the last frame before it was its
\* turn, and mm's frame after.
GotInv ==
    /\ mm.pc = "send" <=> mm.peer # NoId
    /\ mm.pc = "send" => mm.peer \notin mm.todo
    /\ \A i \in Ids : got[i] # 0 =>
          /\ track[i] \in {"open", "closed"}
          /\ track[i] = "open" => got[i] = IF Awaits(i) THEN mm.frame - 1 ELSE mm.frame

PInv == TypeOK /\ OrderInv /\ FramesInv /\ SendIsSafe /\ GotInv

LEMMA InitPInv == Init => PInv
<1> SUFFICES ASSUME Init PROVE PInv
  OBVIOUS
<1> USE PipelineAssumption DEF PipelineAssumption
<1>1. << >> \in Seq(1 .. MaxFrames) /\ Len(<< >>) = 0
  BY EmptySeq
<1>0. 0 \in 0 .. MaxFrames
  OBVIOUS
<1>2. TypeOK
  <2>1. frames \in QueueStates
        /\ Len(frames.items) <= FramesCap
    BY <1>1 DEF Init, QueueStates
  <2>2. prod \in ProdStates
    BY <1>0 DEF Init, ProdStates
  <2>3. mm \in MmStates
    BY <1>0 DEF Init, MmStates
  <2>4. got \in [Ids -> 0 .. MaxFrames]
    BY <1>0 DEF Init
  <2> QED BY <2>1, <2>2, <2>3, <2>4 DEF Init, TypeOK
<1>3. OrderInv /\ SendIsSafe
  BY DEF Init, OrderInv, ProducerGoneFirst, SendIsSafe, Traversing
<1>4. FramesInv
  BY <1>1 DEF Init, FramesInv, Pushed
<1>5. GotInv
  BY DEF Init, GotInv
<1> QED BY <1>2, <1>3, <1>4, <1>5 DEF PInv

\* What the types of the records give.
LEMMA Typed ==
    ASSUME TypeOK
    PROVE  /\ frames.items \in Seq(1 .. MaxFrames) /\ Len(frames.items) \in Nat
           /\ prod.frame \in 0 .. MaxFrames /\ mm.frame \in 0 .. MaxFrames
           /\ mm.peer \in Ids \cup {NoId} /\ mm.todo \in SUBSET Ids
  BY LenProperties DEF TypeOK, QueueStates, ProdStates, MmStates

\* Every step of the producer keeps PInv.
LEMMA NextProd == PInv /\ Prod => PInv'
<1> SUFFICES ASSUME PInv, Prod PROVE PInv'
  OBVIOUS
<1> USE PipelineAssumption, Typed DEF PInv, PipelineAssumption
<1>1. UNCHANGED <<prodTerm, doTerm, mm, track, got, main, aborted>>
  BY DEF Prod, ProdNoCodec, ProdEncode, ProdEnd, ProdPush
<1>2. SendIsSafe' /\ GotInv'
  BY <1>1 DEF SendIsSafe, Traversing, GotInv, Awaits
<1>3. CASE ProdNoCodec \/ ProdEncode \/ ProdEnd
  <2>1. prod' \in ProdStates
        /\ UNCHANGED frames /\ prod.pc \in {"start", "loop"}
        /\ \/ prod'.pc = "done" /\ prod'.frame = prod.frame
           \/ prod'.pc = "push" /\ prod'.frame = prod.frame + 1
    <3>1. CASE ProdNoCodec \/ ProdEnd
      BY <3>1 DEF ProdNoCodec, ProdEnd, TypeOK, ProdStates
    <3>2. CASE ProdEncode
      <4>1. prod.frame < MaxFrames /\ prod.pc \in {"start", "loop"} /\ UNCHANGED frames
            /\ prod' = [pc |-> "push", frame |-> prod.frame + 1]
        BY <3>2 DEF ProdEncode
      <4>2. prod.frame + 1 \in 0 .. MaxFrames
        BY <4>1, Typed
      <4> HIDE DEF TypeOK, PInv
      <4> QED BY <4>1, <4>2 DEF ProdStates
    <3> QED BY <1>3, <3>1, <3>2
  <2>2. TypeOK'
    BY <1>1, <2>1 DEF TypeOK
  <2>3. OrderInv'
    BY <1>1, <2>1 DEF OrderInv, ProducerGoneFirst
  <2>4. FramesInv'
    BY <1>1, <2>1 DEF FramesInv, Pushed
  <2> QED BY <1>2, <2>2, <2>3, <2>4
<1>4. CASE ProdPush
  <2>1. /\ prod.pc = "push" /\ ~frames.stopped /\ Len(frames.items) < FramesCap
        /\ prod.frame \in 1 .. MaxFrames
        /\ frames' = [frames EXCEPT !.items = Append(@, prod.frame)]
        /\ prod' = [prod EXCEPT !.pc = "loop"]
    BY <1>4 DEF ProdPush, OrderInv, FramesInv
  <2> DEFINE q == Append(frames.items, prod.frame)
  <2>2. /\ q \in Seq(1 .. MaxFrames) /\ Len(q) = Len(frames.items) + 1
        /\ \A k \in 1 .. Len(frames.items) : q[k] = frames.items[k]
        /\ q[Len(frames.items) + 1] = prod.frame
    BY <2>1, AppendProperties
  <2>3. /\ frames' \in QueueStates
        /\ frames'.items = q /\ ~frames'.stopped
    <3> HIDE DEF q
    <3>1. frames' = [frames EXCEPT !.items = q]
      BY <2>1 DEF q
    <3> QED BY <2>1, <2>2, <3>1 DEF TypeOK, QueueStates
  <2>4. /\ prod' \in ProdStates
        /\ prod'.pc = "loop" /\ prod'.frame = prod.frame
    BY <2>1 DEF TypeOK, ProdStates
  <2> HIDE DEF q
  <2>5. TypeOK'
    <3>1. Len(q) <= FramesCap
      BY <2>1, <2>2, Typed
    <3> QED BY <1>1, <2>3, <2>4, <3>1 DEF TypeOK
  <2>6. OrderInv'
    BY <1>1, <2>1, <2>3, <2>4 DEF OrderInv, ProducerGoneFirst
  <2>7. FramesInv'
    <3>1. mm.frame + Len(frames.items) = prod.frame - 1
      BY <2>1 DEF FramesInv, Pushed
    <3>2. mm.frame + Len(q) = prod.frame
      <4>1. mm.frame \in Int /\ prod.frame \in Int /\ Len(frames.items) \in Int
        BY Typed
      <4>2. \A a, b, c \in Int : a + b = c - 1 => a + (b + 1) = c
        OBVIOUS
      <4>3. Len(q) = Len(frames.items) + 1
        BY <2>2
      <4> HIDE DEF PInv
      <4> QED BY <3>1, <4>1, <4>2, <4>3
    <3>3. Pushed' = prod.frame
      BY <2>4 DEF Pushed
    <3>4. \A k \in 1 .. Len(q) : q[k] = mm.frame + k
      <4> TAKE k \in 1 .. Len(q)
      <4>1. CASE k = Len(q)
        BY <2>2, <3>2, <4>1
      <4>2. CASE k # Len(q)
        <5>1. k \in 1 .. Len(frames.items)
          BY <2>2, <4>2, Typed
        <5> QED BY <2>2, <5>1 DEF FramesInv
      <4> QED BY <4>1, <4>2
    <3> QED BY <1>1, <2>3, <2>4, <3>2, <3>3, <3>4 DEF FramesInv
  <2> QED BY <1>2, <2>5, <2>6, <2>7
<1> QED BY <1>3, <1>4 DEF Prod

\* Every step of _multimediaThr keeps PInv.
LEMMA NextMm == PInv /\ Mm => PInv'
<1> SUFFICES ASSUME PInv, Mm PROVE PInv'
  OBVIOUS
<1> USE PipelineAssumption, Typed DEF PInv, PipelineAssumption
<1>1. UNCHANGED <<prodTerm, doTerm, prod, track, main>>
  BY DEF Mm, MmLoop, MmPop, MmLock, MmIsOpen, MmSend, MmEnd
<1>2. CASE MmLoop \/ MmLock \/ MmEnd
  <2>1. /\ UNCHANGED <<frames, got, aborted>> /\ mm' \in MmStates
        /\ mm'.frame = mm.frame /\ mm'.peer = mm.peer
        /\ \/ mm.pc = "loop" /\ mm'.pc \in {"pop", "done"}
           \/ mm.pc = "lock" /\ mm'.pc = "visit" /\ mm'.todo = {i \in Ids : track[i] # "none"}
           \/ mm.pc = "visit" /\ mm.todo = {} /\ mm'.pc = "loop"
    <3>1. CASE MmLoop
      BY <3>1 DEF MmLoop, TypeOK, MmStates
    <3>2. CASE MmLock
      BY <3>2 DEF MmLock, TypeOK, MmStates
    <3>3. CASE MmEnd
      BY <3>3 DEF MmEnd, TypeOK, MmStates
    <3> QED BY <1>2, <3>1, <3>2, <3>3
  <2>2. TypeOK'
    BY <1>1, <2>1 DEF TypeOK
  <2>3. OrderInv' /\ FramesInv'
    BY <1>1, <2>1 DEF OrderInv, ProducerGoneFirst, FramesInv, Pushed
  <2>4. SendIsSafe'
    BY <1>1, <2>1 DEF SendIsSafe, Traversing, GotInv
  <2>5. GotInv'
    BY <1>1, <2>1 DEF GotInv, Awaits
  <2> QED BY <2>2, <2>3, <2>4, <2>5
<1>3. CASE MmPop
  <2>1. UNCHANGED <<got, aborted>> /\ mm.pc = "pop"
    BY <1>3 DEF MmPop
  <2>2. CASE frames.items = << >>
    <3>1. UNCHANGED frames /\ mm' = [mm EXCEPT !.pc = "loop"]
      BY <1>3, <2>2 DEF MmPop
    <3>2. /\ mm' \in MmStates /\ mm'.pc = "loop"
          /\ mm'.frame = mm.frame /\ mm'.peer = mm.peer
      BY <3>1 DEF TypeOK, MmStates
    <3>3. TypeOK'
      BY <1>1, <2>1, <3>1, <3>2 DEF TypeOK
    <3>4. OrderInv' /\ FramesInv' /\ SendIsSafe' /\ GotInv'
      BY <1>1, <2>1, <3>1, <3>2
      DEF OrderInv, ProducerGoneFirst, FramesInv, Pushed, SendIsSafe, Traversing, GotInv, Awaits
    <3> QED BY <3>3, <3>4
  <2>3. CASE frames.items # << >>
    <3> DEFINE q == Tail(frames.items)
    <3>1. /\ frames' = [frames EXCEPT !.items = q]
          /\ mm' = [mm EXCEPT !.pc = "lock", !.frame = Head(frames.items)]
      BY <1>3, <2>3 DEF MmPop
    <3>2. /\ q \in Seq(1 .. MaxFrames) /\ Len(q) = Len(frames.items) - 1
          /\ \A k \in 1 .. Len(q) : q[k] = frames.items[k + 1]
          /\ Len(frames.items) > 0
      <4>1. frames.items \in Seq(1 .. MaxFrames) /\ Len(frames.items) \in Nat
        BY Typed
      <4>2. Len(frames.items) > 0
        BY <2>3, <4>1, EmptySeq
      <4>3. q \in Seq(1 .. MaxFrames) /\ Len(q) = Len(frames.items) - 1
        BY <2>3, <4>1, HeadTailProperties
      <4>4. \A k \in 1 .. Len(q) : q[k] = frames.items[k + 1]
        BY <2>3, <4>1, HeadTailProperties
      <4> QED BY <4>2, <4>3, <4>4
    <3>3. Head(frames.items) = mm.frame + 1 /\ Head(frames.items) \in 0 .. MaxFrames
      <4>1. Head(frames.items) = frames.items[1] /\ Head(frames.items) \in 1 .. MaxFrames
        BY <2>3, HeadTailProperties
      <4>2. frames.items[1] = mm.frame + 1
        BY <3>2 DEF FramesInv
      <4> QED BY <4>1, <4>2
    <3>4. /\ mm' \in MmStates /\ mm'.pc = "lock"
          /\ mm'.frame = mm.frame + 1 /\ mm'.peer = mm.peer
      BY <3>1, <3>3 DEF TypeOK, MmStates
    <3> HIDE DEF q
    <3>5. /\ frames' \in QueueStates
          /\ frames'.items = q /\ frames'.stopped = frames.stopped
      BY <3>1, <3>2 DEF TypeOK, QueueStates
    <3>6. Len(q) <= FramesCap
      <4>1. Len(frames.items) <= FramesCap /\ Len(frames.items) \in Nat
        BY Typed DEF TypeOK
      <4> QED BY <3>2, <4>1
    <3>7. TypeOK'
      BY <1>1, <2>1, <3>4, <3>5, <3>6 DEF TypeOK
    <3>8. FramesInv'
      <4>1. mm'.frame + Len(q) = Pushed'
        <5>1. Pushed' = Pushed
          BY <1>1 DEF Pushed
        <5>2. mm.frame + Len(frames.items) = Pushed
          BY DEF FramesInv
        <5>3. mm'.frame + Len(q) = mm.frame + Len(frames.items)
          <6>1. mm.frame \in Int /\ Len(frames.items) \in Int
            BY Typed
          <6>2. Len(q) = Len(frames.items) - 1 /\ mm'.frame = mm.frame + 1
            BY <3>2, <3>4
          <6>3. \A a, b \in Int : (a + 1) + (b - 1) = a + b
            OBVIOUS
          <6> HIDE DEF PInv
          <6> QED BY <6>1, <6>2, <6>3
        <5> QED BY <5>1, <5>2, <5>3
      <4>2. \A k \in 1 .. Len(q) : q[k] = mm'.frame + k
        <5> SUFFICES ASSUME NEW k \in 1 .. Len(q) PROVE q[k] = mm'.frame + k
          OBVIOUS
        <5>1. k + 1 \in 1 .. Len(frames.items)
          BY <3>2
        <5>2. frames.items[k + 1] = mm.frame + (k + 1)
          BY <5>1 DEF FramesInv
        <5>3. q[k] = frames.items[k + 1] /\ mm'.frame = mm.frame + 1
          BY <3>2, <3>4
        <5>4. mm.frame + (k + 1) = (mm.frame + 1) + k
          <6>1. mm.frame \in Int /\ k \in Int
            BY Typed
          <6> HIDE DEF PInv
          <6> QED BY <6>1
        <5> QED BY <5>2, <5>3, <5>4
      <4> QED BY <1>1, <3>5, <4>1, <4>2 DEF FramesInv
    <3>9. OrderInv' /\ SendIsSafe'
      BY <1>1, <3>4, <3>5 DEF OrderInv, ProducerGoneFirst, SendIsSafe, Traversing
    <3>10. GotInv'
      BY <1>1, <2>1, <3>4 DEF GotInv, Awaits
    <3> QED BY <3>7, <3>8, <3>9, <3>10
  <2> QED BY <2>2, <2>3
<1>4. ASSUME NEW i \in Ids, MmIsOpen(i) PROVE PInv'
  <2>1. /\ UNCHANGED <<frames, got, aborted>> /\ mm.pc = "visit" /\ i \in mm.todo
        /\ mm' \in MmStates /\ mm'.frame = mm.frame /\ mm'.todo = mm.todo \ {i}
        /\ IF track[i] = "open" THEN mm'.pc = "send" /\ mm'.peer = i
           ELSE mm'.pc = "visit" /\ mm'.peer = mm.peer
    BY <1>4 DEF MmIsOpen, TypeOK, MmStates
  <2>2. TypeOK'
    BY <1>1, <2>1 DEF TypeOK
  <2>3. OrderInv' /\ FramesInv'
    BY <1>1, <2>1 DEF OrderInv, ProducerGoneFirst, FramesInv, Pushed
  <2>4. SendIsSafe'
    BY <1>1, <2>1 DEF SendIsSafe, Traversing
  <2>5. GotInv'
    BY <1>1, <2>1 DEF GotInv, Awaits
  <2> QED BY <2>2, <2>3, <2>4, <2>5
<1>5. CASE MmSend
  <2>1. mm.pc = "send" /\ UNCHANGED frames
    BY <1>5 DEF MmSend
  <2>2. CASE track[mm.peer] # "open"
    <3>1. UNCHANGED <<got, mm>> /\ aborted' = TRUE
      BY <1>5, <2>2 DEF MmSend
    <3> QED
      BY <1>1, <2>1, <3>1
      DEF TypeOK, OrderInv, ProducerGoneFirst, FramesInv, Pushed, SendIsSafe, Traversing,
          GotInv, Awaits
  <2>3. CASE track[mm.peer] = "open"
    <3>1. /\ got' = [got EXCEPT ![mm.peer] = mm.frame] /\ UNCHANGED aborted
          /\ mm' = [mm EXCEPT !.pc = "visit", !.peer = NoId]
      BY <1>5, <2>3 DEF MmSend
    <3>2. /\ mm' \in MmStates /\ mm'.pc = "visit" /\ mm'.peer = NoId
          /\ mm'.frame = mm.frame /\ mm'.todo = mm.todo
      BY <3>1 DEF TypeOK, MmStates
    <3>3. mm.peer \in Ids /\ mm.peer \notin mm.todo
      BY <2>1 DEF GotInv
    <3>4. got' \in [Ids -> 0 .. MaxFrames]
          /\ \A j \in Ids : got'[j] = IF j = mm.peer THEN mm.frame ELSE got[j]
      BY <3>1, <3>3 DEF TypeOK
    <3>5. TypeOK'
      BY <1>1, <2>1, <3>1, <3>2, <3>4 DEF TypeOK
    <3>6. OrderInv' /\ FramesInv' /\ SendIsSafe'
      BY <1>1, <2>1, <3>2
      DEF OrderInv, ProducerGoneFirst, FramesInv, Pushed, SendIsSafe, Traversing
    <3>7. GotInv'
      BY <1>1, <2>1, <2>3, <3>2, <3>3, <3>4 DEF GotInv, Awaits
    <3> QED BY <3>5, <3>6, <3>7
  <2> QED BY <2>2, <2>3
<1> QED BY <1>2, <1>3, <1>4, <1>5 DEF Mm

\* What happens to the registry and to the tracks keeps PInv.
LEMMA NextTrack ==
    ASSUME NEW i \in Ids, PInv, Register(i) \/ Unregister(i) \/ TrackOpen(i) \/ TrackClose(i)
    PROVE  PInv'
<1> USE DEF PInv
<1>1. UNCHANGED <<prodTerm, doTerm, frames, prod, mm, main, aborted>>
  BY DEF Register, Unregister, TrackOpen, TrackClose
<1>2. /\ track' \in [Ids -> {"none", "new", "open", "closed"}]
      /\ got' \in [Ids -> 0 .. MaxFrames]
  <2>1. 0 \in 0 .. MaxFrames
    BY PipelineAssumption DEF PipelineAssumption
  <2>2. track' \in [Ids -> {"none", "new", "open", "closed"}]
    BY DEF Register, Unregister, TrackOpen, TrackClose, TypeOK
  <2>3. got' \in [Ids -> 0 .. MaxFrames]
    BY <2>1 DEF Register, Unregister, TrackOpen, TrackClose, TypeOK
  <2> QED BY <2>2, <2>3
<1>3. TypeOK'
  BY <1>1, <1>2 DEF TypeOK
<1>4. OrderInv' /\ FramesInv'
  <2>1. OrderInv'
    BY <1>1 DEF OrderInv, ProducerGoneFirst
  <2>2. Pushed' = Pushed
    BY <1>1 DEF Pushed
  <2> QED BY <1>1, <2>1, <2>2 DEF FramesInv
<1>5. SendIsSafe'
  <2>1. track \in [Ids -> {"none", "new", "open", "closed"}]
    BY DEF TypeOK
  <2> HIDE DEF PInv
  <2>2. \A j \in Ids : Traversing /\ track[j] # "none" => track'[j] # "none"
    BY <2>1 DEF Register, Unregister, TrackOpen, TrackClose
  <2>3. SendIsSafe /\ Traversing' = Traversing
    BY <1>1 DEF PInv, Traversing
  <2>4. mm.todo \in SUBSET Ids /\ mm.peer \in Ids \cup {NoId}
    BY Typed DEF PInv
  <2> QED BY <1>1, <2>2, <2>3, <2>4 DEF SendIsSafe
<1>6. \A j \in Ids : /\ got'[j] \in {0, got[j]}
                     /\ track'[j] = "open" => track[j] = "open" \/ got[j] = 0
                     /\ got'[j] # 0 => track'[j] \in {"open", "closed"}
  <2> TAKE j \in Ids
  <2>1. got[j] # 0 => track[j] \in {"open", "closed"}
    BY DEF GotInv
  <2>2. CASE j # i
    BY <2>1, <2>2 DEF Register, Unregister, TrackOpen, TrackClose, TypeOK
  <2>3. CASE j = i
    BY <2>1, <2>3 DEF Register, Unregister, TrackOpen, TrackClose, TypeOK
  <2> QED BY <2>2, <2>3
<1>7. GotInv'
  BY <1>1, <1>6 DEF GotInv, Awaits
<1> QED BY <1>3, <1>4, <1>5, <1>7

\* The destructors keep PInv.
LEMMA NextMain == PInv /\ (StopProducer \/ TakeDown) => PInv'
<1> SUFFICES ASSUME PInv, StopProducer \/ TakeDown PROVE PInv'
  OBVIOUS
<1> USE DEF PInv
<1>1. UNCHANGED <<prod, mm, track, got, aborted>> /\ UNCHANGED frames.items
  BY DEF StopProducer, TakeDown, JoinProducer, SetTerm, JoinSig, StopFrames, JoinMm,
         TypeOK, QueueStates
<1>2. TypeOK'
  BY <1>1
  DEF StopProducer, TakeDown, JoinProducer, SetTerm, JoinSig, StopFrames, JoinMm,
      TypeOK, QueueStates
<1>3. OrderInv'
  BY DEF StopProducer, TakeDown, JoinProducer, SetTerm, JoinSig, StopFrames, JoinMm,
         OrderInv, ProducerGoneFirst, TypeOK, QueueStates
<1>4. FramesInv' /\ SendIsSafe' /\ GotInv'
  BY <1>1 DEF FramesInv, Pushed, SendIsSafe, Traversing, GotInv, Awaits
<1> QED BY <1>2, <1>3, <1>4

LEMMA AlwaysPInv == Spec => []PInv
<1>1. PInv /\ UNCHANGED vars => PInv'
  <2> SUFFICES ASSUME PInv, UNCHANGED vars PROVE PInv'
    OBVIOUS
  <2>1. UNCHANGED <<prodTerm, doTerm, frames, prod, mm, track, got, main, aborted>>
    BY DEF vars
  <2>2. TypeOK'
    BY <2>1 DEF PInv, TypeOK
  <2>3. OrderInv' /\ FramesInv'
    BY <2>1 DEF PInv, OrderInv, ProducerGoneFirst, FramesInv, Pushed
  <2>4. SendIsSafe' /\ GotInv'
    BY <2>1 DEF PInv, SendIsSafe, Traversing, GotInv, Awaits
  <2> QED BY <2>2, <2>3, <2>4 DEF PInv
<1>2. PInv /\ [Next]_vars => PInv'
  BY <1>1, NextProd, NextMm, NextTrack, NextMain DEF Next
<1> QED BY <1>2, InitPInv, PTL DEF Spec

\* The state is well typed; _framesQueueIn never exceeds its capacity.
THEOREM TypeCorrect == Spec => []TypeOK
  BY AlwaysPInv, PTL DEF PInv

\* A Client whose turn is to come, or has come, for a frame is not destroyed.
THEOREM ClientsOutliveTheirTurn == Spec => []SendIsSafe
  BY AlwaysPInv, PTL DEF PInv

\* From its first frame on, a track is sent every frame, in order and once.
THEOREM FramesAreNotSkipped == Spec => NoFrameSkipped
<1>1. PInv /\ [Next]_vars =>
         [\A i \in Ids : got'[i] # got[i] /\ got[i] # 0 /\ got'[i] # 0
                         => got'[i] = got[i] + 1]_vars
  <2> SUFFICES ASSUME PInv, Next, NEW i \in Ids, got'[i] # got[i], got[i] # 0, got'[i] # 0
               PROVE  got'[i] = got[i] + 1
    BY DEF vars
  <2>1. got \in [Ids -> 0 .. MaxFrames] /\ mm.frame \in 0 .. MaxFrames
    BY Typed DEF PInv, TypeOK
  <2>2. MmSend
    BY <2>1
    DEF Next, Prod, ProdNoCodec, ProdEncode, ProdEnd, ProdPush, Mm, MmLoop, MmPop, MmLock,
        MmIsOpen, MmEnd, StopProducer, TakeDown, JoinProducer, SetTerm, JoinSig, StopFrames,
        JoinMm, Register, Unregister, TrackOpen, TrackClose
  <2>3. mm.pc = "send" /\ track[mm.peer] = "open" /\ got' = [got EXCEPT ![mm.peer] = mm.frame]
    BY <2>2 DEF MmSend
  <2>4. i = mm.peer /\ got'[i] = mm.frame
    BY <2>1, <2>3
  <2>5. got[i] = mm.frame - 1
    BY <2>3, <2>4 DEF PInv, GotInv, Awaits
  <2> QED BY <2>1, <2>4, <2>5
<1> QED BY <1>1, AlwaysPInv, PTL DEF Spec, NoFrameSkipped
=============================================================================
