------------------------ MODULE BlockingQueueProofs ------------------------
(***************************************************************************)
(* The safety properties of BlockingQueue, proved for any finite set of    *)
(* threads, any items and any capacity.                                    *)
(*                                                                         *)
(* IInv is the inductive invariant.  Its part MutexInv says what the code  *)
(* between an acquisition and a release of _mtx relies on: one holder, and *)
(* nobody on a condition variable who is not asleep there for the reason   *)
(* that the variable stands for.  Its last conjunct is what makes pop, as  *)
(* opposed to pop_for, return nothing only from a stopped queue.           *)
(***************************************************************************)
EXTENDS BlockingQueue, FiniteSetTheorems, SequenceTheorems, TLAPS

MutexInv ==
    /\ \A t \in Threads : pc[t] = "crit" <=> mtx = t
    /\ \A t \in condNotEmpty : pc[t] = "wait" /\ op[t] \in Pops
    /\ \A t \in condNotFull : pc[t] = "wait" /\ op[t] = "push"
    /\ \A t \in Threads : pc[t] # "idle" /\ op[t] = "push" => item[t] \in Items
    /\ \A t \in Threads : expired[t] => op[t] = "pop_for"

IInv == TypeOK /\ MutexInv

-----------------------------------------------------------------------------
(* Type correctness and mutual exclusion.                                   *)

\* The inductive invariant holds of a freshly constructed queue.
LEMMA InitIInv == Init => IInv
<1> SUFFICES ASSUME Init PROVE IInv
  OBVIOUS
<1>1. << >> \in Seq(Items) /\ Len(<< >>) = 0
  BY EmptySeq
<1>2. TypeOK
  <2>1. queue \in Seq(Items) /\ Len(queue) <= MaxSize
    BY <1>1, QueueAssumption DEF QueueAssumption, Init
  <2>2. accepted \in Seq(Items) /\ delivered \in Seq(Items)
    BY <1>1 DEF Init
  <2>3. expired \in [Threads -> BOOLEAN]
    BY DEF Init
  <2> QED
    BY <2>1, <2>2, <2>3 DEF Init, TypeOK, Ops
<1>3. MutexInv
  BY QueueAssumption DEF QueueAssumption, Init, MutexInv
<1> QED BY <1>2, <1>3 DEF IInv

\* Every step of every thread keeps the inductive invariant: an entry to a
\* call, an acquisition of _mtx, a critical section, or a way out of a wait.
LEMMA NextIInv == IInv /\ [Next]_vars => IInv'
<1> SUFFICES ASSUME IInv, [Next]_vars PROVE IInv'
  OBVIOUS
<1> USE QueueAssumption DEF QueueAssumption, IInv, Ops, Pops
<1>1. CASE UNCHANGED vars
  BY <1>1 DEF vars, TypeOK, MutexInv
<1>2. ASSUME NEW t \in Threads, NEW o \in Ops, NEW x \in Items \cup {None},
             Call(t, o, x)
      PROVE  IInv'
  <2>1. TypeOK'
    BY <1>2 DEF Call, TypeOK
  <2>2. MutexInv'
    BY <1>2 DEF Call, TypeOK, MutexInv
  <2> QED BY <2>1, <2>2
<1>3. ASSUME NEW t \in Threads, Lock(t) PROVE IInv'
  BY <1>3 DEF Lock, TypeOK, MutexInv
<1>4. ASSUME NEW t \in Threads, Push(t) PROVE IInv'
  <2>1. PICK W \in NotifyOne(condNotEmpty) :
             condNotEmpty' = condNotEmpty \ W /\ ReturnWaking(t, W)
    BY <1>4 DEF Push
  <2>2. W \subseteq condNotEmpty
    BY <2>1 DEF NotifyOne
  <2>3. item[t] \in Items /\ Len(queue) < MaxSize
    BY <1>4 DEF Push, PushReady, TypeOK, MutexInv
  <2>4. queue' \in Seq(Items) /\ Len(queue') <= MaxSize /\ accepted' \in Seq(Items)
    BY <1>4, <2>3, AppendProperties DEF Push, TypeOK
  <2>5. TypeOK'
    BY <1>4, <2>1, <2>4 DEF Push, ReturnWaking, TypeOK
  <2>6. MutexInv'
    BY <1>4, <2>1, <2>2 DEF Push, ReturnWaking, TypeOK, MutexInv
  <2> QED BY <2>5, <2>6
<1>5. ASSUME NEW t \in Threads, PushStopped(t) PROVE IInv'
  BY <1>5 DEF PushStopped, ReturnWaking, TypeOK, MutexInv
<1>6. ASSUME NEW t \in Threads, PushWait(t) PROVE IInv'
  BY <1>6 DEF PushWait, Sleep, TypeOK, MutexInv
<1>7. ASSUME NEW t \in Threads, Pop(t) PROVE IInv'
  <2>1. PICK W \in NotifyOne(condNotFull) :
             condNotFull' = condNotFull \ W /\ ReturnWaking(t, W)
    BY <1>7 DEF Pop
  <2>2. W \subseteq condNotFull
    BY <2>1 DEF NotifyOne
  <2>3. /\ Head(queue) \in Items
        /\ queue' \in Seq(Items) /\ Len(queue') <= MaxSize
        /\ delivered' \in Seq(Items)
    BY <1>7, HeadTailProperties, AppendProperties, LenProperties DEF Pop, TypeOK
  <2>4. TypeOK'
    BY <1>7, <2>1, <2>3 DEF Pop, ReturnWaking, TypeOK
  <2>5. MutexInv'
    BY <1>7, <2>1, <2>2 DEF Pop, ReturnWaking, TypeOK, MutexInv
  <2> QED BY <2>4, <2>5
<1>8. ASSUME NEW t \in Threads, PopNothing(t) PROVE IInv'
  BY <1>8 DEF PopNothing, ReturnWaking, TypeOK, MutexInv
<1>9. ASSUME NEW t \in Threads, PopWait(t) PROVE IInv'
  BY <1>9 DEF PopWait, Sleep, TypeOK, MutexInv
<1>10. ASSUME NEW t \in Threads, Stop(t) PROVE IInv'
  BY <1>10 DEF Stop, NotifyAll, ReturnWaking, TypeOK, MutexInv
<1>11. ASSUME NEW t \in Threads, Spurious(t) PROVE IInv'
  BY <1>11 DEF Spurious, Leave, TypeOK, MutexInv
<1>12. ASSUME NEW t \in Threads, Timeout(t) PROVE IInv'
  BY <1>12 DEF Timeout, Leave, TypeOK, MutexInv
<1> QED
  BY <1>1, <1>2, <1>3, <1>4, <1>5, <1>6, <1>7, <1>8, <1>9, <1>10, <1>11, <1>12
  DEF Next, Crit

LEMMA InductiveInvariant == Spec => []IInv
  BY InitIInv, NextIInv, PTL DEF Spec

\* Type correctness; in particular the queue never holds more than _maxSize
\* items, whoever pushes and however the waits are interleaved.
THEOREM TypeCorrect == Spec => []TypeOK
  BY InductiveInvariant, PTL DEF IInv

\* _mtx does its work: two threads are never both between the acquisition
\* and the release.
THEOREM MutualExclusion ==
    Spec => [](\A t, u \in Threads : pc[t] = "crit" /\ pc[u] = "crit" => t = u)
<1>1. IInv => \A t, u \in Threads : pc[t] = "crit" /\ pc[u] = "crit" => t = u
  BY DEF IInv, MutexInv
<1> QED BY <1>1, InductiveInvariant, PTL

-----------------------------------------------------------------------------
(* stop() and the waits.                                                    *)

\* A thread goes to sleep only after testing _stopped under _mtx, and the
\* step that sets it wakes every sleeper.
LEMMA NextStopWakesAll == IInv /\ StopWakesAll /\ [Next]_vars => StopWakesAll'
<1> SUFFICES ASSUME IInv, StopWakesAll, [Next]_vars PROVE StopWakesAll'
  OBVIOUS
<1> USE DEF StopWakesAll
<1>1. CASE UNCHANGED vars
  BY <1>1 DEF vars
<1>2. ASSUME NEW t \in Threads, Stop(t) PROVE StopWakesAll'
  BY <1>2 DEF Stop, NotifyAll
<1>3. ASSUME NEW t \in Threads, PushWait(t) \/ PopWait(t) PROVE StopWakesAll'
  BY <1>3 DEF PushWait, PopWait, Sleep, PushReady, PopReady
<1>4. ASSUME NEW t \in Threads,
             \/ Push(t) \/ PushStopped(t) \/ Pop(t) \/ PopNothing(t)
             \/ Lock(t) \/ Spurious(t) \/ Timeout(t)
             \/ \E o \in Ops, x \in Items \cup {None} : Call(t, o, x)
      PROVE  StopWakesAll'
  BY <1>4 DEF Push, PushStopped, Pop, PopNothing, Lock, Spurious, Timeout,
              Leave, Call
<1> QED
  BY <1>1, <1>2, <1>3, <1>4 DEF Next, Crit

\* stop() leaves nobody asleep and nobody can fall asleep after it, so the
\* destructors that stop a queue and join its users are not blocked by it.
THEOREM StoppedNobodyWaits == Spec => []StopWakesAll
<1>1. Init => StopWakesAll
  BY DEF Init, StopWakesAll
<1> QED
  BY <1>1, InductiveInvariant, NextStopWakesAll, PTL DEF Spec

-----------------------------------------------------------------------------
(* The order of the items.                                                  *)

\* A push extends accepted and the queue alike; a pop moves the front of the
\* queue to the end of delivered.
LEMMA NextFifo == IInv /\ Fifo /\ [Next]_vars => Fifo'
<1> SUFFICES ASSUME IInv, Fifo, [Next]_vars PROVE Fifo'
  OBVIOUS
<1> USE DEF Fifo
<1>1. queue \in Seq(Items) /\ delivered \in Seq(Items)
  BY DEF IInv, TypeOK
<1>2. ASSUME NEW t \in Threads, Push(t) PROVE Fifo'
  <2>1. item[t] \in Items
    BY <1>2 DEF Push, IInv, MutexInv
  <2>2. accepted' = (delivered \o queue) \o <<item[t]>>
    BY <1>1, <1>2, <2>1, ConcatProperties, AppendIsConcat DEF Push
  <2>3. queue' = queue \o <<item[t]>> /\ delivered' = delivered
    BY <1>1, <1>2, <2>1, AppendIsConcat DEF Push
  <2> QED
    BY <1>1, <2>1, <2>2, <2>3, ConcatAssociative, AppendProperties, EmptySeq
<1>3. ASSUME NEW t \in Threads, Pop(t) PROVE Fifo'
  <2>1. Head(queue) \in Items /\ Tail(queue) \in Seq(Items) /\ queue # << >>
    BY <1>1, <1>3, HeadTailProperties DEF Pop
  <2>2. queue = <<Head(queue)>> \o Tail(queue)
    BY <1>1, <2>1, HeadTailProperties, SeqEqual, ConcatProperties
  <2>3. /\ delivered' = delivered \o <<Head(queue)>>
        /\ queue' = Tail(queue) /\ accepted' = accepted
    BY <1>1, <1>3, <2>1, AppendIsConcat DEF Pop
  <2> QED
    BY <1>1, <2>1, <2>2, <2>3, ConcatAssociative
<1>4. CASE UNCHANGED <<queue, accepted, delivered>>
  BY <1>4
<1>5. ASSUME NEW t \in Threads,
             \/ PushStopped(t) \/ PushWait(t) \/ PopNothing(t) \/ PopWait(t)
             \/ Stop(t) \/ Lock(t) \/ Spurious(t) \/ Timeout(t)
             \/ \E o \in Ops, x \in Items \cup {None} : Call(t, o, x)
      PROVE  UNCHANGED <<queue, accepted, delivered>>
  BY <1>5 DEF PushStopped, PushWait, PopNothing, PopWait, Sleep, Stop, Lock,
              Spurious, Timeout, Leave, Call
<1> QED
  BY <1>2, <1>3, <1>4, <1>5 DEF Next, Crit, vars

\* Items leave in the order in which they came, none lost, none twice.
THEOREM FirstInFirstOut == Spec => []Fifo
<1>1. Init => Fifo
  BY ConcatEmptySeq, EmptySeq DEF Init, Fifo
<1> QED
  BY <1>1, InductiveInvariant, NextFifo, PTL DEF Spec

-----------------------------------------------------------------------------
(* No wake-up is lost.                                                      *)

\* The threads on their way can be counted.
LEMMA AwakeFinite ==
    ASSUME NEW O, QueueAssumption
    PROVE  /\ IsFiniteSet(Awake(O)) /\ IsFiniteSet(Awake(O)')
           /\ Cardinality(Awake(O)) \in Nat /\ Cardinality(Awake(O)') \in Nat
  BY FS_Subset, FS_CardinalityType DEF QueueAssumption, Awake

\* Threads that start on their way do not lower the count.
LEMMA AwakeGrows ==
    ASSUME NEW O, QueueAssumption, Awake(O) \subseteq Awake(O)'
    PROVE  Cardinality(Awake(O)) <= Cardinality(Awake(O)')
  BY AwakeFinite, FS_Subset

\* A critical section that wakes one more thread of O raises the count; one
\* that ends the work of a thread of O lowers it.
LEMMA AwakeOneMore ==
    ASSUME NEW O, QueueAssumption, NEW w, w \notin Awake(O),
           Awake(O)' = Awake(O) \cup {w}
    PROVE  Cardinality(Awake(O)') = Cardinality(Awake(O)) + 1
  BY AwakeFinite, FS_AddElement

LEMMA AwakeOneLess ==
    ASSUME NEW O, QueueAssumption, NEW w, w \in Awake(O),
           Awake(O)' = Awake(O) \ {w}
    PROVE  Cardinality(Awake(O)') = Cardinality(Awake(O)) - 1
  BY AwakeFinite, FS_RemoveElement

\* A push adds an item and, when somebody sleeps for one, wakes a popper; it
\* takes a slot and is one pusher less.
LEMMA PushNoLostWakeup ==
    ASSUME IInv, NoLostWakeup, NEW t \in Threads, Push(t)
    PROVE  NoLostWakeup'
<1> USE QueueAssumption
<1>1. PICK W \in NotifyOne(condNotEmpty) :
           condNotEmpty' = condNotEmpty \ W /\ ReturnWaking(t, W)
  BY DEF Push
<1>2. /\ queue \in Seq(Items) /\ Len(queue) \in Nat /\ Len(queue') = Len(queue) + 1
  BY AppendProperties, LenProperties DEF Push, IInv, TypeOK, MutexInv
<1>3. ASSUME condNotEmpty' # {}
      PROVE  Cardinality(Awake(Pops)') >= Len(queue')
  <2>1. PICK w \in condNotEmpty : W = {w}
    BY <1>1, <1>3 DEF NotifyOne
  <2>2. w \notin Awake(Pops) /\ Awake(Pops)' = Awake(Pops) \cup {w}
    BY <1>1, <2>1 DEF IInv, TypeOK, MutexInv, Awake, ReturnWaking, Push, Pops
  <2>3. Cardinality(Awake(Pops)') = Cardinality(Awake(Pops)) + 1
    BY <2>2, AwakeOneMore
  <2>4. Cardinality(Awake(Pops)) >= Len(queue)
    BY <1>1, <2>1 DEF NoLostWakeup
  <2> QED
    BY <1>2, <2>3, <2>4, AwakeFinite
<1>4. ASSUME condNotFull' # {}
      PROVE  Cardinality(Awake({"push"})') >= MaxSize - Len(queue')
  <2>1. W \subseteq condNotEmpty
    BY <1>1 DEF NotifyOne
  <2>2. t \in Awake({"push"}) /\ Awake({"push"})' = Awake({"push"}) \ {t}
    BY <1>1, <2>1 DEF IInv, TypeOK, MutexInv, Awake, ReturnWaking, Push, Pops
  <2>3. Cardinality(Awake({"push"})') = Cardinality(Awake({"push"})) - 1
    BY <2>2, AwakeOneLess
  <2>4. Cardinality(Awake({"push"})) >= MaxSize - Len(queue)
    BY <1>4 DEF Push, NoLostWakeup
  <2> QED
    BY <1>2, <2>3, <2>4, AwakeFinite DEF QueueAssumption
<1> QED BY <1>3, <1>4 DEF NoLostWakeup

\* The mirror image for a pop.
LEMMA PopNoLostWakeup ==
    ASSUME IInv, NoLostWakeup, NEW t \in Threads, Pop(t)
    PROVE  NoLostWakeup'
<1> USE QueueAssumption
<1>1. PICK W \in NotifyOne(condNotFull) :
           condNotFull' = condNotFull \ W /\ ReturnWaking(t, W)
  BY DEF Pop
<1>2. /\ queue \in Seq(Items) /\ Len(queue) \in Nat /\ Len(queue') = Len(queue) - 1
  BY HeadTailProperties, LenProperties DEF Pop, IInv, TypeOK
<1>3. ASSUME condNotFull' # {}
      PROVE  Cardinality(Awake({"push"})') >= MaxSize - Len(queue')
  <2>1. PICK w \in condNotFull : W = {w}
    BY <1>1, <1>3 DEF NotifyOne
  <2>2. w \notin Awake({"push"}) /\ Awake({"push"})' = Awake({"push"}) \cup {w}
    BY <1>1, <2>1 DEF IInv, TypeOK, MutexInv, Awake, ReturnWaking, Pop, Pops
  <2>3. Cardinality(Awake({"push"})') = Cardinality(Awake({"push"})) + 1
    BY <2>2, AwakeOneMore
  <2>4. Cardinality(Awake({"push"})) >= MaxSize - Len(queue)
    BY <1>1, <2>1 DEF NoLostWakeup
  <2> QED
    BY <1>2, <2>3, <2>4, AwakeFinite DEF QueueAssumption
<1>4. ASSUME condNotEmpty' # {}
      PROVE  Cardinality(Awake(Pops)') >= Len(queue')
  <2>1. W \subseteq condNotFull
    BY <1>1 DEF NotifyOne
  <2>2. t \in Awake(Pops) /\ Awake(Pops)' = Awake(Pops) \ {t}
    BY <1>1, <2>1 DEF IInv, TypeOK, MutexInv, Awake, ReturnWaking, Pop, Pops
  <2>3. Cardinality(Awake(Pops)') = Cardinality(Awake(Pops)) - 1
    BY <2>2, AwakeOneLess
  <2>4. Cardinality(Awake(Pops)) >= Len(queue)
    BY <1>4 DEF Pop, NoLostWakeup
  <2> QED
    BY <1>2, <2>3, <2>4, AwakeFinite
<1> QED BY <1>3, <1>4 DEF NoLostWakeup

\* A thread sleeps for an item only beside an empty queue and for room only
\* beside a full one, so its own absence from the count does no harm.
LEMMA NextNoLostWakeup ==
    IInv /\ StopWakesAll /\ NoLostWakeup /\ [Next]_vars => NoLostWakeup'
<1> SUFFICES ASSUME IInv, StopWakesAll, NoLostWakeup, [Next]_vars
             PROVE  NoLostWakeup'
  OBVIOUS
<1> USE QueueAssumption
<1>1. Len(queue) \in Nat /\ MaxSize \in Nat
  BY LenProperties DEF IInv, TypeOK, QueueAssumption
<1>2. ASSUME queue' = queue, condNotEmpty' \subseteq condNotEmpty,
             condNotFull' \subseteq condNotFull,
             Awake(Pops) \subseteq Awake(Pops)',
             Awake({"push"}) \subseteq Awake({"push"})'
      PROVE  NoLostWakeup'
  BY <1>1, <1>2, AwakeFinite, AwakeGrows DEF NoLostWakeup
<1>3. CASE UNCHANGED vars
  BY <1>2, <1>3 DEF vars, Awake
<1>4. ASSUME NEW t \in Threads, NEW o \in Ops, NEW x \in Items \cup {None},
             Call(t, o, x)
      PROVE  NoLostWakeup'
  BY <1>2, <1>4 DEF Call, Awake, IInv, TypeOK
<1>5. ASSUME NEW t \in Threads, Lock(t) PROVE NoLostWakeup'
  BY <1>2, <1>5 DEF Lock, Awake, IInv, TypeOK
<1>6. ASSUME NEW t \in Threads, Spurious(t) \/ Timeout(t) PROVE NoLostWakeup'
  BY <1>2, <1>6 DEF Spurious, Timeout, Leave, Awake, IInv, TypeOK
<1>7. ASSUME NEW t \in Threads, PushStopped(t) \/ Stop(t) PROVE NoLostWakeup'
  BY <1>7 DEF PushStopped, Stop, NotifyAll, StopWakesAll, NoLostWakeup
<1>8. ASSUME NEW t \in Threads, PushWait(t) PROVE NoLostWakeup'
  <2>1. Len(queue) = MaxSize /\ queue' = queue /\ condNotEmpty' = condNotEmpty
    BY <1>1, <1>8 DEF PushWait, PushReady, Sleep, IInv, TypeOK
  <2>2. Awake(Pops)' = Awake(Pops)
    BY <1>8 DEF PushWait, Sleep, Awake, IInv, TypeOK, Pops
  <2> QED
    BY <1>1, <2>1, <2>2, AwakeFinite DEF NoLostWakeup
<1>9. ASSUME NEW t \in Threads, PopWait(t) PROVE NoLostWakeup'
  <2>1. Len(queue) = 0 /\ queue' = queue /\ condNotFull' = condNotFull
    BY <1>9, EmptySeq DEF PopWait, PopReady, Sleep
  <2>2. Awake({"push"})' = Awake({"push"})
    BY <1>9 DEF PopWait, Sleep, Awake, IInv, TypeOK, Pops
  <2> QED
    BY <1>1, <2>1, <2>2, AwakeFinite DEF NoLostWakeup
<1>10. ASSUME NEW t \in Threads, PopNothing(t) PROVE NoLostWakeup'
  <2>1. /\ Len(queue) = 0 /\ queue' = queue
        /\ condNotFull' = condNotFull /\ condNotEmpty' = condNotEmpty
    BY <1>10, EmptySeq DEF PopNothing
  <2>2. Awake({"push"})' = Awake({"push"})
    BY <1>10 DEF PopNothing, ReturnWaking, Awake, IInv, TypeOK, Pops
  <2> QED
    BY <1>1, <2>1, <2>2, AwakeFinite DEF NoLostWakeup
<1> QED
  BY <1>3, <1>4, <1>5, <1>6, <1>7, <1>8, <1>9, <1>10, PushNoLostWakeup,
     PopNoLostWakeup DEF Next, Crit

\* No thread is left asleep beside work it could do: notify_one suffices,
\* although a woken thread may be overtaken by a caller that never slept and
\* although a wait_for may time out while it is being notified.
THEOREM WakeupsNotLost == Spec => []NoLostWakeup
<1>1. Init => NoLostWakeup
  BY DEF Init, NoLostWakeup
<1> QED
  BY <1>1, InductiveInvariant, StoppedNobodyWaits, NextNoLostWakeup, PTL DEF Spec

-----------------------------------------------------------------------------
(* Refinement.                                                              *)

\* Each critical section that returns is one atomic operation of the abstract
\* queue, and everything else (locking, sleeping, waking) is invisible to it.
LEMMA NextRefines == IInv /\ [Next]_vars => [Abs!Next]_(Abs!vars)
<1> SUFFICES ASSUME IInv, [Next]_vars PROVE [Abs!Next]_(Abs!vars)
  OBVIOUS
<1> USE DEF IInv, TypeOK, Ops, Pops
<1>1. ASSUME NEW t \in Threads, NEW o \in Ops, NEW x \in Items \cup {None},
             Call(t, o, x)
      PROVE  Abs!Call(t, o, x)
  BY <1>1 DEF Call, Abs!Call
<1>2. ASSUME NEW t \in Threads, Push(t) PROVE Abs!Accept(t)
  <2>1. PICK W \in NotifyOne(condNotEmpty) :
             condNotEmpty' = condNotEmpty \ W /\ ReturnWaking(t, W)
    BY <1>2 DEF Push
  <2>2. \A w \in W : pc[w] = "wait"
    BY <2>1 DEF NotifyOne, MutexInv
  <2> QED
    BY <1>2, <2>1, <2>2 DEF Push, PushReady, ReturnWaking, Abs!Accept, Abs!Return
<1>3. ASSUME NEW t \in Threads, PushStopped(t) PROVE Abs!Discard(t)
  BY <1>3 DEF PushStopped, ReturnWaking, Abs!Discard, Abs!Return
<1>4. ASSUME NEW t \in Threads, Pop(t) PROVE Abs!Take(t)
  <2>1. PICK W \in NotifyOne(condNotFull) :
             condNotFull' = condNotFull \ W /\ ReturnWaking(t, W)
    BY <1>4 DEF Pop
  <2>2. \A w \in W : pc[w] = "wait"
    BY <2>1 DEF NotifyOne, MutexInv
  <2> QED
    BY <1>4, <2>1, <2>2 DEF Pop, ReturnWaking, Abs!Take, Abs!Return
<1>5. ASSUME NEW t \in Threads, PopNothing(t) PROVE Abs!GiveUp(t)
  BY <1>5 DEF PopNothing, PopReady, ReturnWaking, MutexInv, Abs!GiveUp, Abs!Return
<1>6. ASSUME NEW t \in Threads, Stop(t) PROVE Abs!Stop(t)
  <2>1. \A w \in condNotEmpty \cup condNotFull : pc[w] = "wait"
    BY DEF MutexInv
  <2>2. ReturnWaking(t, condNotEmpty \cup condNotFull)
    BY <1>6 DEF Stop, NotifyAll
  <2>3. UNCHANGED <<op, item, queue, ret>> /\ stopped' = TRUE
    BY <1>6, <2>2 DEF Stop, ReturnWaking
  <2>4. /\ op[t] = "stop" /\ pc[t] # "idle"
        /\ [u \in Threads |-> pc[u] # "idle"]'
             = [[u \in Threads |-> pc[u] # "idle"] EXCEPT ![t] = FALSE]
    BY <1>6, <2>1, <2>2 DEF Stop, ReturnWaking
  <2> QED
    BY <2>3, <2>4 DEF Abs!Stop, Abs!Return
<1>7. ASSUME NEW t \in Threads,
             Lock(t) \/ PushWait(t) \/ PopWait(t) \/ Spurious(t) \/ Timeout(t)
      PROVE  UNCHANGED Abs!vars
  BY <1>7 DEF Lock, PushWait, PopWait, Sleep, Spurious, Timeout, Leave, Abs!vars
<1>8. CASE UNCHANGED vars
  BY <1>8 DEF vars, Abs!vars
<1> QED
  BY <1>1, <1>2, <1>3, <1>4, <1>5, <1>6, <1>7, <1>8
  DEF Next, Crit, Abs!Next, Abs!Complete, Abs!Ops

LEMMA InitRefines == Init => Abs!Init
  BY DEF Init, Abs!Init

\* Seen from outside, the queue is a FIFO whose operations are atomic: it
\* takes the abstract queue's initial state to its own and never takes a step
\* that is neither an abstract operation nor a stutter.
THEOREM ImplementsBoundedFifo == Spec => Abs!Spec
  BY InitRefines, InductiveInvariant, NextRefines, PTL DEF Spec, Abs!Spec
=============================================================================
