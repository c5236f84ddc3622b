--------------------------- MODULE BlockingQueue ---------------------------
(***************************************************************************)
(* src/utils/BlockingQueue.h: a bounded FIFO behind one mutex (_mtx) and   *)
(* two condition variables (_condNotEmpty, _condNotFull).                  *)
(*                                                                         *)
(* A call is: acquire _mtx; test the wait predicate; while it is false,    *)
(* release _mtx and sleep on the condition variable, and when woken        *)
(* acquire _mtx and test again; once it is true do the work, notify,       *)
(* release _mtx and return.  Everything between an acquisition and the     *)
(* next release is one action, because nothing else can touch the queue    *)
(* meanwhile.  A sleeper leaves by a notification, by the timeout of       *)
(* pop_for, or spuriously, as std::condition_variable allows.              *)
(***************************************************************************)
EXTENDS Naturals, Sequences, FiniteSets

CONSTANTS Threads,   \* threads sharing the queue, any of which may call anything
          Items,     \* what can be pushed
          MaxSize,   \* _maxSize
          MaxCalls,     \* bound on the number of calls, for model checking
          MaxSpurious,  \* bound on the spurious wake-ups, for model checking
          None       \* std::nullopt, "no item" and "no holder of _mtx"

ASSUME QueueAssumption ==
    /\ IsFiniteSet(Threads)
    /\ MaxSize \in Nat \ {0}
    /\ MaxCalls \in Nat /\ MaxSpurious \in Nat
    /\ None \notin Threads
    /\ None \notin Items

VARIABLES
    queue,         \* _queue
    stopped,       \* _stopped
    mtx,           \* holder of _mtx, or None
    condNotEmpty,  \* threads asleep on _condNotEmpty
    condNotFull,   \* threads asleep on _condNotFull
    pc,            \* idle | lock (wants _mtx) | crit (holds it) | wait (asleep)
    op, item,      \* the current (or last) call of each thread and its argument
    expired,       \* expired[t]: the wait_for of t has timed out
    ret,           \* result of the last pop or pop_for of each thread
    accepted,      \* history: items in the order push inserted them
    delivered,     \* history: items in the order pop and pop_for removed them
    calls,         \* history: number of calls so far
    spurious       \* history: number of spurious wake-ups so far

vars == <<queue, stopped, mtx, condNotEmpty, condNotFull, pc, op, item,
          expired, ret, accepted, delivered, calls, spurious>>

Ops == {"push", "pop", "pop_for", "stop"}
Pops == {"pop", "pop_for"}

Init ==
    /\ queue = << >> /\ stopped = FALSE /\ mtx = None
    /\ condNotEmpty = {} /\ condNotFull = {}
    /\ pc = [t \in Threads |-> "idle"]
    /\ op = [t \in Threads |-> "stop"]
    /\ item = [t \in Threads |-> None]
    /\ expired = [t \in Threads |-> FALSE]
    /\ ret = [t \in Threads |-> None]
    /\ accepted = << >> /\ delivered = << >> /\ calls = 0 /\ spurious = 0

-----------------------------------------------------------------------------
(* Entering a call, and the mutex.                                          *)

Call(t, o, x) ==
    /\ pc[t] = "idle" /\ calls < MaxCalls
    /\ o = "push" <=> x \in Items
    /\ pc' = [pc EXCEPT ![t] = "lock"]
    /\ op' = [op EXCEPT ![t] = o]
    /\ item' = [item EXCEPT ![t] = x]
    /\ expired' = [expired EXCEPT ![t] = FALSE]
    /\ calls' = calls + 1
    /\ UNCHANGED <<queue, stopped, mtx, condNotEmpty, condNotFull, ret,
                   accepted, delivered, spurious>>

Lock(t) ==
    /\ pc[t] = "lock" /\ mtx = None
    /\ mtx' = t
    /\ pc' = [pc EXCEPT ![t] = "crit"]
    /\ UNCHANGED <<queue, stopped, condNotEmpty, condNotFull, op, item,
                   expired, ret, accepted, delivered, calls, spurious>>

\* The end of a call of t that has woken the threads of set W: t's
\* unique_lock is released and the woken threads go for the mutex.
ReturnWaking(t, W) ==
    /\ mtx' = None
    /\ pc' = [u \in Threads |-> IF u = t THEN "idle"
                                ELSE IF u \in W THEN "lock" ELSE pc[u]]
    /\ UNCHANGED <<op, item, expired, calls, spurious>>

\* What notify_one and notify_all may wake among the sleepers S.
NotifyOne(S) == IF S = {} THEN {{}} ELSE {{w} : w \in S}
NotifyAll(S) == {S}

-----------------------------------------------------------------------------
(* The wait predicates, and going to sleep on them.                         *)

PushReadyOffByOne == Len(queue) <= MaxSize \/ stopped
PushReady == Len(queue) < MaxSize \/ stopped

PopReadyIgnoringStop == queue # << >>
PopReady == queue # << >> \/ stopped

Sleep(t) ==
    /\ mtx' = None
    /\ pc' = [pc EXCEPT ![t] = "wait"]
    /\ UNCHANGED <<queue, stopped, op, item, expired, ret, accepted,
                   delivered, calls, spurious>>

PushWait(t) ==
    /\ pc[t] = "crit" /\ op[t] = "push" /\ ~PushReady
    /\ condNotFull' = condNotFull \cup {t}
    /\ UNCHANGED condNotEmpty
    /\ Sleep(t)

PopWait(t) ==
    /\ pc[t] = "crit" /\ op[t] \in Pops /\ ~PopReady /\ ~expired[t]
    /\ condNotEmpty' = condNotEmpty \cup {t}
    /\ UNCHANGED condNotFull
    /\ Sleep(t)

\* t leaves its condition variable without being notified.
Leave(t) ==
    /\ pc[t] = "wait"
    /\ pc' = [pc EXCEPT ![t] = "lock"]
    /\ condNotEmpty' = condNotEmpty \ {t}
    /\ condNotFull' = condNotFull \ {t}
    /\ UNCHANGED <<queue, stopped, mtx, op, item, ret, accepted, delivered,
                   calls>>

\* The standard allows spurious wake-ups at any time, but only finitely
\* many occur between two others: without a bound one sleeper could keep
\* _mtx from everybody else by waking, testing and sleeping again for ever.
Spurious(t) ==
    /\ spurious < MaxSpurious
    /\ Leave(t)
    /\ spurious' = spurious + 1
    /\ UNCHANGED expired

Timeout(t) ==
    /\ op[t] = "pop_for"
    /\ Leave(t)
    /\ expired' = [expired EXCEPT ![t] = TRUE]
    /\ UNCHANGED spurious

-----------------------------------------------------------------------------
(* The critical sections.                                                   *)

Push(t) ==
    /\ pc[t] = "crit" /\ op[t] = "push" /\ PushReady /\ ~stopped
    /\ queue' = Append(queue, item[t])
    /\ accepted' = Append(accepted, item[t])
    /\ \E W \in NotifyOne(condNotEmpty) :
          /\ condNotEmpty' = condNotEmpty \ W
          /\ ReturnWaking(t, W)
    /\ UNCHANGED <<stopped, condNotFull, ret, delivered>>

PushStopped(t) ==
    /\ pc[t] = "crit" /\ op[t] = "push" /\ PushReady /\ stopped
    /\ ReturnWaking(t, {})
    /\ UNCHANGED <<queue, stopped, condNotEmpty, condNotFull, ret, accepted,
                   delivered>>

\* Not the code: a pop that forgets to notify the producers, and one that
\* copies _queue.front() and forgets _queue.pop().
PopSilent(t) ==
    /\ pc[t] = "crit" /\ op[t] \in Pops /\ queue # << >>
    /\ queue' = Tail(queue)
    /\ delivered' = Append(delivered, Head(queue))
    /\ ret' = [ret EXCEPT ![t] = Head(queue)]
    /\ ReturnWaking(t, {})
    /\ UNCHANGED <<stopped, condNotEmpty, condNotFull, accepted>>

PopKeeping(t) ==
    /\ pc[t] = "crit" /\ op[t] \in Pops /\ queue # << >>
    /\ delivered' = Append(delivered, Head(queue))
    /\ ret' = [ret EXCEPT ![t] = Head(queue)]
    /\ \E W \in NotifyOne(condNotFull) :
          /\ condNotFull' = condNotFull \ W
          /\ ReturnWaking(t, W)
    /\ UNCHANGED <<queue, stopped, condNotEmpty, accepted>>

Pop(t) ==
    /\ pc[t] = "crit" /\ op[t] \in Pops /\ queue # << >>
    /\ queue' = Tail(queue)
    /\ delivered' = Append(delivered, Head(queue))
    /\ ret' = [ret EXCEPT ![t] = Head(queue)]
    /\ \E W \in NotifyOne(condNotFull) :
          /\ condNotFull' = condNotFull \ W
          /\ ReturnWaking(t, W)
    /\ UNCHANGED <<stopped, condNotEmpty, accepted>>

\* pop on a stopped empty queue; pop_for on one, or after its timeout.
PopNothing(t) ==
    /\ pc[t] = "crit" /\ op[t] \in Pops /\ queue = << >>
    /\ PopReady \/ expired[t]
    /\ ret' = [ret EXCEPT ![t] = None]
    /\ ReturnWaking(t, {})
    /\ UNCHANGED <<queue, stopped, condNotEmpty, condNotFull, accepted,
                   delivered>>

Stop(t) ==
    /\ pc[t] = "crit" /\ op[t] = "stop"
    /\ stopped' = TRUE
    /\ \E W \in NotifyAll(condNotEmpty), V \in NotifyAll(condNotFull) :
          /\ condNotEmpty' = condNotEmpty \ W
          /\ condNotFull' = condNotFull \ V
          /\ ReturnWaking(t, W \cup V)
    /\ UNCHANGED <<queue, ret, accepted, delivered>>

-----------------------------------------------------------------------------
\* The work of the thread that holds _mtx.
Crit(t) ==
    \/ Push(t) \/ PushStopped(t) \/ PushWait(t)
    \/ Pop(t) \/ PopNothing(t) \/ PopWait(t)
    \/ Stop(t)

Next ==
    \E t \in Threads :
        \/ \E o \in Ops, x \in Items \cup {None} : Call(t, o, x)
        \/ Lock(t) \/ Crit(t) \/ Spurious(t) \/ Timeout(t)

Spec == Init /\ [][Next]_vars

\* A runnable thread runs, and the clock of wait_for advances.  Nobody is
\* bound to make a call, and no spurious wake-up is ever owed to a sleeper.
FairSpec ==
    /\ Spec
    /\ \A t \in Threads : WF_vars(Lock(t)) /\ WF_vars(Crit(t)) /\ WF_vars(Timeout(t))

-----------------------------------------------------------------------------
(* Properties.                                                              *)

TypeOK ==
    /\ queue \in Seq(Items) /\ Len(queue) <= MaxSize
    /\ stopped \in BOOLEAN
    /\ mtx \in Threads \cup {None}
    /\ condNotEmpty \subseteq Threads /\ condNotFull \subseteq Threads
    /\ pc \in [Threads -> {"idle", "lock", "crit", "wait"}]
    /\ op \in [Threads -> Ops]
    /\ item \in [Threads -> Items \cup {None}]
    /\ expired \in [Threads -> BOOLEAN]
    /\ ret \in [Threads -> Items \cup {None}]
    /\ accepted \in Seq(Items) /\ delivered \in Seq(Items)
    /\ calls \in Nat /\ spurious \in Nat

\* Threads of set O on their way to the critical section.
Awake(O) == {t \in Threads : op[t] \in O /\ pc[t] \in {"lock", "crit"}}

\* No lost wake-up: while a thread sleeps for an item (for room), at least
\* as many poppers (pushers) are on their way as there are items (free
\* slots).  push and pop use notify_one, so an off-by-one in who is woken,
\* or a woken thread that is overtaken by another caller, would leave a
\* thread asleep beside work it could do.
NoLostWakeup ==
    /\ condNotEmpty # {} => Cardinality(Awake(Pops)) >= Len(queue)
    /\ condNotFull # {} => Cardinality(Awake({"push"})) >= MaxSize - Len(queue)

\* FIFO, nothing lost and nothing duplicated: whatever threads pushed and
\* popped, the items removed so far followed by the items still queued are
\* the items inserted, in the order of insertion.
Fifo == accepted = delivered \o queue

\* stop() leaves no thread asleep, and none can fall asleep afterwards: the
\* destructors join threads that sit in these queues.
StopWakesAll == stopped => condNotEmpty = {} /\ condNotFull = {}

\* The queue implements its abstract specification; as a property of
\* FairSpec, with its liveness: a call that can complete does.
Abs == INSTANCE BoundedFifo WITH busy <- [t \in Threads |-> pc[t] # "idle"]
RefinesFifo == Abs!FairSpec
=============================================================================
