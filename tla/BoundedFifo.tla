---------------------------- MODULE BoundedFifo ----------------------------
(***************************************************************************)
(* What src/utils/BlockingQueue.h promises to its callers: every call of   *)
(* push, pop, pop_for or stop takes effect in ONE step between its call    *)
(* and its return, on a FIFO of at most MaxSize items.                     *)
(*                                                                         *)
(*  - push blocks while the queue is full and running, and is discarded    *)
(*    once the queue is stopped;                                           *)
(*  - pop takes the oldest item, and returns nothing only from a queue     *)
(*    that is stopped and empty;                                           *)
(*  - pop_for may also give up, but never while an item is there;          *)
(*  - a call that can complete and stays able to complete, completes.      *)
(*                                                                         *)
(* Mutexes, condition variables and wake-ups do not appear here.  Module   *)
(* BlockingQueue, which models them, is shown to implement this one.       *)
(***************************************************************************)
EXTENDS Naturals, Sequences

CONSTANTS Threads,   \* the callers
          Items,     \* what can be pushed
          MaxSize,   \* capacity given to the constructor
          None       \* std::nullopt, and "no item"

VARIABLES queue, stopped,
          busy,      \* busy[t]: t is inside a call
          op,        \* op[t]: the operation t called last
          item,      \* item[t]: the argument of that call, None unless push
          ret        \* ret[t]: what t's last pop or pop_for returned

vars == <<queue, stopped, busy, op, item, ret>>

Ops == {"push", "pop", "pop_for", "stop"}

Init ==
    /\ queue = << >>
    /\ stopped = FALSE
    /\ busy = [t \in Threads |-> FALSE]
    /\ op = [t \in Threads |-> "stop"]
    /\ item = [t \in Threads |-> None]
    /\ ret = [t \in Threads |-> None]

Call(t, o, x) ==
    /\ ~busy[t]
    /\ busy' = [busy EXCEPT ![t] = TRUE]
    /\ op' = [op EXCEPT ![t] = o]
    /\ item' = [item EXCEPT ![t] = x]
    /\ UNCHANGED <<queue, stopped, ret>>

Return(t) ==
    /\ busy[t]
    /\ busy' = [busy EXCEPT ![t] = FALSE]
    /\ UNCHANGED <<op, item>>

Accept(t) ==
    /\ op[t] = "push" /\ ~stopped /\ Len(queue) < MaxSize
    /\ queue' = Append(queue, item[t])
    /\ UNCHANGED <<stopped, ret>>
    /\ Return(t)

Discard(t) ==
    /\ op[t] = "push" /\ stopped
    /\ UNCHANGED <<queue, stopped, ret>>
    /\ Return(t)

Take(t) ==
    /\ op[t] \in {"pop", "pop_for"} /\ queue # << >>
    /\ queue' = Tail(queue)
    /\ ret' = [ret EXCEPT ![t] = Head(queue)]
    /\ UNCHANGED stopped
    /\ Return(t)

GiveUp(t) ==
    /\ op[t] \in {"pop", "pop_for"} /\ queue = << >>
    /\ stopped \/ op[t] = "pop_for"
    /\ ret' = [ret EXCEPT ![t] = None]
    /\ UNCHANGED <<queue, stopped>>
    /\ Return(t)

Stop(t) ==
    /\ op[t] = "stop"
    /\ stopped' = TRUE
    /\ UNCHANGED <<queue, ret>>
    /\ Return(t)

Complete(t) == Accept(t) \/ Discard(t) \/ Take(t) \/ GiveUp(t) \/ Stop(t)

Next ==
    \E t \in Threads :
        \/ \E o \in Ops, x \in Items \cup {None} : Call(t, o, x)
        \/ Complete(t)

Spec == Init /\ [][Next]_vars

FairSpec == Spec /\ \A t \in Threads : WF_vars(Complete(t))
=============================================================================
