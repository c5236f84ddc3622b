----------------------------- MODULE AtomicMap -----------------------------
(***************************************************************************)
(* What src/utils/SafeUMap.h promises to its callers: emplace, get, erase  *)
(* and traverse take effect in ONE step between their call and their       *)
(* return, a whole traversal included.  A call answers with the entries it *)
(* has inserted, found, removed or visited.                                *)
(*                                                                         *)
(* Locks and the lifetime of the objects do not appear here.  Module       *)
(* SafeUMap, which models them, is shown to implement this one.            *)
(***************************************************************************)
CONSTANTS Threads,  \* the callers
          Keys, Objects,
          None      \* nullptr, and no key

VARIABLES map,      \* the object of each key, or None
          call,     \* what each thread has called and has no answer to
          ret       \* the answer to its last call

vars == <<map, call, ret>>

Calls(op, keys, objects) == [op : {op}, key : keys, obj : objects]

NoCall == [op |-> "none", key |-> None, obj |-> None]

Entries(m) == {<<k, m[k]>> : k \in {x \in Keys : m[x] # None}}
EntriesOf(m, k) == {e \in Entries(m) : e[1] = k}

Init ==
    /\ map = [k \in Keys |-> None]
    /\ call = [t \in Threads |-> NoCall]
    /\ ret = [t \in Threads |-> {}]

Call(t, c) ==
    /\ call[t] = NoCall
    /\ call' = [call EXCEPT ![t] = c]
    /\ UNCHANGED <<map, ret>>

Answer(t, op, entries) ==
    /\ call[t].op = op
    /\ call' = [call EXCEPT ![t] = NoCall]
    /\ ret' = [ret EXCEPT ![t] = entries]

Emplace(t) ==
    LET k == call[t].key
        o == call[t].obj
        free == call[t].op = "emplace" /\ map[k] = None IN
    /\ Answer(t, "emplace", IF free THEN {<<k, o>>} ELSE {})
    /\ map' = IF free THEN [map EXCEPT ![k] = o] ELSE map

Get(t) == Answer(t, "get", EntriesOf(map, call[t].key)) /\ UNCHANGED map

Erase(t) ==
    LET k == call[t].key IN
    /\ Answer(t, "erase", EntriesOf(map, k))
    /\ map' = [map EXCEPT ![k] = None]

Traverse(t) == Answer(t, "traverse", Entries(map)) /\ UNCHANGED map

Clear ==
    /\ \A t \in Threads : call[t] = NoCall
    /\ map' = [k \in Keys |-> None]
    /\ UNCHANGED <<call, ret>>

Next ==
    \/ \E t \in Threads :
          \/ \E c \in Calls("emplace", Keys, Objects) \cup Calls("get", Keys, {None})
                      \cup Calls("erase", Keys, {None})
                      \cup Calls("traverse", {None}, {None}) : Call(t, c)
          \/ Emplace(t) \/ Get(t) \/ Erase(t) \/ Traverse(t)
    \/ Clear

Spec == Init /\ [][Next]_vars
=============================================================================
