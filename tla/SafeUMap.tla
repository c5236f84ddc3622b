------------------------------ MODULE SafeUMap ------------------------------
(***************************************************************************)
(* src/utils/SafeUMap.h: a map of shared objects behind a shared_mutex,    *)
(* the registry of the Clients.                                            *)
(*                                                                         *)
(* emplace and erase hold the mutex alone, get and traverse share it.      *)
(* get hands out a shared_ptr that outlives the entry, traverse one for    *)
(* each call of its callback; whoever drops the last one runs the object's *)
(* destructor, in the middle of whatever it is doing: ~Client joins a      *)
(* thread.                                                                 *)
(*                                                                         *)
(* A call that does nothing slow under the mutex is one step.  A traversal *)
(* is many, and so is an erasure or a refused emplace that destroys.       *)
(***************************************************************************)
EXTENDS FiniteSets

CONSTANTS Threads,  \* threads sharing the map, any of which may call anything
          Keys,
          Objects,  \* bound: the objects that callers of emplace make
          None      \* nullptr, and no key

ASSUME MapAssumption ==
    /\ None \notin Keys /\ None \notin Objects
    /\ Keys \cap Threads = {}

VARIABLES
    map,     \* map_: the object of each key, or None
    th,      \* of each thread: where it is, the key and the object it has in
             \* hand, and the entries it has visited
    owners,  \* of each object: the shared_ptrs to it, by where they are
    made,    \* the objects that have been made
    dead,    \* those whose destructor has begun
    ret,     \* the entries the last call of each thread has inserted, found,
             \* removed or visited
    ended    \* whether the map has been destroyed

vars == <<map, th, owners, made, dead, ret, ended>>

Idle == [at |-> "idle", key |-> None, obj |-> None, seen |-> {}]

Init ==
    /\ map = [k \in Keys |-> None]
    /\ th = [t \in Threads |-> Idle]
    /\ owners = [o \in Objects |-> {}] /\ made = {} /\ dead = {}
    /\ ret = [t \in Threads |-> {}] /\ ended = FALSE

\* The thread goes to another place.
Goes(t, at, key, obj, seen) ==
    th' = [th EXCEPT ![t] = [at |-> at, key |-> key, obj |-> obj, seen |-> seen]]

Entry(k) == IF map[k] = None THEN {} ELSE {<<k, map[k]>>}

\* Held by a traversal, and by a writer while it destroys.
Shared == \E t \in Threads : th[t].at \in {"visit", "visitDestroy"}
Locked == \E t \in Threads : th[t].at = "lockedDestroy"

\* Of the shared_ptrs to object o one goes, and with the last the object.
Last(o, owner) == owners[o] \subseteq {owner}
Drop(o, owner) ==
    /\ owners' = [owners EXCEPT ![o] = @ \ {owner}]
    /\ dead' = IF Last(o, owner) THEN dead \cup {o} ELSE dead

-----------------------------------------------------------------------------
(* Faulty variants of the definitions below, each a slip the code does not  *)
(* make: the properties must notice them.                                   *)

\* emplace replaces the object of the key.
EmplaceOver(t) ==
    LET k == th[t].key
        o == th[t].obj IN
    /\ th[t].at = "emplace" /\ ~Shared /\ ~Locked
    /\ map' = [map EXCEPT ![k] = o]
    /\ owners' = [owners EXCEPT ![o] = (@ \ {t}) \cup {k}]
    /\ Goes(t, "idle", None, None, {})
    /\ ret' = [ret EXCEPT ![t] = {<<k, o>>}]
    /\ UNCHANGED <<made, dead, ended>>

\* get hands out a plain pointer.
GetPointer(t) ==
    /\ th[t].at = "get" /\ ~Locked
    /\ ret' = [ret EXCEPT ![t] = Entry(th[t].key)]
    /\ IF map[th[t].key] = None THEN Goes(t, "idle", None, None, {})
       ELSE Goes(t, "use", None, map[th[t].key], {})
    /\ UNCHANGED <<map, owners, made, dead, ended>>

\* get takes the mutex for itself.
GetAlone(t) ==
    LET k == th[t].key IN
    /\ th[t].at = "get" /\ ~Shared /\ ~Locked
    /\ ret' = [ret EXCEPT ![t] = Entry(k)]
    /\ IF map[k] = None
       THEN Goes(t, "idle", None, None, {}) /\ UNCHANGED owners
       ELSE /\ Goes(t, "use", None, map[k], {})
            /\ owners' = [owners EXCEPT ![map[k]] = @ \cup {t}]
    /\ UNCHANGED <<map, made, dead, ended>>

\* erase shares the mutex.
EraseShared(t) ==
    LET k == th[t].key
        o == map[k] IN
    /\ th[t].at = "erase" /\ ~Locked
    /\ ret' = [ret EXCEPT ![t] = Entry(k)]
    /\ map' = [map EXCEPT ![k] = None]
    /\ IF o = None
       THEN Goes(t, "idle", None, None, {}) /\ UNCHANGED <<owners, dead>>
       ELSE /\ Drop(o, k)
            /\ IF Last(o, k) THEN Goes(t, "lockedDestroy", None, o, {})
               ELSE Goes(t, "idle", None, None, {})
    /\ UNCHANGED <<made, ended>>

\* get does without the test of find.
GetUnchecked(t) ==
    LET k == th[t].key IN
    /\ th[t].at = "get" /\ ~Locked
    /\ ret' = [ret EXCEPT ![t] = Entry(k)]
    /\ Goes(t, "use", None, map[k], {})
    /\ owners' = [o \in Objects |-> owners[o] \cup (IF o = map[k] THEN {t} ELSE {})]
    /\ UNCHANGED <<map, made, dead, ended>>

-----------------------------------------------------------------------------
(* The calls.                                                               *)

\* The object of an emplace is made by its caller, before it takes the mutex.
CallEmplace(t, k, o) ==
    /\ th[t] = Idle /\ ~ended /\ o \notin made
    /\ made' = made \cup {o}
    /\ owners' = [owners EXCEPT ![o] = {t}]
    /\ Goes(t, "emplace", k, o, {})
    /\ UNCHANGED <<map, dead, ret, ended>>

Call(t, op, k) ==
    /\ th[t] = Idle /\ ~ended
    /\ Goes(t, op, k, None, {})
    /\ UNCHANGED <<map, owners, made, dead, ret, ended>>

\* The shared_ptr is moved into the map.  When the key is there it dies in
\* map_.emplace, if that has moved it into a node (as libstdc++ does), or when
\* the call has returned: the standard leaves it open.
Emplace(t) ==
    LET k == th[t].key
        o == th[t].obj IN
    /\ th[t].at = "emplace" /\ ~Shared /\ ~Locked
    /\ IF map[k] = None
       THEN /\ map' = [map EXCEPT ![k] = o]
            /\ owners' = [owners EXCEPT ![o] = (@ \ {t}) \cup {k}]
            /\ Goes(t, "idle", None, None, {})
            /\ ret' = [ret EXCEPT ![t] = {<<k, o>>}]
            /\ UNCHANGED dead
       ELSE /\ \E at \in {"destroy", "lockedDestroy"} : Goes(t, at, None, o, {})
            /\ Drop(o, t)
            /\ ret' = [ret EXCEPT ![t] = {}]
            /\ UNCHANGED map
    /\ UNCHANGED <<made, ended>>

Get(t) ==
    LET k == th[t].key
        o == map[k] IN
    /\ th[t].at = "get" /\ ~Locked
    /\ ret' = [ret EXCEPT ![t] = Entry(k)]
    /\ IF o = None
       THEN Goes(t, "idle", None, None, {}) /\ UNCHANGED owners
       ELSE /\ Goes(t, "use", None, o, {})
            /\ owners' = [owners EXCEPT ![o] = @ \cup {t}]
    /\ UNCHANGED <<map, made, dead, ended>>

\* map_.erase destroys the entry's shared_ptr with the mutex held.
Erase(t) ==
    LET k == th[t].key
        o == map[k] IN
    /\ th[t].at = "erase" /\ ~Shared /\ ~Locked
    /\ ret' = [ret EXCEPT ![t] = Entry(k)]
    /\ map' = [map EXCEPT ![k] = None]
    /\ IF o = None
       THEN Goes(t, "idle", None, None, {}) /\ UNCHANGED <<owners, dead>>
       ELSE /\ Drop(o, k)
            /\ IF Last(o, k) THEN Goes(t, "lockedDestroy", None, o, {})
               ELSE Goes(t, "idle", None, None, {})
    /\ UNCHANGED <<made, ended>>

Traverse(t) ==
    /\ th[t].at = "traverse" /\ ~Locked
    /\ Goes(t, "visit", None, None, {})
    /\ UNCHANGED <<map, owners, made, dead, ret, ended>>

\* The next entry, in an order of unordered_map's: its shared_ptr is copied for
\* the callback.
Visit(t, k) ==
    /\ th[t].at = "visit" /\ th[t].obj = None
    /\ map[k] # None /\ \A e \in th[t].seen : e[1] # k
    /\ Goes(t, "visit", None, map[k], th[t].seen \cup Entry(k))
    /\ owners' = [owners EXCEPT ![map[k]] = @ \cup {t}]
    /\ UNCHANGED <<map, made, dead, ret, ended>>

\* The callback returns, and the caller of get is done with its object.
Release(t) ==
    LET o == th[t].obj IN
    /\ th[t].at \in {"use", "visit"} /\ o # None
    /\ Drop(o, t)
    /\ IF th[t].at = "use"
       THEN IF Last(o, t) THEN Goes(t, "destroy", None, o, {})
            ELSE Goes(t, "idle", None, None, {})
       ELSE IF Last(o, t) THEN Goes(t, "visitDestroy", None, o, th[t].seen)
            ELSE Goes(t, "visit", None, None, th[t].seen)
    /\ UNCHANGED <<map, made, ret, ended>>

\* The destructor of an object returns.
Destroyed(t) ==
    /\ th[t].at \in {"destroy", "lockedDestroy", "visitDestroy"}
    /\ IF th[t].at = "visitDestroy" THEN Goes(t, "visit", None, None, th[t].seen)
       ELSE Goes(t, "idle", None, None, {})
    /\ UNCHANGED <<map, owners, made, dead, ret, ended>>

EndTraverse(t) ==
    /\ th[t].at = "visit" /\ th[t].obj = None
    /\ \A k \in Keys : map[k] # None => \E e \in th[t].seen : e[1] = k
    /\ ret' = [ret EXCEPT ![t] = th[t].seen]
    /\ Goes(t, "idle", None, None, {})
    /\ UNCHANGED <<map, owners, made, dead, ended>>

\* ~SafeUMap takes no lock: its owner has joined the threads that used it.
Clear ==
    /\ ~ended /\ \A t \in Threads : th[t] = Idle
    /\ ended' = TRUE
    /\ owners' = [o \in Objects |-> owners[o] \ Keys]
    /\ dead' = dead \cup {o \in made : owners[o] \subseteq Keys}
    /\ map' = [k \in Keys |-> None]
    /\ UNCHANGED <<th, made, ret>>

-----------------------------------------------------------------------------
Step(t) ==
    \/ Emplace(t) \/ Get(t) \/ Erase(t) \/ Traverse(t)
    \/ \E k \in Keys : Visit(t, k)
    \/ Release(t) \/ Destroyed(t) \/ EndTraverse(t)

Next ==
    \/ \E t \in Threads :
          \/ \E k \in Keys : \/ \E o \in Objects : CallEmplace(t, k, o)
                             \/ Call(t, "get", k) \/ Call(t, "erase", k)
          \/ Call(t, "traverse", None)
          \/ Step(t)
    \/ Clear

Spec == Init /\ [][Next]_vars

\* A call that can go on does, and callbacks and destructors return.
FairSpec == Spec /\ \A t \in Threads : WF_vars(Step(t))

-----------------------------------------------------------------------------
(* Properties.                                                              *)

Places == {"idle", "emplace", "get", "erase", "traverse", "visit", "use",
           "destroy", "lockedDestroy", "visitDestroy"}
ThStates == [at : Places, key : Keys \cup {None}, obj : Objects \cup {None},
             seen : SUBSET (Keys \X Objects)]

Typed ==
    /\ map \in [Keys -> Objects \cup {None}]
    /\ th \in [Threads -> ThStates]
    /\ owners \in [Objects -> SUBSET (Keys \cup Threads)]
    /\ made \subseteq Objects /\ dead \subseteq made
    /\ ret \in [Threads -> SUBSET (Keys \X Objects)]
    /\ ended \in BOOLEAN

\* Who uses or destroys an object has one that was made.
InHand ==
    \A t \in Threads :
        th[t].at \in {"emplace", "use", "destroy", "lockedDestroy", "visitDestroy"}
            => th[t].obj \in made

TypeOK == Typed /\ InHand

\* "shared_ptr keeps the object alive": what is registered or in use is not
\* destroyed, though it is erased meanwhile; what is neither is.
AliveIsOwned ==
    \A o \in made :
        o \notin dead <=>
            \/ \E k \in Keys : map[k] = o
            \/ \E t \in Threads : th[t].obj = o /\ th[t].at \in {"emplace", "use", "visit"}

\* ~Client joins a thread: a traversal, which may be _multimediaThr's, is never
\* the one to run it, though the entry may be about to be erased.
TraversalDestroysNothing == \A t \in Threads : th[t].at # "visitDestroy"

\* The map implements its abstract specification: a traversal has visited what
\* the map holds at one moment, and every call answers what the map held at one.
CallOf(r) ==
    [op |-> IF r.at \in {"emplace", "get", "erase", "traverse"} THEN r.at
            ELSE IF r.at \in {"visit", "visitDestroy"} THEN "traverse" ELSE "none",
     key |-> r.key,
     obj |-> IF r.at = "emplace" THEN r.obj ELSE None]

Abs == INSTANCE AtomicMap WITH call <- [t \in Threads |-> CallOf(th[t])]
RefinesMap == Abs!Spec

\* get and traverse return, whoever else traverses meanwhile: they share the
\* mutex, and writers that hold it let go of it.
ReadersReturn ==
    \A t \in Threads : th[t].at \in {"get", "traverse"} ~> th[t].at = "idle"
=============================================================================
