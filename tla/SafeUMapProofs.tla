--------------------------- MODULE SafeUMapProofs ---------------------------
(***************************************************************************)
(* The properties of SafeUMap, and that it implements AtomicMap, for any   *)
(* threads, keys and objects.                                              *)
(*                                                                         *)
(* The lifetime of the objects rests on one fact, that an object's owners  *)
(* are the entries and the threads that have it in hand (OwnersOK).  What  *)
(* traverse promises rests on another: nothing is written while the mutex  *)
(* is shared, so an entry that has been visited is still there, and it     *)
(* owns the object whose copy the callback returns (VisitOK, SeenOK).      *)
(***************************************************************************)
EXTENDS SafeUMap, TLAPS

\* What thread t has in hand where it is.
PlaceOK ==
    \A t \in Threads :
        /\ IF th[t].at \in {"emplace", "get", "erase"}
           THEN th[t].key \in Keys ELSE th[t].key = None
        /\ th[t].at \in {"emplace", "use", "destroy", "lockedDestroy", "visitDestroy"} =>
              th[t].obj \in made
        /\ th[t].at \in {"idle", "get", "erase", "traverse"} => th[t].obj = None
        /\ th[t].at \notin {"visit", "visitDestroy"} => th[t].seen = {}

Has(t, o) == th[t].obj = o /\ th[t].at \in {"emplace", "use", "visit"}

OwnersOK ==
    \A o \in Objects :
        /\ \A k \in Keys : k \in owners[o] <=> map[k] = o
        /\ \A t \in Threads : t \in owners[o] <=> Has(t, o)

DeadOK ==
    \A o \in Objects :
        IF o \in made THEN o \in dead <=> owners[o] = {} ELSE owners[o] = {}

VisitOK ==
    \A t \in Threads :
        th[t].at = "visit" /\ th[t].obj # None => \E k \in Keys : map[k] = th[t].obj

SeenOK ==
    \A t \in Threads : th[t].at = "visit" =>
        \A e \in th[t].seen : e \in Keys \X Objects /\ map[e[1]] = e[2]

IInv ==
    /\ Typed /\ PlaceOK /\ OwnersOK /\ DeadOK /\ VisitOK /\ SeenOK
    /\ TraversalDestroysNothing

LEMMA InitIInv == Init => IInv
<1> SUFFICES ASSUME Init PROVE IInv
  OBVIOUS
<1> USE MapAssumption DEF MapAssumption, Init, Idle
<1>1. Typed
  BY DEF Typed, ThStates, Places
<1>2. PlaceOK /\ DeadOK /\ VisitOK /\ SeenOK /\ TraversalDestroysNothing
  BY DEF PlaceOK, DeadOK, VisitOK, SeenOK, TraversalDestroysNothing
<1>3. OwnersOK
  BY DEF OwnersOK, Has
<1> QED
  BY <1>1, <1>2, <1>3 DEF IInv

-----------------------------------------------------------------------------
LEMMA CallEmplaceIInv ==
  ASSUME IInv, NEW t \in Threads, NEW k \in Keys, NEW o \in Objects, CallEmplace(t, k, o)
  PROVE  IInv'
<1> USE MapAssumption DEF MapAssumption, IInv, CallEmplace, Goes, Idle
<1>1. Typed'
  BY DEF Typed, ThStates, Places
<1>2. PlaceOK'
  BY DEF Typed, ThStates, PlaceOK
<1>3. OwnersOK'
  BY DEF Typed, ThStates, OwnersOK, DeadOK, Has, PlaceOK
<1>4. DeadOK'
  BY DEF Typed, DeadOK
<1>5. VisitOK' /\ SeenOK' /\ TraversalDestroysNothing'
  BY DEF Typed, ThStates, VisitOK, SeenOK, TraversalDestroysNothing
<1> QED
  BY <1>1, <1>2, <1>3, <1>4, <1>5

LEMMA CallIInv ==
  ASSUME IInv, NEW t \in Threads, NEW op, NEW k,
         Call(t, op, k),
         (op \in {"get", "erase"} /\ k \in Keys) \/ (op = "traverse" /\ k = None)
  PROVE  IInv'
<1> USE MapAssumption DEF MapAssumption, IInv, Call, Goes, Idle
<1>1. Typed'
  BY DEF Typed, ThStates, Places
<1>2. PlaceOK'
  BY DEF Typed, ThStates, PlaceOK
<1>3. OwnersOK'
  BY DEF Typed, ThStates, OwnersOK, Has
<1>4. DeadOK'
  BY DEF DeadOK
<1>5. VisitOK' /\ SeenOK' /\ TraversalDestroysNothing'
  BY DEF Typed, ThStates, VisitOK, SeenOK, TraversalDestroysNothing
<1> QED
  BY <1>1, <1>2, <1>3, <1>4, <1>5

LEMMA EmplaceIInv ==
  ASSUME IInv, NEW t \in Threads, Emplace(t)
  PROVE  IInv'
<1> USE MapAssumption DEF MapAssumption, IInv, Emplace, Goes
<1>0. th[t].key \in Keys /\ th[t].obj \in Objects /\ th[t].obj # None
  BY DEF PlaceOK, Typed
<1>a. th[t].obj \in made
  BY DEF PlaceOK
<1>b. th' \in [Threads -> ThStates]
  BY <1>0 DEF Typed, ThStates, Places
<1>c. owners' \in [Objects -> SUBSET (Keys \cup Threads)] /\ dead' \subseteq made
  BY <1>0, <1>a DEF Typed, Drop
<1>d. map' \in [Keys -> Objects \cup {None}]
  BY <1>0 DEF Typed
<1>e. ret' \in [Threads -> SUBSET (Keys \X Objects)]
  BY <1>0 DEF Typed
<1>1. Typed'
  BY <1>b, <1>c, <1>d, <1>e DEF Typed
<1>2. PlaceOK'
  BY <1>0 DEF Typed, ThStates, PlaceOK
<1>3. OwnersOK'
  BY <1>0 DEF Typed, ThStates, OwnersOK, Has, Drop
<1>4. DeadOK'
  BY <1>0 DEF Typed, DeadOK, OwnersOK, Has, Drop, Last
<1>5. /\ \A u \in Threads \ {t} : th'[u] = th[u] /\ th[u].at # "visit"
      /\ th'[t].at \notin {"visit", "visitDestroy"}
  BY <1>0 DEF Typed, ThStates, Shared
<1>6. VisitOK' /\ SeenOK'
  BY <1>5 DEF VisitOK, SeenOK
<1>7. TraversalDestroysNothing'
  BY <1>5 DEF TraversalDestroysNothing
<1> QED
  BY <1>1, <1>2, <1>3, <1>4, <1>6, <1>7

LEMMA GetIInv ==
  ASSUME IInv, NEW t \in Threads, Get(t)
  PROVE  IInv'
<1> USE MapAssumption DEF MapAssumption, IInv, Get, Goes
<1>0. th[t].key \in Keys
  BY DEF PlaceOK
<1>a. Entry(th[t].key) \in SUBSET (Keys \X Objects)
  BY <1>0 DEF Typed, Entry
<1>b. map[th[t].key] # None => map[th[t].key] \in Objects
  BY <1>0 DEF Typed
<1>c. th' \in [Threads -> ThStates]
  BY <1>0, <1>b DEF Typed, ThStates, Places
<1>1. Typed'
  BY <1>0, <1>a, <1>b, <1>c DEF Typed
<1>d. map[th[t].key] # None => map[th[t].key] \in made
  BY <1>0, <1>b DEF OwnersOK, DeadOK
<1>2. PlaceOK'
  BY <1>0, <1>b, <1>d DEF Typed, ThStates, PlaceOK
<1>3. OwnersOK'
  BY <1>0, <1>b DEF Typed, ThStates, OwnersOK, Has
<1>4. DeadOK'
  BY <1>0, <1>b DEF Typed, DeadOK, OwnersOK
<1>5. VisitOK'
  BY <1>0 DEF Typed, ThStates, VisitOK
<1>6. SeenOK'
  BY <1>0 DEF Typed, ThStates, SeenOK
<1>7. TraversalDestroysNothing'
  BY <1>0 DEF Typed, ThStates, TraversalDestroysNothing
<1> QED
  BY <1>1, <1>2, <1>3, <1>4, <1>5, <1>6, <1>7

LEMMA EraseIInv ==
  ASSUME IInv, NEW t \in Threads, Erase(t)
  PROVE  IInv'
<1> USE MapAssumption DEF MapAssumption, IInv, Erase, Goes
<1>0. th[t].key \in Keys
  BY DEF PlaceOK
<1>a. Entry(th[t].key) \in SUBSET (Keys \X Objects)
  BY <1>0 DEF Typed, Entry
<1>b. map[th[t].key] # None => map[th[t].key] \in Objects /\ map[th[t].key] \in made
  BY <1>0 DEF Typed, OwnersOK, DeadOK
<1>c. th' \in [Threads -> ThStates]
  BY <1>0, <1>b DEF Typed, ThStates, Places
<1>d. owners' \in [Objects -> SUBSET (Keys \cup Threads)] /\ dead' \subseteq made
  BY <1>0, <1>b DEF Typed, Drop
<1>1. Typed'
  BY <1>0, <1>a, <1>c, <1>d DEF Typed
<1>2. PlaceOK'
  BY <1>0, <1>b DEF Typed, ThStates, PlaceOK
<1>3. OwnersOK'
  BY <1>0, <1>b DEF Typed, ThStates, OwnersOK, Has, Drop
<1>4. DeadOK'
  BY <1>0, <1>b DEF Typed, DeadOK, OwnersOK, Drop, Last
<1>5. VisitOK'
  BY <1>0 DEF Typed, ThStates, VisitOK, Shared
<1>6. SeenOK'
  BY <1>0 DEF Typed, ThStates, SeenOK, Shared
<1>7. TraversalDestroysNothing'
  BY <1>0 DEF Typed, ThStates, TraversalDestroysNothing
<1> QED
  BY <1>1, <1>2, <1>3, <1>4, <1>5, <1>6, <1>7

LEMMA TraverseIInv ==
  ASSUME IInv, NEW t \in Threads, Traverse(t) \/ Destroyed(t) \/ EndTraverse(t)
  PROVE  IInv'
<1> USE MapAssumption DEF MapAssumption, IInv, Traverse, Destroyed, EndTraverse, Goes
<1>0. th[t].at # "visitDestroy"
  BY DEF TraversalDestroysNothing
<1>a. th' \in [Threads -> ThStates]
  BY <1>0 DEF Typed, ThStates, Places
<1>b. th[t].seen \in SUBSET (Keys \X Objects)
  BY DEF Typed, ThStates
<1>1. Typed'
  BY <1>a, <1>b DEF Typed
<1>2. PlaceOK'
  BY <1>0 DEF Typed, ThStates, PlaceOK
<1>3. OwnersOK'
  <2>1. \A u \in Threads, o \in Objects : Has(u, o)' <=> Has(u, o)
    <3>1. CASE Traverse(t)
      BY <3>1 DEF Typed, ThStates, Has, PlaceOK
    <3>2. CASE Destroyed(t)
      BY <3>2, <1>0 DEF Typed, ThStates, Has
    <3>3. CASE EndTraverse(t)
      BY <3>3 DEF Typed, ThStates, Has
    <3> QED
      BY <3>1, <3>2, <3>3
  <2> QED
    BY <2>1 DEF OwnersOK
<1>4. DeadOK'
  BY DEF DeadOK
<1>5. VisitOK'
  BY <1>0 DEF Typed, ThStates, VisitOK
<1>6. SeenOK'
  BY <1>0 DEF Typed, ThStates, SeenOK, PlaceOK
<1>7. TraversalDestroysNothing'
  BY <1>0 DEF Typed, ThStates, TraversalDestroysNothing
<1> QED
  BY <1>1, <1>2, <1>3, <1>4, <1>5, <1>6, <1>7

LEMMA VisitIInv ==
  ASSUME IInv, NEW t \in Threads, NEW k \in Keys, Visit(t, k)
  PROVE  IInv'
<1> USE MapAssumption DEF MapAssumption, IInv, Visit, Goes
<1>0. map[k] \in Objects
  BY DEF Typed
<1>a. Entry(k) = {<<k, map[k]>>}
  BY DEF Entry
<1>b. th' \in [Threads -> ThStates]
  BY <1>0, <1>a DEF Typed, ThStates, Places
<1>1. Typed'
  BY <1>0, <1>b DEF Typed
<1>2. PlaceOK'
  BY <1>0 DEF Typed, ThStates, PlaceOK
<1>3. OwnersOK'
  BY <1>0 DEF Typed, ThStates, OwnersOK, Has
<1>4. DeadOK'
  BY <1>0 DEF Typed, DeadOK, OwnersOK
<1>5. VisitOK' /\ TraversalDestroysNothing'
  BY <1>0 DEF Typed, ThStates, VisitOK, TraversalDestroysNothing
<1>6. SeenOK'
  <2> SUFFICES ASSUME NEW u \in Threads, th'[u].at = "visit", NEW e \in th'[u].seen
               PROVE  e \in Keys \X Objects /\ map[e[1]] = e[2]
    BY DEF SeenOK
  <2>1. CASE u # t
    BY <2>1 DEF Typed, ThStates, SeenOK
  <2>2. CASE u = t
    <3>1. e \in th[t].seen \/ e = <<k, map[k]>>
      BY <2>2, <1>a DEF Typed, ThStates
    <3> QED
      BY <3>1, <1>0 DEF SeenOK
  <2> QED
    BY <2>1, <2>2
<1> QED
  BY <1>1, <1>2, <1>3, <1>4, <1>5, <1>6

LEMMA ReleaseIInv ==
  ASSUME IInv, NEW t \in Threads, Release(t)
  PROVE  IInv'
<1> USE MapAssumption DEF MapAssumption, IInv, Release, Goes
<1>0. th[t].obj \in Objects
  BY DEF Typed, ThStates
<1>a. th[t].obj \in made
  BY <1>0 DEF OwnersOK, Has, DeadOK
<1>b. th[t].at = "visit" => ~Last(th[t].obj, t)
  <2>1. ASSUME th[t].at = "visit" PROVE \E k \in Keys : k \in owners[th[t].obj]
    BY <2>1, <1>0 DEF VisitOK, OwnersOK
  <2> QED
    BY <2>1 DEF Last
<1>c. th' \in [Threads -> ThStates]
  BY <1>0 DEF Typed, ThStates, Places
<1>d. owners' \in [Objects -> SUBSET (Keys \cup Threads)] /\ dead' \subseteq made
  BY <1>0, <1>a DEF Typed, Drop
<1>1. Typed'
  BY <1>c, <1>d DEF Typed
<1>2. PlaceOK'
  BY <1>0, <1>b DEF Typed, ThStates, PlaceOK
<1>3. OwnersOK'
  BY <1>0, <1>b DEF Typed, ThStates, OwnersOK, Has, Drop
<1>4. DeadOK'
  BY <1>0, <1>a DEF Typed, DeadOK, Drop, Last
<1>5. /\ \A u \in Threads \ {t} : th'[u] = th[u]
      /\ th'[t].at \in {"destroy", "idle", "visit"}
      /\ th'[t].at = "visit" => th[t].at = "visit" /\ th'[t].obj = None
                               /\ th'[t].seen = th[t].seen
  BY <1>b DEF Typed, ThStates
<1>6. VisitOK'
  BY <1>5 DEF VisitOK
<1>7. SeenOK'
  BY <1>5 DEF SeenOK
<1>8. TraversalDestroysNothing'
  BY <1>5 DEF TraversalDestroysNothing
<1> QED
  BY <1>1, <1>2, <1>3, <1>4, <1>6, <1>7, <1>8

LEMMA ClearIInv == IInv /\ Clear => IInv'
<1> SUFFICES ASSUME IInv, Clear PROVE IInv'
  OBVIOUS
<1> USE MapAssumption DEF MapAssumption, IInv, Clear, Idle
<1>1. Typed'
  BY DEF Typed
<1>2. PlaceOK' /\ VisitOK' /\ SeenOK' /\ TraversalDestroysNothing'
  BY DEF PlaceOK, VisitOK, SeenOK, TraversalDestroysNothing
<1>3. OwnersOK'
  BY DEF OwnersOK, Has, Typed
<1>4. DeadOK'
  BY DEF DeadOK, Typed
<1> QED
  BY <1>1, <1>2, <1>3, <1>4

LEMMA NextIInv == IInv /\ [Next]_vars => IInv'
<1> SUFFICES ASSUME IInv, [Next]_vars PROVE IInv'
  OBVIOUS
<1>1. CASE UNCHANGED vars
  BY <1>1 DEF vars, IInv, Typed, PlaceOK, OwnersOK, Has, DeadOK, VisitOK, SeenOK,
     TraversalDestroysNothing
<1>2. ASSUME NEW t \in Threads, Step(t) PROVE IInv'
  BY <1>2, EmplaceIInv, GetIInv, EraseIInv, TraverseIInv, VisitIInv, ReleaseIInv DEF Step
<1>3. ASSUME NEW t \in Threads, NEW k \in Keys,
             (\E o \in Objects : CallEmplace(t, k, o)) \/ Call(t, "get", k) \/ Call(t, "erase", k)
      PROVE  IInv'
  BY <1>3, CallEmplaceIInv, CallIInv
<1>4. ASSUME NEW t \in Threads, Call(t, "traverse", None) PROVE IInv'
  BY <1>4, CallIInv
<1> QED
  BY <1>1, <1>2, <1>3, <1>4, ClearIInv DEF Next

\* The strengthening is invariant.
LEMMA IInvHolds == Spec => []IInv
  BY InitIInv, NextIInv, PTL DEF Spec

\* Type correctness; whoever uses or destroys an object has one in hand.
THEOREM TypeCorrect == Spec => []TypeOK
<1>1. IInv => TypeOK
  BY DEF IInv, TypeOK, InHand, PlaceOK
<1> QED BY <1>1, IInvHolds, PTL

\* An object is alive exactly as long as it is registered or in use.
THEOREM SharedObjectsAreAlive == Spec => []AliveIsOwned
<1>1. IInv => AliveIsOwned
  <2> SUFFICES ASSUME IInv, NEW o \in made PROVE
        o \notin dead <=> (\E k \in Keys : map[k] = o) \/ (\E t \in Threads : Has(t, o))
    BY DEF AliveIsOwned, Has
  <2>1. o \in Objects /\ owners[o] \subseteq Keys \cup Threads
    BY DEF IInv, Typed
  <2>2. o \notin dead <=> \E w \in Keys \cup Threads : w \in owners[o]
    BY <2>1 DEF IInv, DeadOK
  <2> QED
    BY <2>1, <2>2 DEF IInv, OwnersOK
<1> QED
  BY IInvHolds, <1>1, PTL

\* No thread runs a destructor in the middle of a traversal.
THEOREM TraversalsDestroyNothing == Spec => []TraversalDestroysNothing
  BY IInvHolds, PTL DEF IInv

-----------------------------------------------------------------------------
(* The refinement.                                                          *)

LEMMA InitRefines == Init => Abs!Init
  BY DEF Init, Idle, CallOf, Abs!Init, Abs!NoCall

\* Outside a call the abstract thread has called nothing.
LEMMA NotCalling ==
  ASSUME IInv, NEW t \in Threads,
         th[t].at \in {"idle", "use", "destroy", "lockedDestroy"}
  PROVE  CallOf(th[t]) = Abs!NoCall
  BY DEF IInv, PlaceOK, CallOf, Abs!NoCall

\* When one thread goes elsewhere, its abstract call changes and no other.
LEMMA GoesRefines ==
  ASSUME IInv, NEW t \in Threads, NEW at, NEW key, NEW obj, NEW seen,
         Goes(t, at, key, obj, seen),
         NEW c, CallOf([at |-> at, key |-> key, obj |-> obj, seen |-> seen]) = c
  PROVE  [u \in Threads |-> CallOf(th'[u])]
            = [[u \in Threads |-> CallOf(th[u])] EXCEPT ![t] = c]
  BY DEF IInv, Typed, Goes

LEMMA GoesStays ==
  ASSUME IInv, NEW t \in Threads, NEW at, NEW key, NEW obj, NEW seen,
         Goes(t, at, key, obj, seen),
         CallOf([at |-> at, key |-> key, obj |-> obj, seen |-> seen]) = CallOf(th[t])
  PROVE  [u \in Threads |-> CallOf(th'[u])] = [u \in Threads |-> CallOf(th[u])]
  BY DEF IInv, Typed, Goes

LEMMA EntryIsEntries ==
  ASSUME NEW k \in Keys
  PROVE  Abs!EntriesOf(map, k) = Entry(k)
<1>1. ASSUME NEW e \in Abs!EntriesOf(map, k) PROVE e \in Entry(k)
  BY <1>1 DEF Abs!EntriesOf, Abs!Entries, Entry
<1>2. ASSUME NEW e \in Entry(k) PROVE e \in Abs!EntriesOf(map, k)
  BY <1>2 DEF Abs!EntriesOf, Abs!Entries, Entry
<1> QED
  BY <1>1, <1>2

LEMMA StepRefines ==
  ASSUME IInv, NEW t \in Threads, Step(t)
  PROVE  [Abs!Next]_(Abs!vars)
<1> DEFINE call == [u \in Threads |-> CallOf(th[u])]
<1>0. Abs!NoCall = [op |-> "none", key |-> None, obj |-> None]
  BY DEF Abs!NoCall
<1>a. ASSUME NEW op, NEW entries, call[t].op = op,
             call' = [call EXCEPT ![t] = Abs!NoCall],
             ret' = [ret EXCEPT ![t] = entries]
      PROVE  Abs!Answer(t, op, entries)
  BY <1>a DEF Abs!Answer
<1>1. CASE Emplace(t)
  <2>1. call[t] = [op |-> "emplace", key |-> th[t].key, obj |-> th[t].obj]
    BY <1>1 DEF Emplace, CallOf
  <2>2. call' = [call EXCEPT ![t] = Abs!NoCall]
    <3>1. CASE Goes(t, "idle", None, None, {})
      BY <3>1, <1>0, GoesRefines DEF CallOf
    <3>2. ASSUME NEW at \in {"destroy", "lockedDestroy"}, Goes(t, at, None, th[t].obj, {})
          PROVE  call' = [call EXCEPT ![t] = Abs!NoCall]
      BY <3>2, <1>0, GoesRefines DEF CallOf
    <3> QED
      BY <1>1, <3>1, <3>2 DEF Emplace
  <2>3. Abs!Emplace(t)
    BY <1>1, <2>1, <2>2 DEF Emplace, Abs!Emplace, Abs!Answer
  <2> QED
    BY <2>3 DEF Abs!Next
<1>2. CASE Get(t)
  <2>1. call[t] = [op |-> "get", key |-> th[t].key, obj |-> None] /\ th[t].key \in Keys
    BY <1>2 DEF Get, CallOf, IInv, PlaceOK
  <2>2. call' = [call EXCEPT ![t] = Abs!NoCall]
    <3>1. CASE Goes(t, "idle", None, None, {})
      BY <3>1, <1>0, GoesRefines DEF CallOf
    <3>2. CASE Goes(t, "use", None, map[th[t].key], {})
      BY <3>2, <1>0, GoesRefines DEF CallOf
    <3> QED
      BY <1>2, <3>1, <3>2 DEF Get
  <2>3. Abs!Get(t)
    <3>1. Abs!EntriesOf(map, call[t].key) = Entry(th[t].key)
      BY <2>1, EntryIsEntries
    <3>2. ret' = [ret EXCEPT ![t] = Abs!EntriesOf(map, call[t].key)]
      BY <3>1, <1>2 DEF Get
    <3>3. Abs!Answer(t, "get", Abs!EntriesOf(map, call[t].key))
      <4>1. call[t].op = "get"
        BY <2>1
      <4> QED
        BY <4>1, <2>2, <3>2, <1>a
    <3>4. UNCHANGED map
      BY <1>2, <2>1 DEF Get
    <3> QED
      BY <3>3, <3>4 DEF Abs!Get
  <2> QED
    BY <2>3 DEF Abs!Next
<1>3. CASE Erase(t)
  <2>1. call[t] = [op |-> "erase", key |-> th[t].key, obj |-> None] /\ th[t].key \in Keys
    BY <1>3 DEF Erase, CallOf, IInv, PlaceOK
  <2>2. call' = [call EXCEPT ![t] = Abs!NoCall]
    <3>1. CASE Goes(t, "idle", None, None, {})
      BY <3>1, <1>0, GoesRefines DEF CallOf
    <3>2. CASE Goes(t, "lockedDestroy", None, map[th[t].key], {})
      BY <3>2, <1>0, GoesRefines DEF CallOf
    <3> QED
      BY <1>3, <3>1, <3>2 DEF Erase
  <2>3. Abs!Erase(t)
    <3>1. Abs!EntriesOf(map, call[t].key) = Entry(th[t].key)
      BY <2>1, EntryIsEntries
    <3>2. ret' = [ret EXCEPT ![t] = Abs!EntriesOf(map, call[t].key)]
      BY <3>1, <1>3 DEF Erase
    <3>3. Abs!Answer(t, "erase", Abs!EntriesOf(map, call[t].key))
      <4>1. call[t].op = "erase"
        BY <2>1
      <4> QED
        BY <4>1, <2>2, <3>2, <1>a
    <3>4. map' = [map EXCEPT ![call[t].key] = None]
      <4>1. call[t].key = th[t].key
        BY <2>1
      <4> QED
        BY <4>1, <1>3 DEF Erase
    <3> QED
      BY <3>3, <3>4 DEF Abs!Erase
  <2> QED
    BY <2>3 DEF Abs!Next
<1>4. CASE EndTraverse(t)
  <2>1. call[t] = [op |-> "traverse", key |-> None, obj |-> None]
    BY <1>4 DEF EndTraverse, CallOf, IInv, PlaceOK
  <2>2. call' = [call EXCEPT ![t] = Abs!NoCall]
    <3>1. Goes(t, "idle", None, None, {})
      BY <1>4 DEF EndTraverse
    <3> QED
      BY <3>1, <1>0, GoesRefines DEF CallOf
  <2>3. th[t].seen = Abs!Entries(map)
    <3> USE <1>4, MapAssumption DEF MapAssumption, EndTraverse, IInv
    <3>1. ASSUME NEW e \in th[t].seen PROVE e \in Abs!Entries(map)
      <4>1. e \in Keys \X Objects /\ map[e[1]] = e[2]
        BY DEF SeenOK
      <4>2. e = <<e[1], map[e[1]]>> /\ e[1] \in Keys /\ map[e[1]] # None
        BY <4>1
      <4> QED
        BY <4>2 DEF Abs!Entries
    <3>2. ASSUME NEW e \in Abs!Entries(map) PROVE e \in th[t].seen
      <4>1. PICK k \in Keys : map[k] # None /\ e = <<k, map[k]>>
        BY DEF Abs!Entries
      <4>2. PICK d \in th[t].seen : d[1] = k
        BY <4>1
      <4>3. d \in Keys \X Objects /\ map[d[1]] = d[2]
        BY DEF SeenOK
      <4>4. d = e
        BY <4>1, <4>2, <4>3
      <4> QED
        BY <4>4
    <3> QED
      BY <3>1, <3>2
  <2>4. Abs!Traverse(t)
    BY <1>4, <2>1, <2>2, <2>3 DEF EndTraverse, Abs!Traverse, Abs!Answer
  <2> QED
    BY <2>4 DEF Abs!Next
<1>5. CASE \/ Traverse(t) \/ Release(t) \/ Destroyed(t) \/ \E k \in Keys : Visit(t, k)
  <2>1. UNCHANGED <<map, ret>>
    BY <1>5 DEF Traverse, Release, Destroyed, Visit
  <2>2. call' = call
    <3>1. CASE Traverse(t)
      <4>1. CallOf([at |-> "visit", key |-> None, obj |-> None, seen |-> {}]) = CallOf(th[t])
        BY <3>1 DEF Traverse, CallOf, IInv, PlaceOK
      <4> QED
        BY <3>1, <4>1, GoesStays DEF Traverse
    <3>2. CASE Release(t)
      <4>0. th[t].key = None
        BY <3>2 DEF Release, IInv, PlaceOK
      <4>1. CASE Goes(t, "destroy", None, th[t].obj, {}) /\ th[t].at = "use"
        <5>1. CallOf([at |-> "destroy", key |-> None, obj |-> th[t].obj, seen |-> {}])
                = CallOf(th[t])
          BY <4>0, <4>1 DEF CallOf
        <5> QED
          BY <4>1, <5>1, GoesStays
      <4>2. CASE Goes(t, "idle", None, None, {}) /\ th[t].at = "use"
        <5>1. CallOf([at |-> "idle", key |-> None, obj |-> None, seen |-> {}]) = CallOf(th[t])
          BY <4>0, <4>2 DEF CallOf
        <5> QED
          BY <4>2, <5>1, GoesStays
      <4>3. CASE Goes(t, "visitDestroy", None, th[t].obj, th[t].seen) /\ th[t].at = "visit"
        <5>1. CallOf([at |-> "visitDestroy", key |-> None, obj |-> th[t].obj,
                      seen |-> th[t].seen]) = CallOf(th[t])
          BY <4>0, <4>3 DEF CallOf
        <5> QED
          BY <4>3, <5>1, GoesStays
      <4>4. CASE Goes(t, "visit", None, None, th[t].seen) /\ th[t].at = "visit"
        <5>1. CallOf([at |-> "visit", key |-> None, obj |-> None, seen |-> th[t].seen])
                = CallOf(th[t])
          BY <4>0, <4>4 DEF CallOf
        <5> QED
          BY <4>4, <5>1, GoesStays
      <4> QED
        BY <3>2, <4>1, <4>2, <4>3, <4>4 DEF Release
    <3>3. CASE Destroyed(t)
      <4>1. Goes(t, "idle", None, None, {}) /\ th[t].key = None
            /\ th[t].at \in {"destroy", "lockedDestroy"}
        BY <3>3 DEF Destroyed, IInv, PlaceOK, TraversalDestroysNothing
      <4>2. CallOf([at |-> "idle", key |-> None, obj |-> None, seen |-> {}]) = CallOf(th[t])
        BY <4>1 DEF CallOf
      <4> QED
        BY <4>1, <4>2, GoesStays
    <3>4. ASSUME NEW k \in Keys, Visit(t, k)
          PROVE  call' = call
      <4>1. CallOf([at |-> "visit", key |-> None, obj |-> map[k],
                    seen |-> th[t].seen \cup Entry(k)]) = CallOf(th[t])
        BY <3>4 DEF Visit, CallOf, IInv, PlaceOK
      <4> QED
        BY <3>4, <4>1, GoesStays DEF Visit
    <3> QED
      BY <1>5, <3>1, <3>2, <3>3, <3>4
  <2> QED
    BY <2>1, <2>2 DEF Abs!vars
<1> QED
  BY <1>1, <1>2, <1>3, <1>4, <1>5 DEF Step

LEMMA CallRefines ==
  ASSUME IInv, NEW t \in Threads, NEW op, NEW k, NEW o,
         th[t] = Idle, Goes(t, op, k, o, {}), UNCHANGED <<map, ret>>,
         \/ op = "emplace" /\ k \in Keys /\ o \in Objects
         \/ op \in {"get", "erase"} /\ k \in Keys /\ o = None
         \/ op = "traverse" /\ k = None /\ o = None
  PROVE  Abs!Next
<1> DEFINE call == [u \in Threads |-> CallOf(th[u])]
           c == [op |-> op, key |-> k, obj |-> o]
<1>1. call[t] = Abs!NoCall
  BY NotCalling DEF Idle
<1>2. CallOf([at |-> op, key |-> k, obj |-> o, seen |-> {}]) = c
  BY DEF CallOf
<1>3. call' = [call EXCEPT ![t] = c]
  <2>1. ASSUME NEW d, CallOf([at |-> op, key |-> k, obj |-> o, seen |-> {}]) = d
        PROVE  [u \in Threads |-> CallOf(th'[u])]
                  = [[u \in Threads |-> CallOf(th[u])] EXCEPT ![t] = d]
    BY <2>1, GoesRefines
  <2> QED
    BY <1>2, <2>1
<1>4. Abs!Call(t, c)
  BY <1>1, <1>3 DEF Abs!Call
<1>5. c \in Abs!Calls("emplace", Keys, Objects) \cup Abs!Calls("get", Keys, {None})
            \cup Abs!Calls("erase", Keys, {None}) \cup Abs!Calls("traverse", {None}, {None})
  BY DEF Abs!Calls
<1> QED
  BY <1>4, <1>5 DEF Abs!Next

LEMMA ClearRefines == IInv /\ Clear => Abs!Clear
  BY NotCalling DEF Clear, Idle, Abs!Clear

\* The map does what AtomicMap promises: every call, a traversal included, is
\* answered with what the map held at one moment of it.
THEOREM MapIsAtomic == Spec => RefinesMap
<1>1. IInv /\ [Next]_vars => [Abs!Next]_(Abs!vars)
  <2> SUFFICES ASSUME IInv, [Next]_vars PROVE [Abs!Next]_(Abs!vars)
    OBVIOUS
  <2>1. CASE UNCHANGED vars
    BY <2>1 DEF vars, Abs!vars
  <2>2. ASSUME NEW t \in Threads, Step(t) PROVE [Abs!Next]_(Abs!vars)
    BY <2>2, StepRefines
  <2>3. ASSUME NEW t \in Threads, NEW k \in Keys, NEW o \in Objects, CallEmplace(t, k, o)
        PROVE  Abs!Next
    BY <2>3, CallRefines DEF CallEmplace
  <2>4. ASSUME NEW t \in Threads, NEW k \in Keys, Call(t, "get", k) \/ Call(t, "erase", k)
        PROVE  Abs!Next
    BY <2>4, CallRefines DEF Call
  <2>5. ASSUME NEW t \in Threads, Call(t, "traverse", None) PROVE Abs!Next
    BY <2>5, CallRefines DEF Call
  <2>6. CASE Clear
    BY <2>6, ClearRefines DEF Abs!Next
  <2> QED
    BY <2>1, <2>2, <2>3, <2>4, <2>5, <2>6 DEF Next
<1> QED
  BY InitRefines, IInvHolds, <1>1, PTL DEF Spec, RefinesMap, Abs!Spec
=============================================================================
