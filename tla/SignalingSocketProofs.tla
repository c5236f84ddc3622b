------------------------ MODULE SignalingSocketProofs ------------------------
(***************************************************************************)
(* The properties of SignalingSocket that hold, proved for any number of   *)
(* attempts to connect and of pending timers, and any events.              *)
(*                                                                         *)
(* What a thread does next is on its stack, so that the invariant speaks   *)
(* of the point a thread is at (Is) and of those it comes back to (Under). *)
(* Its parts:                                                              *)
(*   StackInv  the discipline of the stacks, and the mutex of onClosed;    *)
(*   FirstInv  nothing has been connected before the first open() ends;    *)
(*   BornInv   what has not been made is not met;                          *)
(*   OrderInv  the transports are taken in the order they were made;       *)
(*   SeenInv   for each state but open, somebody or a timer moves it on.   *)
(* The last says that a thread has work to do, and the order that threads  *)
(* which wait for callbacks do not wait in a circle: some thread can go on.*)
(***************************************************************************)
EXTENDS SignalingSocket, SequenceTheorems, WellFoundedInduction, TLAPS

-----------------------------------------------------------------------------
(* Stacks.                                                                  *)

Stacks == [Threads -> Seq(Point)]

\* Thread t is to pass a program point of this name, once it has passed others.
Under(t, a) == \E k \in 2 .. Len(run[t]) : run[t][k].at = a

\* Thread t is now at point a, with B to pass after it, and then what was there.
Becomes(t, a, B) ==
    \A b : (Is(t, b)' <=> b = a) /\ (Under(t, b)' <=> Under(t, b) \/ b \in B)

\* Thread t has passed a point and goes on with the next one.
Pops(t) ==
    \A b : (Is(t, b)' \/ Under(t, b)' <=> Under(t, b)) /\ (Under(t, b)' => Under(t, b))

Others(t) == \A u \in Threads \ {t} : run'[u] = run[u]

Moved(t) == run' \in Stacks /\ Others(t)

\* A thread that passes its point and pushes p.
LEMMA Stack ==
    ASSUME NEW q \in Seq(Point), q # << >>, NEW p \in Seq(Point)
    PROVE  LET r == p \o Tail(q) IN
           /\ r \in Seq(Point) /\ Len(r) = Len(p) + Len(q) - 1
           /\ \A k \in 1 .. Len(p) : r[k] = p[k]
           /\ \A k \in 2 .. Len(q) : r[Len(p) + k - 1] = q[k]
           /\ Len(p) \in Nat /\ Len(q) \in Nat /\ Len(q) > 0
           /\ (r # << >> => Head(r) = r[1] /\ Len(r) > 0) /\ (p # << >> => r # << >>)
<1> DEFINE r == p \o Tail(q)
<1>1. /\ Tail(q) \in Seq(Point) /\ Len(Tail(q)) = Len(q) - 1 /\ Len(q) > 0 /\ Len(q) \in Nat
      /\ \A k \in 1 .. Len(Tail(q)) : Tail(q)[k] = q[k + 1]
  BY HeadTailProperties, EmptySeq
<1>2. /\ r \in Seq(Point) /\ Len(r) = Len(p) + Len(Tail(q)) /\ Len(p) \in Nat
      /\ \A k \in 1 .. Len(r) : r[k] = IF k <= Len(p) THEN p[k] ELSE Tail(q)[k - Len(p)]
  BY <1>1, ConcatProperties
<1>3. (r # << >> => Head(r) = r[1] /\ Len(r) > 0) /\ (p # << >> => r # << >>)
  BY <1>1, <1>2, EmptySeq, HeadTailProperties
<1> HIDE DEF r
<1> QED BY <1>1, <1>2, <1>3 DEF r

\* Point b is in p after the first.
Later(p, b) == \E k \in 2 .. Len(p) : p[k].at = b

LEMMA PassPushes ==
    ASSUME run \in Stacks, NEW t \in Threads, run[t] # << >>, NEW p \in Seq(Point),
           p # << >>, Pass(t, p)
    PROVE  /\ Moved(t) /\ Head(run'[t]) = p[1]
           /\ \A b : (Is(t, b)' <=> b = p[1].at) /\ (Under(t, b)' <=> Under(t, b) \/ Later(p, b))
<1> DEFINE q == run[t]
           r == p \o Tail(q)
<1>1. q \in Seq(Point) /\ run'[t] = r /\ Others(t)
  BY DEF Stacks, Pass, Others
<1>2. /\ r \in Seq(Point) /\ Len(r) = Len(p) + Len(q) - 1
      /\ \A k \in 1 .. Len(p) : r[k] = p[k]
      /\ \A k \in 2 .. Len(q) : r[Len(p) + k - 1] = q[k]
      /\ Len(p) \in Nat /\ Len(q) \in Nat /\ Len(q) > 0
      /\ r # << >> /\ Head(r) = r[1]
  BY <1>1, Stack
<1>3. run' \in Stacks
  BY <1>1, <1>2 DEF Stacks, Pass
<1>4. Len(p) > 0
  BY EmptySeq
<1> HIDE DEF q, r
<1>5. ASSUME NEW b PROVE (\E k \in 2 .. Len(r) : r[k].at = b) <=>
                           (\E k \in 2 .. Len(q) : q[k].at = b) \/ Later(p, b)
  <2>1. ASSUME NEW k \in 2 .. Len(r), r[k].at = b, k > Len(p)
        PROVE  \E j \in 2 .. Len(q) : q[j].at = b
    <3>1. k - Len(p) + 1 \in 2 .. Len(q) /\ k = Len(p) + (k - Len(p) + 1) - 1
      BY <1>2, <1>4, <2>1
    <3>2. r[k] = q[k - Len(p) + 1]
      BY <1>2, <3>1
    <3> QED BY <2>1, <3>1, <3>2
  <2>2. ASSUME NEW j \in 2 .. Len(q), q[j].at = b
        PROVE  \E k \in 2 .. Len(r) : r[k].at = b
    <3>1. Len(p) + j - 1 \in 2 .. Len(r)
      BY <1>2, <1>4
    <3> QED BY <1>2, <2>2, <3>1
  <2>3. ASSUME NEW k \in 2 .. Len(p) PROVE k \in 2 .. Len(r) /\ r[k] = p[k]
    BY <1>2
  <2>4. ASSUME NEW k \in 2 .. Len(r), r[k].at = b
        PROVE  (\E j \in 2 .. Len(q) : q[j].at = b) \/ Later(p, b)
    <3>1. CASE k > Len(p)
      BY <2>1, <2>4, <3>1
    <3>2. CASE ~(k > Len(p))
      <4>1. k \in 2 .. Len(p) /\ p[k].at = b
        BY <1>2, <2>4, <3>2
      <4> QED BY <4>1 DEF Later
    <3> QED BY <3>1, <3>2
  <2>5. Later(p, b) => \E k \in 2 .. Len(r) : r[k].at = b
    BY <2>3 DEF Later
  <2> QED BY <2>2, <2>4, <2>5
<1>6. \A b : Under(t, b)' <=> Under(t, b) \/ Later(p, b)
  BY <1>1, <1>5 DEF Under, q
<1>7. \A b : Is(t, b)' <=> b = p[1].at
  BY <1>1, <1>2, <1>4 DEF Is
<1> QED BY <1>1, <1>2, <1>3, <1>6, <1>7 DEF Moved

LEMMA PassPops ==
    ASSUME run \in Stacks, NEW t \in Threads, run[t] # << >>, Pass(t, << >>)
    PROVE  Moved(t) /\ Pops(t)
<1> DEFINE q == run[t]
           r == << >> \o Tail(q)
<1>1. q \in Seq(Point) /\ run'[t] = r /\ Others(t) /\ << >> \in Seq(Point) /\ Len(<< >>) = 0
  BY EmptySeq DEF Stacks, Pass, Others
<1>2. /\ r \in Seq(Point) /\ Len(r) = Len(q) - 1
      /\ \A k \in 2 .. Len(q) : r[k - 1] = q[k]
      /\ Len(q) \in Nat /\ Len(q) > 0
      /\ (r # << >> => Head(r) = r[1] /\ Len(r) > 0)
  <2>1. \A k \in 2 .. Len(q) : r[0 + k - 1] = q[k]
    BY <1>1, Stack
  <2> HIDE DEF r
  <2>2. \A k \in 2 .. Len(q) : 0 + k - 1 = k - 1
    OBVIOUS
  <2> QED BY <1>1, <2>1, <2>2, Stack DEF r
<1>3. run' \in Stacks
  BY <1>1, <1>2 DEF Stacks, Pass
<1> HIDE DEF q, r
<1>4. ASSUME r # << >> PROVE \E k \in 2 .. Len(q) : q[k].at = Head(r).at
  <2>1. 2 \in 2 .. Len(q) /\ r[2 - 1] = q[2] /\ Head(r) = r[1]
    BY <1>2, <1>4
  <2> QED BY <2>1
<1>5. ASSUME NEW j \in 2 .. Len(q)
      PROVE  r # << >> /\ (q[j] = Head(r) \/ \E k \in 2 .. Len(r) : r[k] = q[j])
  <2>1. r # << >>
    BY <1>2, EmptySeq
  <2>2. j - 1 \in 1 .. Len(r) /\ r[j - 1] = q[j]
    BY <1>2
  <2> QED BY <1>2, <2>1, <2>2
<1>6. ASSUME NEW k \in 2 .. Len(r) PROVE k + 1 \in 2 .. Len(q) /\ q[k + 1] = r[k]
  <2>1. k + 1 \in 2 .. Len(q) /\ (k + 1) - 1 = k
    BY <1>2
  <2> QED BY <1>2, <2>1
<1>7. run'[t] # << >> => Under(t, Head(run'[t]).at)
  BY <1>1, <1>4 DEF Under, q
<1>8. \A b : Under(t, b) => Is(t, b)' \/ Under(t, b)'
  BY <1>1, <1>5 DEF Under, Is, q
<1>9. \A b : Under(t, b)' => Under(t, b)
  BY <1>1, <1>6 DEF Under, q
<1>10. \A b : Is(t, b)' => Under(t, b)
  BY <1>7 DEF Is
<1> QED BY <1>1, <1>3, <1>8, <1>9, <1>10 DEF Pops, Moved

\* A thread that does nothing is called.
LEMMA Starts ==
    ASSUME run \in Stacks, NEW t \in Threads, run[t] = << >>, NEW p \in Seq(Point),
           p # << >>, run' = [run EXCEPT ![t] = p]
    PROVE  /\ Moved(t)
           /\ \A b : (Is(t, b)' <=> b = p[1].at) /\ (Under(t, b)' <=> Under(t, b) \/ Later(p, b))
<1>1. run' \in Stacks /\ run'[t] = p /\ Others(t)
  BY DEF Stacks, Others
<1>2. Head(p) = p[1]
  BY HeadTailProperties
<1>3. \A b : ~Under(t, b)
  <2>1. Len(run[t]) = 0
    BY EmptySeq
  <2> QED BY <2>1 DEF Under
<1>4. \A b : Under(t, b)' <=> Later(p, b)
  BY <1>1 DEF Under, Later
<1>5. \A b : Is(t, b)' <=> b = p[1].at
  BY <1>1, <1>2 DEF Is
<1> QED BY <1>1, <1>3, <1>4, <1>5 DEF Moved

\* What is pushed, written out.
P(a) == [at |-> a, n |-> None]

LEMMA Pushed ==
    /\ \A a \in Points : P(a) \in Point /\ Go(a) = <<P(a)>> /\ P(a).at = a
    /\ RemoteClose = <<P("load"), P("check")>>
    /\ RemoteClose \o Go("throw") = <<P("load"), P("check"), P("throw")>>
    /\ RemoteClose \o Go("again") = <<P("load"), P("check"), P("again")>>
    /\ Go("openTest") \o Go("unlock") = <<P("openTest"), P("unlock")>>
    /\ \A x \in Point : <<x>> \o Go("trigger") = <<x, P("trigger")>>
<1>1. \A a \in Points : P(a) \in Point /\ Go(a) = <<P(a)>> /\ P(a).at = a
  BY DEF P, Go, Point
<1>2. ASSUME NEW x \in Point, NEW y \in Point PROVE <<x>> \o <<y>> = <<x, y>>
  <2>1. /\ <<x>> \in Seq(Point) /\ <<y>> \in Seq(Point) /\ <<x, y>> \in Seq(Point)
    OBVIOUS
  <2>2. /\ <<x>> \o <<y>> \in Seq(Point) /\ Len(<<x>> \o <<y>>) = 2
        /\ \A k \in 1 .. 2 : (<<x>> \o <<y>>)[k] = <<x, y>>[k]
    BY <2>1, ConcatProperties
  <2> QED BY <2>1, <2>2, SeqEqual
<1>3. ASSUME NEW x \in Point, NEW y \in Point, NEW z \in Point
      PROVE  <<x, y>> \o <<z>> = <<x, y, z>>
  <2>1. /\ <<x, y>> \in Seq(Point) /\ <<z>> \in Seq(Point) /\ <<x, y, z>> \in Seq(Point)
    OBVIOUS
  <2>2. /\ <<x, y>> \o <<z>> \in Seq(Point) /\ Len(<<x, y>> \o <<z>>) = 3
        /\ \A k \in 1 .. 3 : (<<x, y>> \o <<z>>)[k] = IF k <= 2 THEN <<x, y>>[k] ELSE <<z>>[k - 2]
    BY <2>1, ConcatProperties
  <2>3. \A k \in 1 .. 3 : (<<x, y>> \o <<z>>)[k] = <<x, y, z>>[k]
    BY <2>2
  <2> QED BY <2>1, <2>2, <2>3, SeqEqual
<1>4. {"load", "check", "throw", "again", "openTest", "unlock", "trigger"} \subseteq Points
  BY DEF Points
<1>5. RemoteClose = <<P("load"), P("check")>>
  BY <1>1, <1>2, <1>4 DEF RemoteClose
<1>6. ASSUME NEW a \in {"throw", "again"}
      PROVE  RemoteClose \o Go(a) = <<P("load"), P("check"), P(a)>>
  <2>1. Go(a) = <<P(a)>> /\ {P(a), P("load"), P("check")} \subseteq Point
    BY <1>1, <1>4
  <2> QED BY <1>3, <1>5, <2>1
<1>7. Go("openTest") \o Go("unlock") = <<P("openTest"), P("unlock")>>
  BY <1>1, <1>2, <1>4
<1>8. \A x \in Point : <<x>> \o Go("trigger") = <<x, P("trigger")>>
  BY <1>1, <1>2, <1>4
<1> QED BY <1>1, <1>5, <1>6, <1>7, <1>8

LEMMA Tuples ==
    ASSUME NEW x \in Point, NEW y \in Point, NEW z \in Point
    PROVE  /\ <<x>> \in Seq(Point) /\ <<x>> # << >> /\ <<x>>[1] = x
           /\ <<x, y>> \in Seq(Point) /\ <<x, y>> # << >> /\ <<x, y>>[1] = x
           /\ <<x, y, z>> \in Seq(Point) /\ <<x, y, z>> # << >> /\ <<x, y, z>>[1] = x
  OBVIOUS

LEMMA LaterPoints ==
    ASSUME NEW x \in Point, NEW y \in Point, NEW z \in Point
    PROVE  \A b : /\ ~Later(<<x>>, b)
                  /\ Later(<<x, y>>, b) <=> b \in {y.at}
                  /\ Later(<<x, y, z>>, b) <=> b \in {y.at, z.at}
  BY DEF Later

\* A thread that passes its point and pushes one, two or three.
LEMMA PassPoints ==
    ASSUME run \in Stacks, NEW t \in Threads, run[t] # << >>,
           NEW x \in Point, NEW y \in Point, NEW z \in Point
    PROVE  /\ Pass(t, <<x>>) => Moved(t) /\ Becomes(t, x.at, {})
           /\ Pass(t, <<x, y>>) =>
                 Moved(t) /\ Becomes(t, x.at, {y.at}) /\ Head(run'[t]) = x
           /\ Pass(t, <<x, y, z>>) => Moved(t) /\ Becomes(t, x.at, {y.at, z.at})
<1>1. ASSUME NEW p \in Seq(Point), p # << >>, p[1] = x, Pass(t, p)
      PROVE  /\ Moved(t) /\ Head(run'[t]) = x
             /\ \A b : (Is(t, b)' <=> b = x.at) /\ (Under(t, b)' <=> Under(t, b) \/ Later(p, b))
  BY <1>1, PassPushes
<1>2. ASSUME Pass(t, <<x>>)
      PROVE  Moved(t) /\ Becomes(t, x.at, {})
  <2> DEFINE p == <<x>>
  <2>1. p \in Seq(Point) /\ p # << >> /\ p[1] = x /\ \A b : ~Later(p, b)
    BY Tuples, LaterPoints
  <2>2. Pass(t, p)
    BY <1>2
  <2> HIDE DEF p
  <2> QED BY <1>1, <2>1, <2>2 DEF Becomes
<1>3. ASSUME Pass(t, <<x, y>>)
      PROVE  Moved(t) /\ Becomes(t, x.at, {y.at}) /\ Head(run'[t]) = x
  <2> DEFINE p == <<x, y>>
  <2>1. p \in Seq(Point) /\ p # << >> /\ p[1] = x /\ \A b : Later(p, b) <=> b \in {y.at}
    BY Tuples, LaterPoints
  <2>2. Pass(t, p)
    BY <1>3
  <2> HIDE DEF p
  <2> QED BY <1>1, <2>1, <2>2 DEF Becomes
<1>4. ASSUME Pass(t, <<x, y, z>>)
      PROVE  Moved(t) /\ Becomes(t, x.at, {y.at, z.at})
  <2> DEFINE p == <<x, y, z>>
  <2>1. p \in Seq(Point) /\ p # << >> /\ p[1] = x /\ \A b : Later(p, b) <=> b \in {y.at, z.at}
    BY Tuples, LaterPoints
  <2>2. Pass(t, p)
    BY <1>4
  <2> HIDE DEF p
  <2> QED BY <1>1, <2>1, <2>2 DEF Becomes
<1> QED BY <1>2, <1>3, <1>4

LEMMA CallPoints ==
    ASSUME run \in Stacks, NEW t \in Threads, run[t] = << >>,
           NEW x \in Point, NEW y \in Point, NEW z \in Point
    PROVE  /\ run' = [run EXCEPT ![t] = << >>] => run' = run
           /\ run' = [run EXCEPT ![t] = <<x>>] => Moved(t) /\ Becomes(t, x.at, {})
           /\ run' = [run EXCEPT ![t] = <<x, y>>] => Moved(t) /\ Becomes(t, x.at, {y.at})
           /\ run' = [run EXCEPT ![t] = <<x, y, z>>] =>
                 Moved(t) /\ Becomes(t, x.at, {y.at, z.at})
<1>1. ASSUME NEW p \in Seq(Point), p # << >>, p[1] = x, run' = [run EXCEPT ![t] = p]
      PROVE  /\ Moved(t)
             /\ \A b : (Is(t, b)' <=> b = x.at) /\ (Under(t, b)' <=> Under(t, b) \/ Later(p, b))
  BY <1>1, Starts
<1>2. run' = [run EXCEPT ![t] = << >>] => run' = run
  BY DEF Stacks
<1>3. ASSUME run' = [run EXCEPT ![t] = <<x>>]
      PROVE  Moved(t) /\ Becomes(t, x.at, {})
  <2> DEFINE p == <<x>>
  <2>1. p \in Seq(Point) /\ p # << >> /\ p[1] = x /\ \A b : ~Later(p, b)
    BY Tuples, LaterPoints
  <2>2. run' = [run EXCEPT ![t] = p]
    BY <1>3
  <2> HIDE DEF p
  <2> QED BY <1>1, <2>1, <2>2 DEF Becomes
<1>4. ASSUME run' = [run EXCEPT ![t] = <<x, y>>]
      PROVE  Moved(t) /\ Becomes(t, x.at, {y.at})
  <2> DEFINE p == <<x, y>>
  <2>1. p \in Seq(Point) /\ p # << >> /\ p[1] = x /\ \A b : Later(p, b) <=> b \in {y.at}
    BY Tuples, LaterPoints
  <2>2. run' = [run EXCEPT ![t] = p]
    BY <1>4
  <2> HIDE DEF p
  <2> QED BY <1>1, <2>1, <2>2 DEF Becomes
<1>5. ASSUME run' = [run EXCEPT ![t] = <<x, y, z>>]
      PROVE  Moved(t) /\ Becomes(t, x.at, {y.at, z.at})
  <2> DEFINE p == <<x, y, z>>
  <2>1. p \in Seq(Point) /\ p # << >> /\ p[1] = x /\ \A b : Later(p, b) <=> b \in {y.at, z.at}
    BY Tuples, LaterPoints
  <2>2. run' = [run EXCEPT ![t] = p]
    BY <1>5
  <2> HIDE DEF p
  <2> QED BY <1>1, <2>1, <2>2 DEF Becomes
<1> QED BY <1>2, <1>3, <1>4, <1>5

-----------------------------------------------------------------------------
(* What the steps do to the stacks.                                         *)

\* The steps of a thread.
LEMMA StepMoves ==
    ASSUME TypeOK, NEW t \in Threads
    PROVE  /\ Step(t) => Moved(t)
           /\ Load(t) => IF state \in {"connecting", "open"} THEN Becomes(t, "closing", {})
                         ELSE Pops(t)
           /\ Closing(t) => IF wst = None THEN Becomes(t, "load", {"check"}) ELSE Pops(t)
           /\ Check(t) => IF state = "closed" THEN Pops(t) ELSE Becomes(t, "take", {})
           /\ Take(t) => Becomes(t, "silence", {"trigger"}) /\ Head(run'[t]).n = tcp
           /\ Trigger(t) => IF _do_term THEN Pops(t) ELSE Becomes(t, "openTest", {"unlock"})
           /\ OpenTest(t) => Becomes(t, IF state = "closed" THEN "openSet" ELSE "throw", {})
           /\ OpenSet(t) => Becomes(t, "emplace", {})
           /\ Emplace(t) => IF tcp # None THEN Becomes(t, "load", {"check", "throw"})
                            ELSE Pops(t)
           /\ Again(t) => Pops(t) \/ Becomes(t, "load", {"check"})
           /\ Silence(t) \/ Unlock(t) \/ Throw(t) \/ SetOpen(t) \/ OnMessage(t) => Pops(t)
<1>1. run \in Stacks /\ tcp \in Transports \cup {None}
  BY DEF TypeOK, Stacks
<1>2. ASSUME run[t] # << >>, NEW a \in Points, Pass(t, Go(a))
      PROVE  Moved(t) /\ Becomes(t, a, {})
  BY <1>1, <1>2, PassPoints, Pushed
<1>3. ASSUME run[t] # << >>, Pass(t, << >>) PROVE Moved(t) /\ Pops(t)
  BY <1>1, <1>3, PassPops
<1>4. ASSUME run[t] # << >>, Pass(t, RemoteClose)
      PROVE  Moved(t) /\ Becomes(t, "load", {"check"})
  <2>1. Pass(t, <<P("load"), P("check")>>)
    BY <1>4, Pushed
  <2>2. /\ P("load") \in Point /\ P("check") \in Point
        /\ P("load").at = "load" /\ P("check").at = "check"
    BY Pushed DEF Points
  <2> QED BY <1>1, <1>4, <2>1, <2>2, PassPoints
<1>5. ASSUME Load(t)
      PROVE  /\ Moved(t)
             /\ IF state \in {"connecting", "open"} THEN Becomes(t, "closing", {}) ELSE Pops(t)
  BY <1>2, <1>3, <1>5 DEF Load, Is, Points
<1>6. ASSUME Closing(t)
      PROVE  Moved(t) /\ IF wst = None THEN Becomes(t, "load", {"check"}) ELSE Pops(t)
  BY <1>3, <1>4, <1>6 DEF Closing, Is
<1>7. ASSUME Check(t)
      PROVE  Moved(t) /\ IF state = "closed" THEN Pops(t) ELSE Becomes(t, "take", {})
  BY <1>2, <1>3, <1>7 DEF Check, Is, Points
<1>8. ASSUME Take(t)
      PROVE  Moved(t) /\ Becomes(t, "silence", {"trigger"}) /\ Head(run'[t]).n = tcp
  <2> DEFINE x == [at |-> "silence", n |-> tcp]
  <2>1. x \in Point /\ x.at = "silence" /\ x.n = tcp
    BY <1>1 DEF Point, Points
  <2>2. P("trigger") \in Point /\ P("trigger").at = "trigger"
    BY Pushed DEF Points
  <2>3. Pass(t, <<x, P("trigger")>>) /\ run[t] # << >>
    BY <1>8, <2>1, Pushed DEF Take, Is
  <2> HIDE DEF x
  <2> QED BY <1>1, <2>1, <2>2, <2>3, PassPoints
<1>9. ASSUME Trigger(t)
      PROVE  Moved(t) /\ IF _do_term THEN Pops(t) ELSE Becomes(t, "openTest", {"unlock"})
  <2>1. CASE _do_term
    BY <1>3, <1>9, <2>1 DEF Trigger, Is
  <2>2. CASE ~_do_term
    <3>1. Pass(t, <<P("openTest"), P("unlock")>>) /\ run[t] # << >>
      BY <1>9, <2>2, Pushed DEF Trigger, Is
    <3>2. /\ P("openTest") \in Point /\ P("unlock") \in Point
          /\ P("openTest").at = "openTest" /\ P("unlock").at = "unlock"
      BY Pushed DEF Points
    <3>3. Moved(t) /\ Becomes(t, P("openTest").at, {P("unlock").at})
      BY <1>1, <3>1, <3>2, PassPoints
    <3> QED BY <2>2, <3>2, <3>3
  <2> QED BY <2>1, <2>2
<1>10. ASSUME OpenTest(t)
       PROVE  Moved(t) /\ Becomes(t, IF state = "closed" THEN "openSet" ELSE "throw", {})
  BY <1>2, <1>10 DEF OpenTest, Is, Points
<1>11. ASSUME OpenSet(t) PROVE Moved(t) /\ Becomes(t, "emplace", {})
  BY <1>2, <1>11 DEF OpenSet, Is, Points
<1>12. ASSUME Emplace(t)
       PROVE  /\ Moved(t)
              /\ IF tcp # None THEN Becomes(t, "load", {"check", "throw"}) ELSE Pops(t)
  <2>1. CASE tcp = None
    BY <1>3, <1>12, <2>1 DEF Emplace, Is
  <2>2. CASE tcp # None
    <3>1. Pass(t, <<P("load"), P("check"), P("throw")>>) /\ run[t] # << >>
      BY <1>12, <2>2, Pushed DEF Emplace, Is
    <3>2. /\ P("load") \in Point /\ P("check") \in Point /\ P("throw") \in Point
          /\ P("load").at = "load" /\ P("check").at = "check" /\ P("throw").at = "throw"
      BY Pushed DEF Points
    <3>3. Moved(t) /\ Becomes(t, P("load").at, {P("check").at, P("throw").at})
      BY <1>1, <3>1, <3>2, PassPoints
    <3> QED BY <2>2, <3>2, <3>3
  <2> QED BY <2>1, <2>2
<1>13. ASSUME Again(t) PROVE Moved(t) /\ (Pops(t) \/ Becomes(t, "load", {"check"}))
  BY <1>3, <1>4, <1>13 DEF Again, Is
<1>14. ASSUME Silence(t) \/ Unlock(t) \/ Throw(t) \/ SetOpen(t) \/ OnMessage(t)
       PROVE  Moved(t) /\ Pops(t)
  BY <1>3, <1>14 DEF Silence, Unlock, Throw, SetOpen, OnMessage, Is
<1>15. Step(t) => Moved(t)
  BY <1>5, <1>6, <1>7, <1>8, <1>9, <1>10, <1>11, <1>12, <1>13, <1>14
  DEF Step, CloseStep, OpenStep, CallbackStep
<1> QED BY <1>5, <1>6, <1>7, <1>8, <1>9, <1>10, <1>11, <1>12, <1>13, <1>14, <1>15

\* A thread that does nothing is given program points, or none.
Called(t, a, B) == run[t] = << >> /\ Moved(t) /\ Becomes(t, a, B)

LEMMA CallMoves ==
    ASSUME TypeOK, NEW n \in Transports
    PROVE  /\ TcpFailed(n) => Called(n, "load", {"check"})
           /\ TcpConnected(n) => run' = run \/ (wst = None /\ Called(n, "load", {"check"}))
           /\ WsConnected(n) => run' = run \/ Called(n, "setOpen", {})
           /\ Lost(n) => run' = run \/ Called(n, "load", {"check", "again"})
           /\ Message(n) => Called(n, "message", {})
<1>1. run \in Stacks /\ n \in Threads
  BY DEF TypeOK, Stacks, Threads
<1>2. /\ P("load") \in Point /\ P("check") \in Point /\ P("again") \in Point
      /\ P("setOpen") \in Point /\ P("message") \in Point
      /\ P("load").at = "load" /\ P("check").at = "check" /\ P("again").at = "again"
      /\ P("setOpen").at = "setOpen" /\ P("message").at = "message"
  BY Pushed DEF Points
<1>3. Go("setOpen") = <<P("setOpen")>> /\ Go("message") = <<P("message")>>
  BY Pushed DEF Points
<1>4. ASSUME NEW S, NEW next, NEW points, Reports(n, S, next, points)
      PROVE  /\ run[n] = << >>
             /\ points = << >> => run' = run
             /\ points = RemoteClose => Called(n, "load", {"check"})
             /\ points = RemoteClose \o Go("again") => Called(n, "load", {"check", "again"})
             /\ points = Go("setOpen") => Called(n, "setOpen", {})
             /\ points = Go("message") => Called(n, "message", {})
  <2>1. run[n] = << >> /\ run' = [run EXCEPT ![n] = points]
    BY <1>4 DEF Reports
  <2>2. points = << >> => run' = run
    BY <1>1, <2>1 DEF Stacks
  <2>3. ASSUME points = RemoteClose PROVE Called(n, "load", {"check"})
    <3>1. run' = [run EXCEPT ![n] = <<P("load"), P("check")>>]
      BY <2>1, <2>3, Pushed
    <3>2. Moved(n) /\ Becomes(n, P("load").at, {P("check").at})
      BY <1>1, <1>2, <2>1, <3>1, CallPoints
    <3> QED BY <1>2, <2>1, <3>2 DEF Called
  <2>4. ASSUME points = RemoteClose \o Go("again")
        PROVE  Called(n, "load", {"check", "again"})
    <3>1. run' = [run EXCEPT ![n] = <<P("load"), P("check"), P("again")>>]
      BY <2>1, <2>4, Pushed
    <3>2. Moved(n) /\ Becomes(n, P("load").at, {P("check").at, P("again").at})
      BY <1>1, <1>2, <2>1, <3>1, CallPoints
    <3> QED BY <1>2, <2>1, <3>2 DEF Called
  <2>5. points = Go("setOpen") => Called(n, "setOpen", {})
    BY <1>1, <1>2, <1>3, <2>1, CallPoints DEF Called
  <2>6. points = Go("message") => Called(n, "message", {})
    BY <1>1, <1>2, <1>3, <2>1, CallPoints DEF Called
  <2> QED BY <2>1, <2>2, <2>3, <2>4, <2>5, <2>6
<1>5. TcpFailed(n) => Called(n, "load", {"check"})
  BY <1>4 DEF TcpFailed
<1>6. TcpConnected(n) => run' = run \/ (wst = None /\ Called(n, "load", {"check"}))
  BY <1>4 DEF TcpConnected
<1>7. WsConnected(n) => run' = run \/ Called(n, "setOpen", {})
  BY <1>4 DEF WsConnected
<1>8. Lost(n) => run' = run \/ Called(n, "load", {"check", "again"})
  BY <1>4 DEF Lost
<1>9. Message(n) => Called(n, "message", {})
  BY <1>4 DEF Message
<1> QED BY <1>5, <1>6, <1>7, <1>8, <1>9

LEMMA OtherMoves ==
    ASSUME TypeOK
    PROVE  /\ TimerExpires => \/ state # "connecting" /\ run' = run
                              \/ state = "connecting" /\ Called("timer", "load", {"check"})
           /\ CloseWs => Called("main", "load", {})
           /\ DestroyWs => Called("main", "load", {"check"})
           /\ SetTerm \/ JoinSig \/ ResetCallbacks => run' = run /\ run["main"] = << >>
<1>1. run \in Stacks /\ "main" \in Threads /\ "timer" \in Threads
  BY DEF TypeOK, Stacks, Threads
<1>2. /\ P("load") \in Point /\ P("check") \in Point /\ Go("load") = <<P("load")>>
      /\ P("load").at = "load" /\ P("check").at = "check"
  BY Pushed DEF Points
<1>3. ASSUME NEW t \in Threads, run[t] = << >>
      PROVE  /\ run' = [run EXCEPT ![t] = RemoteClose] => Called(t, "load", {"check"})
             /\ run' = [run EXCEPT ![t] = Go("load")] => Called(t, "load", {})
             /\ run' = [run EXCEPT ![t] = << >>] => run' = run
  <2>1. ASSUME run' = [run EXCEPT ![t] = RemoteClose] PROVE Called(t, "load", {"check"})
    <3>1. run' = [run EXCEPT ![t] = <<P("load"), P("check")>>]
      BY <2>1, Pushed
    <3>2. Moved(t) /\ Becomes(t, P("load").at, {P("check").at})
      BY <1>1, <1>2, <1>3, <3>1, CallPoints
    <3> QED BY <1>2, <1>3, <3>2 DEF Called
  <2>2. ASSUME run' = [run EXCEPT ![t] = Go("load")] PROVE Called(t, "load", {})
    BY <1>1, <1>2, <1>3, <2>2, CallPoints DEF Called
  <2>3. run' = [run EXCEPT ![t] = << >>] => run' = run
    BY <1>1, <1>3 DEF Stacks
  <2> QED BY <2>1, <2>2, <2>3
<1>4. TimerExpires => \/ state # "connecting" /\ run' = run
                      \/ state = "connecting" /\ Called("timer", "load", {"check"})
  BY <1>1, <1>3 DEF TimerExpires
<1> QED BY <1>1, <1>3, <1>4 DEF CloseWs, DestroyWs, SetTerm, JoinSig, ResetCallbacks, Destroying

\* Who is in onClosed is at its end, or is to come to it.
LEMMA Somewhere ==
    ASSUME NEW q \in Seq(Point)
    PROVE  (\E k \in DOMAIN q : q[k].at = "unlock") <=>
              (q # << >> /\ Head(q).at = "unlock") \/ \E k \in 2 .. Len(q) : q[k].at = "unlock"
<1>1. DOMAIN q = 1 .. Len(q) /\ Len(q) \in Nat
      /\ (q # << >> <=> Len(q) > 0) /\ (q # << >> => Head(q) = q[1])
  BY EmptySeq, HeadTailProperties, LenProperties
<1> QED BY <1>1

LEMMA OnClosedIs ==
    ASSUME run \in Stacks, run' \in Stacks
    PROVE  \A t \in Threads :
              /\ InOnClosed(t) <=> Is(t, "unlock") \/ Under(t, "unlock")
              /\ InOnClosed(t)' <=> Is(t, "unlock")' \/ Under(t, "unlock")'
  BY Somewhere DEF InOnClosed, Is, Under, Stacks

\* An empty thread is nowhere, and has nothing below.
LEMMA Nowhere ==
    ASSUME run \in Stacks, NEW t \in Threads, run[t] = << >>
    PROVE  \A a : ~Is(t, a) /\ ~Under(t, a)
<1>1. Len(run[t]) = 0
  BY EmptySeq
<1> QED BY <1>1 DEF Is, Under

\* The others stay where they are.
LEMMA Rest ==
    ASSUME NEW t \in Threads, Moved(t), NEW u \in Threads, u # t
    PROVE  /\ run'[u] = run[u]
           /\ \A a : (Is(u, a)' <=> Is(u, a)) /\ (Under(u, a)' <=> Under(u, a))
  BY DEF Moved, Others, Is, Under

\* A thread at a point takes the step of that point.
LEMMA StepIs ==
    ASSUME NEW t \in Threads, Step(t)
    PROVE  /\ run[t] # << >> /\ main' = main
           /\ Is(t, "load") => Load(t)
           /\ Is(t, "closing") => Closing(t)
           /\ Is(t, "check") => Check(t)
           /\ Is(t, "take") => Take(t)
           /\ Is(t, "silence") => Silence(t)
           /\ Is(t, "trigger") => Trigger(t)
           /\ Is(t, "unlock") => Unlock(t)
           /\ Is(t, "openTest") => OpenTest(t)
           /\ Is(t, "openSet") => OpenSet(t)
           /\ Is(t, "emplace") => Emplace(t)
           /\ Is(t, "throw") => Throw(t)
  BY DEF Is, Step, CloseStep, OpenStep, CallbackStep, Load, Closing, Check, Take, Silence,
     Trigger, Unlock, OpenTest, OpenSet, Emplace, Throw, SetOpen, Again, OnMessage

\* The steps, by the point they leave.
LEMMA Shape ==
    ASSUME TypeOK, NEW t \in Threads, Step(t)
    PROVE  \/ Pops(t)
           \/ Is(t, "load") /\ Becomes(t, "closing", {})
           \/ (Is(t, "closing") \/ Is(t, "again")) /\ Becomes(t, "load", {"check"})
           \/ Is(t, "check") /\ Becomes(t, "take", {})
           \/ Is(t, "take") /\ Becomes(t, "silence", {"trigger"})
           \/ /\ Is(t, "trigger") /\ MayEnter(t) /\ ~_do_term
              /\ Becomes(t, "openTest", {"unlock"})
           \/ Is(t, "openTest") /\ (Becomes(t, "openSet", {}) \/ Becomes(t, "throw", {}))
           \/ Is(t, "openSet") /\ Becomes(t, "emplace", {})
           \/ Is(t, "emplace") /\ Becomes(t, "load", {"check", "throw"})
  BY StepMoves DEF Step, CloseStep, OpenStep, CallbackStep, Load, Closing, Check, Take, Trigger,
     OpenTest, OpenSet, Emplace, Again

\* The other actions.
Other == (\E n \in Transports : Call(n)) \/ TimerExpires \/ SetTerm \/ Destructor

LEMMA OtherShape ==
    ASSUME TypeOK, Other
    PROVE  /\ \/ run' = run
              \/ \E t \in Threads \ {"sig"}, a \in {"load", "setOpen", "message"},
                    B \in SUBSET {"check", "again"} :
                    /\ Called(t, a, B)
                    /\ a = "load" /\ t # "main" => "check" \in B
                    /\ t = "main" => _do_term'
           /\ _do_term => _do_term'
           /\ run' # run \/ main' = main \/ run["main"] = << >>
<1> DEFINE Calls == \E t \in Threads \ {"sig"}, a \in {"load", "setOpen", "message"},
                          B \in SUBSET {"check", "again"} :
                          /\ Called(t, a, B)
                          /\ a = "load" /\ t # "main" => "check" \in B
                          /\ t = "main" => _do_term'
<1>1. \A B \in {{}, {"check"}, {"check", "again"}} : B \in SUBSET {"check", "again"}
  OBVIOUS
<1>2. ASSUME NEW n \in Transports, Call(n)
      PROVE  (run' = run \/ Calls) /\ main' = main
  <2>1. n \in Threads /\ n # "main" /\ n # "sig"
    BY SocketAssumption DEF Threads
  <2>2. main' = main
    BY <1>2 DEF Call, TcpFailed, TcpConnected, WsConnected, Lost, Message, Reports
  <2>3. \/ run' = run \/ Called(n, "load", {"check"}) \/ Called(n, "setOpen", {})
        \/ Called(n, "load", {"check", "again"}) \/ Called(n, "message", {})
    BY <1>2, CallMoves DEF Call
  <2>4. Called(n, "load", {"check"}) => Calls
    BY <1>1, <2>1
  <2>5. Called(n, "setOpen", {}) => Calls
    BY <1>1, <2>1
  <2>6. Called(n, "load", {"check", "again"}) => Calls
    BY <1>1, <2>1
  <2>7. Called(n, "message", {}) => Calls
    BY <1>1, <2>1
  <2> QED BY <2>2, <2>3, <2>4, <2>5, <2>6, <2>7
<1>3. ASSUME TimerExpires PROVE (run' = run \/ Calls) /\ main' = main
  <2>1. "timer" \in Threads /\ "timer" # "main"
    BY DEF Threads
  <2>2. run' = run \/ Called("timer", "load", {"check"})
    BY <1>3, OtherMoves
  <2>3. Called("timer", "load", {"check"}) => Calls
    BY <1>1, <2>1
  <2> QED BY <1>3, <2>2, <2>3 DEF TimerExpires
<1>4. ASSUME SetTerm \/ Destructor
      PROVE  (run' = run \/ Calls) /\ _do_term' /\ run["main"] = << >>
  <2>1. _do_term' /\ run["main"] = << >>
    BY <1>4 DEF SetTerm, Destructor, CloseWs, JoinSig, DestroyWs, ResetCallbacks,
       Destroying, _do_term
  <2>2. "main" \in Threads
    BY DEF Threads
  <2>3. run' = run \/ Called("main", "load", {}) \/ Called("main", "load", {"check"})
    BY <1>4, OtherMoves DEF Destructor
  <2>4. Called("main", "load", {}) => Calls
    BY <1>1, <2>1, <2>2
  <2>5. Called("main", "load", {"check"}) => Calls
    BY <1>1, <2>1, <2>2
  <2> QED BY <2>1, <2>3, <2>4, <2>5
<1> HIDE DEF Calls
<1>5. (run' = run \/ Calls) /\ (main' = main \/ (_do_term' /\ run["main"] = << >>))
  BY <1>2, <1>3, <1>4 DEF Other
<1> QED BY <1>5 DEF Calls, _do_term

\* Every step keeps the types.
LEMMA TypeStep ==
    ASSUME TypeOK, [Next]_vars
    PROVE  TypeOK'
<1>1. run \in Stacks /\ run' \in Stacks
  <2>1. CASE UNCHANGED vars
    BY <2>1 DEF TypeOK, Stacks, vars
  <2>2. CASE \E t \in Threads : Step(t)
    BY <2>2, StepMoves DEF Moved, TypeOK, Stacks
  <2>3. CASE Other
    BY <2>3, OtherShape DEF Called, Moved, TypeOK, Stacks
  <2> QED BY <2>1, <2>2, <2>3 DEF Next, Other
<1>2. CASE UNCHANGED vars
  BY <1>2 DEF TypeOK, vars
<1>3. ASSUME NEW t \in Threads, Step(t) PROVE TypeOK'
  <2>1. CASE Load(t) \/ Trigger(t) \/ Unlock(t) \/ OpenTest(t) \/ Throw(t) \/ Again(t)
             \/ OnMessage(t)
    BY <1>1, <2>1 DEF TypeOK, Stacks, Load, Trigger, Unlock, OpenTest, Throw, Again, OnMessage
  <2>2. CASE Closing(t) \/ Check(t) \/ Take(t) \/ OpenSet(t) \/ SetOpen(t)
    BY <1>1, <2>2 DEF TypeOK, Stacks, Closing, Check, Take, OpenSet, SetOpen
  <2>3. CASE Silence(t)
    BY <1>1, <2>3 DEF TypeOK, Stacks, Silence
  <2>4. CASE Emplace(t)
    <3>1. CASE tcp # None
      BY <1>1, <2>4, <3>1 DEF TypeOK, Stacks, Emplace
    <3>2. CASE tcp = None
      <4>1. PICK n \in Transports :
               /\ tcp' = IF state = "closed" THEN None ELSE n
               /\ transport' = [transport EXCEPT ![n] =
                     [status |-> "connecting", heard |-> state # "closed"]]
               /\ timers' = IF timers < TimerCap THEN timers + 1 ELSE timers
        BY <2>4, <3>2 DEF Emplace
      <4>2. wst = None /\ UNCHANGED <<state, wst, main>>
        BY <2>4, <3>2 DEF TypeOK, Emplace
      <4>3. timers' \in 0 .. TimerCap
        BY <4>1, SocketAssumption DEF TypeOK
      <4> QED BY <1>1, <4>1, <4>2, <4>3 DEF TypeOK, Stacks
    <3> QED BY <3>1, <3>2
  <2> QED BY <1>3, <2>1, <2>2, <2>3, <2>4 DEF Step, CloseStep, OpenStep, CallbackStep
<1>4. ASSUME NEW n \in Transports, Call(n) PROVE TypeOK'
  <2>1. ASSUME NEW S, NEW next \in {"unreachable", "idle", "handshake", "connected", "lost"},
               NEW points, Reports(n, S, next, points),
               wst' = wst \/ (wst' = n /\ tcp = n)
        PROVE  TypeOK'
    BY <1>1, <2>1 DEF TypeOK, Stacks, Reports
  <2> QED BY <1>4, <2>1 DEF Call, TcpFailed, TcpConnected, WsConnected, Lost, Message
<1>5. ASSUME TimerExpires PROVE TypeOK'
  BY <1>1, <1>5, SocketAssumption DEF TypeOK, Stacks, TimerExpires
<1>6. ASSUME SetTerm \/ Destructor PROVE TypeOK'
  BY <1>1, <1>6 DEF TypeOK, Stacks, SetTerm, Destructor, CloseWs, JoinSig, DestroyWs,
     ResetCallbacks, Destroying
<1> QED BY <1>2, <1>3, <1>4, <1>5, <1>6 DEF Next

-----------------------------------------------------------------------------
(* The discipline of the stacks.                                            *)

\* Where a thread goes on when a call returns.
Tails == {"check", "trigger", "unlock", "throw", "again"}

\* The stacks: what is below the head; remoteClose goes on with its check; open()
\* runs in onClosed, except the first, and onClosed in one thread; main runs
\* nothing before the termination.
StackInv ==
    /\ \A t \in Threads, a \in Points : Under(t, a) => a \in Tails
    /\ \A t \in Threads \ {"main"} :
          Is(t, "load") \/ Is(t, "closing") => Under(t, "check")
    /\ \A t \in Threads \ {"sig"}, a \in {"openTest", "openSet", "emplace"} :
          Is(t, a) => InOnClosed(t)
    /\ \A t, u \in Threads : InOnClosed(t) /\ InOnClosed(u) => t = u
    /\ ~InOnClosed("main")
    /\ ~_do_term => run["main"] = << >>

\* The steps of threads keep it ...
LEMMA StackStep ==
    ASSUME TypeOK, StackInv, NEW t \in Threads, Step(t)
    PROVE  StackInv'
<1>1. run \in Stacks /\ run' \in Stacks /\ Moved(t)
  BY StepMoves DEF TypeOK, Stacks, Moved
<1>2. \A u \in Threads \ {t} : /\ run'[u] = run[u]
         /\ \A a : (Is(u, a)' <=> Is(u, a)) /\ (Under(u, a)' <=> Under(u, a))
  BY <1>1, Rest
<1>3. \A u \in Threads :
         /\ InOnClosed(u) <=> Is(u, "unlock") \/ Under(u, "unlock")
         /\ InOnClosed(u)' <=> Is(u, "unlock")' \/ Under(u, "unlock")'
  BY <1>1, OnClosedIs
<1>4. t = "main" => _do_term
  BY DEF StackInv, Is, Step, CloseStep, OpenStep, CallbackStep, Load, Closing, Check, Take,
     Silence, Trigger, Unlock, OpenTest, OpenSet, Emplace, Throw, SetOpen, Again, OnMessage
<1>5. \A u \in Threads, a \in Points : Under(u, a)' => a \in Tails
  BY <1>1, <1>2, <1>3, Shape DEF StackInv, Pops, Becomes, Tails
<1>6. \A u \in Threads \ {"main"} : Is(u, "load")' \/ Is(u, "closing")' => Under(u, "check")'
  <2>1. Pops(t) => ~Is(t, "load")' /\ ~Is(t, "closing")'
    BY DEF StackInv, Pops, Tails, Points
  <2>2. t # "main" => (Is(t, "load")' \/ Is(t, "closing")' => Under(t, "check")')
    BY <2>1, Shape DEF StackInv, Becomes
  <2> QED BY <1>2, <2>2 DEF StackInv
<1>7. \A u \in Threads \ {"sig"}, a \in {"openTest", "openSet", "emplace"} :
          Is(u, a)' => InOnClosed(u)'
  <2>1. Pops(t) => ~Is(t, "openTest")' /\ ~Is(t, "openSet")' /\ ~Is(t, "emplace")'
    BY DEF StackInv, Pops, Tails, Points
  <2>2. \A a \in {"openTest", "openSet"} : Is(t, a) => ~Is(t, "unlock")
    BY DEF Is
  <2>3. ASSUME t # "sig", NEW a \in {"openTest", "openSet", "emplace"}, Is(t, a)'
        PROVE  Under(t, "unlock")'
    BY <1>3, <2>1, <2>2, <2>3, Shape DEF StackInv, Becomes
  <2> QED BY <1>2, <1>3, <2>3 DEF StackInv
<1>8. InOnClosed(t)' => InOnClosed(t) \/ (MayEnter(t) /\ ~_do_term)
  BY <1>3, Shape DEF Becomes, Pops
<1>9. \A u \in Threads \ {t} : InOnClosed(u)' <=> InOnClosed(u)
  BY <1>2, <1>3
<1>10. \A u, v \in Threads : InOnClosed(u)' /\ InOnClosed(v)' => u = v
  BY <1>8, <1>9 DEF StackInv, MayEnter
<1>11. ~InOnClosed("main")'
  <2>1. "main" \in Threads
    BY DEF Threads
  <2> QED BY <1>4, <1>8, <1>9, <2>1 DEF StackInv
<1>12. (~_do_term => run["main"] = << >>)'
  <2>1. main' = main
    BY DEF Step, CloseStep, OpenStep, CallbackStep, Load, Closing, Check, Take,
     Silence, Trigger, Unlock, OpenTest, OpenSet, Emplace, Throw, SetOpen, Again, OnMessage
  <2>2. "main" \in Threads
    BY DEF Threads
  <2> QED BY <1>2, <1>4, <2>1, <2>2 DEF StackInv, _do_term
<1> QED BY <1>5, <1>6, <1>7, <1>10, <1>11, <1>12 DEF StackInv

\* ... and the other actions.
LEMMA StackOther ==
    ASSUME TypeOK, StackInv, Other
    PROVE  StackInv'
<1>1. run \in Stacks
  BY DEF TypeOK, Stacks
<1>2. CASE run' = run
  <2>1. \A t \in Threads : /\ \A a : (Is(t, a)' <=> Is(t, a)) /\ (Under(t, a)' <=> Under(t, a))
                           /\ InOnClosed(t)' <=> InOnClosed(t)
    BY <1>2 DEF Is, Under, InOnClosed
  <2>2. "main" \in Threads
    BY DEF Threads
  <2>3. (~_do_term => run["main"] = << >>)'
    BY <1>2, OtherShape DEF StackInv
  <2> QED BY <2>1, <2>2, <2>3 DEF StackInv
<1>3. ASSUME NEW t \in Threads, NEW a \in {"load", "setOpen", "message"},
             NEW B \in SUBSET {"check", "again"}, Called(t, a, B),
             a = "load" /\ t # "main" => "check" \in B, t = "main" => _do_term'
      PROVE  StackInv'
  <2>1. Moved(t) /\ Becomes(t, a, B) /\ run' \in Stacks
    BY <1>3 DEF Called, Moved
  <2>2. \A u \in Threads \ {t} : /\ run'[u] = run[u]
           /\ \A b : (Is(u, b)' <=> Is(u, b)) /\ (Under(u, b)' <=> Under(u, b))
    BY <2>1, Rest
  <2>3. \A u \in Threads :
           /\ InOnClosed(u) <=> Is(u, "unlock") \/ Under(u, "unlock")
           /\ InOnClosed(u)' <=> Is(u, "unlock")' \/ Under(u, "unlock")'
    BY <1>1, <2>1, OnClosedIs
  <2>4. \A b : ~Is(t, b) /\ ~Under(t, b)
    BY <1>1, <1>3, Nowhere DEF Called
  <2>5. \A b : (Is(t, b)' <=> b = a) /\ (Under(t, b)' <=> b \in B)
    BY <2>1, <2>4 DEF Becomes
  <2>6. \A u \in Threads : InOnClosed(u)' => InOnClosed(u)
    BY <2>2, <2>3, <2>5
  <2>7. \A u \in Threads, b \in Points : Under(u, b)' => b \in Tails
    BY <2>2, <2>5 DEF StackInv, Tails
  <2>8. \A u \in Threads \ {"main"} : Is(u, "load")' \/ Is(u, "closing")' => Under(u, "check")'
    BY <1>3, <2>2, <2>5 DEF StackInv
  <2>9. \A u \in Threads \ {"sig"}, b \in {"openTest", "openSet", "emplace"} :
            Is(u, b)' => InOnClosed(u)'
    BY <2>2, <2>3, <2>5 DEF StackInv
  <2>10. (~_do_term => run["main"] = << >>)'
    <3>1. "main" \in Threads
      BY DEF Threads
    <3> QED BY <1>3, <2>2, <3>1, OtherShape DEF StackInv
  <2>11. "main" \in Threads
    BY DEF Threads
  <2> QED BY <2>6, <2>7, <2>8, <2>9, <2>10, <2>11 DEF StackInv
<1> QED BY <1>2, <1>3, OtherShape

-----------------------------------------------------------------------------
(* The first open().                                                        *)

\* While sig is in open(), nothing has been connected.
FirstInv ==
    run["sig"] # << >> =>
        /\ \E a \in {"openTest", "openSet", "emplace"} : Is("sig", a)
        /\ \A a : ~Under("sig", a)
        /\ tcp = None /\ wst = None /\ timers = 0
        /\ \A n \in Transports : run[n] = << >> /\ transport[n].status = "unborn"
        /\ run["timer"] = << >> /\ main \in {"run", "close", "join"}
        /\ ~Is("sig", "emplace") =>
              /\ state = "closed"
              /\ run["main"] # << >> => Is("main", "load") /\ \A a : ~Under("main", a)

\* Only sig itself and main take steps meanwhile ...
LEMMA FirstStep ==
    ASSUME TypeOK, StackInv, FirstInv, NEW t \in Threads, Step(t)
    PROVE  FirstInv'
<1> SUFFICES ASSUME run'["sig"] # << >>
             PROVE  FirstInv'
  BY DEF FirstInv
<1>1. /\ Moved(t) /\ run[t] # << >> /\ main' = main
      /\ {"sig", "main", "timer"} \subseteq Threads /\ Transports \subseteq Threads
      /\ {"sig", "main", "timer"} \cap Transports = {}
  BY StepMoves, StepIs, SocketAssumption DEF Threads
<1>2. \A u \in Threads \ {t} : /\ run'[u] = run[u]
         /\ \A a : (Is(u, a)' <=> Is(u, a)) /\ (Under(u, a)' <=> Under(u, a))
  BY <1>1, Rest
<1>3. run["sig"] # << >>
  BY <1>1, <1>2
<1>4. t = "sig" \/ t = "main"
  BY <1>1, <1>3 DEF FirstInv, Threads
<1>5. /\ \A a : ~Under("sig", a)
      /\ tcp = None /\ wst = None /\ timers = 0 /\ main \in {"run", "close", "join"}
      /\ \A n \in Transports : run[n] = << >> /\ transport[n].status = "unborn"
      /\ run["timer"] = << >>
  BY <1>3 DEF FirstInv
<1>6. \A n \in Transports : run'[n] = << >>
  BY <1>1, <1>2, <1>4, <1>5
<1>7. run'["timer"] = << >>
  BY <1>1, <1>2, <1>4, <1>5
<1>8. CASE t = "sig"
  <2>1. run'["main"] = run["main"] /\ \A a : (Is("main", a)' <=> Is("main", a))
                                            /\ (Under("main", a)' <=> Under("main", a))
    BY <1>1, <1>2, <1>8
  <2>2. CASE Is("sig", "openTest")
    <3>1. ~Is("sig", "emplace")
      BY <2>2 DEF Is
    <3>2. OpenTest(t) /\ state = "closed"
      BY <1>3, <1>8, <2>2, <3>1, StepIs DEF FirstInv
    <3>3. Becomes(t, "openSet", {}) /\ UNCHANGED <<state, tcp, wst, transport, timers, main>>
      BY <3>2, StepMoves DEF OpenTest
    <3>4. Is("sig", "openSet")' /\ \A a : ~Under("sig", a)'
      BY <1>5, <1>8, <3>3 DEF Becomes
    <3>5. run["main"] # << >> => Is("main", "load") /\ \A a : ~Under("main", a)
      BY <1>3, <3>1 DEF FirstInv
    <3> QED BY <1>5, <1>6, <1>7, <2>1, <3>2, <3>3, <3>4, <3>5 DEF FirstInv
  <2>3. CASE Is("sig", "openSet")
    <3>1. OpenSet(t)
      BY <1>8, <2>3, StepIs
    <3>2. Becomes(t, "emplace", {}) /\ UNCHANGED <<tcp, wst, transport, timers, main>>
      BY <3>1, StepMoves DEF OpenSet
    <3>3. Is("sig", "emplace")' /\ \A a : ~Under("sig", a)'
      BY <1>5, <1>8, <3>2 DEF Becomes
    <3> QED BY <1>5, <1>6, <1>7, <3>2, <3>3 DEF FirstInv
  <2>4. CASE Is("sig", "emplace")
    <3>1. Pops(t)
      BY <1>5, <1>8, <2>4, StepIs, StepMoves
    <3>2. \A a : ~Is("sig", a)'
      BY <1>5, <1>8, <3>1 DEF Pops
    <3> QED BY <3>2 DEF Is
  <2> QED BY <1>3, <2>2, <2>3, <2>4 DEF FirstInv
<1>9. CASE t = "main"
  <2>1. \A a : (Is("sig", a)' <=> Is("sig", a)) /\ (Under("sig", a)' <=> Under("sig", a))
    BY <1>1, <1>2, <1>9
  <2>2. CASE ~Is("sig", "emplace")
    <3>1. Is("main", "load") /\ state = "closed" /\ \A a : ~Under("main", a)
      BY <1>1, <1>3, <1>9, <2>2 DEF FirstInv
    <3>2. Load(t)
      BY <1>9, <3>1, StepIs
    <3>3. Pops(t) /\ UNCHANGED <<state, tcp, wst, transport, timers, main>>
      BY <3>1, <3>2, StepMoves DEF Load
    <3>4. \A a : ~Is("main", a)'
      BY <1>9, <3>1, <3>3 DEF Pops
    <3>5. run'["main"] = << >>
      BY <3>4 DEF Is
    <3> QED BY <1>3, <1>5, <1>6, <1>7, <2>1, <3>1, <3>3, <3>5 DEF FirstInv
  <2>3. CASE Is("sig", "emplace")
    <3>1. ~Emplace(t)
      BY <1>1, <1>9 DEF StackInv, Emplace
    <3>2. UNCHANGED <<tcp, wst, timers, main>>
          /\ \A n \in Transports : transport'[n].status = transport[n].status
      BY <1>5, <3>1 DEF TypeOK, Step, CloseStep, OpenStep, CallbackStep, Load, Closing, Check,
         Take, Silence, Trigger, Unlock, OpenTest, OpenSet, Throw, SetOpen, Again, OnMessage
    <3> QED BY <1>5, <1>6, <1>7, <2>1, <2>3, <3>2 DEF FirstInv
  <2> QED BY <2>2, <2>3
<1> QED BY <1>4, <1>8, <1>9

\* ... and main only begins the termination.
LEMMA FirstOther ==
    ASSUME TypeOK, StackInv, FirstInv, Other
    PROVE  FirstInv'
<1> SUFFICES ASSUME run'["sig"] # << >>
             PROVE  FirstInv'
  BY DEF FirstInv
<1>1. /\ {"sig", "main", "timer"} \subseteq Threads /\ Transports \subseteq Threads
      /\ {"sig", "main", "timer"} \cap Transports = {}
  BY SocketAssumption DEF Threads
<1>2. run["sig"] # << >>
  <2>1. ASSUME NEW t \in Threads \ {"sig"}, NEW a, NEW B, Called(t, a, B)
        PROVE  run'["sig"] = run["sig"]
    BY <1>1, <2>1 DEF Called, Moved, Others
  <2> QED BY <2>1, OtherShape
<1>3. /\ \A a : ~Under("sig", a)
      /\ tcp = None /\ wst = None /\ timers = 0 /\ main \in {"run", "close", "join"}
      /\ \A n \in Transports : run[n] = << >> /\ transport[n].status = "unborn"
      /\ run["timer"] = << >>
  BY <1>2 DEF FirstInv
<1>4. ~TimerExpires /\ \A n \in Transports : ~Call(n)
  BY <1>3 DEF TimerExpires, Call, TcpFailed, TcpConnected, WsConnected, Lost, Message, Reports
<1>5. SetTerm \/ CloseWs
  BY <1>2, <1>3, <1>4 DEF Other, Destructor, JoinSig, DestroyWs, ResetCallbacks, Destroying
<1>6. UNCHANGED <<state, tcp, wst, transport, timers>> /\ main' \in {"close", "join"}
  BY <1>5 DEF SetTerm, CloseWs, Destroying
<1>7. run' = run \/ Called("main", "load", {})
  BY <1>5, OtherMoves
<1>8. CASE run' = run
  <2>1. \A t \in Threads : \A a : (Is(t, a)' <=> Is(t, a)) /\ (Under(t, a)' <=> Under(t, a))
    BY <1>8 DEF Is, Under
  <2> QED BY <1>1, <1>2, <1>6, <1>8, <2>1 DEF FirstInv
<1>9. CASE Called("main", "load", {})
  <2>1. \A u \in Threads \ {"main"} : /\ run'[u] = run[u]
           /\ \A a : (Is(u, a)' <=> Is(u, a)) /\ (Under(u, a)' <=> Under(u, a))
    BY <1>1, <1>9, Rest DEF Called
  <2>2. \A a : ~Under("main", a)
    BY <1>1, <1>9, Nowhere DEF Called, TypeOK, Stacks
  <2>3. Is("main", "load")' /\ \A a : ~Under("main", a)'
    BY <1>9, <2>2 DEF Called, Becomes
  <2> QED BY <1>1, <1>2, <1>3, <1>6, <2>1, <2>3 DEF FirstInv
<1> QED BY <1>7, <1>8, <1>9

-----------------------------------------------------------------------------
(* The order of the transports.                                             *)

Born(n) == transport[n].status # "unborn"

\* Thread t has taken transport n, and is to reset its callbacks.
Takes(t, n) == Is(t, "silence") /\ Head(run[t]).n = n

\* What has not been made calls back nothing, and is not met.
BornInv ==
    /\ tcp # None => Born(tcp)
    /\ \A n \in Transports : ~Born(n) => run[n] = << >> /\ ~transport[n].heard
    /\ \A t \in Threads, n \in Transports : Takes(t, n) => Born(n)

\* All other transports were made before n.
Latest(rank, n) == \A m \in Transports \ {n} : Born(m) => rank[m] < rank[n]

\* rank orders the transports as they were made: the one that is set is the
\* latest; a callback takes only a later one than its own, and onClosed the latest.
Ordered(rank) ==
    /\ tcp # None => Latest(rank, tcp)
    /\ \A t \in Threads, n \in Transports : Takes(t, n) =>
          /\ t \in Transports \ {n} => rank[t] < rank[n]
          /\ InOnClosed(t) => Latest(rank, n)

OrderInv == \E top \in Nat : \E rank \in [Transports -> 0 .. top] : Ordered(rank)

\* A thread takes the transport that is set ...
LEMMA TakesStep ==
    ASSUME TypeOK, StackInv, NEW t \in Threads, Step(t)
    PROVE  /\ \A u \in Threads \ {t} : /\ InOnClosed(u)' <=> InOnClosed(u)
                                       /\ \A n : Takes(u, n)' <=> Takes(u, n)
           /\ \A n : Takes(t, n)' => n = tcp
<1>1. Moved(t)
  BY StepMoves
<1>2. \A u \in Threads \ {t} : run'[u] = run[u]
  BY <1>1, Rest
<1>3. \A u \in Threads \ {t} : /\ InOnClosed(u)' <=> InOnClosed(u)
                               /\ \A n : Takes(u, n)' <=> Takes(u, n)
  BY <1>2 DEF InOnClosed, Takes, Is
<1>4. ASSUME NEW n, Takes(t, n)' PROVE n = tcp
  <2>1. Is(t, "silence")' /\ Head(run'[t]).n = n
    BY <1>4 DEF Takes
  <2>2. ~Pops(t)
    BY <2>1 DEF StackInv, Pops, Tails, Points
  <2>3. Is(t, "take")
    BY <2>1, <2>2, Shape DEF Becomes
  <2> QED BY <2>1, <2>3, StepIs, StepMoves
<1> QED BY <1>3, <1>4

\* ... in no other action, which lead into onClosed neither.
LEMMA TakesOther ==
    ASSUME TypeOK, StackInv, Other
    PROVE  \A u \in Threads : /\ InOnClosed(u)' => InOnClosed(u)
                              /\ \A n : Takes(u, n)' => Takes(u, n)
<1>1. CASE run' = run
  BY <1>1 DEF InOnClosed, Takes, Is
<1>2. ASSUME NEW t \in Threads, NEW a \in {"load", "setOpen", "message"},
             NEW B \in SUBSET {"check", "again"}, Called(t, a, B)
      PROVE  \A u \in Threads : /\ InOnClosed(u)' => InOnClosed(u)
                                /\ \A n : Takes(u, n)' => Takes(u, n)
  <2>1. \A u \in Threads \ {t} : run'[u] = run[u]
    BY <1>2, Rest DEF Called
  <2>2. \A u \in Threads \ {t} : /\ InOnClosed(u)' <=> InOnClosed(u)
                                 /\ \A n : Takes(u, n)' <=> Takes(u, n)
    BY <2>1 DEF InOnClosed, Takes, Is
  <2>3. \A b : ~Is(t, b) /\ ~Under(t, b)
    BY <1>2, Nowhere DEF Called, TypeOK, Stacks
  <2>4. \A b : (Is(t, b)' <=> b = a) /\ (Under(t, b)' <=> b \in B)
    BY <1>2, <2>3 DEF Called, Becomes
  <2>5. ~InOnClosed(t)' /\ \A n : ~Takes(t, n)'
    <3>1. run \in Stacks /\ run' \in Stacks
      BY <1>2 DEF TypeOK, Stacks, Called, Moved
    <3> QED BY <2>4, <3>1, OnClosedIs DEF Takes
  <2> QED BY <2>2, <2>5
<1> QED BY <1>1, <1>2, OtherShape

\* Only setTcpTransport makes a transport.
LEMMA BornStep ==
    ASSUME TypeOK, StackInv, BornInv, NEW t \in Threads, Step(t)
    PROVE  /\ BornInv'
           /\ \A n \in Transports : Born(n) => Born(n)'
           /\ ~(Emplace(t) /\ tcp = None) =>
                 tcp' \in {tcp, None} /\ \A n \in Transports : Born(n)' => Born(n)
<1>1. Moved(t) /\ \A u \in Threads \ {t} : run'[u] = run[u]
  BY StepMoves DEF Moved, Others
<1>2. ASSUME ~Emplace(t)
      PROVE  /\ \A n \in Transports : /\ transport'[n].status = transport[n].status
                                      /\ transport'[n].heard => transport[n].heard
             /\ tcp' \in {tcp, None}
  BY <1>2 DEF TypeOK, Step, CloseStep, OpenStep, CallbackStep, Load, Closing, Check, Take,
     Silence, Trigger, Unlock, OpenTest, OpenSet, Throw, SetOpen, Again, OnMessage
<1>3. ASSUME Emplace(t)
      PROVE  /\ \A n \in Transports : /\ Born(n) => Born(n)'
                                      /\ Born(n)' \/ (transport'[n].heard => transport[n].heard)
             /\ tcp' # tcp /\ tcp' # None => Born(tcp)'
  BY <1>3 DEF TypeOK, Emplace, Born
<1>4. \A n \in Transports : /\ Born(n) => Born(n)'
                            /\ Born(n)' \/ (transport'[n].heard => transport[n].heard)
  BY <1>2, <1>3 DEF Born
<1>5. (tcp # None => Born(tcp))'
  BY <1>2, <1>3, <1>4 DEF BornInv, TypeOK
<1>6. \A n \in Transports : ~Born(n)' => run'[n] = << >> /\ ~transport'[n].heard
  BY <1>1, <1>4, StepIs DEF BornInv, Threads
<1>7. \A u \in Threads, n \in Transports : Takes(u, n)' => Born(n)'
  BY <1>4, TakesStep, SocketAssumption DEF BornInv
<1>8. Emplace(t) /\ tcp # None => UNCHANGED <<tcp, transport>>
  BY DEF Emplace
<1> QED BY <1>2, <1>4, <1>5, <1>6, <1>7, <1>8 DEF BornInv, Born

\* A transport that calls back has been made.
LEMMA BornOther ==
    ASSUME TypeOK, StackInv, BornInv, Other
    PROVE  /\ BornInv' /\ tcp' = tcp
           /\ \A n \in Transports : Born(n)' <=> Born(n)
<1>1. /\ tcp' = tcp
      /\ \A n \in Transports : /\ Born(n)' <=> Born(n)
                               /\ transport'[n].heard = transport[n].heard
      /\ \A n \in Transports : Call(n) => Born(n)
  <2>1. ASSUME NEW n \in Transports, Call(n)
        PROVE  /\ tcp' = tcp /\ Born(n)
               /\ \A m \in Transports : /\ Born(m)' <=> Born(m)
                                        /\ transport'[m].heard = transport[m].heard
    <3>1. PICK next \in {"unreachable", "idle", "handshake", "connected", "lost"} :
             /\ transport[n].heard
             /\ transport' = [transport EXCEPT ![n].status = next]
             /\ tcp' = tcp
      BY <2>1 DEF Call, TcpFailed, TcpConnected, WsConnected, Lost, Message, Reports
    <3>2. Born(n)
      BY <3>1 DEF BornInv
    <3> QED BY <3>1, <3>2 DEF TypeOK, Born
  <2>2. ASSUME TimerExpires \/ SetTerm \/ Destructor
        PROVE  UNCHANGED <<tcp, transport>> /\ \A n \in Transports : Call(n) => Born(n)
    BY <2>1, <2>2 DEF TimerExpires, SetTerm, Destructor, CloseWs, JoinSig, DestroyWs,
       ResetCallbacks, Destroying
  <2> QED BY <2>1, <2>2 DEF Other, Born
<1>2. ASSUME NEW n \in Transports, ~Born(n) PROVE run'[n] = << >>
  <2>1. run[n] = << >> /\ n \in Threads /\ n \notin {"main", "timer"} /\ ~Call(n)
    BY <1>1, <1>2, SocketAssumption DEF BornInv, Threads
  <2>2. ASSUME NEW m \in Transports, Call(m) PROVE run'[n] = run[n]
    BY <2>1, <2>2 DEF TypeOK, Call, TcpFailed, TcpConnected, WsConnected, Lost, Message,
       Reports
  <2>3. ASSUME TimerExpires \/ SetTerm \/ Destructor PROVE run'[n] = run[n]
    BY <2>1, <2>3 DEF TypeOK, TimerExpires, SetTerm, Destructor, CloseWs, JoinSig, DestroyWs,
       ResetCallbacks, Destroying
  <2> QED BY <2>1, <2>2, <2>3 DEF Other
<1>3. \A u \in Threads, n \in Transports : Takes(u, n)' => Born(n)'
  BY <1>1, TakesOther DEF BornInv
<1> QED BY <1>1, <1>2, <1>3 DEF BornInv, TypeOK

\* The transport that is made is the latest; nobody is in onClosed with an earlier one,
\* which the thread that makes it would be.
LEMMA OrderStep ==
    ASSUME TypeOK, StackInv, FirstInv, BornInv, OrderInv, NEW t \in Threads, Step(t)
    PROVE  OrderInv'
<1>1. PICK top \in Nat : \E rank \in [Transports -> 0 .. top] : Ordered(rank)
  BY DEF OrderInv
<1>2. PICK rank \in [Transports -> 0 .. top] : Ordered(rank)
  BY <1>1
<1>3. \A u \in Threads \ {t} : /\ InOnClosed(u)' <=> InOnClosed(u)
                               /\ \A n : Takes(u, n)' <=> Takes(u, n)
  BY TakesStep
<1>4. \A n : Takes(t, n)' => n = tcp
  BY TakesStep
<1>5. CASE ~(Emplace(t) /\ tcp = None)
  <2>1. tcp' \in {tcp, None} /\ \A n \in Transports : Born(n)' <=> Born(n)
    BY <1>5, BornStep
  <2>2. ASSUME NEW n \in Transports, Latest(rank, n) PROVE Latest(rank, n)'
    BY <2>1, <2>2 DEF Latest
  <2>3. (tcp # None => Latest(rank, tcp))'
    BY <1>2, <2>1, <2>2 DEF Ordered, TypeOK
  <2>4. ASSUME NEW n \in Transports, Takes(t, n)'
        PROVE  /\ t \in Transports \ {n} => rank[t] < rank[n]
               /\ Latest(rank, n)'
    <3>1. n = tcp /\ Latest(rank, n)
      BY <1>2, <1>4, <2>4, SocketAssumption DEF Ordered
    <3>2. t \in Transports => Born(t)
      BY StepIs DEF BornInv
    <3> QED BY <2>2, <3>1, <3>2 DEF Latest
  <2>5. ASSUME NEW u \in Threads \ {t}, NEW n \in Transports, Takes(u, n)'
        PROVE  /\ u \in Transports \ {n} => rank[u] < rank[n]
               /\ InOnClosed(u)' => Latest(rank, n)'
    BY <1>2, <1>3, <2>2, <2>5 DEF Ordered
  <2>6. Ordered(rank)'
    BY <2>3, <2>4, <2>5 DEF Ordered
  <2> QED BY <2>6 DEF OrderInv
<1>6. CASE Emplace(t) /\ tcp = None
  <2>1. PICK n \in Transports : /\ ~Born(n) /\ tcp' \in {None, n}
           /\ \A m \in Transports \ {n} : transport'[m] = transport[m]
    BY <1>6 DEF Emplace, Born, TypeOK
  <2> DEFINE next == [rank EXCEPT ![n] = top + 1]
  <2>2. next \in [Transports -> 0 .. top + 1] /\ top + 1 \in Nat
    OBVIOUS
  <2>3. /\ next[n] = top + 1
        /\ \A m \in Transports \ {n} : next[m] = rank[m] /\ next[m] < next[n]
    OBVIOUS
  <2> HIDE DEF next
  <2>4. Latest(next, n)'
    BY <2>3 DEF Latest
  <2>5. \A m \in Transports : ~Takes(t, m)'
    BY <1>4, <1>6, SocketAssumption
  <2>6. ASSUME NEW u \in Threads \ {t}, NEW m \in Transports, Takes(u, m)'
        PROVE  /\ u \in Transports \ {m} => next[u] < next[m]
               /\ InOnClosed(u)' => Latest(next, m)'
    <3>1. Takes(u, m) /\ Born(m) /\ m # n
      BY <1>3, <2>1, <2>6 DEF BornInv
    <3>2. ~InOnClosed(u)
      <4>1. Is(t, "emplace") /\ t # "sig"
        BY <1>6, <3>1 DEF Emplace, FirstInv, Born, Is
      <4> QED BY <4>1 DEF StackInv
    <3>3. u # n /\ (u \in Transports \ {m} => rank[u] < rank[m])
      BY <1>2, <2>1, <3>1 DEF Ordered, BornInv, Takes, Is
    <3> QED BY <1>3, <2>3, <3>1, <3>2, <3>3
  <2>7. Ordered(next)'
    BY <2>1, <2>4, <2>5, <2>6 DEF Ordered
  <2> QED BY <2>2, <2>7 DEF OrderInv
<1> QED BY <1>5, <1>6

\* The other actions neither make nor take one.
LEMMA OrderOther ==
    ASSUME TypeOK, StackInv, BornInv, OrderInv, Other
    PROVE  OrderInv'
<1>1. PICK top \in Nat : \E rank \in [Transports -> 0 .. top] : Ordered(rank)
  BY DEF OrderInv
<1>2. PICK rank \in [Transports -> 0 .. top] : Ordered(rank)
  BY <1>1
<1>3. tcp' = tcp /\ \A n \in Transports : Born(n)' <=> Born(n)
  BY BornOther
<1>4. \A n \in Transports : Latest(rank, n) => Latest(rank, n)'
  BY <1>3 DEF Latest
<1>5. Ordered(rank)'
  BY <1>2, <1>3, <1>4, TakesOther DEF Ordered, TypeOK
<1> QED BY <1>5 DEF OrderInv

-----------------------------------------------------------------------------
(* Who reopens.                                                             *)

\* Thread t is to close the socket, if it is not closed, or to reopen it.
Closes(t) == Is(t, "check") \/ Under(t, "check")
Reopens(t) ==
    \/ Is(t, "take") \/ Is(t, "trigger") \/ Under(t, "trigger")
    \/ Is(t, "openTest") \/ Is(t, "openSet")

\* Before the termination, some thread sees to it that the socket gets on.
SeenInv ==
    \/ _do_term
    \/ /\ state = "closed" => \E t \in Threads : Reopens(t)
       /\ state = "closing" => \E t \in Threads : Closes(t)
       /\ state = "connecting" =>
             timers > 0 \/ \E t \in Threads : Closes(t) \/ Is(t, "emplace")

\* A thread that leaves the state to another has seen to it, or keeps what it has below ...
LEMMA SeenStep ==
    ASSUME TypeOK, StackInv, SeenInv, NEW t \in Threads, Step(t)
    PROVE  SeenInv'
<1>1. main' = main /\ Moved(t)
  BY StepIs, StepMoves
<1> SUFFICES ASSUME ~_do_term
             PROVE  SeenInv'
  BY <1>1 DEF SeenInv, _do_term
<1>2. \A u \in Threads \ {t} :
         \A a : (Is(u, a)' <=> Is(u, a)) /\ (Under(u, a)' <=> Under(u, a))
  BY <1>1, Rest
<1>3. \A u \in Threads \ {t} : /\ Reopens(u) => Reopens(u)'
                               /\ Closes(u) => Closes(u)'
                               /\ Is(u, "emplace") => Is(u, "emplace")'
  BY <1>2 DEF Reopens, Closes
<1>4. ASSUME NEW a, Under(t, a) PROVE Is(t, a)' \/ Under(t, a)'
  BY <1>4, Shape DEF Becomes, Pops
<1>5. ASSUME Closes(t), ~Check(t) PROVE Closes(t)'
  BY <1>4, <1>5, StepIs DEF Closes
<1>6. ASSUME Reopens(t), state = "closed", ~OpenSet(t) PROVE Reopens(t)'
  <2>1. CASE Is(t, "take")
    BY <2>1, StepIs, StepMoves DEF Becomes, Reopens
  <2>2. CASE Is(t, "trigger")
    BY <2>2, StepIs, StepMoves DEF Becomes, Reopens
  <2>3. CASE Under(t, "trigger")
    BY <1>4, <2>3 DEF Reopens
  <2>4. CASE Is(t, "openTest")
    BY <1>6, <2>4, StepIs, StepMoves DEF Becomes, Reopens
  <2> QED BY <1>6, <2>1, <2>2, <2>3, <2>4, StepIs DEF Reopens
<1>7. Check(t) => state' = "closed" /\ (state # "closed" => Reopens(t)')
  BY StepMoves DEF Check, Becomes, Reopens
<1>8. Closing(t) => state' = "closing" /\ Closes(t)'
  <2>1. Closing(t) => Closes(t)
    BY StepIs DEF StackInv, Closing, Closes
  <2> QED BY <1>5, <2>1 DEF Closing, Check, Is
<1>9. OpenSet(t) => state' = "connecting" /\ Is(t, "emplace")'
  BY StepMoves DEF OpenSet, Becomes
<1>10. state' \in {state, "open"} \/ Check(t) \/ Closing(t) \/ OpenSet(t)
  BY DEF Step, CloseStep, OpenStep, CallbackStep, Load, Take, Silence, Trigger, Unlock,
     OpenTest, Emplace, Throw, SetOpen, Again, OnMessage
<1>11. timers > 0 => timers' > 0
  BY DEF TypeOK, Step, CloseStep, OpenStep, CallbackStep, Load, Closing, Check, Take, Silence,
     Trigger, Unlock, OpenTest, OpenSet, Emplace, Throw, SetOpen, Again, OnMessage
<1>12. Emplace(t) => Closes(t)' \/ timers' > 0
  BY StepMoves, SocketAssumption DEF TypeOK, Emplace, Becomes, Closes
<1>13. Check(t) => ~OpenSet(t)
  BY DEF Check, OpenSet, Is
<1>14. Is(t, "emplace") => Emplace(t)
  BY StepIs
<1>15. (state = "closed" => \E u \in Threads : Reopens(u))'
  BY <1>3, <1>6, <1>7, <1>8, <1>9, <1>10, <1>13 DEF SeenInv
<1>16. (state = "closing" => \E u \in Threads : Closes(u))'
  BY <1>3, <1>5, <1>7, <1>8, <1>9, <1>10 DEF SeenInv
<1>17. (state = "connecting" =>
           timers > 0 \/ \E u \in Threads : Closes(u) \/ Is(u, "emplace"))'
  BY <1>3, <1>5, <1>7, <1>8, <1>9, <1>10, <1>11, <1>12, <1>14 DEF SeenInv
<1> QED BY <1>15, <1>16, <1>17 DEF SeenInv

\* ... and a timer that expires while the socket connects closes it.
LEMMA SeenOther ==
    ASSUME TypeOK, SeenInv, Other
    PROVE  SeenInv'
<1> SUFFICES ASSUME ~_do_term'
             PROVE  SeenInv'
  BY DEF SeenInv
<1>1. ~_do_term
  BY OtherShape
<1>2. \A u \in Threads : /\ Reopens(u) => Reopens(u)'
                         /\ Closes(u) => Closes(u)'
                         /\ Is(u, "emplace") => Is(u, "emplace")'
  <2>1. CASE run' = run
    BY <2>1 DEF Reopens, Closes, Is, Under
  <2>2. ASSUME NEW t \in Threads, NEW a, NEW B, Called(t, a, B)
        PROVE  \A u \in Threads : /\ Reopens(u) => Reopens(u)'
                                  /\ Closes(u) => Closes(u)'
                                  /\ Is(u, "emplace") => Is(u, "emplace")'
    <3>1. \A u \in Threads \ {t} :
             \A b : (Is(u, b)' <=> Is(u, b)) /\ (Under(u, b)' <=> Under(u, b))
      BY <2>2, Rest DEF Called
    <3>2. \A b : ~Is(t, b) /\ ~Under(t, b)
      BY <2>2, Nowhere DEF Called, TypeOK, Stacks
    <3> QED BY <3>1, <3>2 DEF Reopens, Closes
  <2> QED BY <2>1, <2>2, OtherShape
<1>3. state' = state
  BY DEF Other, Call, TcpFailed, TcpConnected, WsConnected, Lost, Message, Reports,
     TimerExpires, SetTerm, Destructor, CloseWs, JoinSig, DestroyWs, ResetCallbacks, Destroying
<1>4. timers' = timers \/ TimerExpires
  BY DEF Other, Call, TcpFailed, TcpConnected, WsConnected, Lost, Message, Reports,
     SetTerm, Destructor, CloseWs, JoinSig, DestroyWs, ResetCallbacks, Destroying
<1>5. TimerExpires /\ state = "connecting" => \E u \in Threads : Closes(u)'
  BY OtherMoves DEF Called, Becomes, Closes, Threads
<1> QED BY <1>1, <1>2, <1>3, <1>4, <1>5 DEF SeenInv

-----------------------------------------------------------------------------
(* The theorems.                                                            *)

\* The inductive invariant.
IInv == TypeOK /\ StackInv /\ FirstInv /\ BornInv /\ OrderInv /\ SeenInv

LEMMA InitIInv == Init => IInv
<1> SUFFICES ASSUME Init
             PROVE  IInv
  OBVIOUS
<1>1. /\ state = "closed" /\ tcp = None /\ wst = None /\ timers = 0 /\ main = "run"
      /\ \A n \in Transports : ~Born(n) /\ ~transport[n].heard
      /\ \A t \in Threads \ {"sig"} : run[t] = << >>
      /\ run["sig"] = <<P("openTest")>> /\ P("openTest") \in Point /\ P("openTest").at = "openTest"
      /\ {"sig", "main", "timer"} \subseteq Threads /\ Transports \subseteq Threads
      /\ {"sig", "main", "timer"} \cap Transports = {}
  BY Pushed, SocketAssumption DEF Init, Points, Threads, Born
<1>2. TypeOK
  <2>1. run \in [Threads -> Seq(Point)]
    <3>1. <<P("openTest")>> \in Seq(Point) /\ << >> \in Seq(Point)
      BY <1>1
    <3> QED BY <3>1, Pushed DEF Init, Points
  <2> QED BY <1>1, <2>1, SocketAssumption DEF Init, TypeOK
<1>3. /\ \A t \in Threads \ {"sig"} : \A a : ~Is(t, a) /\ ~Under(t, a)
      /\ Is("sig", "openTest") /\ (\A a \in Points \ {"openTest"} : ~Is("sig", a))
      /\ \A a : ~Under("sig", a)
  <2>1. \A t \in Threads \ {"sig"} : \A a : ~Is(t, a) /\ ~Under(t, a)
    BY <1>1, <1>2, Nowhere DEF TypeOK, Stacks
  <2>2. run["sig"] # << >> /\ Head(run["sig"]) = P("openTest") /\ Len(run["sig"]) = 1
    BY <1>1
  <2> QED BY <1>1, <2>1, <2>2 DEF Is, Under
<1>4. \A t \in Threads : ~InOnClosed(t)
  <2>1. \A t \in Threads : InOnClosed(t) => Is(t, "unlock") \/ Under(t, "unlock")
    BY <1>2, Somewhere DEF InOnClosed, Is, Under, TypeOK
  <2> QED BY <1>3, <2>1 DEF Points
<1>5. StackInv
  BY <1>1, <1>3, <1>4 DEF StackInv, Points
<1>6. FirstInv
  BY <1>1, <1>3 DEF FirstInv, Born
<1>7. \A t \in Threads : \A n : ~Takes(t, n)
  BY <1>3 DEF Takes, Points
<1>8. BornInv
  BY <1>1, <1>7 DEF BornInv
<1>9. OrderInv
  <2>1. [n \in Transports |-> 0] \in [Transports -> 0 .. 0] /\ 0 \in Nat
    OBVIOUS
  <2>2. Ordered([n \in Transports |-> 0])
    BY <1>1, <1>7 DEF Ordered
  <2> QED BY <2>1, <2>2 DEF OrderInv
<1>10. SeenInv
  BY <1>1, <1>3 DEF SeenInv, Reopens
<1> QED BY <1>2, <1>5, <1>6, <1>8, <1>9, <1>10 DEF IInv

LEMMA NextIInv == IInv /\ [Next]_vars => IInv'
<1> SUFFICES ASSUME IInv, [Next]_vars
             PROVE  IInv'
  OBVIOUS
<1>1. TypeOK'
  BY TypeStep DEF IInv
<1>2. ASSUME NEW t \in Threads, Step(t) PROVE IInv'
  BY <1>1, <1>2, StackStep, FirstStep, BornStep, OrderStep, SeenStep DEF IInv
<1>3. ASSUME Other PROVE IInv'
  BY <1>1, <1>3, StackOther, FirstOther, BornOther, OrderOther, SeenOther DEF IInv
<1>4. CASE UNCHANGED vars
  <2>1. \A t \in Threads : /\ \A a : (Is(t, a)' <=> Is(t, a)) /\ (Under(t, a)' <=> Under(t, a))
                           /\ InOnClosed(t)' <=> InOnClosed(t)
                           /\ \A n : Takes(t, n)' <=> Takes(t, n)
    BY <1>4 DEF vars, Is, Under, InOnClosed, Takes
  <2>2. {"sig", "main", "timer"} \subseteq Threads
    BY DEF Threads
  <2>3. StackInv' /\ FirstInv'
    BY <1>4, <2>1, <2>2 DEF IInv, StackInv, FirstInv, vars, _do_term
  <2>4. \A n : Born(n)' <=> Born(n)
    BY <1>4 DEF vars, Born
  <2>5. BornInv' /\ SeenInv'
    BY <1>4, <2>1, <2>4 DEF IInv, BornInv, SeenInv, Reopens, Closes, vars, _do_term
  <2>6. OrderInv'
    BY <1>4, <2>1, <2>4 DEF IInv, OrderInv, Ordered, Latest, vars
  <2> QED BY <1>1, <2>3, <2>5, <2>6 DEF IInv
<1> QED BY <1>2, <1>3, <1>4 DEF Next, Other

\* Of some transports there is a last one.
LEMMA Last ==
    ASSUME NEW T, T # {}, NEW rank, NEW top \in Nat, \A n \in T : rank[n] \in 0 .. top
    PROVE  \E n \in T : \A m \in T : rank[m] <= rank[n]
<1> DEFINE S == {top - rank[n] : n \in T}
<1>1. S \subseteq Nat /\ S # {}
  OBVIOUS
<1>2. PICK x \in S : \A y \in S : ~(<<y, x>> \in OpToRel(<, Nat))
  <2> HIDE DEF S
  <2> QED BY <1>1, WFMin, NatLessThanWellFounded
<1>3. \A y \in S : x <= y
  <2> TAKE y \in S
  <2>1. x \in Nat /\ y \in Nat
    BY <1>1
  <2>2. ~(y < x)
    BY <1>2, <2>1 DEF OpToRel
  <2> QED BY <2>1, <2>2
<1>4. PICK n \in T : x = top - rank[n]
  OBVIOUS
<1>5. \A m \in T : rank[m] <= rank[n]
  <2> TAKE m \in T
  <2>1. x <= top - rank[m]
    BY <1>3
  <2> QED BY <1>4, <2>1
<1> QED BY <1>5

\* No state of the invariant is one in which all threads wait.
LEMMA NotStuck == IInv => ReopeningIsInHand
<1> SUFFICES ASSUME IInv, ~_do_term, state # "open", ~(state = "connecting" /\ timers > 0),
                    ~CircularWait, ~OutOfAttempts, \A t \in Threads : ~CanGo(t)
             PROVE  FALSE
  BY DEF ReopeningIsInHand
<1>1. \E t \in Threads : run[t] # << >>
  <2>1. \E t \in Threads : Reopens(t) \/ Closes(t) \/ Is(t, "emplace")
    BY DEF IInv, TypeOK, SeenInv
  <2> QED BY <2>1, Nowhere DEF Reopens, Closes, IInv, TypeOK, Stacks
<1>2. PICK top \in Nat : \E rank \in [Transports -> 0 .. top] : Ordered(rank)
  BY DEF IInv, OrderInv
<1>3. PICK rank \in [Transports -> 0 .. top] : Ordered(rank)
  BY <1>2
<1>4. ASSUME NEW t \in Threads, run[t] # << >>
      PROVE  \/ Is(t, "trigger") /\ ~MayEnter(t)
             \/ \E n \in Transports \ {t} : Takes(t, n) /\ InCallback(n)
  <2>1. ~Is(t, "throw") \/ t # "sig"
    BY DEF IInv, FirstInv, Is
  <2>2. Is(t, "emplace") => ~NoneLeft
    BY DEF OutOfAttempts
  <2>3. (Is(t, "trigger") /\ ~MayEnter(t)) \/ (Is(t, "silence") /\ ~MaySilence(t))
    <3>1. ~CanGo(t)
      OBVIOUS
    <3> QED BY <1>4, <2>1, <2>2, <3>1 DEF CanGo
  <2> QED BY <2>3 DEF MaySilence, Takes
\* Nobody waits for onClosed: who is in it waits for a transport, the latest, whose
\* callback would wait for onClosed too, or for a later one.
<1>5. ASSUME NEW t \in Threads, Is(t, "trigger"), ~MayEnter(t) PROVE FALSE
  <2>1. PICK u \in Threads \ {t} : InOnClosed(u)
    BY <1>5 DEF MayEnter
  <2>2. \A v \in Threads \ {u} : ~InOnClosed(v)
    BY <2>1 DEF IInv, StackInv
  <2>3. run[u] # << >>
    <3>1. Is(u, "unlock") \/ Under(u, "unlock")
      BY <2>1, Somewhere DEF InOnClosed, Is, Under, IInv, TypeOK
    <3> QED BY <3>1, Nowhere DEF IInv, TypeOK, Stacks
  <2>4. PICK n \in Transports \ {u} : Takes(u, n) /\ InCallback(n)
    BY <1>4, <2>2, <2>3 DEF MayEnter
  <2>5. Latest(rank, n)
    BY <1>3, <2>1, <2>4 DEF Ordered
  <2>6. ~Is(n, "trigger")
    BY <2>1, <2>4 DEF CircularWait, Takes
  <2>7. PICK m \in Transports \ {n} : Takes(n, m) /\ InCallback(m)
    BY <1>4, <2>4, <2>6 DEF InCallback, Threads
  <2>8. Born(m) /\ rank[n] < rank[m]
    BY <1>3, <2>7 DEF Ordered, Threads, IInv, BornInv
  <2>9. rank[m] < rank[n]
    BY <2>5, <2>7, <2>8 DEF Latest
  <2> QED BY <1>3, <2>8, <2>9
<1>6. \A t \in Threads : run[t] # << >> => \E n \in Transports \ {t} :
          Takes(t, n) /\ InCallback(n)
  BY <1>4, <1>5
<1> DEFINE T == {n \in Transports : run[n] # << >>}
<1>7. T # {}
  <2>1. PICK t \in Threads : run[t] # << >>
    BY <1>1
  <2>2. PICK n \in Transports : InCallback(n)
    BY <1>6, <2>1
  <2> QED BY <2>2 DEF InCallback
<1>8. PICK n \in T : \A m \in T : rank[m] <= rank[n]
  <2>1. \A m \in T : rank[m] \in 0 .. top
    BY <1>3
  <2> HIDE DEF T
  <2> QED BY <1>7, <2>1, Last
<1>9. PICK m \in Transports \ {n} : Takes(n, m) /\ InCallback(m)
  BY <1>6 DEF Threads
<1>10. m \in T /\ rank[n] < rank[m]
  BY <1>3, <1>9 DEF Ordered, InCallback, Threads
<1> QED BY <1>3, <1>8, <1>10

LEMMA Invariance == Spec => []IInv
  BY InitIInv, NextIInv, PTL DEF Spec

(* Type correctness: among others, wst is only set to the transport that    *)
(* tcp is, though threads set and take the two without a common lock.       *)
THEOREM TypeCorrect == Spec => []TypeOK
<1>1. IInv => TypeOK
  BY DEF IInv
<1> QED BY <1>1, Invariance, PTL

(* The open() of _signalingThr, outside any try block, throws no exception, *)
(* whatever close() of ~WebRTCStreamer does meanwhile.                      *)
THEOREM FirstOpenNeverThrows == Spec => []FirstOpenSucceeds
<1>1. IInv => FirstOpenSucceeds
  BY DEF IInv, FirstInv, FirstOpenSucceeds, Is
<1> QED BY <1>1, Invariance, PTL

(* The socket is never left alone: until the destructor begins, a thread    *)
(* can go on, or the socket is open or connects with a timer pending,       *)
(* except for the circular wait of onClosed and a transport's callback.     *)
THEOREM SocketGetsOn == Spec => []ReopeningIsInHand
  BY NotStuck, Invariance, PTL
=============================================================================
