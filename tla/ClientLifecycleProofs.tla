------------------------ MODULE ClientLifecycleProofs ------------------------
(***************************************************************************)
(* The safety properties of ClientLifecycle, proved for any capacity of    *)
(* _signalingQueueOut.                                                     *)
(*                                                                         *)
(* Two things carry them.  Closed is final and reached once, so at most    *)
(* one thread is ever in closeTransports (ClosingInv).  And until an       *)
(* answer is applied nothing but ~Client closes (UnansweredInv).           *)
(***************************************************************************)
EXTENDS ClientLifecycle, SequenceTheorems, TLAPS

NobodyCloses == closer["owner"] = "no" /\ closer["processor"] = "no"

\* Who closes, how far it is, and what is left of the callbacks.
ClosingInv ==
    /\ closer["owner"] = "no" \/ closer["processor"] = "no"
    /\ closer["processor"] # "no" <=> proc = "close"
    /\ closer["owner"] # "no" <=> owner \in {"closing", "dropping"}
    /\ conn.state = "closed" => conn.closing
    /\ conn.state # "closed" => cbs.state /\ cbs.gathering /\ NobodyCloses
    /\ \A t \in Threads :
          /\ closer[t] = "steal" => cbs.state
          /\ closer[t] \in {"call", "reset"} => ~cbs.state /\ proc # "state"
    /\ conn.state = "closed" /\ NobodyCloses
          => ~cbs.state /\ ~cbs.gathering /\ proc \notin {"state", "gather"}

\* A Client whose peer has not answered.
UnansweredInv ==
    answer # "applied" =>
        /\ net["sctp"] = "off"
        /\ \A n \in Transports : net[n] \in {"on", "off"}
        /\ \A k \in DOMAIN tasks : tasks[k] = "gathered"
        /\ proc \in {"idle", "gather"}
        /\ owner \in {"use", "stopIn", "stopOut", "close"}
              => conn.state # "closed" /\ ~conn.closing
        /\ owner \notin {"use", "stopIn", "stopOut", "close", "closing"}
              => conn.state = "closed" /\ NobodyCloses

\* What onStateChange has been called for.
ReportsInv ==
    /\ NothingAfterClosed
    /\ IF cbs.state THEN \A k \in DOMAIN reports : reports[k] # "closed"
       ELSE reports # << >>

CInv == TypeOK /\ ClosingInv /\ UnansweredInv /\ ReportsInv

LEMMA InitCInv == Init => CInv
<1> SUFFICES ASSUME Init PROVE CInv
  OBVIOUS
<1> USE LifecycleAssumption DEF LifecycleAssumption
<1>1. Len(<< >>) = 0 /\ DOMAIN << >> = {} /\ << >> \in Seq(Tasks)
      /\ << >> \in Seq({"offer", "disconnect"}) /\ << >> \in Seq(Lost \cup {"closed"})
  OBVIOUS
<1>2. TypeOK
  BY <1>1 DEF Init, TypeOK, ConnStates, ProcStates, CloserStates, NetStates, OwnerStates
<1>3. ClosingInv
  BY DEF Init, ClosingInv, NobodyCloses, Threads
<1>4. UnansweredInv
  BY <1>1 DEF Init, UnansweredInv, Transports
<1>5. ReportsInv
  BY <1>1 DEF Init, ReportsInv, NothingAfterClosed
<1> QED BY <1>2, <1>3, <1>4, <1>5 DEF CInv

\* Steps that touch neither the connection nor its callbacks.
LEMMA StepQuiet ==
    ASSUME CInv, Collect \/ Deliver \/ Thr \/ Begin \/ Stop \/ Join \/ DestroyQueues
    PROVE  CInv'
<1> USE LifecycleAssumption DEF LifecycleAssumption
<1>1. /\ UNCHANGED <<conn, cbs, tasks, proc, closer, net, reports>>
      /\ answer' # "applied" => answer # "applied"
  BY DEF Collect, Deliver, Thr, ThrTop, ThrPop, ThrApply, Begin, Stop, Join, DestroyQueues
<1>2. TypeOK'
  <2>1. outQ' \in Seq({"offer", "disconnect"}) /\ Len(outQ') <= OutCap
    <3>1. CASE Collect
      <4>1. outQ' = Tail(outQ) /\ outQ # << >> /\ outQ \in Seq({"offer", "disconnect"})
            /\ Len(outQ) <= OutCap /\ Len(outQ) \in Nat
        BY <3>1, LenProperties DEF Collect, CInv, TypeOK
      <4> QED BY <4>1, HeadTailProperties
    <3>2. CASE ~Collect
      BY <3>2 DEF CInv, TypeOK, Deliver, Thr, ThrTop, ThrPop, ThrApply, Begin, Stop, Join,
                  DestroyQueues
    <3> QED BY <3>1, <3>2
  <2>2. /\ owner' \in OwnerStates
        /\ thr' \in {"top", "pop", "apply", "done"}
        /\ answer' \in {"none", "asked", "waiting", "taken", "applied"}
    BY DEF CInv, TypeOK, Collect, Deliver, Thr, ThrTop, ThrPop, ThrApply, Begin, Stop, Join,
           DestroyQueues, OwnerStates
  <2> QED BY <1>1, <2>1, <2>2 DEF CInv, TypeOK
<1>3. \/ owner' = owner
      \/ owner = "use" /\ owner' = "stopIn"
      \/ owner = "stopIn" /\ owner' = "stopOut"
      \/ owner = "stopOut" /\ owner' = "close"
      \/ owner = "join" /\ owner' = "destroy"
      \/ owner = "destroy" /\ owner' = "drop"
  BY DEF Collect, Deliver, Thr, ThrTop, ThrPop, ThrApply, Begin, Stop, Join, DestroyQueues
<1>4. ClosingInv'
  BY <1>1, <1>3 DEF CInv, ClosingInv, NobodyCloses
<1>5. UnansweredInv'
  BY <1>1, <1>3 DEF CInv, UnansweredInv, NobodyCloses
<1>6. ReportsInv'
  BY <1>1 DEF CInv, ReportsInv, NothingAfterClosed
<1> QED BY <1>2, <1>4, <1>5, <1>6 DEF CInv

\* ICE completes gathering, or a transport that has ended has this told, and then
\* the connection closed.
LEMMA StepAppend ==
    ASSUME CInv, Gathered \/ \E n \in Transports : LoseTell(n) \/ LoseClose(n)
    PROVE  CInv'
<1>1. /\ UNCHANGED <<cbs, proc, closer, owner, thr, answer, outQ, reports>>
      /\ conn' \in ConnStates /\ conn'.state = conn.state /\ conn'.closing = conn.closing
  BY DEF Gathered, LoseTell, LoseClose, CInv, TypeOK, ConnStates
<1>2. PICK x \in Tasks :
        /\ tasks' = Append(tasks, x)
        /\ net' \in [Transports -> NetStates]
        /\ answer # "applied" => x = "gathered" /\ net' = net
  <2>1. "gathered" \in Tasks /\ "remoteClose" \in Tasks /\ Lost \subseteq Tasks
        /\ "report" \in NetStates /\ "ended" \in NetStates
    BY DEF Tasks, NetStates, Reporting
  <2>2. net \in [Transports -> NetStates]
    BY DEF CInv, TypeOK
  <2>3. CASE Gathered
    BY <2>1, <2>2, <2>3 DEF Gathered
  <2>4. ASSUME NEW n \in Transports, LoseTell(n)
        PROVE  /\ net[n] \in Reporting /\ net' \in [Transports -> NetStates]
               /\ net[n] \in Tasks /\ tasks' = Append(tasks, net[n])
    BY <2>1, <2>2, <2>4 DEF LoseTell, Reporting
  <2>5. ASSUME NEW n \in Transports, LoseClose(n)
        PROVE  /\ net[n] \in Reporting /\ net' \in [Transports -> NetStates]
               /\ tasks' = Append(tasks, "remoteClose")
    BY <2>1, <2>2, <2>5 DEF LoseClose, Reporting
  <2>6. \A n \in Transports : net[n] \in Reporting => answer = "applied"
    BY DEF CInv, UnansweredInv, Reporting, Lost
  <2> QED BY <2>1, <2>3, <2>4, <2>5, <2>6
<1>3. tasks \in Seq(Tasks) /\ Len(tasks) \in Nat
  BY LenProperties DEF CInv, TypeOK
<1>4. /\ tasks' \in Seq(Tasks) /\ Len(tasks') = Len(tasks) + 1
      /\ \A k \in 1 .. Len(tasks) : tasks'[k] = tasks[k]
      /\ tasks'[Len(tasks) + 1] = x
  BY <1>2, <1>3, AppendProperties
<1>5. DOMAIN tasks = 1 .. Len(tasks) /\ DOMAIN tasks' = 1 .. Len(tasks')
  BY <1>3, <1>4, LenProperties
<1>6. TypeOK'
  BY <1>1, <1>2, <1>4 DEF CInv, TypeOK
<1>7. ClosingInv'
  BY <1>1 DEF CInv, ClosingInv, NobodyCloses
<1>8. UnansweredInv'
  <2>1. answer # "applied" => \A k \in DOMAIN tasks' : tasks'[k] = "gathered"
    BY <1>2, <1>3, <1>4, <1>5 DEF CInv, UnansweredInv
  <2> QED BY <1>1, <1>2, <2>1 DEF CInv, UnansweredInv, NobodyCloses
<1>9. ReportsInv'
  BY <1>1 DEF CInv, ReportsInv, NothingAfterClosed
<1> QED BY <1>6, <1>7, <1>8, <1>9 DEF CInv

\* A transport comes up.
LEMMA StepUp ==
    ASSUME CInv, Connected \/ \E n \in {"ice", "dtls"} : Start(n)
    PROVE  CInv'
<1>1. /\ UNCHANGED <<cbs, tasks, proc, closer, owner, thr, answer, outQ, reports>>
      /\ conn' \in ConnStates /\ conn'.closing = conn.closing
      /\ conn'.state = conn.state \/ (conn.state # "closed" /\ conn'.state = "connected")
      /\ net' \in [Transports -> NetStates]
  <2>1. CASE Connected
    BY <2>1 DEF Connected, Changed, CInv, TypeOK, ConnStates, Transports, NetStates
  <2>2. CASE \E n \in {"ice", "dtls"} : Start(n)
    BY <2>2 DEF Start, Above, CInv, TypeOK, Transports, NetStates
  <2> QED BY <2>1, <2>2
<1>2. answer = "applied"
  BY DEF Connected, Start, CInv, UnansweredInv, Transports
<1>3. TypeOK'
  BY <1>1 DEF CInv, TypeOK
<1>4. ClosingInv' /\ UnansweredInv'
  BY <1>1, <1>2 DEF CInv, ClosingInv, NobodyCloses, UnansweredInv
<1>5. ReportsInv'
  BY <1>1 DEF CInv, ReportsInv, NothingAfterClosed
<1> QED BY <1>3, <1>4, <1>5 DEF CInv

\* changeState, up to its compare_exchange, leaves Closed as it is.
LEMMA EndInKeeps ==
    ASSUME CInv, NEW n \in Transports, NEW s \in Lost, EndIn(n, s)
    PROVE  /\ conn' \in ConnStates /\ conn'.closing = conn.closing
           /\ conn'.state = IF conn.state = "closed" THEN "closed" ELSE s
           /\ net' \in [Transports -> NetStates]
<1>1. conn' \in ConnStates /\ conn'.closing = conn.closing
      /\ conn'.state = IF conn.state = "closed" THEN "closed" ELSE s
  BY DEF EndIn, Changed, CInv, TypeOK, ConnStates
<1>2. "report" \in NetStates /\ s \in NetStates
  BY DEF NetStates, Reporting
<1>3. net' \in [Transports -> NetStates]
  BY <1>2 DEF EndIn, CInv, TypeOK
<1> QED BY <1>1, <1>3

\* A transport reports its end.
LEMMA StepLose ==
    ASSUME CInv, NEW n \in Transports, NEW s \in Lost, Lose(n, s)
    PROVE  CInv'
<1>1. /\ UNCHANGED <<cbs, tasks, proc, closer, owner, thr, answer, outQ, reports>>
      /\ answer = "applied" /\ EndIn(n, s)
  BY DEF Lose
<1>2. /\ conn' \in ConnStates /\ conn'.closing = conn.closing
      /\ conn'.state = "closed" <=> conn.state = "closed"
      /\ net' \in [Transports -> NetStates]
  BY <1>1, EndInKeeps DEF Lost
<1>3. TypeOK'
  BY <1>1, <1>2 DEF CInv, TypeOK
<1>4. ClosingInv' /\ UnansweredInv'
  BY <1>1, <1>2 DEF CInv, ClosingInv, NobodyCloses, UnansweredInv
<1>5. ReportsInv'
  BY <1>1 DEF CInv, ReportsInv, NothingAfterClosed
<1> QED BY <1>3, <1>4, <1>5 DEF CInv

\* Putting x into the outgoing queue keeps its type.
LEMMA PushTyped ==
    ASSUME CInv, NEW x \in {"offer", "disconnect"}, Push(x)
    PROVE  outQ' \in Seq({"offer", "disconnect"}) /\ Len(outQ') <= OutCap
<1>1. outQ \in Seq({"offer", "disconnect"}) /\ Len(outQ) <= OutCap /\ Len(outQ) \in Nat
  BY LenProperties DEF CInv, TypeOK
<1>2. CASE outQ' = outQ
  BY <1>1, <1>2
<1>3. CASE Len(outQ) < OutCap /\ outQ' = Append(outQ, x)
  BY <1>1, <1>3, AppendProperties, LifecycleAssumption DEF LifecycleAssumption
<1> QED BY <1>2, <1>3 DEF Push

\* closeTransports, step by step.
LEMMA StepClose ==
    ASSUME CInv, NEW t \in Threads, Close(t)
    PROVE  CInv'
<1> USE LifecycleAssumption DEF LifecycleAssumption
<1>1. /\ UNCHANGED <<tasks, net, thr, answer>>
      /\ conn.state = "closed" /\ closer[t] # "no" /\ ~NobodyCloses
  BY DEF Close, Steal, CallClosed, Reset, CInv, ClosingInv, NobodyCloses, Threads
<1>2. ReportsInv' /\ reports' \in Seq(Lost \cup {"closed"})
  <2>1. CASE Steal(t)
    <3>1. /\ reports \in Seq(Lost \cup {"closed"}) /\ Len(reports) \in Nat
          /\ reports' = Append(reports, "closed") /\ ~cbs'.state
          /\ \A k \in DOMAIN reports : reports[k] # "closed"
      BY <2>1, LenProperties DEF Steal, CInv, TypeOK, ReportsInv, ClosingInv
    <3>2. /\ reports' \in Seq(Lost \cup {"closed"}) /\ Len(reports') = Len(reports) + 1
          /\ \A k \in 1 .. Len(reports) : reports'[k] = reports[k]
      BY <3>1, AppendProperties
    <3>3. DOMAIN reports = 1 .. Len(reports) /\ DOMAIN reports' = 1 .. Len(reports')
      BY <3>1, <3>2, LenProperties
    <3> QED BY <3>1, <3>2, <3>3 DEF ReportsInv, NothingAfterClosed
  <2>2. CASE CallClosed(t) \/ Reset(t)
    <3>1. reports' = reports /\ cbs'.state = cbs.state
      BY <2>2 DEF CallClosed, Reset, CInv, TypeOK
    <3> QED BY <3>1 DEF CInv, TypeOK, ReportsInv, NothingAfterClosed
  <2> QED BY <2>1, <2>2 DEF Close
<1>3. TypeOK'
  <2>1. outQ' \in Seq({"offer", "disconnect"}) /\ Len(outQ') <= OutCap
    <3>1. CASE CallClosed(t)
      BY <3>1, PushTyped DEF CallClosed
    <3>2. CASE Steal(t) \/ Reset(t)
      BY <3>2 DEF Steal, Reset, CInv, TypeOK
    <3> QED BY <3>1, <3>2 DEF Close
  <2>2. /\ conn' \in ConnStates /\ cbs' \in [state : BOOLEAN, gathering : BOOLEAN]
        /\ proc' \in ProcStates /\ closer' \in [Threads -> CloserStates]
        /\ owner' \in OwnerStates
    BY DEF Close, Steal, CallClosed, Reset, CInv, TypeOK, ConnStates, ProcStates, CloserStates,
           OwnerStates
  <2> QED BY <1>1, <1>2, <2>1, <2>2 DEF CInv, TypeOK
<1>4. ClosingInv'
  <2>1. CASE Steal(t)
    BY <2>1 DEF Steal, CInv, TypeOK, ConnStates, ClosingInv, NobodyCloses, Threads
  <2>2. CASE CallClosed(t)
    BY <2>2 DEF CallClosed, CInv, TypeOK, ConnStates, ClosingInv, NobodyCloses, Threads
  <2>3. CASE Reset(t)
    BY <2>3 DEF Reset, CInv, TypeOK, ConnStates, ClosingInv, NobodyCloses, Threads
  <2> QED BY <2>1, <2>2, <2>3 DEF Close
<1>5. UnansweredInv'
  <2>1. CASE Steal(t)
    BY <2>1 DEF Steal, CInv, TypeOK, ConnStates, ClosingInv, UnansweredInv, NobodyCloses, Threads
  <2>2. CASE CallClosed(t)
    BY <2>2 DEF CallClosed, CInv, TypeOK, ConnStates, ClosingInv, UnansweredInv, NobodyCloses, Threads
  <2>3. CASE Reset(t)
    BY <2>3 DEF Reset, CInv, TypeOK, ConnStates, ClosingInv, UnansweredInv, NobodyCloses, Threads
  <2> QED BY <2>1, <2>2, <2>3 DEF Close
<1> QED BY <1>2, <1>3, <1>4, <1>5 DEF CInv

\* What remains of the queue when its first task is taken.
LEMMA TailKeeps ==
    ASSUME CInv, tasks # << >>
    PROVE  /\ Tail(tasks) \in Seq(Tasks) /\ Head(tasks) = tasks[1] /\ Head(tasks) \in Tasks
           /\ \A k \in DOMAIN Tail(tasks) :
                 k \in Nat /\ k + 1 \in DOMAIN tasks /\ Tail(tasks)[k] = tasks[k + 1]
           /\ 1 \in DOMAIN tasks
<1>1. tasks \in Seq(Tasks) /\ Len(tasks) \in Nat \ {0} /\ DOMAIN tasks = 1 .. Len(tasks)
  BY LenProperties, EmptySeq DEF CInv, TypeOK
<1>2. /\ Tail(tasks) \in Seq(Tasks) /\ Head(tasks) \in Tasks /\ Head(tasks) = tasks[1]
      /\ Len(Tail(tasks)) = Len(tasks) - 1
      /\ \A k \in 1 .. Len(Tail(tasks)) : Tail(tasks)[k] = tasks[k + 1]
  BY <1>1, HeadTailProperties
<1>3. DOMAIN Tail(tasks) = 1 .. Len(Tail(tasks))
  BY <1>2, LenProperties
<1> QED BY <1>1, <1>2, <1>3

\* The processor enters a callback or skips it.
LEMMA StepRun ==
    ASSUME CInv, RunReport \/ RunGathered
    PROVE  CInv'
<1> USE LifecycleAssumption DEF LifecycleAssumption
<1>1. /\ UNCHANGED <<conn, cbs, closer, net, owner, thr, answer, outQ>>
      /\ proc = "idle" /\ tasks # << >> /\ tasks' = Tail(tasks)
      /\ Head(tasks) # "remoteClose"
  BY DEF RunReport, RunGathered, Due, Lost
<1>2. /\ tasks' \in Seq(Tasks) /\ Head(tasks) = tasks[1] /\ 1 \in DOMAIN tasks
      /\ \A k \in DOMAIN tasks' : k \in Nat /\ k + 1 \in DOMAIN tasks /\ tasks'[k] = tasks[k + 1]
  BY <1>1, TailKeeps
<1>3. /\ \/ proc' = "idle" /\ reports' = reports
         \/ proc' = "gather" /\ cbs.gathering /\ reports' = reports
         \/ proc' = "state" /\ cbs.state /\ Head(tasks) \in Lost
            /\ reports' = Append(reports, Head(tasks))
      /\ Head(tasks) \in Lost /\ cbs.state => reports' = Append(reports, Head(tasks))
  BY <1>1 DEF RunReport, RunGathered, Due, Lost
<1>4. reports' \in Seq(Lost \cup {"closed"}) /\ ReportsInv'
  <2>1. reports \in Seq(Lost \cup {"closed"}) /\ Len(reports) \in Nat
        /\ DOMAIN reports = 1 .. Len(reports)
    BY LenProperties DEF CInv, TypeOK
  <2>2. CASE reports' = reports
    BY <1>1, <2>1, <2>2 DEF CInv, ReportsInv, NothingAfterClosed
  <2>3. CASE cbs.state /\ Head(tasks) \in Lost /\ reports' = Append(reports, Head(tasks))
    <3>1. /\ reports' \in Seq(Lost \cup {"closed"}) /\ Len(reports') = Len(reports) + 1
          /\ \A k \in 1 .. Len(reports) : reports'[k] = reports[k]
          /\ reports'[Len(reports) + 1] = Head(tasks)
      BY <2>1, <2>3, AppendProperties
    <3>2. DOMAIN reports' = 1 .. Len(reports')
      BY <3>1, LenProperties
    <3>3. \A k \in DOMAIN reports' : reports'[k] # "closed"
      BY <2>1, <2>3, <3>1, <3>2 DEF CInv, ReportsInv, Lost
    <3> QED BY <1>1, <2>3, <3>1, <3>3 DEF ReportsInv, NothingAfterClosed
  <2> QED BY <1>3, <2>2, <2>3
<1>5. TypeOK'
  BY <1>1, <1>2, <1>3, <1>4 DEF CInv, TypeOK, ProcStates
<1>6. ClosingInv'
  BY <1>1, <1>3 DEF CInv, ClosingInv, NobodyCloses, Threads
<1>7. UnansweredInv'
  <2>1. answer # "applied" => proc' # "state" /\ \A k \in DOMAIN tasks' : tasks'[k] = "gathered"
    BY <1>1, <1>2, <1>3 DEF CInv, UnansweredInv, Lost
  <2> QED BY <1>1, <1>3, <2>1 DEF CInv, UnansweredInv, NobodyCloses
<1> QED BY <1>4, <1>5, <1>6, <1>7 DEF CInv

\* The processor leaves a callback.
LEMMA StepEnd ==
    ASSUME CInv, EndReport \/ EndGathered
    PROVE  CInv'
<1> USE LifecycleAssumption DEF LifecycleAssumption
<1>1. /\ UNCHANGED <<cbs, tasks, net, owner, thr, answer, reports>>
      /\ proc \in {"state", "gather"}
      /\ \/ proc' = "idle" /\ UNCHANGED <<conn, closer>>
         \/ /\ proc' = "close" /\ owner = "gone" /\ conn.state # "closed"
            /\ conn' = [conn EXCEPT !.state = "closed", !.closing = TRUE]
            /\ closer' = [closer EXCEPT !["processor"] = "steal"]
  BY DEF EndReport, EndGathered, BeginClosing
<1>2. TypeOK'
  <2>1. outQ' \in Seq({"offer", "disconnect"}) /\ Len(outQ') <= OutCap
    BY PushTyped DEF EndReport, EndGathered
  <2>2. conn' \in ConnStates /\ closer' \in [Threads -> CloserStates] /\ proc' \in ProcStates
    BY <1>1 DEF CInv, TypeOK, ConnStates, CloserStates, ProcStates
  <2> QED BY <1>1, <2>1, <2>2 DEF CInv, TypeOK
<1>3. ClosingInv'
  BY <1>1 DEF CInv, TypeOK, ConnStates, ClosingInv, NobodyCloses, Threads
<1>4. UnansweredInv'
  BY <1>1 DEF CInv, UnansweredInv, NobodyCloses
<1>5. ReportsInv'
  BY <1>1 DEF CInv, ReportsInv, NothingAfterClosed
<1> QED BY <1>2, <1>3, <1>4, <1>5 DEF CInv

\* The processor runs remoteClose, up to closeTransports.
LEMMA StepRemoteClose ==
    ASSUME CInv, RunRemoteClose \/ StopOnProcessor
    PROVE  CInv'
<1>1. /\ UNCHANGED <<cbs, owner, thr, answer, outQ, reports>>
      /\ proc \in {"idle", "stopping", "failing"} /\ closer["processor"] = "no"
  BY DEF RunRemoteClose, StopOnProcessor, Due, CInv, ClosingInv
<1>2. answer = "applied"
  <2>1. CASE RunRemoteClose
    <3>1. tasks # << >> /\ Head(tasks) = "remoteClose"
      BY <2>1 DEF RunRemoteClose, Due
    <3>2. tasks[1] = "remoteClose" /\ 1 \in DOMAIN tasks
      BY <3>1, TailKeeps
    <3> QED BY <3>2 DEF CInv, UnansweredInv
  <2>2. CASE StopOnProcessor
    BY <2>2 DEF StopOnProcessor, CInv, UnansweredInv
  <2> QED BY <2>1, <2>2
<1>3. tasks' \in Seq(Tasks)
  <2>1. CASE RunRemoteClose
    <3>1. tasks # << >> /\ tasks' = Tail(tasks)
      BY <2>1 DEF RunRemoteClose, Due
    <3> QED BY <3>1, TailKeeps
  <2>2. CASE StopOnProcessor
    BY <2>2 DEF StopOnProcessor, CInv, TypeOK
  <2> QED BY <2>1, <2>2
<1>4. ReportsInv' /\ UnansweredInv'
  BY <1>1, <1>2 DEF CInv, ReportsInv, NothingAfterClosed, UnansweredInv
<1>5. CASE CloseRest /\ net' = net
  <2>1. \/ conn.state = "closed" /\ proc' = "idle" /\ UNCHANGED <<conn, closer>>
        \/ /\ proc' = "close" /\ conn.state # "closed"
           /\ conn' = [conn EXCEPT !.state = "closed", !.closing = TRUE]
           /\ closer' = [closer EXCEPT !["processor"] = "steal"]
    BY <1>5 DEF CloseRest, BeginClosing
  <2>2. conn' \in ConnStates /\ closer' \in [Threads -> CloserStates] /\ proc' \in ProcStates
    BY <2>1 DEF CInv, TypeOK, ConnStates, CloserStates, ProcStates
  <2>3. TypeOK'
    BY <1>1, <1>3, <1>5, <2>2 DEF CInv, TypeOK
  <2>4. ClosingInv'
    BY <1>1, <2>1 DEF CInv, TypeOK, ConnStates, ClosingInv, NobodyCloses, Threads
  <2> QED BY <1>4, <2>3, <2>4 DEF CInv
<1>6. CASE /\ proc' \in {"stopping", "failing"} /\ closer' = closer
           /\ conn' \in ConnStates /\ (conn.closing => conn'.closing)
           /\ conn'.state = "closed" <=> conn.state = "closed"
           /\ net' \in [Transports -> NetStates]
  <2>1. TypeOK'
    BY <1>1, <1>3, <1>6 DEF CInv, TypeOK, ProcStates
  <2>2. ClosingInv'
    BY <1>1, <1>6 DEF CInv, ClosingInv, NobodyCloses
  <2> QED BY <1>4, <2>1, <2>2 DEF CInv
<1>7. CASE RunRemoteClose
  <2>1. CASE FirstToStop
    <3>1. /\ conn' = [conn EXCEPT !.closing = TRUE]
          /\ proc' = "stopping" /\ closer' = closer /\ net' = net
      BY <1>7, <2>1 DEF RunRemoteClose
    <3>2. conn' \in ConnStates /\ conn'.closing /\ conn'.state = conn.state
          /\ net' \in [Transports -> NetStates]
      BY <3>1 DEF CInv, TypeOK, ConnStates
    <3> QED BY <1>6, <3>1, <3>2
  <2>2. CASE ~FirstToStop
    BY <1>5, <1>7, <2>2 DEF RunRemoteClose
  <2> QED BY <2>1, <2>2
<1>8. CASE StopOnProcessor
  <2>1. CASE EndIn("sctp", "failed") /\ proc' = "failing" /\ UNCHANGED closer
    <3>1. /\ conn' \in ConnStates /\ conn'.closing = conn.closing
          /\ conn'.state = "closed" <=> conn.state = "closed"
          /\ net' \in [Transports -> NetStates]
      BY <2>1, EndInKeeps DEF Transports, Lost
    <3> QED BY <1>6, <2>1, <3>1
  <2>2. CASE CloseRest /\ UNCHANGED net
    BY <1>5, <2>2
  <2> QED BY <1>8, <2>1, <2>2 DEF StopOnProcessor
<1> QED BY <1>7, <1>8

\* ~Client closes, or releases, its PeerConnection.
LEMMA StepDestroy ==
    ASSUME CInv, OwnerClose \/ StopOnOwner \/ DropConnection
    PROVE  CInv'
<1>1. UNCHANGED <<cbs, tasks, proc, thr, answer, outQ, reports>>
  BY DEF OwnerClose, StopOnOwner, DropConnection
<1>2. ReportsInv'
  BY <1>1 DEF CInv, ReportsInv, NothingAfterClosed
<1>3. ASSUME /\ owner \in {"close", "stopping", "failing"}
             /\ owner' \in {"stopping", "failing", "join"} /\ closer' = closer
             /\ owner = "close" => conn.closing \/ net["sctp"] # "off"
             /\ conn' \in ConnStates /\ (conn.closing => conn'.closing)
             /\ conn'.state = "closed" <=> conn.state = "closed"
             /\ net' \in [Transports -> NetStates]
             /\ answer # "applied" => net' = net
      PROVE  CInv'
  <2>1. TypeOK'
    BY <1>1, <1>3 DEF CInv, TypeOK, OwnerStates
  <2>2. ClosingInv'
    BY <1>1, <1>3 DEF CInv, ClosingInv, NobodyCloses
  <2>3. UnansweredInv'
    BY <1>1, <1>3 DEF CInv, UnansweredInv, NobodyCloses
  <2> QED BY <1>2, <2>1, <2>2, <2>3 DEF CInv
<1>4. CASE StopOnOwner
  <2>1. CASE owner = "stopping" /\ EarlyShutdown /\ EndIn("sctp", "failed") /\ owner' = "failing"
    <3>1. /\ conn' \in ConnStates /\ conn'.closing = conn.closing
          /\ conn'.state = "closed" <=> conn.state = "closed"
          /\ net' \in [Transports -> NetStates]
      BY <2>1, EndInKeeps DEF Transports, Lost
    <3>2. answer = "applied"
      BY <2>1 DEF EarlyShutdown, CInv, UnansweredInv
    <3> QED BY <1>3, <1>4, <2>1, <3>1, <3>2 DEF StopOnOwner
  <2>2. CASE owner \in {"stopping", "failing"} /\ owner' = "join" /\ UNCHANGED <<conn, net>>
    <3>1. conn \in ConnStates /\ net \in [Transports -> NetStates]
      BY DEF CInv, TypeOK
    <3> QED BY <1>3, <1>4, <2>2, <3>1 DEF StopOnOwner
  <2> QED BY <1>4, <2>1, <2>2 DEF StopOnOwner
<1>5. CASE OwnerClose /\ owner' # "closing"
  <2>1. /\ owner = "close" /\ owner' \in {"stopping", "join"} /\ closer' = closer /\ net' = net
        /\ conn.closing \/ net["sctp"] # "off"
        /\ conn' = conn \/ conn' = [conn EXCEPT !.closing = TRUE]
    BY <1>5 DEF OwnerClose, FirstToStop
  <2>2. /\ conn' \in ConnStates /\ (conn.closing => conn'.closing)
        /\ conn'.state = conn.state
        /\ net' \in [Transports -> NetStates]
    BY <2>1 DEF CInv, TypeOK, ConnStates
  <2> QED BY <1>3, <2>1, <2>2
<1>6. CASE owner = "drop" /\ owner' = "gone" /\ (conn.state = "closed" \/ proc = "gather")
  <2>1. UNCHANGED <<conn, closer, net>>
    BY <1>6 DEF OwnerClose, StopOnOwner, DropConnection
  <2>2. TypeOK'
    BY <1>1, <1>6, <2>1 DEF CInv, TypeOK, OwnerStates
  <2>3. ClosingInv' /\ UnansweredInv'
    BY <1>1, <1>6, <2>1 DEF CInv, ClosingInv, UnansweredInv, NobodyCloses
  <2> QED BY <1>2, <2>2, <2>3 DEF CInv
<1>7. CASE \/ OwnerClose /\ owner' = "closing"
           \/ owner = "drop" /\ DropConnection /\ ~(conn.state = "closed" \/ proc = "gather")
  <2>1. /\ net' = net /\ owner \in {"close", "drop"} /\ owner' \in {"closing", "dropping"}
        /\ owner = "close" => owner' = "closing"
        /\ conn' = [conn EXCEPT !.state = "closed", !.closing = TRUE]
        /\ closer' = [closer EXCEPT !["owner"] = "steal"]
        /\ conn.state # "closed"
    BY <1>7 DEF OwnerClose, FirstToStop, DropConnection, BeginClosing, CInv, ClosingInv
  <2>2. NobodyCloses
    BY <2>1 DEF CInv, ClosingInv
  <2>3. TypeOK'
    BY <1>1, <2>1 DEF CInv, TypeOK, ConnStates, Threads, CloserStates, OwnerStates
  <2>4. ClosingInv'
    BY <1>1, <2>1, <2>2 DEF CInv, TypeOK, ConnStates, ClosingInv, NobodyCloses, Threads
  <2>5. UnansweredInv'
    BY <1>1, <2>1, <2>2 DEF CInv, UnansweredInv
  <2> QED BY <1>2, <2>3, <2>4, <2>5 DEF CInv
<1>8. CASE DropConnection
  BY <1>6, <1>7, <1>8 DEF DropConnection
<1> QED BY <1>4, <1>5, <1>7, <1>8

\* Every step keeps CInv.
LEMMA NextCInv == CInv /\ [Next]_vars => CInv'
<1> SUFFICES ASSUME CInv, [Next]_vars PROVE CInv'
  OBVIOUS
<1>1. CASE UNCHANGED vars
  BY <1>1 DEF vars, CInv, TypeOK, ClosingInv, UnansweredInv, ReportsInv, NobodyCloses,
              NothingAfterClosed
<1>2. CASE Collect \/ Deliver \/ Thr \/ Begin \/ Stop \/ Join \/ DestroyQueues
  BY <1>2, StepQuiet
<1>3. CASE Gathered \/ \E n \in Transports : LoseTell(n) \/ LoseClose(n)
  BY <1>3, StepAppend
<1>4. CASE Connected \/ \E n \in {"ice", "dtls"} : Start(n)
  BY <1>4, StepUp
<1>5. CASE \E n \in Transports, s \in Lost : Lose(n, s)
  BY <1>5, StepLose
<1>6. CASE \E t \in Threads : Close(t)
  BY <1>6, StepClose
<1>7. CASE Processor
  BY <1>7, StepRun, StepEnd, StepRemoteClose DEF Processor
<1>8. CASE OwnerClose \/ StopOnOwner \/ DropConnection
  BY <1>8, StepDestroy
<1> QED BY <1>1, <1>2, <1>3, <1>4, <1>5, <1>6, <1>7, <1>8 DEF Next, Destructor

LEMMA AlwaysCInv == Spec => []CInv
<1> QED BY InitCInv, NextCInv, PTL DEF Spec

-----------------------------------------------------------------------------
\* Type correctness, and the queue of the callbacks keeps its capacity.
THEOREM TypeCorrect == Spec => []TypeOK
<1>1. CInv => TypeOK
  BY DEF CInv
<1> QED BY <1>1, AlwaysCInv, PTL

\* When closeTransports has returned no callback of the Client runs or will:
\* the thief waits for the call that holds the mutex, and so does the reset.
THEOREM ClosedConnectionsAreQuiet == Spec => []ClosedIsQuiet
<1>1. CInv => ClosedIsQuiet
  BY DEF CInv, ClosingInv, ClosedIsQuiet, NobodyCloses, InCallback, Threads
<1> QED BY <1>1, AlwaysCInv, PTL

\* A Client whose peer has not answered is destroyed without a callback in
\* flight, at whatever moment its destruction begins.
THEOREM UnansweredClientsAreSafe == Spec => []UnansweredIsSafe
<1>1. CInv => UnansweredIsSafe
  BY DEF CInv, ClosingInv, UnansweredInv, UnansweredIsSafe, NobodyCloses, InCallback, Threads,
         QueueGone, TypeOK
<1> QED BY <1>1, AlwaysCInv, PTL

\* onStateChange(Closed) comes once and last.
THEOREM ClosedComesLast == Spec => []NothingAfterClosed
<1>1. CInv => NothingAfterClosed
  BY DEF CInv, ReportsInv
<1> QED BY <1>1, AlwaysCInv, PTL
=============================================================================
