--------------------------- MODULE SignalingSocket ---------------------------
(***************************************************************************)
(* The signaling WebSocket: rtc::WebSocket and what WebRTCStreamer makes   *)
(* of it.  _signalingThr opens it; onClosed opens it again, whichever      *)
(* thread closes it; the destructor closes and destroys it.                *)
(*                                                                         *)
(* Threads:  sig     _signalingThr, in its first open();                   *)
(*           main    ~WebRTCStreamer;                                      *)
(*           timer   the worker of libdatachannel's ThreadPool that runs   *)
(*                   the connection timers;                                *)
(*           and, for each attempt to connect to the server, the thread    *)
(*           that runs the callbacks of its transport: a worker while it   *)
(*           connects, then the one thread of the PollService.             *)
(*                                                                         *)
(* A thread is the stack of the program points it has still to pass, each  *)
(* of them a step.  The callbacks of a transport are called under a mutex, *)
(* onClosed under another: silencing a transport waits for the first,      *)
(* calling onClosed for the second.                                        *)
(*                                                                         *)
(* WebRTCStreamer models what messages do.  There, losing and reopening    *)
(* the socket are one step each, which are taken apart here.               *)
(***************************************************************************)
EXTENDS Naturals, Sequences

CONSTANTS Transports, \* bound: the transports of all attempts to connect
          None,       \* nullptr
          TimerCap,   \* bound: pending connection timers (any more count as one)
          Events      \* bound: those of "expiry", "message" and "termination"
                      \* that may occur

ASSUME SocketAssumption ==
    /\ None \notin Transports /\ {"sig", "main", "timer"} \cap Transports = {}
    /\ TimerCap \in Nat \ {0}

VARIABLES
    state,     \* WebSocket::state
    tcp,       \* mTcpTransport
    wst,       \* mWsTransport, by the transport below it
    transport, \* of each: how far it is, and whether its callbacks are set
    run,       \* of each thread: the program points to pass
    timers,    \* connection timers that have not expired
    main       \* how far ~WebRTCStreamer is

vars == <<state, tcp, wst, transport, run, timers, main>>

Threads == Transports \cup {"sig", "main", "timer"}

Points == {"load", "closing", "check", "take", "silence", "trigger", "unlock",
           "openTest", "openSet", "emplace", "throw", "again", "setOpen", "message"}

Point == [at : Points, n : Transports \cup {None}]

TypeOK ==
    /\ state \in {"closed", "connecting", "open", "closing"}
    /\ tcp \in Transports \cup {None} /\ wst \in {None, tcp}
    /\ transport \in [Transports ->
          [status : {"unborn", "connecting", "unreachable", "idle", "handshake",
                     "connected", "lost"},
           heard : BOOLEAN]]
    /\ run \in [Threads -> Seq(Point)]
    /\ timers \in 0 .. TimerCap
    /\ main \in {"run", "close", "join", "queueGone", "destroyWs", "gone"}

Go(at) == <<[at |-> at, n |-> None]>>
RemoteClose == Go("load") \o Go("check")

Init ==
    /\ state = "closed" /\ tcp = None /\ wst = None
    /\ transport = [n \in Transports |-> [status |-> "unborn", heard |-> FALSE]]
    /\ run = [t \in Threads |-> IF t = "sig" THEN Go("openTest") ELSE << >>]
    /\ timers = 0 /\ main = "run"

_do_term == main # "run"

\* Thread t is at a program point; it goes on with others instead.
Is(t, at) == run[t] # << >> /\ Head(run[t]).at = at
Pass(t, next) == run' = [run EXCEPT ![t] = next \o Tail(@)]

\* Thread t holds the mutex of onClosed, or that of transport n.
InOnClosed(t) == \E k \in DOMAIN run[t] : run[t][k].at = "unlock"
InCallback(n) == run[n] # << >> /\ ~Is(n, "again")

\* Thread t may call onClosed: no other thread is in it.
MayEnter(t) == \A u \in Threads \ {t} : ~InOnClosed(u)

\* Thread t may reset the callbacks of the transport it has taken, if any: none
\* of them is running in another thread.
MaySilence(t) == \A n \in Transports \ {t} : Head(run[t]).n = n => ~InCallback(n)

-----------------------------------------------------------------------------
(* Faulty variants of the definitions below, each a slip the code does not   *)
(* make: the properties must notice them.                                   *)

\* Only the TCP transport is taken.
TakeTcp(t) ==
    /\ Is(t, "take")
    /\ tcp' = None
    /\ Pass(t, <<[at |-> "silence", n |-> tcp]>> \o Go("trigger"))
    /\ UNCHANGED <<state, wst, transport, timers, main>>

\* close() does not test the state.
LoadAlways(t) ==
    /\ Is(t, "load")
    /\ Pass(t, Go("closing"))
    /\ UNCHANGED <<state, tcp, wst, transport, timers, main>>

\* onClosed is not called while another thread is in it.
TriggerTry(t) ==
    /\ Is(t, "trigger")
    /\ Pass(t, IF _do_term \/ \E u \in Threads \ {t} : InOnClosed(u)
               THEN << >> ELSE Go("openTest") \o Go("unlock"))
    /\ UNCHANGED <<state, tcp, wst, transport, timers, main>>

-----------------------------------------------------------------------------
(* WebSocket::close and remoteClose.                                        *)

\* auto s = state.load(); if (s == Connecting || s == Open)
Load(t) ==
    /\ Is(t, "load")
    /\ Pass(t, IF state \in {"connecting", "open"} THEN Go("closing") ELSE << >>)
    /\ UNCHANGED <<state, tcp, wst, transport, timers, main>>

\* changeState(State::Closing); a WsTransport is asked to stop, which says so
\* to the server and closes nothing here, and without one remoteClose is called.
Closing(t) ==
    /\ Is(t, "closing")
    /\ state' = "closing"
    /\ Pass(t, IF wst = None THEN RemoteClose ELSE << >>)
    /\ UNCHANGED <<tcp, wst, transport, timers, main>>

\* if (state.load() != State::Closed) closeTransports(), and there
\* if (!changeState(State::Closed)) return.
Check(t) ==
    /\ Is(t, "check")
    /\ state' = "closed"
    /\ Pass(t, IF state = "closed" THEN << >> ELSE Go("take"))
    /\ UNCHANGED <<tcp, wst, transport, timers, main>>

\* The transports are taken.
Take(t) ==
    /\ Is(t, "take")
    /\ tcp' = None /\ wst' = None
    /\ Pass(t, <<[at |-> "silence", n |-> tcp]>> \o Go("trigger"))
    /\ UNCHANGED <<state, transport, timers, main>>

\* Their callbacks are reset, once none is running in another thread.
Silence(t) ==
    /\ Is(t, "silence")
    /\ MaySilence(t)
    /\ LET n == Head(run[t]).n IN
          transport' = IF n = None THEN transport
                       ELSE [transport EXCEPT ![n].heard = FALSE]
    /\ Pass(t, << >>)
    /\ UNCHANGED <<state, tcp, wst, timers, main>>

\* triggerClosed calls onClosed, if it is set, when no other thread is in it:
\* if (!_do_term), a sleep of 1 ms and open().
Trigger(t) ==
    /\ Is(t, "trigger") /\ MayEnter(t)
    /\ Pass(t, IF _do_term THEN << >> ELSE Go("openTest") \o Go("unlock"))
    /\ UNCHANGED <<state, tcp, wst, transport, timers, main>>

\* onClosed returns.
Unlock(t) ==
    /\ Is(t, "unlock")
    /\ Pass(t, << >>)
    /\ UNCHANGED <<state, tcp, wst, transport, timers, main>>

-----------------------------------------------------------------------------
(* WebSocket::open.  Its exceptions are caught where onClosed was called,   *)
(* and by nobody in thread sig.                                             *)

\* if (state != State::Closed) throw
OpenTest(t) ==
    /\ Is(t, "openTest")
    /\ Pass(t, IF state = "closed" THEN Go("openSet") ELSE Go("throw"))
    /\ UNCHANGED <<state, tcp, wst, transport, timers, main>>

\* changeState(State::Connecting)
OpenSet(t) ==
    /\ Is(t, "openSet")
    /\ state' = "connecting"
    /\ Pass(t, Go("emplace"))
    /\ UNCHANGED <<tcp, wst, transport, timers, main>>

\* setTcpTransport: a transport that is set already is closed, with an
\* exception.  Otherwise a timer and the new transport are started, which is
\* discarded if the WebSocket has been closed meanwhile.
Emplace(t) ==
    /\ Is(t, "emplace")
    /\ IF tcp # None
       THEN Pass(t, RemoteClose \o Go("throw")) /\ UNCHANGED <<tcp, transport, timers>>
       ELSE \E n \in Transports :
               /\ transport[n].status = "unborn"
               /\ tcp' = IF state = "closed" THEN None ELSE n
               /\ transport' = [transport EXCEPT ![n] =
                     [status |-> "connecting", heard |-> state # "closed"]]
               /\ timers' = IF timers < TimerCap THEN timers + 1 ELSE timers
               /\ Pass(t, << >>)
    /\ UNCHANGED <<state, wst, main>>

\* The exception leaves open().
Throw(t) ==
    /\ Is(t, "throw") /\ t # "sig"
    /\ Pass(t, << >>)
    /\ UNCHANGED <<state, tcp, wst, transport, timers, main>>

-----------------------------------------------------------------------------
(* The transports.                                                          *)

\* The thread of the PollService runs no callback.
PollFree == \A n \in Transports : run[n] # << >> => transport[n].status = "unreachable"

\* Transport n, of this status, calls back.
Reports(n, status, next, points) ==
    /\ transport[n].heard /\ run[n] = << >> /\ transport[n].status \in status
    /\ next = "unreachable" \/ PollFree
    /\ transport' = [transport EXCEPT ![n].status = next]
    /\ run' = [run EXCEPT ![n] = points]
    /\ UNCHANGED <<state, tcp, timers, main>>

\* No address of the server accepts the connection.
TcpFailed(n) ==
    /\ Reports(n, {"connecting"}, "unreachable", RemoteClose)
    /\ UNCHANGED wst

\* TCP connects: initWsTransport, which closes when the transport has been taken.
TcpConnected(n) ==
    LET made == tcp = n /\ state # "closed" IN
    /\ wst' = IF made THEN n ELSE wst
    /\ Reports(n, {"connecting"}, IF made THEN "handshake" ELSE "idle",
               IF tcp # n /\ wst = None THEN RemoteClose ELSE << >>)

\* The server accepts the handshake: if (state == State::Connecting) ...
WsConnected(n) ==
    /\ Reports(n, {"handshake"}, "connected",
               IF state = "connecting" THEN Go("setOpen") ELSE << >>)
    /\ UNCHANGED wst

\* ... changeState(State::Open)
SetOpen(t) ==
    /\ Is(t, "setOpen")
    /\ state' = "open"
    /\ Pass(t, << >>)
    /\ UNCHANGED <<tcp, wst, transport, timers, main>>

\* The connection is lost, or the server ends it.  The transports call back one
\* after the other, each as long as it has not been silenced.
Lost(n) ==
    /\ Reports(n, {"idle", "handshake", "connected"}, "lost",
               IF state = "connecting" \/ transport[n].status # "idle"
               THEN RemoteClose \o Go("again") ELSE << >>)
    /\ UNCHANGED wst

Again(t) ==
    /\ Is(t, "again")
    /\ Pass(t, IF transport[t].heard THEN RemoteClose ELSE << >>)
    /\ UNCHANGED <<state, tcp, wst, transport, timers, main>>

\* A message of the server: onMessage, unless the callbacks have been reset.
Message(n) ==
    /\ "message" \in Events /\ main # "gone"
    /\ Reports(n, {"connected"}, "connected", Go("message"))
    /\ UNCHANGED wst

\* onMessage: _signalingQueue.push
OnMessage(t) ==
    /\ Is(t, "message")
    /\ Pass(t, << >>)
    /\ UNCHANGED <<state, tcp, wst, transport, timers, main>>

\* A timer expires, 30 s after the start of the attempt it was made for.
TimerExpires ==
    /\ "expiry" \in Events /\ timers > 0 /\ run["timer"] = << >>
    /\ timers' = timers - 1
    /\ run' = [run EXCEPT !["timer"] = IF state = "connecting" THEN RemoteClose ELSE << >>]
    /\ UNCHANGED <<state, tcp, wst, transport, main>>

-----------------------------------------------------------------------------
(* ~WebRTCStreamer.                                                         *)

\* It goes from one place to the next, and runs these program points.
Destroying(from, to, points) ==
    /\ main = from /\ run["main"] = << >>
    /\ main' = to
    /\ run' = [run EXCEPT !["main"] = points]
    /\ UNCHANGED <<state, tcp, wst, transport, timers>>

\* _do_term = true, and _signalingQueue.stop()
SetTerm == "termination" \in Events /\ Destroying("run", "close", << >>)

\* _signalingWS->close()
CloseWs == Destroying("close", "join", Go("load"))

\* _signalingThread.join(), and _signalingQueue is destroyed
JoinSig == run["sig"] = << >> /\ Destroying("join", "queueGone", << >>)

\* ~WebSocket: remoteClose ...
DestroyWs == Destroying("queueGone", "destroyWs", RemoteClose)

\* ... and resetCallbacks, which waits for those that run.
ResetCallbacks ==
    /\ \A t \in Threads : ~InOnClosed(t) /\ ~Is(t, "message")
    /\ Destroying("destroyWs", "gone", << >>)

Destructor == CloseWs \/ JoinSig \/ DestroyWs \/ ResetCallbacks
-----------------------------------------------------------------------------
CloseStep(t) == \/ Load(t) \/ Closing(t) \/ Check(t) \/ Take(t) \/ Silence(t)
                \/ Trigger(t) \/ Unlock(t)
OpenStep(t) == OpenTest(t) \/ OpenSet(t) \/ Emplace(t) \/ Throw(t)
CallbackStep(t) == SetOpen(t) \/ Again(t) \/ OnMessage(t)
Step(t) == CloseStep(t) \/ OpenStep(t) \/ CallbackStep(t)

Call(n) == TcpFailed(n) \/ TcpConnected(n) \/ WsConnected(n) \/ Lost(n) \/ Message(n)

Next ==
    \/ \E t \in Threads : Step(t)
    \/ \E n \in Transports : Call(n)
    \/ TimerExpires \/ SetTerm \/ Destructor

Spec == Init /\ [][Next]_vars

-----------------------------------------------------------------------------
(* Correctness.                                                             *)

Idle == \A t \in Threads : run[t] = << >>

\* Bound: an attempt is begun for which no transport is left.
NoneLeft == tcp = None /\ \A n \in Transports : transport[n].status # "unborn"
OutOfAttempts == NoneLeft /\ \E t \in Threads : Is(t, "emplace")

\* Thread t can go on: what ENABLED Step(t) says, guard by guard.
CanGo(t) ==
    /\ run[t] # << >>
    /\ Is(t, "silence") => MaySilence(t)
    /\ Is(t, "trigger") => MayEnter(t)
    /\ Is(t, "emplace") => ~NoneLeft
    /\ Is(t, "throw") => t # "sig"

\* A thread in onClosed waits for the callback of a transport, and that callback
\* for onClosed.
CircularWait ==
    \E t \in Threads : \E n \in Transports \ {t} :
        /\ InOnClosed(t) /\ Is(t, "silence") /\ Head(run[t]).n = n
        /\ Is(n, "trigger")

(* The open() of _signalingThr, where nothing catches an exception, throws  *)
(* none, though the destructor closes the socket at any moment of it.       *)
FirstOpenSucceeds == ~Is("sig", "throw")

(* However closings by the transports, the timers and onClosed's own        *)
(* attempts cross, when no thread can go on the socket is open, or connects *)
(* with a timer that will expire and close what does not, unless the        *)
(* destructor has begun or two threads wait for each other (NoCircularWait).*)
ReopeningIsInHand ==
    \/ _do_term \/ state = "open"
    \/ state = "connecting" /\ timers > 0
    \/ CircularWait \/ OutOfAttempts
    \/ \E t \in Threads : CanGo(t)

(* The log of onClosed, "unexpectedly closed, try to reopen": an open       *)
(* socket has a transport.  Violated: the callback of WsConnected tests for *)
(* Connecting, another thread closes the socket, and then the callback sets *)
(* Open, which no later event changes and which onClosed's open() rejects.  *)
OpenIsReal == Idle /\ state = "open" => wst # None

(* The same of threads that wait: violated by one that has opened in        *)
(* onClosed, found the transport of the former attempt set, and closes it   *)
(* while its callback, which has closed the socket, waits for onClosed.     *)
NoCircularWait == ~CircularWait

(* "Ensures all signaling threads and clients are cleanly terminated": no   *)
(* message is pushed when _signalingQueue, which is declared after the      *)
(* socket, has been destroyed.  Violated: close() only asks the server to   *)
(* close, and messages go on until it has.                                  *)
MessagesMeetTheQueue ==
    main \in {"queueGone", "destroyWs", "gone"} =>
        \A n \in Transports : ~Is(n, "message")

=============================================================================
