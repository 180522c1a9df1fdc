-------------------------- MODULE ServerLifecycle --------------------------
(***************************************************************************)
(* Starting, reloading and stopping the server: the main thread            *)
(* (ferron/src/main.rs), the listener threads (listeners/tcp.rs, quic.rs)  *)
(* and the request handler threads (handler.rs).                           *)
(*                                                                         *)
(* Each turn of the main loop is a generation: it loads the configuration, *)
(* cancels the handlers of the generation before it, adapts the listeners, *)
(* which live on from one generation to the next, and starts handlers of   *)
(* its own.  Listeners and handlers share one unbounded channel, so a      *)
(* connection may be accepted in one generation and handled in another.    *)
(* A handler that is told to stop leaves its loop, and its thread ends     *)
(* once no connection holds a weak reference any more; the tasks that are  *)
(* left in the thread's runtime are dropped.                               *)
(***************************************************************************)
EXTENDS Naturals, Sequences

CONSTANTS TcpAddrs, QuicAddrs,  \* addresses a configuration can listen on
          Foreign,   \* addresses that another process holds at times
          Files,     \* what the configuration file can hold
          Workers,   \* request handler threads of a generation
          Conns,     \* client connections
          Silent,    \* those whose client may keep them open for ever, saying
                     \* nothing or taking nothing
          MaxTries,  \* bind attempts after a reload (10 in the code)
          MaxGen,    \* bound: generations
          MaxEdits   \* bound: edits of the configuration file

Addrs == TcpAddrs \cup QuicAddrs
Gens == 1..MaxGen
\* valid: the configuration loads; quic: QUIC can use its TLS settings, which
\* it cannot when they leave out the cipher suite of the initial packets.
File == [addrs: SUBSET Addrs, uring: BOOLEAN, quic: BOOLEAN, valid: BOOLEAN]

ASSUME LifecycleAssumption ==
    /\ TcpAddrs \cap QuicAddrs = {}
    /\ Foreign \subseteq Addrs
    /\ Files \subseteq File
    /\ Silent \subseteq Conns
    /\ MaxTries \in Nat \ {0}
    /\ MaxGen \in Nat \ {0}
    /\ MaxEdits \in Nat

VARIABLES
    file, edits,   \* the configuration file, and how often it was edited
    main,          \* where the main thread is
    gen,           \* generation; first_startup is gen = 1
    conf,          \* the configuration of the generation
    todo,          \* addresses still to be dealt with
    uring,         \* URING_ENABLED
    listeners,     \* TCP_LISTENERS, QUIC_LISTENERS: the thread (named after
                   \* the generation that made it) of each address, 0 = none
    thread,        \* [Addrs -> [Gens -> ..]] state of the listener threads
    tries,         \* bind attempts of the thread that is starting
    made,          \* the io_uring setting each TCP listener was made with
    tls, tlsq,     \* TLS configuration of a QUIC listener, named after its
                   \* generation, and the channel with newer ones
    handler,       \* [Gens -> [Workers -> ..]] state of the handler threads
    cancelled,     \* generations whose handlers were told to stop
    conn           \* client connections

mainVars == <<file, edits, main, gen, conf, todo, uring>>
listenVars == <<listeners, thread, tries, made, tls, tlsq>>
vars == <<mainVars, listenVars, handler, cancelled, conn>>

NoConn == [st |-> "client", addr |-> "none", gen |-> 0, w |-> "none"]

Running == main # "exit"

\* The connection is with this handler thread.
On(c, g, w) == conn[c].gen = g /\ conn[c].w = w

\* The address is taken by a listener thread that has not closed its socket.
Bound(a) == \E g \in Gens : thread[a][g] \in {"listening", "ending", "closing"}

Init ==
    /\ file \in Files
    /\ edits = 0
    /\ main = "load"
    /\ gen = 1
    /\ conf = file
    /\ todo = {}
    /\ uring = TRUE
    /\ listeners = [a \in Addrs |-> 0]
    /\ thread = [a \in Addrs |-> [g \in Gens |-> "none"]]
    /\ tries = 0
    /\ made = [a \in Addrs |-> TRUE]
    /\ tls = [a \in Addrs |-> 0]
    /\ tlsq = [a \in Addrs |-> << >>]
    /\ handler = [g \in Gens |-> [w \in Workers |-> "none"]]
    /\ cancelled = {}
    /\ conn = [c \in Conns |-> NoConn]

(***************************************************************************)
(* The main thread.                                                        *)
(***************************************************************************)
\* load_configuration, merging and load_modules; an error ends the process,
\* on a reload too.
Load ==
    /\ main = "load"
    /\ conf' = file
    /\ main' = IF file.valid THEN "cancel" ELSE "exit"
    /\ UNCHANGED <<file, edits, gen, todo, uring, listenVars, handler, cancelled, conn>>

\* Mutant: the new handlers get the tokens that are cancelled.
CancelOldAll ==
    /\ main = "cancel"
    /\ cancelled' = cancelled \cup {g \in Gens : g <= gen}
    /\ main' = "adapt"
    /\ UNCHANGED <<file, edits, gen, conf, todo, uring, listenVars, handler, conn>>

\* The handlers of the generation before are told to stop, before there are
\* new ones.
CancelOld ==
    /\ main = "cancel"
    /\ cancelled' = cancelled \cup {g \in Gens : g < gen}
    /\ main' = "adapt"
    /\ UNCHANGED <<file, edits, gen, conf, todo, uring, listenVars, handler, conn>>

\* Mutant: a changed io_uring setting does not end the listeners.
EndsKeepingUring(a) == listeners[a] # 0 /\ a \notin conf.addrs

\* The listeners to end: no longer configured, or the io_uring setting of the
\* TCP listeners has changed.
Ends(a) ==
    /\ listeners[a] # 0
    /\ a \notin conf.addrs \/ (a \in TcpAddrs /\ conf.uring # uring)

\* Tokens of listeners are cancelled; "ending" is a thread that has not yet
\* noticed.  A thread that gave up binding is gone already.
AdaptListeners ==
    /\ main = "adapt"
    /\ thread' = [a \in Addrs |-> [g \in Gens |->
          IF Ends(a) /\ listeners[a] = g /\ thread[a][g] = "listening"
          THEN "ending" ELSE thread[a][g]]]
    /\ listeners' = [a \in Addrs |-> IF Ends(a) THEN 0 ELSE listeners[a]]
    /\ uring' = conf.uring
    /\ main' = "spawn"
    /\ UNCHANGED <<file, edits, gen, conf, todo, tries, made, tls, tlsq,
                   handler, cancelled, conn>>

\* create_http_handler for every worker; then the server must have a port.
SpawnHandlers ==
    /\ main = "spawn"
    /\ handler' = [handler EXCEPT ![gen] = [w \in Workers |-> "running"]]
    /\ todo' = conf.addrs
    /\ main' = IF conf.addrs = {} THEN "exit" ELSE "listen"
    /\ UNCHANGED <<file, edits, gen, conf, uring, listenVars, cancelled, conn>>

\* TCP addresses come first.
Turn(a) == main = "listen" /\ a \in todo /\ (a \in QuicAddrs => todo \cap TcpAddrs = {})

\* An address that has a listener: a QUIC listener gets the new TLS
\* configuration (nobody reads it if the thread is gone).
KeepListener(a) ==
    /\ Turn(a)
    /\ listeners[a] # 0
    /\ todo' = todo \ {a}
    /\ tlsq' = IF a \in QuicAddrs
               THEN [tlsq EXCEPT ![a] = Append(@, [gen |-> gen, quic |-> conf.quic])]
               ELSE tlsq
    /\ UNCHANGED <<file, edits, main, gen, conf, uring, listeners, thread,
                   tries, made, tls, handler, cancelled, conn>>

\* create_tcp_listener, create_quic_listener: the thread is started, and the
\* main thread waits for its first message.
CreateListener(a) ==
    /\ Turn(a)
    /\ listeners[a] = 0
    /\ a \in QuicAddrs => conf.quic
    /\ thread' = [thread EXCEPT ![a][gen] = "binding"]
    /\ tries' = 0
    /\ made' = [made EXCEPT ![a] = conf.uring]
    /\ main' = "wait"
    /\ UNCHANGED <<file, edits, gen, conf, todo, uring, listeners, tls, tlsq,
                   handler, cancelled, conn>>

\* The new QUIC listener cannot use the TLS configuration: its thread ends
\* with an error before it binds, and the error ends the process, on a reload
\* too.
QuicRefused(a) ==
    /\ Turn(a)
    /\ listeners[a] = 0
    /\ a \in QuicAddrs /\ ~conf.quic
    /\ thread' = [thread EXCEPT ![a][gen] = "gone"]
    /\ main' = "exit"
    /\ UNCHANGED <<file, edits, gen, conf, todo, uring, listeners, tries,
                   made, tls, tlsq, handler, cancelled, conn>>

\* The thread reports and the main thread enters it in the map.
Report(a, st) ==
    /\ thread' = [thread EXCEPT ![a][gen] = st]
    /\ listeners' = [listeners EXCEPT ![a] = gen]
    /\ todo' = todo \ {a}
    /\ main' = "listen"

BindOk(a) ==
    /\ main = "wait" /\ thread[a][gen] = "binding"
    /\ ~Bound(a)
    /\ Report(a, "listening")
    /\ tls' = [tls EXCEPT ![a] = gen]
    /\ tlsq' = [tlsq EXCEPT ![a] = << >>]
    /\ UNCHANGED <<file, edits, gen, conf, uring, tries, made, handler,
                   cancelled, conn>>

BindFails(a) ==
    /\ main = "wait" /\ thread[a][gen] = "binding"
    /\ Bound(a) \/ a \in Foreign

\* On the first startup the error ends the process ...
BindFirst(a) ==
    /\ BindFails(a)
    /\ gen = 1
    /\ thread' = [thread EXCEPT ![a][gen] = "gone"]
    /\ main' = "exit"
    /\ UNCHANGED <<file, edits, gen, conf, todo, uring, listeners, tries,
                   made, tls, tlsq, handler, cancelled, conn>>

\* ... later it is tried again a second later ...
BindRetry(a) ==
    /\ BindFails(a)
    /\ gen > 1
    /\ tries + 1 < MaxTries
    /\ tries' = tries + 1
    /\ UNCHANGED <<mainVars, listeners, thread, made, tls, tlsq, handler, cancelled, conn>>

\* ... and in the end skipped: the thread ends, its address stays in the map.
BindSkip(a) ==
    /\ BindFails(a)
    /\ gen > 1
    /\ tries + 1 >= MaxTries
    /\ Report(a, "gone")
    /\ UNCHANGED <<file, edits, gen, conf, uring, tries, made, tls, tlsq,
                   handler, cancelled, conn>>

\* handle_shutdown_signals begins to listen to signals.
AwaitSignals ==
    /\ main = "listen" /\ todo = {}
    /\ main' = "signals"
    /\ UNCHANGED <<file, edits, gen, conf, todo, uring, listenVars, handler,
                   cancelled, conn>>

\* SIGHUP: a reload if the main thread is listening to signals.  Before the
\* first time nothing has replaced the default action, and the process ends;
\* later tokio's handler is installed and the signal reaches nobody.
Hup ==
    /\ Running
    /\ \/ main = "signals" /\ gen < MaxGen /\ main' = "load" /\ gen' = gen + 1
       \/ main # "signals" /\ gen = 1 /\ main' = "exit" /\ UNCHANGED gen
       \/ main # "signals" /\ gen > 1 /\ UNCHANGED <<main, gen>>
    /\ UNCHANGED <<file, edits, conf, todo, uring, listenVars, handler, cancelled, conn>>

\* SIGINT: the handlers are cancelled and the process ends without waiting for
\* them.  During a reload the signal reaches nobody.
Interrupt ==
    /\ main = "signals" \/ (gen = 1 /\ Running)
    /\ cancelled' = cancelled \cup {gen}
    /\ main' = "exit"
    /\ UNCHANGED <<file, edits, gen, conf, todo, uring, listenVars, handler,
                   conn>>

\* The administrator changes the configuration file.
Edit ==
    /\ Running
    /\ edits < MaxEdits
    /\ edits' = edits + 1
    /\ file' \in Files
    /\ UNCHANGED <<main, gen, conf, todo, uring, listenVars, handler,
                   cancelled, conn>>

(***************************************************************************)
(* The listener threads.                                                   *)
(***************************************************************************)
\* A connection is accepted and a task spawned to send it to the handlers.
Accept(a, g, c) ==
    /\ Running
    /\ thread[a][g] \in {"listening", "ending"}
    /\ conn[c].st = "client"
    /\ conn' = [conn EXCEPT ![c] = [NoConn EXCEPT !.st = "accepted", !.addr = a, !.gen = g]]
    /\ UNCHANGED <<mainVars, listenVars, handler, cancelled>>

\* The task sends it over the channel.
Enqueue(c) ==
    /\ Running
    /\ conn[c].st = "accepted"
    /\ conn' = [conn EXCEPT ![c].st = "queued"]
    /\ UNCHANGED <<mainVars, listenVars, handler, cancelled>>

\* The listener's runtime is dropped, with the tasks that have not run yet.
Gone(a, g) ==
    /\ thread' = [thread EXCEPT ![a][g] = "gone"]
    /\ conn' = [c \in Conns |->
          IF conn[c].st = "accepted" /\ conn[c].addr = a /\ conn[c].gen = g
          THEN [conn[c] EXCEPT !.st = "lost"] ELSE conn[c]]
    /\ UNCHANGED <<mainVars, listeners, tries, made, tls, tlsq, handler, cancelled>>

TcpEnd(a, g) == Running /\ a \in TcpAddrs /\ thread[a][g] = "ending" /\ Gone(a, g)

\* A QUIC listener stops accepting and waits, still bound, until its
\* connections are closed (endpoint.wait_idle).
QuicEnd(a, g) ==
    /\ Running /\ a \in QuicAddrs
    /\ thread[a][g] = "ending"
    /\ thread' = [thread EXCEPT ![a][g] = "closing"]
    /\ UNCHANGED <<mainVars, listeners, tries, made, tls, tlsq, handler, cancelled, conn>>

QuicIdle(a, g) ==
    /\ Running
    /\ thread[a][g] = "closing"
    /\ \A c \in Conns : ~(conn[c].st = "serving" /\ conn[c].addr = a)
    /\ Gone(a, g)

\* A TLS configuration waits for a listener that runs.
TlsWaits(a) ==
    /\ Running
    /\ \E g \in Gens : listeners[a] = g /\ thread[a][g] = "listening"
    /\ tlsq[a] # << >>

\* Mutant: the new TLS configuration is received and not set.
NewTlsIgnored(a) ==
    /\ TlsWaits(a)
    /\ Head(tlsq[a]).quic
    /\ tlsq' = [tlsq EXCEPT ![a] = Tail(@)]
    /\ UNCHANGED <<mainVars, listeners, thread, tries, made, tls, handler, cancelled, conn>>

\* A new TLS configuration is taken from the channel and set ...
NewTls(a) ==
    /\ TlsWaits(a)
    /\ Head(tlsq[a]).quic
    /\ tls' = [tls EXCEPT ![a] = Head(tlsq[a]).gen]
    /\ tlsq' = [tlsq EXCEPT ![a] = Tail(@)]
    /\ UNCHANGED <<mainVars, listeners, thread, tries, made, handler, cancelled, conn>>

\* ... or, if QUIC cannot use it, passed over without a word.
SkipTls(a) ==
    /\ TlsWaits(a)
    /\ ~Head(tlsq[a]).quic
    /\ tlsq' = [tlsq EXCEPT ![a] = Tail(@)]
    /\ UNCHANGED <<mainVars, listeners, thread, tries, made, tls, handler, cancelled, conn>>

(***************************************************************************)
(* The request handler threads.                                            *)
(***************************************************************************)
\* rx.recv() wins the select!, which it may even when the token is cancelled;
\* a task is spawned for the connection.
Receive(g, w, c) ==
    /\ Running
    /\ handler[g][w] = "running"
    /\ conn[c].st = "queued"
    /\ conn' = [conn EXCEPT ![c].st = "spawned", ![c].gen = g, ![c].w = w]
    /\ UNCHANGED <<mainVars, listenVars, handler, cancelled>>

\* The task of a TCP connection runs and downgrades connections_references,
\* before it awaits the PROXY header and the TLS handshake.
StartTask(c) ==
    /\ Running
    /\ conn[c].st = "spawned" /\ conn[c].addr \in TcpAddrs
    /\ conn' = [conn EXCEPT ![c].st = "opening"]
    /\ UNCHANGED <<mainVars, listenVars, handler, cancelled>>

\* The client has done its part of the opening.  No timeout and no look at
\* the token bounds the wait; a QUIC task downgrades connections_references
\* only now.
Open(c) ==
    /\ Running
    /\ \/ conn[c].st = "opening"
       \/ conn[c].st = "spawned" /\ conn[c].addr \in QuicAddrs
    /\ conn' = [conn EXCEPT ![c].st = "serving"]
    /\ UNCHANGED <<mainVars, listenVars, handler, cancelled>>

\* The connection is over: it failed, the peer closed it, or hyper's graceful
\* shutdown ended it after the request.
ConnEnds(c) ==
    /\ Running
    /\ conn[c].st \in {"spawned", "opening", "serving", "upgraded"}
    /\ conn' = [conn EXCEPT ![c].st = "done"]
    /\ UNCHANGED <<mainVars, listenVars, handler, cancelled>>

\* An HTTP upgrade: the connection's future ends and its weak reference with
\* it, a task without one goes on copying.
Upgrade(c) ==
    /\ Running
    /\ conn[c].st = "serving" /\ conn[c].addr \in TcpAddrs
    /\ conn' = [conn EXCEPT ![c].st = "upgraded"]
    /\ UNCHANGED <<mainVars, listenVars, handler, cancelled>>

\* Mutant: a handler notices the token only after a connection.
LeaveLoopWhenServed(g, w) ==
    /\ Running
    /\ handler[g][w] = "running" /\ g \in cancelled
    /\ \E c \in Conns : On(c, g, w)
    /\ handler' = [handler EXCEPT ![g][w] = "draining"]
    /\ UNCHANGED <<mainVars, listenVars, cancelled, conn>>

\* cancelled() wins the select!: the loop is left.
LeaveLoop(g, w) ==
    /\ Running
    /\ handler[g][w] = "running" /\ g \in cancelled
    /\ handler' = [handler EXCEPT ![g][w] = "draining"]
    /\ UNCHANGED <<mainVars, listenVars, cancelled, conn>>

\* Mutant: the handler does not wait for its connections.
DrainedNow(g, w) == TRUE

\* The connection's future holds a weak reference to connections_references.
Held(c) == conn[c].st \in {"opening", "serving"}

\* Arc::weak_count(&connections_references) = 0
Drained(g, w) == \A c \in Conns : ~(On(c, g, w) /\ Held(c))

\* The thread ends; the tasks left in its runtime are dropped.
EndThread(g, w) ==
    /\ Running
    /\ handler[g][w] = "draining"
    /\ Drained(g, w)
    /\ handler' = [handler EXCEPT ![g][w] = "gone"]
    /\ conn' = [c \in Conns |->
          IF On(c, g, w) /\ conn[c].st \in {"spawned", "upgraded"}
          THEN [conn[c] EXCEPT !.st = "lost"] ELSE conn[c]]
    /\ UNCHANGED <<mainVars, listenVars, cancelled>>

-----------------------------------------------------------------------------
MainStep ==
    \/ Load \/ CancelOld \/ AdaptListeners \/ SpawnHandlers \/ AwaitSignals
    \/ \E a \in Addrs : \/ KeepListener(a) \/ CreateListener(a) \/ QuicRefused(a)
                        \/ BindOk(a) \/ BindFirst(a) \/ BindRetry(a) \/ BindSkip(a)

ListenerStep(a) ==
    \/ \E g \in Gens : TcpEnd(a, g) \/ QuicEnd(a, g) \/ QuicIdle(a, g)
    \/ NewTls(a) \/ SkipTls(a)

HandlerStep(g, w) == LeaveLoop(g, w) \/ EndThread(g, w)

Receives(c) == \E g \in Gens, w \in Workers : Receive(g, w, c)

Next ==
    \/ MainStep \/ Hup \/ Interrupt \/ Edit
    \/ \E a \in Addrs : ListenerStep(a)
    \/ \E a \in Addrs, g \in Gens, c \in Conns : Accept(a, g, c)
    \/ \E g \in Gens, w \in Workers : HandlerStep(g, w)
    \/ \E c \in Conns : \/ Enqueue(c) \/ Receives(c) \/ StartTask(c) \/ Open(c)
                        \/ ConnEnds(c) \/ Upgrade(c)

Spec == Init /\ [][Next]_vars

\* Threads and tasks run.  A connection opens and ends if its client is not
\* silent: after graceful_shutdown hyper closes it when the current request is
\* answered.  Nothing is assumed of silent clients, signals and the
\* administrator.
FairSpec ==
    /\ Spec
    /\ WF_vars(MainStep)
    /\ \A a \in Addrs : WF_vars(ListenerStep(a))
    /\ \A g \in Gens, w \in Workers : WF_vars(HandlerStep(g, w))
    /\ \A c \in Conns : WF_vars(Enqueue(c)) /\ WF_vars(Receives(c)) /\ WF_vars(StartTask(c))
    /\ \A c \in Conns \ Silent : WF_vars(Open(c)) /\ WF_vars(ConnEnds(c))

-----------------------------------------------------------------------------
Live(a) == listeners[a] # 0 /\ thread[a][listeners[a]] = "listening"

\* Once a reload is complete the live listeners are those the configuration
\* asks for, each made with its io_uring setting, and none that the map has
\* forgotten: listeners live on from generation to generation, and the map,
\* URING_ENABLED and the threads are changed in separate steps.
ListenersMatch ==
    main = "signals" =>
        \A a \in Addrs :
            /\ listeners[a] # 0 <=> a \in conf.addrs
            /\ a \in TcpAddrs /\ Live(a) => made[a] = conf.uring
            /\ \A g \in Gens : thread[a][g] = "listening" => listeners[a] = g

\* A handler thread never ends under a connection that it opens or serves.
ServedToTheEnd ==
    \A c \in Conns : Held(c) => handler[conn[c].gen][conn[c].w] # "gone"

\* There is always a handler for what is in the channel: outside of the window
\* between cancelling the old handlers and starting the new ones, every worker
\* of the current generation is running and has not been told to stop.
HandlersCurrent ==
    main \in {"listen", "wait", "signals"} =>
        /\ gen \notin cancelled
        /\ \A w \in Workers : handler[gen][w] = "running"

\* A connection in the channel gets a handler, whichever reloads go on
\* meanwhile; a silent QUIC client may stay in the handshake for ever.
AcceptedIsHandled ==
    \A c \in Conns :
        \/ <>[](c \in Silent /\ conn[c].st = "spawned" /\ conn[c].addr \in QuicAddrs)
        \/ (conn[c].st = "queued") ~>
              (~Running \/ conn[c].st \in {"opening", "serving", "done", "lost"})

\* A silent client keeps the handler thread: the PROXY header, the handshake
\* or the rest of a response is awaited without a timeout.
KeptBySilent(g, w) == \E c \in Silent : On(c, g, w) /\ Held(c)

\* The handlers of earlier generations come to an end, but for one that a
\* silent client keeps for ever: however late they take connections from the
\* channel, and whatever state the connections are in when the token is cancelled.
OldHandlersEnd ==
    \A g \in Gens, w \in Workers :
        \/ <>[]KeptBySilent(g, w)
        \/ (g \in cancelled) ~> (~Running \/ handler[g][w] = "gone")

\* A running QUIC listener ends up with the TLS configuration of the current
\* generation if QUIC can use it, whichever unusable ones were sent before; if
\* not, quic.rs leaves it with an older one.
QuicTlsCurrent ==
    \A a \in QuicAddrs :
        (main = "signals" /\ Live(a) /\ conf.quic) ~> (main # "signals" \/ tls[a] = gen)
=============================================================================
