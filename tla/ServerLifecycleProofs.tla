----------------------- MODULE ServerLifecycleProofs -----------------------
(***************************************************************************)
(* The listeners and the request handlers over any number of reloads: what *)
(* a complete reload leaves behind, and what a handler thread that ends    *)
(* may not take with it, for any addresses, workers and connections.       *)
(***************************************************************************)
EXTENDS ServerLifecycle, TLAPS

MainStates == {"load", "cancel", "adapt", "spawn", "listen", "wait", "signals", "exit"}
ThreadStates == {"none", "binding", "listening", "ending", "closing", "gone"}
HandlerStates == {"none", "running", "draining", "gone"}
ConnStates == {"client", "accepted", "queued", "spawned", "opening", "serving", "upgraded",
               "done", "lost"}
Connection == [st: ConnStates, addr: Addrs \cup {"none"}, gen: 0..MaxGen,
               w: Workers \cup {"none"}]

MainType ==
    /\ file \in File
    /\ main \in MainStates
    /\ gen \in Gens
    /\ conf \in File
    /\ todo \subseteq Addrs
    /\ uring \in BOOLEAN

ListenType ==
    /\ listeners \in [Addrs -> 0..MaxGen]
    /\ thread \in [Addrs -> [Gens -> ThreadStates]]
    /\ made \in [Addrs -> BOOLEAN]

HandlerType ==
    /\ handler \in [Gens -> [Workers -> HandlerStates]]
    /\ cancelled \subseteq Gens
    /\ conn \in [Conns -> Connection]

TypeInv == MainType /\ ListenType /\ HandlerType

\* From the adaptation of the listeners on the map holds configured addresses
\* only, and the addresses that were dealt with are in it.
Adapted == {"spawn", "listen", "wait", "signals"}
Listening == {"listen", "wait", "signals"}

MapFollows ==
    /\ main \in Adapted =>
          /\ uring = conf.uring
          /\ \A a \in Addrs : listeners[a] # 0 => a \in conf.addrs
    /\ main \in Listening =>
          /\ todo \subseteq conf.addrs
          /\ \A a \in conf.addrs \ todo : listeners[a] # 0
    /\ main = "signals" => todo = {}

\* A thread binds for the address the main thread is waiting for, one at a
\* time; the map has no listener of that address.
OneBinding ==
    \A a \in Addrs, g \in Gens : thread[a][g] = "binding" =>
        /\ g = gen /\ main \in {"wait", "exit"}
        /\ listeners[a] = 0
        /\ a \in todo
        /\ made[a] = conf.uring
        /\ \A b \in Addrs, h \in Gens : thread[b][h] = "binding" => a = b

\* A thread that listens is the one in the map, and a TCP one was made with
\* the setting in URING_ENABLED.
ThreadsInMap ==
    \A a \in Addrs, g \in Gens : thread[a][g] = "listening" =>
        /\ listeners[a] = g
        /\ a \in TcpAddrs => made[a] = uring

\* Only handlers that were told to stop leave their loop; the current ones are
\* told when the process ends; they exist when the main thread looks at the
\* listeners.
HandlersStop ==
    /\ \A g \in Gens, w \in Workers :
          handler[g][w] \in {"draining", "gone"} => g \in cancelled
    /\ \A g \in cancelled : g < gen \/ main = "exit"
    /\ main \in Listening => \A w \in Workers : handler[gen][w] # "none"

\* A connection that was received is with a thread that has not ended, before
\* its task runs and after an upgrade too.
Attached ==
    \A c \in Conns : conn[c].st \in {"spawned", "opening", "serving", "upgraded"} =>
        /\ conn[c].gen \in Gens
        /\ conn[c].w \in Workers
        /\ handler[conn[c].gen][conn[c].w] # "gone"

IInv ==
    /\ TypeInv
    /\ MapFollows
    /\ OneBinding
    /\ ThreadsInMap
    /\ HandlersStop
    /\ Attached

-----------------------------------------------------------------------------
\* The steps of the specification, one disjunct for each operation.
LEMMA ActionCases ==
    ASSUME [Next]_vars
    PROVE  \/ UNCHANGED vars
           \/ Load \/ CancelOld \/ AdaptListeners \/ SpawnHandlers
           \/ AwaitSignals \/ Hup \/ Interrupt \/ Edit
           \/ \E a \in Addrs :
                 \/ KeepListener(a) \/ CreateListener(a) \/ QuicRefused(a)
                 \/ BindOk(a) \/ BindFirst(a) \/ BindRetry(a)
                 \/ BindSkip(a) \/ NewTls(a) \/ SkipTls(a)
           \/ \E a \in Addrs, g \in Gens :
                 \/ TcpEnd(a, g) \/ QuicEnd(a, g) \/ QuicIdle(a, g)
           \/ \E a \in Addrs, g \in Gens, c \in Conns :
                 \/ Accept(a, g, c)
           \/ \E c \in Conns :
                 \/ Enqueue(c) \/ StartTask(c) \/ Open(c) \/ ConnEnds(c)
                 \/ Upgrade(c)
           \/ \E g \in Gens, w \in Workers, c \in Conns :
                 \/ Receive(g, w, c)
           \/ \E g \in Gens, w \in Workers :
                 \/ LeaveLoop(g, w) \/ EndThread(g, w)
BY DEF Next, MainStep, ListenerStep, HandlerStep, Receives

\* The main thread's variables keep their types.
LEMMA MainTypeStep ==
    TypeInv /\ [Next]_vars => MainType'
<1> SUFFICES ASSUME TypeInv, [Next]_vars PROVE MainType'
    OBVIOUS
<1>1. ASSUME \/ UNCHANGED vars
             \/ \E a \in Addrs :
                   \/ BindRetry(a) \/ NewTls(a) \/ SkipTls(a)
             \/ \E a \in Addrs, g \in Gens :
                   \/ TcpEnd(a, g) \/ QuicEnd(a, g) \/ QuicIdle(a, g)
             \/ \E a \in Addrs, g \in Gens, c \in Conns :
                   \/ Accept(a, g, c)
             \/ \E c \in Conns :
                   \/ Enqueue(c) \/ StartTask(c) \/ Open(c) \/ ConnEnds(c)
                   \/ Upgrade(c)
             \/ \E g \in Gens, w \in Workers, c \in Conns :
                   \/ Receive(g, w, c)
             \/ \E g \in Gens, w \in Workers :
                   \/ LeaveLoop(g, w) \/ EndThread(g, w)
      PROVE  UNCHANGED <<file, main, gen, conf, todo, uring>>
    BY <1>1 DEF vars, mainVars, listenVars, BindRetry, BindFails, NewTls,
       TlsWaits, Running, SkipTls, TcpEnd, Gone, QuicEnd, QuicIdle, Accept,
       NoConn, Enqueue, StartTask, Open, ConnEnds, Upgrade, Receive,
       LeaveLoop, EndThread, Drained, Held, On
<1> USE DEF TypeInv, MainType, ListenType, File, MainStates, Gens
<1>2. ASSUME UNCHANGED <<file, main, gen, conf, todo, uring>> PROVE MainType'
    BY <1>2, LifecycleAssumption
<1>3. ASSUME Load PROVE MainType'
    BY <1>3, LifecycleAssumption DEF Load, listenVars
<1>4. ASSUME CancelOld PROVE MainType'
    BY <1>4, LifecycleAssumption DEF CancelOld, listenVars
<1>5. ASSUME AdaptListeners PROVE MainType'
    BY <1>5, LifecycleAssumption DEF AdaptListeners, Ends
<1>6. ASSUME SpawnHandlers PROVE MainType'
    BY <1>6, LifecycleAssumption DEF SpawnHandlers, listenVars
<1>7. ASSUME AwaitSignals PROVE MainType'
    BY <1>7, LifecycleAssumption DEF AwaitSignals, listenVars
<1>8. ASSUME Hup PROVE MainType'
    BY <1>8, LifecycleAssumption DEF Hup, Running, listenVars
<1>9. ASSUME Interrupt PROVE MainType'
    BY <1>9, LifecycleAssumption DEF Interrupt, Running, listenVars
<1>10. ASSUME Edit PROVE MainType'
    BY <1>10, LifecycleAssumption DEF Edit, Running, listenVars
<1>11. ASSUME NEW a \in Addrs, KeepListener(a) PROVE MainType'
    BY <1>11, LifecycleAssumption DEF KeepListener, Turn
<1>12. ASSUME NEW a \in Addrs, CreateListener(a) PROVE MainType'
    BY <1>12, LifecycleAssumption DEF CreateListener, Turn
<1>13. ASSUME NEW a \in Addrs, QuicRefused(a) PROVE MainType'
    BY <1>13, LifecycleAssumption DEF QuicRefused, Turn
<1>14. ASSUME NEW a \in Addrs, BindOk(a) PROVE MainType'
    BY <1>14, LifecycleAssumption DEF BindOk, Report, Bound
<1>15. ASSUME NEW a \in Addrs, BindFirst(a) PROVE MainType'
    BY <1>15, LifecycleAssumption DEF BindFirst, BindFails
<1>16. ASSUME NEW a \in Addrs, BindSkip(a) PROVE MainType'
    BY <1>16, LifecycleAssumption DEF BindSkip, BindFails, Report
<1> HIDE DEF TypeInv, MainType, ListenType, File, MainStates, Gens
<1>17. QED
    BY <1>1, <1>2, <1>3, <1>4, <1>5, <1>6, <1>7, <1>8, <1>9, <1>10, <1>11,
       <1>12, <1>13, <1>14, <1>15, <1>16, ActionCases, Zenon

\* So do those of the listeners ...
LEMMA ListenTypeStep ==
    TypeInv /\ [Next]_vars => ListenType'
<1> SUFFICES ASSUME TypeInv, [Next]_vars PROVE ListenType'
    OBVIOUS
<1>1. ASSUME \/ UNCHANGED vars
             \/ Load \/ CancelOld \/ SpawnHandlers \/ AwaitSignals \/ Hup
             \/ Interrupt \/ Edit
             \/ \E a \in Addrs :
                   \/ KeepListener(a) \/ BindRetry(a) \/ NewTls(a)
                   \/ SkipTls(a)
             \/ \E a \in Addrs, g \in Gens, c \in Conns :
                   \/ Accept(a, g, c)
             \/ \E c \in Conns :
                   \/ Enqueue(c) \/ StartTask(c) \/ Open(c) \/ ConnEnds(c)
                   \/ Upgrade(c)
             \/ \E g \in Gens, w \in Workers, c \in Conns :
                   \/ Receive(g, w, c)
             \/ \E g \in Gens, w \in Workers :
                   \/ LeaveLoop(g, w) \/ EndThread(g, w)
      PROVE  UNCHANGED <<listeners, thread, made>>
    BY <1>1 DEF vars, mainVars, listenVars, Load, CancelOld, SpawnHandlers,
       AwaitSignals, Hup, Running, Interrupt, Edit, KeepListener, Turn,
       BindRetry, BindFails, NewTls, TlsWaits, SkipTls, Accept, NoConn,
       Enqueue, StartTask, Open, ConnEnds, Upgrade, Receive, LeaveLoop,
       EndThread, Drained, Held, On
<1> USE DEF TypeInv, MainType, ListenType, ThreadStates, File, Gens
<1>2. ASSUME UNCHANGED <<listeners, thread, made>> PROVE ListenType'
    BY <1>2, LifecycleAssumption
<1>3. ASSUME AdaptListeners PROVE ListenType'
    BY <1>3, LifecycleAssumption DEF AdaptListeners, Ends
<1>4. ASSUME NEW a \in Addrs, CreateListener(a) PROVE ListenType'
    BY <1>4, LifecycleAssumption DEF CreateListener, Turn
<1>5. ASSUME NEW a \in Addrs, QuicRefused(a) PROVE ListenType'
    BY <1>5, LifecycleAssumption DEF QuicRefused, Turn
<1>6. ASSUME NEW a \in Addrs, BindOk(a) PROVE ListenType'
    BY <1>6, LifecycleAssumption DEF BindOk, Report, Bound
<1>7. ASSUME NEW a \in Addrs, BindFirst(a) PROVE ListenType'
    BY <1>7, LifecycleAssumption DEF BindFirst, BindFails
<1>8. ASSUME NEW a \in Addrs, BindSkip(a) PROVE ListenType'
    BY <1>8, LifecycleAssumption DEF BindSkip, BindFails, Report
<1>9. ASSUME NEW a \in Addrs, NEW g \in Gens, TcpEnd(a, g) PROVE ListenType'
    BY <1>9, LifecycleAssumption DEF TcpEnd, Gone, Running, mainVars, listenVars
<1>10. ASSUME NEW a \in Addrs, NEW g \in Gens, QuicEnd(a, g) PROVE ListenType'
    BY <1>10, LifecycleAssumption DEF QuicEnd, Running, mainVars, listenVars
<1>11. ASSUME NEW a \in Addrs, NEW g \in Gens, QuicIdle(a, g) PROVE ListenType'
    BY <1>11, LifecycleAssumption DEF QuicIdle, Gone, Running, mainVars, listenVars
<1> HIDE DEF TypeInv, MainType, ListenType, ThreadStates, File, Gens
<1>12. QED
    BY <1>1, <1>2, <1>3, <1>4, <1>5, <1>6, <1>7, <1>8, <1>9, <1>10, <1>11,
       ActionCases, Zenon

\* ... and of the handlers.
LEMMA HandlerTypeStep ==
    TypeInv /\ [Next]_vars => HandlerType'
<1> SUFFICES ASSUME TypeInv, [Next]_vars PROVE HandlerType'
    OBVIOUS
<1>1. ASSUME \/ UNCHANGED vars
             \/ Load \/ AdaptListeners \/ AwaitSignals \/ Hup \/ Edit
             \/ \E a \in Addrs :
                   \/ KeepListener(a) \/ CreateListener(a) \/ QuicRefused(a)
                   \/ BindOk(a) \/ BindFirst(a) \/ BindRetry(a) \/ BindSkip(a)
                   \/ NewTls(a) \/ SkipTls(a)
             \/ \E a \in Addrs, g \in Gens :
                   \/ QuicEnd(a, g)
      PROVE  UNCHANGED <<handler, cancelled, conn>>
    BY <1>1 DEF vars, mainVars, listenVars, Load, AdaptListeners, Ends,
       AwaitSignals, Hup, Running, Edit, KeepListener, Turn,
       CreateListener, QuicRefused, BindOk, Report, Bound, BindFirst,
       BindFails, BindRetry, BindSkip, NewTls, TlsWaits, SkipTls, QuicEnd
<1> USE DEF TypeInv, MainType, HandlerType, HandlerStates, Connection,
    ConnStates, Gens
<1>2. ASSUME UNCHANGED <<handler, cancelled, conn>> PROVE HandlerType'
    BY <1>2, LifecycleAssumption
<1>3. ASSUME CancelOld PROVE HandlerType'
    BY <1>3, LifecycleAssumption DEF CancelOld, listenVars
<1>4. ASSUME SpawnHandlers PROVE HandlerType'
    BY <1>4, LifecycleAssumption DEF SpawnHandlers, listenVars
<1>5. ASSUME Interrupt PROVE HandlerType'
    BY <1>5, LifecycleAssumption DEF Interrupt, Running, listenVars
<1>6. ASSUME NEW a \in Addrs, NEW g \in Gens, TcpEnd(a, g) PROVE HandlerType'
  <2>1. Gone(a, g)
    BY <1>6 DEF TcpEnd
  <2>2. \A d \in Conns : conn[d] \in Connection /\ [conn[d] EXCEPT !.st = "lost"] \in Connection
    OBVIOUS
  <2> HIDE DEF Connection
  <2>3. conn' \in [Conns -> Connection]
    BY <2>1, <2>2 DEF Gone
  <2>4. QED
    BY <2>1, <2>3 DEF Gone
<1>7. ASSUME NEW a \in Addrs, NEW g \in Gens, QuicIdle(a, g) PROVE HandlerType'
  <2>1. Gone(a, g)
    BY <1>7 DEF QuicIdle
  <2>2. \A d \in Conns : conn[d] \in Connection /\ [conn[d] EXCEPT !.st = "lost"] \in Connection
    OBVIOUS
  <2> HIDE DEF Connection
  <2>3. conn' \in [Conns -> Connection]
    BY <2>1, <2>2 DEF Gone
  <2>4. QED
    BY <2>1, <2>3 DEF Gone
<1>8. ASSUME NEW a \in Addrs, NEW g \in Gens, NEW c \in Conns, Accept(a, g, c) PROVE HandlerType'
  <2>1. g \in 0..MaxGen
    BY LifecycleAssumption
  <2>2. [NoConn EXCEPT !.st = "accepted", !.addr = a, !.gen = g] \in Connection
    BY <2>1 DEF NoConn
  <2>3. QED
    BY <1>8, <2>2 DEF Accept
<1>9. ASSUME NEW c \in Conns, Enqueue(c) PROVE HandlerType'
    BY <1>9, LifecycleAssumption DEF Enqueue, Running, mainVars, listenVars
<1>10. ASSUME NEW g \in Gens, NEW w \in Workers, NEW c \in Conns, Receive(g, w, c) PROVE HandlerType'
  <2>1. g \in 0..MaxGen
    BY LifecycleAssumption
  <2>2. [conn[c] EXCEPT !.st = "spawned", !.gen = g, !.w = w] \in Connection
    BY <2>1
  <2>3. conn' = [conn EXCEPT ![c] = [conn[c] EXCEPT !.st = "spawned", !.gen = g, !.w = w]]
    BY <1>10 DEF Receive
  <2>4. QED
    BY <1>10, <2>2, <2>3 DEF Receive
<1>11. ASSUME NEW c \in Conns, StartTask(c) PROVE HandlerType'
    BY <1>11, LifecycleAssumption DEF StartTask, Running, mainVars, listenVars
<1>12. ASSUME NEW c \in Conns, Open(c) PROVE HandlerType'
    BY <1>12, LifecycleAssumption DEF Open, Running, mainVars, listenVars
<1>13. ASSUME NEW c \in Conns, ConnEnds(c) PROVE HandlerType'
    BY <1>13, LifecycleAssumption DEF ConnEnds, Running, mainVars, listenVars
<1>14. ASSUME NEW c \in Conns, Upgrade(c) PROVE HandlerType'
    BY <1>14, LifecycleAssumption DEF Upgrade, Running, mainVars, listenVars
<1>15. ASSUME NEW g \in Gens, NEW w \in Workers, LeaveLoop(g, w) PROVE HandlerType'
    BY <1>15, LifecycleAssumption DEF LeaveLoop, Running, mainVars, listenVars
<1>16. ASSUME NEW g \in Gens, NEW w \in Workers, EndThread(g, w) PROVE HandlerType'
    BY <1>16, LifecycleAssumption DEF EndThread, Drained, Held, On, Running, mainVars, listenVars
<1> HIDE DEF TypeInv, MainType, HandlerType, HandlerStates, Connection,
    ConnStates, Gens
<1>17. QED
    BY <1>1, <1>2, <1>3, <1>4, <1>5, <1>6, <1>7, <1>8, <1>9, <1>10, <1>11,
       <1>12, <1>13, <1>14, <1>15, <1>16, ActionCases, Zenon

\* The map follows the configuration from the adaptation on.
LEMMA MapFollowsStep ==
    TypeInv /\ MapFollows /\ OneBinding /\ [Next]_vars => MapFollows'
<1> SUFFICES ASSUME TypeInv, MapFollows, OneBinding, [Next]_vars PROVE MapFollows'
    OBVIOUS
<1>1. ASSUME \/ UNCHANGED vars
             \/ Edit
             \/ \E a \in Addrs :
                   \/ BindRetry(a) \/ NewTls(a) \/ SkipTls(a)
             \/ \E a \in Addrs, g \in Gens :
                   \/ TcpEnd(a, g) \/ QuicEnd(a, g) \/ QuicIdle(a, g)
             \/ \E a \in Addrs, g \in Gens, c \in Conns :
                   \/ Accept(a, g, c)
             \/ \E c \in Conns :
                   \/ Enqueue(c) \/ StartTask(c) \/ Open(c) \/ ConnEnds(c)
                   \/ Upgrade(c)
             \/ \E g \in Gens, w \in Workers, c \in Conns :
                   \/ Receive(g, w, c)
             \/ \E g \in Gens, w \in Workers :
                   \/ LeaveLoop(g, w) \/ EndThread(g, w)
      PROVE  UNCHANGED <<main, conf, todo, uring, listeners>>
    BY <1>1 DEF vars, mainVars, listenVars, Edit, Running, BindRetry,
       BindFails, NewTls, TlsWaits, SkipTls, TcpEnd, Gone, QuicEnd,
       QuicIdle, Accept, NoConn, Enqueue, StartTask, Open, ConnEnds,
       Upgrade, Receive, LeaveLoop, EndThread, Drained, Held, On
<1> USE DEF TypeInv, MainType, ListenType, MapFollows, OneBinding, Adapted,
    Listening, MainStates, File, Gens
<1>2. ASSUME UNCHANGED <<main, conf, todo, uring, listeners>> PROVE MapFollows'
    BY <1>2, LifecycleAssumption
<1>3. ASSUME Load PROVE MapFollows'
    BY <1>3, LifecycleAssumption DEF Load, listenVars
<1>4. ASSUME CancelOld PROVE MapFollows'
    BY <1>4, LifecycleAssumption DEF CancelOld, listenVars
<1>5. ASSUME AdaptListeners PROVE MapFollows'
    BY <1>5, LifecycleAssumption DEF AdaptListeners, Ends
<1>6. ASSUME SpawnHandlers PROVE MapFollows'
    BY <1>6, LifecycleAssumption DEF SpawnHandlers, listenVars
<1>7. ASSUME AwaitSignals PROVE MapFollows'
    BY <1>7, LifecycleAssumption DEF AwaitSignals, listenVars
<1>8. ASSUME Hup PROVE MapFollows'
    BY <1>8, LifecycleAssumption DEF Hup, Running, listenVars
<1>9. ASSUME Interrupt PROVE MapFollows'
    BY <1>9, LifecycleAssumption DEF Interrupt, Running, listenVars
<1>10. ASSUME NEW a \in Addrs, KeepListener(a) PROVE MapFollows'
    BY <1>10, LifecycleAssumption DEF KeepListener, Turn
<1>11. ASSUME NEW a \in Addrs, CreateListener(a) PROVE MapFollows'
    BY <1>11, LifecycleAssumption DEF CreateListener, Turn
<1>12. ASSUME NEW a \in Addrs, QuicRefused(a) PROVE MapFollows'
    BY <1>12, LifecycleAssumption DEF QuicRefused, Turn
<1>13. ASSUME NEW a \in Addrs, BindOk(a) PROVE MapFollows'
    BY <1>13, LifecycleAssumption DEF BindOk, Report, Bound
<1>14. ASSUME NEW a \in Addrs, BindFirst(a) PROVE MapFollows'
    BY <1>14, LifecycleAssumption DEF BindFirst, BindFails
<1>15. ASSUME NEW a \in Addrs, BindSkip(a) PROVE MapFollows'
    BY <1>15, LifecycleAssumption DEF BindSkip, BindFails, Report
<1> HIDE DEF TypeInv, MainType, ListenType, MapFollows, OneBinding,
    Adapted, Listening, MainStates, File, Gens
<1>16. QED
    BY <1>1, <1>2, <1>3, <1>4, <1>5, <1>6, <1>7, <1>8, <1>9, <1>10, <1>11,
       <1>12, <1>13, <1>14, <1>15, ActionCases, Zenon

\* One thread binds at a time.
LEMMA OneBindingStep ==
    TypeInv /\ MapFollows /\ OneBinding /\ [Next]_vars => OneBinding'
<1> SUFFICES ASSUME TypeInv, MapFollows, OneBinding, [Next]_vars PROVE OneBinding'
    OBVIOUS
<1>1. ASSUME \/ UNCHANGED vars
             \/ Edit
             \/ \E a \in Addrs :
                   \/ BindRetry(a) \/ NewTls(a) \/ SkipTls(a)
             \/ \E a \in Addrs, g \in Gens, c \in Conns :
                   \/ Accept(a, g, c)
             \/ \E c \in Conns :
                   \/ Enqueue(c) \/ StartTask(c) \/ Open(c) \/ ConnEnds(c)
                   \/ Upgrade(c)
             \/ \E g \in Gens, w \in Workers, c \in Conns :
                   \/ Receive(g, w, c)
             \/ \E g \in Gens, w \in Workers :
                   \/ LeaveLoop(g, w) \/ EndThread(g, w)
      PROVE  UNCHANGED <<main, gen, conf, todo, listeners, thread, made>>
    BY <1>1 DEF vars, mainVars, listenVars, Edit, Running, BindRetry,
       BindFails, NewTls, TlsWaits, SkipTls, Accept, NoConn, Enqueue,
       StartTask, Open, ConnEnds, Upgrade, Receive, LeaveLoop, EndThread,
       Drained, Held, On
<1> USE DEF TypeInv, MainType, ListenType, OneBinding, MapFollows, Adapted,
    ThreadStates, Gens, MainStates, File
<1>2. ASSUME UNCHANGED <<main, gen, conf, todo, listeners, thread, made>> PROVE OneBinding'
    BY <1>2, LifecycleAssumption
<1>3. ASSUME Load PROVE OneBinding'
    BY <1>3, LifecycleAssumption DEF Load, listenVars
<1>4. ASSUME CancelOld PROVE OneBinding'
    BY <1>4, LifecycleAssumption DEF CancelOld, listenVars
<1>5. ASSUME AdaptListeners PROVE OneBinding'
    BY <1>5, LifecycleAssumption DEF AdaptListeners, Ends
<1>6. ASSUME SpawnHandlers PROVE OneBinding'
    BY <1>6, LifecycleAssumption DEF SpawnHandlers, listenVars
<1>7. ASSUME AwaitSignals PROVE OneBinding'
    BY <1>7, LifecycleAssumption DEF AwaitSignals, listenVars
<1>8. ASSUME Hup PROVE OneBinding'
    BY <1>8, LifecycleAssumption DEF Hup, Running, listenVars
<1>9. ASSUME Interrupt PROVE OneBinding'
    BY <1>9, LifecycleAssumption DEF Interrupt, Running, listenVars
<1>10. ASSUME NEW a \in Addrs, KeepListener(a) PROVE OneBinding'
    BY <1>10, LifecycleAssumption DEF KeepListener, Turn
<1>11. ASSUME NEW a \in Addrs, CreateListener(a) PROVE OneBinding'
    BY <1>11, LifecycleAssumption DEF CreateListener, Turn
<1>12. ASSUME NEW a \in Addrs, QuicRefused(a) PROVE OneBinding'
    BY <1>12, LifecycleAssumption DEF QuicRefused, Turn
<1>13. ASSUME NEW a \in Addrs, BindOk(a) PROVE OneBinding'
    BY <1>13, LifecycleAssumption DEF BindOk, Report, Bound
<1>14. ASSUME NEW a \in Addrs, BindFirst(a) PROVE OneBinding'
    BY <1>14, LifecycleAssumption DEF BindFirst, BindFails
<1>15. ASSUME NEW a \in Addrs, BindSkip(a) PROVE OneBinding'
    BY <1>15, LifecycleAssumption DEF BindSkip, BindFails, Report
<1>16. ASSUME NEW a \in Addrs, NEW g \in Gens, TcpEnd(a, g) PROVE OneBinding'
    BY <1>16, LifecycleAssumption DEF TcpEnd, Gone, Running, mainVars, listenVars
<1>17. ASSUME NEW a \in Addrs, NEW g \in Gens, QuicEnd(a, g) PROVE OneBinding'
    BY <1>17, LifecycleAssumption DEF QuicEnd, Running, mainVars, listenVars
<1>18. ASSUME NEW a \in Addrs, NEW g \in Gens, QuicIdle(a, g) PROVE OneBinding'
    BY <1>18, LifecycleAssumption DEF QuicIdle, Gone, Running, mainVars, listenVars
<1> HIDE DEF TypeInv, MainType, ListenType, OneBinding, MapFollows,
    Adapted, ThreadStates, Gens, MainStates, File
<1>19. QED
    BY <1>1, <1>2, <1>3, <1>4, <1>5, <1>6, <1>7, <1>8, <1>9, <1>10, <1>11,
       <1>12, <1>13, <1>14, <1>15, <1>16, <1>17, <1>18, ActionCases, Zenon

\* The threads that listen are in the map.
LEMMA ThreadsInMapStep ==
    TypeInv /\ MapFollows /\ OneBinding /\ ThreadsInMap /\ [Next]_vars => ThreadsInMap'
<1> SUFFICES ASSUME TypeInv, MapFollows, OneBinding, ThreadsInMap, [Next]_vars PROVE ThreadsInMap'
    OBVIOUS
<1>1. ASSUME \/ UNCHANGED vars
             \/ Load \/ CancelOld \/ SpawnHandlers \/ AwaitSignals \/ Hup
             \/ Interrupt \/ Edit
             \/ \E a \in Addrs :
                   \/ KeepListener(a) \/ BindRetry(a) \/ NewTls(a)
                   \/ SkipTls(a)
             \/ \E a \in Addrs, g \in Gens, c \in Conns :
                   \/ Accept(a, g, c)
             \/ \E c \in Conns :
                   \/ Enqueue(c) \/ StartTask(c) \/ Open(c) \/ ConnEnds(c)
                   \/ Upgrade(c)
             \/ \E g \in Gens, w \in Workers, c \in Conns :
                   \/ Receive(g, w, c)
             \/ \E g \in Gens, w \in Workers :
                   \/ LeaveLoop(g, w) \/ EndThread(g, w)
      PROVE  UNCHANGED <<uring, listeners, thread, made>>
    BY <1>1 DEF vars, mainVars, listenVars, Load, CancelOld, SpawnHandlers,
       AwaitSignals, Hup, Running, Interrupt, Edit, KeepListener, Turn,
       BindRetry, BindFails, NewTls, TlsWaits, SkipTls, Accept, NoConn,
       Enqueue, StartTask, Open, ConnEnds, Upgrade, Receive, LeaveLoop,
       EndThread, Drained, Held, On
<1> USE DEF TypeInv, MainType, ListenType, OneBinding, MapFollows,
    ThreadsInMap, Adapted, ThreadStates, Gens, File
<1>2. ASSUME UNCHANGED <<uring, listeners, thread, made>> PROVE ThreadsInMap'
    BY <1>2, LifecycleAssumption
<1>3. ASSUME AdaptListeners PROVE ThreadsInMap'
    BY <1>3, LifecycleAssumption DEF AdaptListeners, Ends
<1>4. ASSUME NEW a \in Addrs, CreateListener(a) PROVE ThreadsInMap'
    BY <1>4, LifecycleAssumption DEF CreateListener, Turn
<1>5. ASSUME NEW a \in Addrs, QuicRefused(a) PROVE ThreadsInMap'
    BY <1>5, LifecycleAssumption DEF QuicRefused, Turn
<1>6. ASSUME NEW a \in Addrs, BindOk(a) PROVE ThreadsInMap'
    BY <1>6, LifecycleAssumption DEF BindOk, Report, Bound
<1>7. ASSUME NEW a \in Addrs, BindFirst(a) PROVE ThreadsInMap'
    BY <1>7, LifecycleAssumption DEF BindFirst, BindFails
<1>8. ASSUME NEW a \in Addrs, BindSkip(a) PROVE ThreadsInMap'
    BY <1>8, LifecycleAssumption DEF BindSkip, BindFails, Report
<1>9. ASSUME NEW a \in Addrs, NEW g \in Gens, TcpEnd(a, g) PROVE ThreadsInMap'
    BY <1>9, LifecycleAssumption DEF TcpEnd, Gone, Running, mainVars, listenVars
<1>10. ASSUME NEW a \in Addrs, NEW g \in Gens, QuicEnd(a, g) PROVE ThreadsInMap'
    BY <1>10, LifecycleAssumption DEF QuicEnd, Running, mainVars, listenVars
<1>11. ASSUME NEW a \in Addrs, NEW g \in Gens, QuicIdle(a, g) PROVE ThreadsInMap'
    BY <1>11, LifecycleAssumption DEF QuicIdle, Gone, Running, mainVars, listenVars
<1> HIDE DEF TypeInv, MainType, ListenType, OneBinding, MapFollows,
    ThreadsInMap, Adapted, ThreadStates, Gens, File
<1>12. QED
    BY <1>1, <1>2, <1>3, <1>4, <1>5, <1>6, <1>7, <1>8, <1>9, <1>10, <1>11,
       ActionCases, Zenon

\* Handlers stop only when they are told to.
LEMMA HandlersStopStep ==
    TypeInv /\ HandlersStop /\ [Next]_vars => HandlersStop'
<1> SUFFICES ASSUME TypeInv, HandlersStop, [Next]_vars PROVE HandlersStop'
    OBVIOUS
<1>1. ASSUME \/ UNCHANGED vars
             \/ Edit
             \/ \E a \in Addrs :
                   \/ BindRetry(a) \/ NewTls(a) \/ SkipTls(a)
             \/ \E a \in Addrs, g \in Gens :
                   \/ TcpEnd(a, g) \/ QuicEnd(a, g) \/ QuicIdle(a, g)
             \/ \E a \in Addrs, g \in Gens, c \in Conns :
                   \/ Accept(a, g, c)
             \/ \E c \in Conns :
                   \/ Enqueue(c) \/ StartTask(c) \/ Open(c) \/ ConnEnds(c)
                   \/ Upgrade(c)
             \/ \E g \in Gens, w \in Workers, c \in Conns :
                   \/ Receive(g, w, c)
      PROVE  UNCHANGED <<main, gen, handler, cancelled>>
    BY <1>1 DEF vars, mainVars, listenVars, Edit, Running, BindRetry,
       BindFails, NewTls, TlsWaits, SkipTls, TcpEnd, Gone, QuicEnd,
       QuicIdle, Accept, NoConn, Enqueue, StartTask, Open, ConnEnds,
       Upgrade, Receive
<1> USE DEF TypeInv, MainType, HandlerType, HandlersStop, HandlerStates,
    Listening, MainStates, Gens
<1>2. ASSUME UNCHANGED <<main, gen, handler, cancelled>> PROVE HandlersStop'
    BY <1>2, LifecycleAssumption
<1>3. ASSUME Load PROVE HandlersStop'
    BY <1>3, LifecycleAssumption DEF Load, listenVars
<1>4. ASSUME CancelOld PROVE HandlersStop'
    BY <1>4, LifecycleAssumption DEF CancelOld, listenVars
<1>5. ASSUME AdaptListeners PROVE HandlersStop'
    BY <1>5, LifecycleAssumption DEF AdaptListeners, Ends
<1>6. ASSUME SpawnHandlers PROVE HandlersStop'
    BY <1>6, LifecycleAssumption DEF SpawnHandlers, listenVars
<1>7. ASSUME AwaitSignals PROVE HandlersStop'
    BY <1>7, LifecycleAssumption DEF AwaitSignals, listenVars
<1>8. ASSUME Hup PROVE HandlersStop'
    BY <1>8, LifecycleAssumption DEF Hup, Running, listenVars
<1>9. ASSUME Interrupt PROVE HandlersStop'
    BY <1>9, LifecycleAssumption DEF Interrupt, Running, listenVars
<1>10. ASSUME NEW a \in Addrs, KeepListener(a) PROVE HandlersStop'
    BY <1>10, LifecycleAssumption DEF KeepListener, Turn
<1>11. ASSUME NEW a \in Addrs, CreateListener(a) PROVE HandlersStop'
    BY <1>11, LifecycleAssumption DEF CreateListener, Turn
<1>12. ASSUME NEW a \in Addrs, QuicRefused(a) PROVE HandlersStop'
    BY <1>12, LifecycleAssumption DEF QuicRefused, Turn
<1>13. ASSUME NEW a \in Addrs, BindOk(a) PROVE HandlersStop'
    BY <1>13, LifecycleAssumption DEF BindOk, Report, Bound
<1>14. ASSUME NEW a \in Addrs, BindFirst(a) PROVE HandlersStop'
    BY <1>14, LifecycleAssumption DEF BindFirst, BindFails
<1>15. ASSUME NEW a \in Addrs, BindSkip(a) PROVE HandlersStop'
    BY <1>15, LifecycleAssumption DEF BindSkip, BindFails, Report
<1>16. ASSUME NEW g \in Gens, NEW w \in Workers, LeaveLoop(g, w) PROVE HandlersStop'
    BY <1>16, LifecycleAssumption DEF LeaveLoop, Running, mainVars, listenVars
<1>17. ASSUME NEW g \in Gens, NEW w \in Workers, EndThread(g, w) PROVE HandlersStop'
    BY <1>17, LifecycleAssumption DEF EndThread, Drained, Held, On, Running, mainVars, listenVars
<1> HIDE DEF TypeInv, MainType, HandlerType, HandlersStop, HandlerStates,
    Listening, MainStates, Gens
<1>18. QED
    BY <1>1, <1>2, <1>3, <1>4, <1>5, <1>6, <1>7, <1>8, <1>9, <1>10, <1>11,
       <1>12, <1>13, <1>14, <1>15, <1>16, <1>17, ActionCases, Zenon

\* Connections stay with threads that have not ended.
LEMMA AttachedStep ==
    TypeInv /\ Attached /\ [Next]_vars => Attached'
<1> SUFFICES ASSUME TypeInv, Attached, [Next]_vars PROVE Attached'
    OBVIOUS
<1>1. ASSUME \/ UNCHANGED vars
             \/ Load \/ CancelOld \/ AdaptListeners \/ AwaitSignals \/ Hup
             \/ Interrupt \/ Edit
             \/ \E a \in Addrs :
                   \/ KeepListener(a) \/ CreateListener(a) \/ QuicRefused(a)
                   \/ BindOk(a) \/ BindFirst(a) \/ BindRetry(a) \/ BindSkip(a)
                   \/ NewTls(a) \/ SkipTls(a)
             \/ \E a \in Addrs, g \in Gens :
                   \/ QuicEnd(a, g)
      PROVE  UNCHANGED <<handler, conn>>
    BY <1>1 DEF vars, mainVars, listenVars, Load, CancelOld,
       AdaptListeners, Ends, AwaitSignals, Hup, Running, Interrupt, Edit,
       KeepListener, Turn, CreateListener, QuicRefused, BindOk, Report,
       Bound, BindFirst, BindFails, BindRetry, BindSkip, NewTls, TlsWaits,
       SkipTls, QuicEnd
<1> USE DEF TypeInv, MainType, HandlerType, Attached, HandlerStates,
    Connection, ConnStates, Gens
<1>2. ASSUME UNCHANGED <<handler, conn>> PROVE Attached'
    BY <1>2, LifecycleAssumption
<1>3. ASSUME SpawnHandlers PROVE Attached'
    BY <1>3, LifecycleAssumption DEF SpawnHandlers, listenVars
<1>4. ASSUME NEW a \in Addrs, NEW g \in Gens, TcpEnd(a, g) PROVE Attached'
    BY <1>4, LifecycleAssumption DEF TcpEnd, Gone, Running, mainVars, listenVars
<1>5. ASSUME NEW a \in Addrs, NEW g \in Gens, QuicIdle(a, g) PROVE Attached'
    BY <1>5, LifecycleAssumption DEF QuicIdle, Gone, Running, mainVars, listenVars
<1>6. ASSUME NEW a \in Addrs, NEW g \in Gens, NEW c \in Conns, Accept(a, g, c) PROVE Attached'
    BY <1>6, LifecycleAssumption DEF Accept, Running, NoConn, mainVars, listenVars
<1>7. ASSUME NEW c \in Conns, Enqueue(c) PROVE Attached'
    BY <1>7, LifecycleAssumption DEF Enqueue, Running, mainVars, listenVars
<1>8. ASSUME NEW g \in Gens, NEW w \in Workers, NEW c \in Conns, Receive(g, w, c) PROVE Attached'
    BY <1>8, LifecycleAssumption DEF Receive, Running, mainVars, listenVars
<1>9. ASSUME NEW c \in Conns, StartTask(c) PROVE Attached'
    BY <1>9, LifecycleAssumption DEF StartTask, Running, mainVars, listenVars
<1>10. ASSUME NEW c \in Conns, Open(c) PROVE Attached'
    BY <1>10, LifecycleAssumption DEF Open, Running, mainVars, listenVars
<1>11. ASSUME NEW c \in Conns, ConnEnds(c) PROVE Attached'
    BY <1>11, LifecycleAssumption DEF ConnEnds, Running, mainVars, listenVars
<1>12. ASSUME NEW c \in Conns, Upgrade(c) PROVE Attached'
    BY <1>12, LifecycleAssumption DEF Upgrade, Running, mainVars, listenVars
<1>13. ASSUME NEW g \in Gens, NEW w \in Workers, LeaveLoop(g, w) PROVE Attached'
    BY <1>13, LifecycleAssumption DEF LeaveLoop, Running, mainVars, listenVars
<1>14. ASSUME NEW g \in Gens, NEW w \in Workers, EndThread(g, w) PROVE Attached'
    BY <1>14, LifecycleAssumption DEF EndThread, Drained, Held, On, Running, mainVars, listenVars
<1> HIDE DEF TypeInv, MainType, HandlerType, Attached, HandlerStates,
    Connection, ConnStates, Gens
<1>15. QED
    BY <1>1, <1>2, <1>3, <1>4, <1>5, <1>6, <1>7, <1>8, <1>9, <1>10, <1>11,
       <1>12, <1>13, <1>14, ActionCases, Zenon

-----------------------------------------------------------------------------
\* The inductive invariant holds in every reachable state.
LEMMA LifecycleInvariant == Spec => []IInv
<1>1. Init => IInv
    BY LifecycleAssumption DEF Init, IInv, TypeInv, MainType, ListenType, HandlerType,
       MainStates, ThreadStates, HandlerStates, Connection, ConnStates, NoConn,
       MapFollows, OneBinding, ThreadsInMap, HandlersStop, Attached, Adapted,
       Listening, Gens, File
<1>2. IInv /\ [Next]_vars => IInv'
    BY MainTypeStep, ListenTypeStep, HandlerTypeStep, MapFollowsStep, OneBindingStep,
       ThreadsInMapStep, HandlersStopStep, AttachedStep DEF IInv, TypeInv
<1>3. QED
    BY <1>1, <1>2, PTL DEF Spec

\* After any number of reloads, with any bind failures and io_uring changes on
\* the way, the listeners that are live when main.rs waits for signals are
\* those the configuration asks for, made the way it asks for, and no thread
\* that the listener map has forgotten still accepts.
THEOREM ListenersMatchAlways == Spec => []ListenersMatch
<1>1. IInv => ListenersMatch
    BY LifecycleAssumption DEF IInv, ListenersMatch, Live, TypeInv, MainType, ListenType, MapFollows, Adapted,
       Listening, ThreadsInMap, Gens, File
<1>2. QED
    BY <1>1, LifecycleInvariant, PTL

\* While main.rs looks after the listeners or waits for signals, every worker
\* of the current generation is in its receive loop and has not been told to
\* leave it, so what the listeners send over the channel has a receiver.
THEOREM HandlersCurrentAlways == Spec => []HandlersCurrent
<1>1. IInv => HandlersCurrent
    BY DEF IInv, HandlersCurrent, TypeInv, MainType, HandlerType, HandlerStates,
       HandlersStop, Listening, Gens
<1>2. QED
    BY <1>1, LifecycleInvariant, PTL

\* A handler thread of handler.rs that was told to stop does not end while a
\* connection it opens or serves holds a weak reference, however the receives, the
\* starts of tasks and the reloads interleave.
THEOREM ServedToTheEndAlways == Spec => []ServedToTheEnd
<1>1. IInv => ServedToTheEnd
    BY DEF IInv, ServedToTheEnd, Attached, Held
<1>2. QED
    BY <1>1, LifecycleInvariant, PTL
=============================================================================
