--------------------------- MODULE ConnectionPool ---------------------------
(***************************************************************************)
(* The pool of backend connections of the reverse proxy, for one backend   *)
(* with a connection limit (ferron-modules-builtin/src/optional/rproxy.rs).*)
(*                                                                         *)
(* The pool hands out items (slots); an item may hold the sender of a      *)
(* kept-alive connection.  A request pulls items until one can be used: a  *)
(* connection that is still busy with the response of an earlier request   *)
(* is set aside (send_request_items) and waited for while further items    *)
(* are pulled.  The sender goes back into the item as soon as the response *)
(* head has arrived, so a stored connection may still be streaming.        *)
(*                                                                         *)
(* External: the pool itself (crate connpool: a fixed number of items,     *)
(* dropping an item gives it back) and hyper's client connections.  A      *)
(* connection is named after the request that established it; it is open   *)
(* while its sender or an exchange on it is alive and the backend has not  *)
(* closed it.                                                              *)
(***************************************************************************)
EXTENDS Naturals, FiniteSets

CONSTANTS Requests,   \* the requests; also the names of the connections
          Slots,      \* the items of the pool: as many as the limit
          None,       \* no connection, no item
          Configs     \* the configurations to explore

Config == [h2: BOOLEAN,         \* the backend connection speaks HTTP/2
           keepalive: BOOLEAN,  \* enable_keepalive
           tracked: BOOLEAN]    \* tracked_connection: least_conn, two_random

ASSUME PoolAssumption ==
    /\ None \notin Requests \cup Slots
    /\ IsFiniteSet(Slots)
    /\ Configs \subseteq Config

VARIABLES
    cfg,
    pc,
    item,     \* the item held by the request, its body or its copying task
    held,     \* send_request_items: the items with a busy connection
    inner,    \* what each item holds: the connection whose sender is stored
    carrier,  \* the connection that carries the exchange of the request
    open      \* the connections that are open

vars == <<cfg, pc, item, held, inner, carrier, open>>

Free(s) == \A r \in Requests : s # item[r] /\ s \notin held[r]

\* SendRequest::is_ready: hyper takes a new request on an HTTP/1 connection
\* only when the exchange before it is over.
Ready(c) == c \in open /\ (cfg.h2 \/ \A r \in Requests : carrier[r] # c)

Goto(r, l) == pc' = [pc EXCEPT ![r] = l]

\* A connection is closed when its sender and its last exchange are dropped.
Reap(conns) ==
    open' = {c \in conns : \/ \E s \in Slots : inner'[s] = c
                           \/ \E r \in Requests : carrier'[r] = c}

Init ==
    /\ cfg \in Configs
    /\ pc = [r \in Requests |-> "idle"]
    /\ item = [r \in Requests |-> None]
    /\ held = [r \in Requests |-> {}]
    /\ inner = [s \in Slots |-> None]
    /\ carrier = [r \in Requests |-> None]
    /\ open = {}

Arrive(r) ==
    /\ pc[r] = "idle"
    /\ Goto(r, "pull")
    /\ UNCHANGED <<cfg, item, held, inner, carrier, open>>

(***************************************************************************)
(* The loop that pulls items.                                              *)
(***************************************************************************)

\* pull_with_wait_local_limit: any item that nobody holds.
Pull(r) ==
    /\ pc[r] = "pull"
    /\ \E s \in Slots : Free(s) /\ item' = [item EXCEPT ![r] = s]
    /\ Goto(r, "get")
    /\ UNCHANGED <<cfg, held, inner, carrier, open>>

\* No item at once, but busy connections to wait for: select! between a pull
\* and select_ok of the busy connections.
StartSelect(r) ==
    /\ pc[r] = "pull"
    /\ held[r] # {}
    /\ \A s \in Slots : ~Free(s)
    /\ Goto(r, "select")
    /\ UNCHANGED <<cfg, item, held, inner, carrier, open>>

\* The pull wins: the other future is dropped, and the busy items with it.
SelectPull(r) ==
    /\ pc[r] = "select"
    /\ \E s \in Slots : Free(s) /\ item' = [item EXCEPT ![r] = s]
    /\ held' = [held EXCEPT ![r] = {}]
    /\ Goto(r, "get")
    /\ UNCHANGED <<cfg, inner, carrier, open>>

\* wait_ready ends well for one of the busy connections.
SelectReady(r) ==
    /\ pc[r] = "select"
    /\ \E s \in held[r] :
          /\ Ready(inner[s])
          /\ item' = [item EXCEPT ![r] = s]
          /\ held' = [held EXCEPT ![r] = @ \ {s}]
    /\ Goto(r, "get")
    /\ UNCHANGED <<cfg, inner, carrier, open>>

\* Mutant: the timeout is looked at before the connection is ready.
IdleOrClosedEager(c) == TRUE

\* The connection is of no use: closed, or ready and idle for too long.
IdleOrClosed(c) == c \notin open \/ Ready(c)

\* wait_ready fails: the item is emptied and given back.
SelectClosed(r) ==
    /\ pc[r] = "select"
    /\ \E s \in held[r] :
          /\ IdleOrClosed(inner[s])
          /\ held' = [held EXCEPT ![r] = @ \ {s}]
          /\ inner' = [inner EXCEPT ![s] = None]
    /\ UNCHANGED <<cfg, pc, item, carrier>>
    /\ Reap(open)

\* Mutant: a stored connection is used without asking whether it is ready.
GetReadyUnchecked(r) ==
    /\ pc[r] = "get"
    /\ inner[item[r]] \in open
    /\ carrier' = [carrier EXCEPT ![r] = inner[item[r]]]
    /\ inner' = [inner EXCEPT ![item[r]] = None]
    /\ held' = [held EXCEPT ![r] = {}]
    /\ Goto(r, "send")
    /\ UNCHANGED <<cfg, item, open>>

\* Mutant: the sender is used and stays in the item.
GetReadyShared(r) ==
    /\ pc[r] = "get"
    /\ Ready(inner[item[r]])
    /\ carrier' = [carrier EXCEPT ![r] = inner[item[r]]]
    /\ held' = [held EXCEPT ![r] = {}]
    /\ Goto(r, "send")
    /\ UNCHANGED <<cfg, item, inner, open>>

\* SendRequestWrapper::get: (Some, true).  The sender leaves the item and the
\* other items are dropped.
GetReady(r) ==
    /\ pc[r] = "get"
    /\ Ready(inner[item[r]])
    /\ carrier' = [carrier EXCEPT ![r] = inner[item[r]]]
    /\ inner' = [inner EXCEPT ![item[r]] = None]
    /\ held' = [held EXCEPT ![r] = {}]
    /\ Goto(r, "send")
    /\ UNCHANGED <<cfg, item, open>>

\* Mutant: a handle to the item is set aside and the item stays in use.
GetBusyCopied(r) ==
    /\ pc[r] = "get"
    /\ inner[item[r]] \in open
    /\ ~Ready(inner[item[r]])
    /\ held' = [held EXCEPT ![r] = @ \cup {item[r]}]
    /\ Goto(r, "pull")
    /\ UNCHANGED <<cfg, item, inner, carrier, open>>

\* (None, true): not ready, the item is set aside.
GetBusy(r) ==
    /\ pc[r] = "get"
    /\ inner[item[r]] \in open
    /\ ~Ready(inner[item[r]])
    /\ held' = [held EXCEPT ![r] = @ \cup {item[r]}]
    /\ item' = [item EXCEPT ![r] = None]
    /\ Goto(r, "pull")
    /\ UNCHANGED <<cfg, inner, carrier, open>>

\* (_, false): closed, or idle for too long; the item is emptied and given back.
GetClosed(r) ==
    /\ pc[r] = "get"
    /\ inner[item[r]] # None
    /\ IdleOrClosed(inner[item[r]])
    /\ inner' = [inner EXCEPT ![item[r]] = None]
    /\ item' = [item EXCEPT ![r] = None]
    /\ Goto(r, "pull")
    /\ UNCHANGED <<cfg, held, carrier>>
    /\ Reap(open)

\* An empty item: a connection has to be made.
GetEmpty(r) ==
    /\ pc[r] = "get"
    /\ inner[item[r]] = None
    /\ held' = [held EXCEPT ![r] = {}]
    /\ Goto(r, "connect")
    /\ UNCHANGED <<cfg, item, inner, carrier, open>>

(***************************************************************************)
(* Connecting, http_proxy and http_proxy_kept_alive.                       *)
(***************************************************************************)
ConnectOk(r) ==
    /\ pc[r] = "connect"
    /\ carrier' = [carrier EXCEPT ![r] = r]
    /\ open' = open \cup {r}
    /\ Goto(r, "send")
    /\ UNCHANGED <<cfg, item, held, inner>>

\* Mutant: the item is not given back.
FinishLeaking(r) ==
    /\ Goto(r, "done")
    /\ held' = [held EXCEPT ![r] = {}]
    /\ carrier' = [carrier EXCEPT ![r] = None]
    /\ UNCHANGED <<cfg, item, inner>>
    /\ Reap(open)

\* Everything the request holds is dropped.
Finish(r) ==
    /\ Goto(r, "done")
    /\ item' = [item EXCEPT ![r] = None]
    /\ held' = [held EXCEPT ![r] = {}]
    /\ carrier' = [carrier EXCEPT ![r] = None]
    /\ UNCHANGED <<cfg, inner>>
    /\ Reap(open)

ConnectFailed(r) == pc[r] = "connect" /\ Finish(r)

\* send_request fails: 502, and the sender is dropped.
SendFailed(r) == pc[r] = "send" /\ Finish(r)

\* http_proxy stores the sender when keep-alive is on, http_proxy_kept_alive
\* whenever the connection is open; a request that got its connection from
\* the pool is one that did not make it.
Stores(r) == carrier[r] \in open /\ (carrier[r] = r => cfg.keepalive)

\* Mutant: the item is given back with the response head.
KeepsItemNever(r) == FALSE

\* TrackedBody gets the item when the sender is not stored; without a tracked
\* connection there is no TrackedBody.
KeepsItem(r) == cfg.tracked /\ ~Stores(r)

\* The response head, with a body to stream.
Response(r) ==
    /\ pc[r] = "send"
    /\ carrier[r] \in open
    /\ inner' = IF Stores(r) THEN [inner EXCEPT ![item[r]] = carrier[r]] ELSE inner
    /\ item' = IF KeepsItem(r) THEN item ELSE [item EXCEPT ![r] = None]
    /\ Goto(r, "streaming")
    /\ UNCHANGED <<cfg, held, carrier, open>>

\* The response is complete with its head (no body, or one that is not passed
\* on: proxy_intercept_errors), or the connection closed with it.
ResponseOnly(r) ==
    /\ pc[r] = "send"
    /\ carrier[r] \in open
    /\ \E closed \in BOOLEAN :
          /\ inner' = IF Stores(r) /\ ~closed
                      THEN [inner EXCEPT ![item[r]] = carrier[r]] ELSE inner
          /\ carrier' = [carrier EXCEPT ![r] = None]
          /\ Reap(IF closed THEN open \ {carrier[r]} ELSE open)
    /\ item' = [item EXCEPT ![r] = None]
    /\ Goto(r, "done")
    /\ UNCHANGED <<cfg, held>>

\* 101: the item stays with the task that copies in both directions.
Upgrade(r) ==
    /\ pc[r] = "send"
    /\ ~cfg.h2
    /\ carrier[r] \in open
    /\ Goto(r, "upgraded")
    /\ UNCHANGED <<cfg, item, held, inner, carrier, open>>

\* Both sides are done, or upgrading the client failed.
UpgradeEnd(r) == pc[r] = "upgraded" /\ Finish(r)

\* The body has been passed on to its end.
BodyEnd(r) == pc[r] = "streaming" /\ Finish(r)

\* The client goes away: hyper closes an HTTP/1 connection in mid-response.
BodyDropped(r) ==
    /\ pc[r] = "streaming"
    /\ Goto(r, "done")
    /\ item' = [item EXCEPT ![r] = None]
    /\ carrier' = [carrier EXCEPT ![r] = None]
    /\ UNCHANGED <<cfg, held, inner>>
    /\ Reap(IF cfg.h2 THEN open ELSE open \ {carrier[r]})

\* The handler is dropped by the request timeout.
Timeout(r) == pc[r] \in {"pull", "select", "get", "connect", "send"} /\ Finish(r)

\* The backend closes a connection.
BackendCloses(c) ==
    /\ c \in open
    /\ open' = open \ {c}
    /\ UNCHANGED <<cfg, pc, item, held, inner, carrier>>

Handle(r) ==
    \/ Pull(r) \/ StartSelect(r) \/ SelectPull(r) \/ SelectReady(r) \/ SelectClosed(r)
    \/ GetReady(r) \/ GetBusy(r) \/ GetClosed(r) \/ GetEmpty(r)
    \/ ConnectOk(r) \/ ConnectFailed(r) \/ SendFailed(r)
    \/ Response(r) \/ ResponseOnly(r) \/ Upgrade(r)

Next ==
    \/ \E r \in Requests :
         \/ Arrive(r) \/ Handle(r) \/ UpgradeEnd(r) \/ BodyEnd(r) \/ BodyDropped(r)
         \/ Timeout(r)
    \/ \E c \in Requests : BackendCloses(c)

Spec == Init /\ [][Next]_vars

\* Requests are driven on, backends answer and bodies end; nothing is assumed
\* of timeouts, of clients that hang up, or of upgraded connections.
FairSpec ==
    Spec /\ \A r \in Requests : WF_vars(Handle(r)) /\ WF_vars(BodyEnd(r))

-----------------------------------------------------------------------------
Labels == {"idle", "pull", "select", "get", "connect", "send", "streaming",
           "upgraded", "done"}

\* Type invariant of the pool and of the requests that use it.
TypeOK ==
    /\ cfg \in Config
    /\ pc \in [Requests -> Labels]
    /\ item \in [Requests -> Slots \cup {None}]
    /\ held \in [Requests -> SUBSET Slots]
    /\ inner \in [Slots -> Requests \cup {None}]
    /\ carrier \in [Requests -> Requests \cup {None}]
    /\ open \subseteq Requests

\* An item is in one place at a time: with a single request, and there either
\* in use or set aside.  The code moves items in and out of futures, a Vec, an
\* Arc and the body.
ItemInOnePlace ==
    \A q, r \in Requests :
        /\ item[r] # None => item[r] \notin held[q] /\ (item[q] = item[r] => q = r)
        /\ q # r => held[q] \cap held[r] = {}

\* The sender of a connection is in one place: stored in one item, or with the
\* one request that is sending.
SenderInOnePlace ==
    /\ \A s, t \in Slots : inner[s] # None /\ inner[s] = inner[t] => s = t
    /\ \A r \in Requests : pc[r] \in {"send", "upgraded"} =>
          /\ \A s \in Slots : inner[s] # carrier[r]
          /\ \A q \in Requests \ {r} :
                pc[q] \in {"send", "upgraded"} => carrier[q] # carrier[r]

\* An HTTP/1 connection never carries two exchanges at once, although it is
\* back in the pool while its response is still streaming.
OneExchange ==
    ~cfg.h2 => \A q, r \in Requests :
                  carrier[r] # None /\ carrier[q] = carrier[r] => q = r

\* With HTTP/1, and with keep-alive or a load-tracking algorithm, the limit is
\* kept: the item or the sender stays with a connection until it is closed.
LimitKept == ~cfg.h2 /\ (cfg.keepalive \/ cfg.tracked) =>
    Cardinality(open) <= Cardinality(Slots)

\* A stored connection that is open and still streaming is never thrown out of
\* its item: the idle timeout concerns idle connections only.
BusyConnectionKept ==
    [][\A s \in Slots : inner[s] \in open /\ ~Ready(inner[s]) =>
           inner'[s] = inner[s]]_vars

\* A request that waits for a connection gets one, unless upgraded connections
\* occupy the pool: waiting requests that hold busy items do not block each
\* other for ever.
WaitEnds ==
    \A r \in Requests :
        (pc[r] = "pull") ~> \/ pc[r] \in {"connect", "send", "streaming", "done"}
                            \/ \E q \in Requests : pc[q] = "upgraded"
=============================================================================
