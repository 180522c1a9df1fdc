---------------------------- MODULE LoadBalancer ----------------------------
(***************************************************************************)
(* Backend selection, passive health checking and retrying in the reverse  *)
(* proxy module (ferron-modules-builtin/src/optional/rproxy.rs).           *)
(*                                                                         *)
(* Every request runs ReverseProxyModuleHandlers::request_handler as a     *)
(* task of its own, on one of several worker threads.  The tasks share     *)
(*   - track: the connection_track map of the least_conn and two_random    *)
(*     algorithms, from backend to an Arc whose strong count minus one is  *)
(*     the backend's load;                                                 *)
(*   - fails: the failed_backends TTL cache;                               *)
(*   - rr: the round-robin counter.                                        *)
(* Each access to a shared map is a step of its own, because the code      *)
(* takes and drops a lock around it; a task may be interrupted between     *)
(* two of them, and may be dropped at any of them (request timeout).       *)
(***************************************************************************)
EXTENDS Integers, FiniteSets

CONSTANTS N,         \* most backends a configuration lists
          Requests,  \* the requests (tasks)
          Configs,   \* the configurations to explore
          MaxFails,  \* lb_health_check_max_fails
          Ttl        \* lb_health_check_window, in ticks

Algorithms == {"random", "round_robin", "least_conn", "two_random"}

\* proxies: how many backends the proxy directives of the location list.
Config == [alg: Algorithms, health: BOOLEAN, retry: BOOLEAN, proxies: 1..N]

ASSUME LBAssumption ==
    /\ N \in Nat \ {0}
    /\ IsFiniteSet(Requests)
    /\ Configs \subseteq Config
    /\ MaxFails \in Nat
    /\ Ttl \in Nat \ {0}

Backends == 1..N
NoBackend == 0

VARIABLES
    cfg,     \* the configuration of this server, fixed at start
    track,   \* [Backends -> Nat]: 0 = no entry, n = the n-th Arc inserted
    fails,   \* [Backends -> [n, age]]: failures counted, ticks since insert
    rr,      \* round-robin counter
    pc,      \* where each request is
    vec,     \* proxy_to_vector: the backends a request has not tried yet
    parts,   \* request_parts is still Some
    cur,     \* the selected backend
    arc,     \* the Arc (of backend cur) held as tracked_connection, 0 = none
    scan,    \* locals of select_backend_index
    sick     \* history: cur was over the failure limit when it was accepted

vars == <<cfg, track, fails, rr, pc, vec, parts, cur, arc, scan, sick>>
shared == <<track, fails, rr>>

\* The two choices of two_random and the load read for each (-1: no entry),
\* and the loop of least_conn: the backends still to be read, the load read
\* for each (-1: not yet), min_indexes, and a backend found without an entry.
NoScan == [c |-> <<NoBackend, NoBackend>>, n |-> <<-1, -1>>,
           todo |-> {}, seen |-> [b \in Backends |-> -1], mins |-> {},
           miss |-> NoBackend]

Tracked == cfg.alg \in {"least_conn", "two_random"}

\* Arc::strong_count(..) - 1 of the entry of b.
Load(b) == Cardinality({r \in Requests : cur[r] = b /\ arc[r] = track[b] /\ arc[r] # 0})

\* TtlCache::get of failed_backends; 0 when absent or expired.
FailsOf(b) == IF fails[b].age < Ttl THEN fails[b].n ELSE 0

Unhealthy(b) == FailsOf(b) > MaxFails

Goto(r, l) == pc' = [pc EXCEPT ![r] = l]

-----------------------------------------------------------------------------
Init ==
    /\ cfg \in Configs
    /\ track = [b \in Backends |-> 0]
    /\ fails = [b \in Backends |-> [n |-> 0, age |-> Ttl]]
    /\ rr = 0
    /\ pc = [r \in Requests |-> "idle"]
    /\ vec = [r \in Requests |-> {}]
    /\ parts = [r \in Requests |-> FALSE]
    /\ cur = [r \in Requests |-> NoBackend]
    /\ arc = [r \in Requests |-> 0]
    /\ scan = [r \in Requests |-> NoScan]
    /\ sick = [r \in Requests |-> FALSE]

\* A request reaches the handler: proxy_to_vector is the whole list.
Arrive(r) ==
    /\ pc[r] = "idle"
    /\ Goto(r, "determine")
    /\ vec' = [vec EXCEPT ![r] = 1..cfg.proxies]
    /\ parts' = [parts EXCEPT ![r] = TRUE]
    /\ UNCHANGED <<cfg, shared, cur, arc, scan, sick>>

(***************************************************************************)
(* determine_proxy_to and select_backend_index.                            *)
(***************************************************************************)

\* Mutant: the chosen backend stays in proxy_to_vector.
CandidateKept(r, b) ==
    /\ cur' = [cur EXCEPT ![r] = b]
    /\ scan' = [scan EXCEPT ![r] = NoScan]
    /\ UNCHANGED vec

\* proxy_to_vector.remove(index): b leaves the vector and is the candidate.
\* With more than one backend and health checks on, its failures are read
\* next; a single remaining backend is taken without a check.
Candidate(r, b) ==
    /\ vec' = [vec EXCEPT ![r] = @ \ {b}]
    /\ cur' = [cur EXCEPT ![r] = b]
    /\ scan' = [scan EXCEPT ![r] = NoScan]

\* The vector holds one backend when determine_proxy_to is entered.
SelectOnly(r) ==
    /\ pc[r] = "determine"
    /\ \E b \in Backends : vec[r] = {b} /\ Candidate(r, b)
    /\ sick' = [sick EXCEPT ![r] = Unhealthy(cur'[r])]
    /\ Goto(r, "parts")
    /\ UNCHANGED <<cfg, shared, parts, arc>>

AfterSelect(r) == Goto(r, IF cfg.health THEN "health" ELSE "parts")

\* "select": a later turn of the health-check loop, which calls
\* select_backend_index even when a single backend is left.
Selecting(r) ==
    \/ pc[r] = "determine" /\ Cardinality(vec[r]) > 1
    \/ pc[r] = "select" /\ vec[r] # {}

SelectRandom(r) ==
    /\ Selecting(r)
    /\ cfg.alg = "random"
    /\ \E b \in vec[r] : Candidate(r, b)
    /\ AfterSelect(r)
    /\ UNCHANGED <<cfg, shared, parts, arc, sick>>

\* round_robin_index.fetch_add(1) % backends.len(); the remaining vector is
\* always in increasing order, because the code only removes from it.
SelectRoundRobin(r) ==
    /\ Selecting(r)
    /\ cfg.alg = "round_robin"
    /\ rr' = rr + 1
    /\ \E b \in vec[r] :
          /\ Cardinality({c \in vec[r] : c < b}) = rr % Cardinality(vec[r])
          /\ Candidate(r, b)
    /\ AfterSelect(r)
    /\ UNCHANGED <<cfg, track, fails, parts, arc, sick>>

\* Two distinct indexes when there are two, and both loads read under one
\* read lock.
TwoRandomRead(r) ==
    /\ Selecting(r)
    /\ cfg.alg = "two_random"
    /\ \E b1, b2 \in vec[r] :
          /\ b1 = b2 => Cardinality(vec[r]) = 1
          /\ LET Read(b) == IF track[b] = 0 THEN -1 ELSE Load(b) IN
             scan' = [scan EXCEPT ![r] =
                [NoScan EXCEPT !.c = <<b1, b2>>, !.n = <<Read(b1), Read(b2)>>]]
    /\ Goto(r, "two_insert")
    /\ UNCHANGED <<cfg, shared, vec, parts, cur, arc, sick>>

\* A missing entry counts as 0 and is inserted under the write lock, the
\* first choice's before the second's: the new Arc replaces whatever another
\* task may have inserted since the read.
TwoRandomInsert(r) ==
    /\ pc[r] = "two_insert"
    /\ \E i \in 1..2 :
          /\ scan[r].n[i] = -1
          /\ \A j \in 1..(i - 1) : scan[r].n[j] # -1
          /\ track' = [track EXCEPT ![scan[r].c[i]] = @ + 1]
          /\ scan' = [scan EXCEPT ![r].n[i] = 0]
    /\ UNCHANGED <<cfg, fails, rr, pc, vec, parts, cur, arc, sick>>

\* connection_count2 >= connection_count1 keeps the first choice.
TwoRandomPick(r) ==
    /\ pc[r] = "two_insert"
    /\ \A i \in 1..2 : scan[r].n[i] # -1
    /\ Candidate(r, scan[r].c[IF scan[r].n[2] >= scan[r].n[1] THEN 1 ELSE 2])
    /\ AfterSelect(r)
    /\ UNCHANGED <<cfg, shared, parts, arc, sick>>

LeastConnStart(r) ==
    /\ Selecting(r)
    /\ cfg.alg = "least_conn"
    /\ scan' = [scan EXCEPT ![r] = [NoScan EXCEPT !.todo = vec[r]]]
    /\ Goto(r, "lc_scan")
    /\ UNCHANGED <<cfg, shared, vec, parts, cur, arc, sick>>

\* One turn of the loop over the backends: a smaller load restarts
\* min_indexes, any other load is pushed to it.
LeastConnNote(r, b, load) ==
    LET s == scan[r]
        low == s.mins = {} \/ \E m \in s.mins : /\ load < s.seen[m]
                                                /\ \A k \in s.mins : s.seen[m] <= s.seen[k]
    IN scan' = [scan EXCEPT ![r] =
                  [c |-> s.c, n |-> s.n,
                   todo |-> s.todo \ {b},
                   seen |-> [s.seen EXCEPT ![b] = load],
                   mins |-> IF low THEN {b} ELSE s.mins \cup {b},
                   miss |-> NoBackend]]

LeastConnRead(r) ==
    /\ pc[r] = "lc_scan"
    /\ scan[r].miss = NoBackend
    /\ \E b \in scan[r].todo :
          /\ \A c \in scan[r].todo : b <= c
          /\ IF track[b] # 0
             THEN LeastConnNote(r, b, Load(b))
             ELSE scan' = [scan EXCEPT ![r].miss = b]
    /\ UNCHANGED <<cfg, shared, pc, vec, parts, cur, arc, sick>>

LeastConnInsert(r) ==
    /\ pc[r] = "lc_scan"
    /\ scan[r].miss # NoBackend
    /\ track' = [track EXCEPT ![scan[r].miss] = @ + 1]
    /\ LeastConnNote(r, scan[r].miss, 0)
    /\ UNCHANGED <<cfg, fails, rr, pc, vec, parts, cur, arc, sick>>

LeastConnPick(r) ==
    /\ pc[r] = "lc_scan"
    /\ scan[r].todo = {}
    /\ \E b \in scan[r].mins : Candidate(r, b)
    /\ AfterSelect(r)
    /\ UNCHANGED <<cfg, shared, parts, arc, sick>>

\* Mutant: the loop ends with the first candidate.
CheckHealthOnce(r) ==
    /\ pc[r] = "health"
    /\ Goto(r, "parts")
    /\ sick' = [sick EXCEPT ![r] = Unhealthy(cur[r])]
    /\ UNCHANGED <<cfg, shared, vec, parts, cur, arc, scan>>

\* The health-check loop: the candidate is accepted when it has no fresh
\* failures over the limit, or when the vector has run out.
CheckHealth(r) ==
    /\ pc[r] = "health"
    /\ IF Unhealthy(cur[r]) /\ vec[r] # {}
       THEN Goto(r, "select") /\ UNCHANGED sick
       ELSE /\ Goto(r, "parts")
            /\ sick' = [sick EXCEPT ![r] = Unhealthy(cur[r])]
    /\ UNCHANGED <<cfg, shared, vec, parts, cur, arc, scan>>

(***************************************************************************)
(* The rest of the request handler.                                        *)
(***************************************************************************)

\* Mutant: request_parts is moved out for every backend.
TakePartsAlways(r) ==
    /\ pc[r] = "parts"
    /\ parts' = [parts EXCEPT ![r] = FALSE]
    /\ Goto(r, IF ~parts[r] THEN "error"
               ELSE IF Tracked THEN "track" ELSE "connect")
    /\ UNCHANGED <<cfg, shared, vec, cur, arc, scan, sick>>

\* request_parts is moved out for the last backend and cloned otherwise;
\* without it the handler fails ("Request parts not found").
TakeParts(r) ==
    /\ pc[r] = "parts"
    /\ parts' = [parts EXCEPT ![r] = @ /\ vec[r] # {}]
    /\ Goto(r, IF ~parts[r] THEN "error"
               ELSE IF Tracked THEN "track" ELSE "connect")
    /\ UNCHANGED <<cfg, shared, vec, cur, arc, scan, sick>>

\* Mutant: a new Arc is inserted without looking for the old one.
TrackReadMissing(r) ==
    /\ pc[r] = "track"
    /\ Goto(r, "track_insert")
    /\ UNCHANGED <<cfg, shared, vec, parts, cur, arc, scan, sick>>

\* The entry of the backend is cloned under the read lock ...
TrackRead(r) ==
    /\ pc[r] = "track"
    /\ IF track[cur[r]] # 0
       THEN arc' = [arc EXCEPT ![r] = track[cur[r]]] /\ Goto(r, "connect")
       ELSE UNCHANGED arc /\ Goto(r, "track_insert")
    /\ UNCHANGED <<cfg, shared, vec, parts, cur, scan, sick>>

\* ... or inserted under the write lock if the read found none.
TrackInsert(r) ==
    /\ pc[r] = "track_insert"
    /\ track' = [track EXCEPT ![cur[r]] = @ + 1]
    /\ arc' = [arc EXCEPT ![r] = track[cur[r]] + 1]
    /\ Goto(r, "connect")
    /\ UNCHANGED <<cfg, fails, rr, vec, parts, cur, scan, sick>>

\* A connection is pulled from the pool or established (ConnectionPool).
Connected(r) ==
    /\ pc[r] = "connect"
    /\ Goto(r, "send")
    /\ UNCHANGED <<cfg, shared, vec, parts, cur, arc, scan, sick>>

\* Connecting, the PROXY header, TLS or the HTTP handshake fails.
ConnectFailed(r) ==
    /\ pc[r] = "connect"
    /\ Goto(r, IF cfg.health THEN "record" ELSE "retry")
    /\ UNCHANGED <<cfg, shared, vec, parts, cur, arc, scan, sick>>

\* failed_backends: read and incremented under one write lock.
RecordFailure(r) ==
    /\ pc[r] = "record"
    /\ fails' = [fails EXCEPT ![cur[r]] = [n |-> FailsOf(cur[r]) + 1, age |-> 0]]
    /\ Goto(r, "retry")
    /\ UNCHANGED <<cfg, track, rr, vec, parts, cur, arc, scan, sick>>

\* Dropping the locals of the turn (or the whole task): the Arc goes back.
Release(r) ==
    /\ arc' = [arc EXCEPT ![r] = 0]
    /\ cur' = [cur EXCEPT ![r] = NoBackend]
    /\ sick' = [sick EXCEPT ![r] = FALSE]

\* `continue` with another backend, or a 502, 503 or 504 response.
Retry(r) ==
    /\ pc[r] = "retry"
    /\ Release(r)
    /\ Goto(r, IF cfg.retry /\ vec[r] # {} THEN "determine" ELSE "done")
    /\ UNCHANGED <<cfg, shared, vec, parts, scan>>

\* send_request failed (502), or an intercepted error status: answered at
\* once, the Arc is dropped with the handler's locals.
AnswerStatus(r) ==
    /\ pc[r] = "send"
    /\ Release(r)
    /\ Goto(r, "done")
    /\ UNCHANGED <<cfg, shared, vec, parts, scan>>

\* The response is passed on; its TrackedBody keeps the Arc.
AnswerBody(r) ==
    /\ pc[r] = "send"
    /\ Goto(r, "streaming")
    /\ UNCHANGED <<cfg, shared, vec, parts, cur, arc, scan, sick>>

\* The body ends, or the client goes away.
BodyDropped(r) ==
    /\ pc[r] = "streaming"
    /\ Release(r)
    /\ Goto(r, "done")
    /\ UNCHANGED <<cfg, shared, vec, parts, scan>>

Ended == {"idle", "streaming", "done", "error"}

\* The request timeout drops the task at any await.
Timeout(r) ==
    /\ pc[r] \notin Ended
    /\ Release(r)
    /\ Goto(r, "done")
    /\ scan' = [scan EXCEPT ![r] = NoScan]
    /\ UNCHANGED <<cfg, shared, vec, parts>>

\* Time passes for the TTL cache.
Tick ==
    /\ \E b \in Backends : fails[b].age < Ttl
    /\ fails' = [b \in Backends |->
          [fails[b] EXCEPT !.age = IF @ < Ttl THEN @ + 1 ELSE @]]
    /\ UNCHANGED <<cfg, track, rr, pc, vec, parts, cur, arc, scan, sick>>

Select(r) ==
    \/ SelectOnly(r) \/ SelectRandom(r) \/ SelectRoundRobin(r)
    \/ TwoRandomRead(r) \/ TwoRandomInsert(r) \/ TwoRandomPick(r)
    \/ LeastConnStart(r) \/ LeastConnRead(r) \/ LeastConnInsert(r) \/ LeastConnPick(r)
    \/ CheckHealth(r)

Handle(r) ==
    \/ TakeParts(r) \/ TrackRead(r) \/ TrackInsert(r)
    \/ Connected(r) \/ ConnectFailed(r) \/ RecordFailure(r) \/ Retry(r)
    \/ AnswerStatus(r) \/ AnswerBody(r)

Next ==
    \/ \E r \in Requests :
         \/ Arrive(r) \/ Select(r) \/ Handle(r) \/ BodyDropped(r) \/ Timeout(r)
    \/ Tick

Spec == Init /\ [][Next]_vars

\* Locks are granted, connecting ends one way or the other and backends answer
\* or hang up; the request timeout is not needed for a request to end.
FairSpec == Spec /\ \A r \in Requests : WF_vars(Select(r) \/ Handle(r))

-----------------------------------------------------------------------------
Labels == {"idle", "determine", "select", "two_insert", "lc_scan", "health",
           "parts", "track", "track_insert", "connect", "record", "retry",
           "send", "streaming", "done", "error"}

ScanType == [c: (Backends \cup {NoBackend}) \X (Backends \cup {NoBackend}),
             n: Int \X Int,
             todo: SUBSET Backends, seen: [Backends -> Int],
             mins: SUBSET Backends, miss: Backends \cup {NoBackend}]

\* Type invariant of the shared maps and the locals of the request tasks.
TypeOK ==
    /\ cfg \in Config
    /\ track \in [Backends -> Nat]
    /\ fails \in [Backends -> [n: Nat, age: 0..Ttl]]
    /\ rr \in Nat
    /\ pc \in [Requests -> Labels]
    /\ vec \in [Requests -> SUBSET Backends]
    /\ parts \in [Requests -> BOOLEAN]
    /\ cur \in [Requests -> Backends \cup {NoBackend}]
    /\ arc \in [Requests -> Nat]
    /\ scan \in [Requests -> ScanType]
    /\ sick \in [Requests -> BOOLEAN]

(***************************************************************************)
(* Properties.                                                             *)
(***************************************************************************)
\* The handler never fails with "Request parts not found": the request parts
\* are moved out only for the backend after which no retry can follow.
PartsAvailable ==
    \A r \in Requests :
        /\ pc[r] # "error"
        /\ pc[r] \in {"determine", "select", "two_insert", "lc_scan", "health",
                      "parts"} => parts[r]

\* A backend that was over its failure limit when the request accepted it is
\* only used once every other backend has been tried or skipped.
LastResort == \A r \in Requests : sick[r] => vec[r] = {}

\* A retrying request always has a backend left: determine_proxy_to never
\* hands a request back unproxied once it has been tried somewhere.
RetryHasBackend ==
    \A r \in Requests : pc[r] \in {"determine", "select"} => vec[r] # {}

\* About to insert an entry for b that a read did not find.
Inserting(r, b) ==
    \/ pc[r] = "two_insert" /\ \E i \in 1..2 : scan[r].n[i] = -1 /\ scan[r].c[i] = b
    \/ pc[r] = "lc_scan" /\ scan[r].miss = b
    \/ pc[r] = "track_insert" /\ cur[r] = b

Warm(b) == track[b] # 0 /\ \A r \in Requests : ~Inserting(r, b)

\* The counter of a backend can only be lost while it is being created: once
\* an entry exists and no task is about to insert one, it is never replaced.
WarmForever == [][\A b \in Backends : Warm(b) => Warm(b)' /\ track'[b] = track[b]]_vars

\* Every request is answered: the health-check loop and the retry loop run out
\* of backends.
EveryRequestAnswered ==
    \A r \in Requests : (pc[r] = "determine") ~> (pc[r] \in {"streaming", "done"})
=============================================================================
