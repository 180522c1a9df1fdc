------------------------- MODULE LoadBalancerProofs -------------------------
(***************************************************************************)
(* Proofs about LoadBalancer, for any number of backends, any finite set   *)
(* of requests, any limit of failures and any window.                      *)
(***************************************************************************)
EXTENDS LoadBalancer, FiniteSetTheorems, TLAPS

\* A load is a number: the requests that hold an Arc are finitely many.
LEMMA LoadType == \A b \in Backends : Load(b) \in Nat
<1> SUFFICES ASSUME NEW b \in Backends PROVE Load(b) \in Nat
    OBVIOUS
<1> DEFINE S == {r \in Requests : cur[r] = b /\ arc[r] = track[b] /\ arc[r] # 0}
<1>1. IsFiniteSet(S)
    BY LBAssumption, FS_Subset DEF LBAssumption
<1>2. Cardinality(S) \in Nat
    BY <1>1, FS_CardinalityType
<1> QED
    BY <1>2 DEF Load

\* Counting up an entry of a table of counters.
LEMMA CountUp ==
    ASSUME NEW S, NEW f \in [S -> Nat], NEW k
    PROVE  [f EXCEPT ![k] = @ + 1] \in [S -> Nat]
<1>1. CASE k \in S
    BY <1>1
<1>2. CASE k \notin S
    BY <1>2
<1> QED
    BY <1>1, <1>2

\* The backends a request may try are there, and are backends.
LEMMA ProxiesType ==
    ASSUME TypeOK
    PROVE  1..cfg.proxies \subseteq Backends /\ 1 \in 1..cfg.proxies
<1>1. cfg.proxies \in 1..N
    BY DEF TypeOK, Config
<1> QED
    BY <1>1, LBAssumption DEF LBAssumption, Backends

\* The locals of select_backend_index before its first turn.
LEMMA NoScanType == NoScan \in ScanType
BY DEF NoScan, ScanType

\* What choosing a candidate does to the locals of the request.
LEMMA CandidateType ==
    ASSUME TypeOK, NEW r \in Requests, NEW b \in Backends \cup {NoBackend}, Candidate(r, b)
    PROVE  /\ vec' \in [Requests -> SUBSET Backends]
           /\ cur' \in [Requests -> Backends \cup {NoBackend}]
           /\ scan' \in [Requests -> ScanType]
BY NoScanType DEF TypeOK, Candidate

\* What noting a load does to the locals of the least_conn loop.
LEMMA NoteType ==
    ASSUME TypeOK, NEW r \in Requests, NEW b \in Backends, NEW load \in Nat,
           LeastConnNote(r, b, load)
    PROVE  scan' \in [Requests -> ScanType]
<1>1. scan[r] \in ScanType
    BY DEF TypeOK
<1>2. PICK m \in SUBSET Backends :
         scan' = [scan EXCEPT ![r] =
                    [c |-> scan[r].c, n |-> scan[r].n, todo |-> scan[r].todo \ {b},
                     seen |-> [scan[r].seen EXCEPT ![b] = load], mins |-> m,
                     miss |-> NoBackend]]
    <2> DEFINE low == scan[r].mins = {} \/
                        \E m \in scan[r].mins :
                           /\ load < scan[r].seen[m]
                           /\ \A k \in scan[r].mins : scan[r].seen[m] <= scan[r].seen[k]
               ms == IF low THEN {b} ELSE scan[r].mins \cup {b}
    <2>1. ms \in SUBSET Backends
        BY <1>1 DEF ScanType
    <2>2. scan' = [scan EXCEPT ![r] =
                    [c |-> scan[r].c, n |-> scan[r].n, todo |-> scan[r].todo \ {b},
                     seen |-> [scan[r].seen EXCEPT ![b] = load], mins |-> ms,
                     miss |-> NoBackend]]
        BY DEF LeastConnNote
    <2> HIDE DEF ms
    <2> QED
        BY <2>1, <2>2
<1>3. [c |-> scan[r].c, n |-> scan[r].n, todo |-> scan[r].todo \ {b},
       seen |-> [scan[r].seen EXCEPT ![b] = load], mins |-> m, miss |-> NoBackend]
        \in ScanType
    BY <1>1 DEF ScanType
<1> QED
    BY <1>2, <1>3 DEF TypeOK

-----------------------------------------------------------------------------
(***************************************************************************)
(* Type correctness.  The type invariant is not inductive alone: the steps *)
(* that follow a selection use the selected backend as an index of the     *)
(* shared tables, so it has to be known that there is one.                 *)
(***************************************************************************)
Placed == {"health", "parts", "track", "track_insert", "connect", "record", "retry",
           "send", "streaming"}

Located ==
    \A r \in Requests :
        /\ pc[r] \in Placed => cur[r] \in Backends
        /\ pc[r] = "two_insert" => scan[r].c[1] \in Backends /\ scan[r].c[2] \in Backends

\* Every step preserves the types.
LEMMA TypeStep == TypeOK /\ Located /\ [Next]_vars => TypeOK'
<1> SUFFICES ASSUME TypeOK, Located, [Next]_vars PROVE TypeOK'
    OBVIOUS
<1> USE LBAssumption DEF LBAssumption
<1>1. ASSUME NEW r \in Requests, Arrive(r) PROVE TypeOK'
    BY <1>1, ProxiesType DEF Arrive, TypeOK, Goto, Labels, shared
<1>2. ASSUME NEW r \in Requests, SelectOnly(r) PROVE TypeOK'
    <2>1. PICK b \in Backends : Candidate(r, b)
        BY <1>2 DEF SelectOnly
    <2>2. Unhealthy(cur'[r]) \in BOOLEAN
        BY DEF Unhealthy
    <2> QED
        BY <1>2, <2>1, <2>2, CandidateType DEF SelectOnly, TypeOK, Goto, Labels, shared
<1>3. ASSUME NEW r \in Requests, SelectRandom(r) PROVE TypeOK'
    <2>1. PICK b \in Backends : Candidate(r, b)
        BY <1>3 DEF SelectRandom, TypeOK
    <2> QED
        BY <1>3, <2>1, CandidateType DEF SelectRandom, AfterSelect, TypeOK, Goto, Labels, shared
<1>4. ASSUME NEW r \in Requests, SelectRoundRobin(r) PROVE TypeOK'
    <2>1. PICK b \in Backends : Candidate(r, b)
        BY <1>4 DEF SelectRoundRobin, TypeOK
    <2> QED
        BY <1>4, <2>1, CandidateType DEF SelectRoundRobin, AfterSelect, TypeOK, Goto, Labels
<1>5. ASSUME NEW r \in Requests, TwoRandomRead(r) PROVE TypeOK'
    <2> DEFINE Read(b) == IF track[b] = 0 THEN -1 ELSE Load(b)
    <2>1. \A b \in Backends : Read(b) \in Int
        BY LoadType
    <2>2. PICK b1, b2 \in Backends :
             scan' = [scan EXCEPT ![r] =
                        [NoScan EXCEPT !.c = <<b1, b2>>, !.n = <<Read(b1), Read(b2)>>]]
        BY <1>5 DEF TwoRandomRead, TypeOK
    <2>3. PICK n1, n2 \in Int : n1 = Read(b1) /\ n2 = Read(b2)
        BY <2>1
    <2> HIDE DEF Read
    <2>4. [NoScan EXCEPT !.c = <<b1, b2>>, !.n = <<n1, n2>>] \in ScanType
        BY NoScanType DEF ScanType
    <2>5. scan' \in [Requests -> ScanType]
        BY <2>2, <2>3, <2>4 DEF TypeOK
    <2> QED
        BY <1>5, <2>5 DEF TwoRandomRead, TypeOK, Goto, Labels, shared
<1>6. ASSUME NEW r \in Requests, TwoRandomInsert(r) PROVE TypeOK'
    <2>1. PICK i \in 1..2 : /\ track' = [track EXCEPT ![scan[r].c[i]] = @ + 1]
                            /\ scan' = [scan EXCEPT ![r].n[i] = 0]
        BY <1>6 DEF TwoRandomInsert
    <2>2. scan[r] \in ScanType
        BY DEF TypeOK
    <2>3. scan[r].n \in Int \X Int
        BY <2>2 DEF ScanType
    <2>4. [scan[r].n EXCEPT ![i] = 0] \in Int \X Int
        BY <2>3
    <2>5. [scan[r] EXCEPT !.n = [scan[r].n EXCEPT ![i] = 0]] \in ScanType
        BY <2>2, <2>4 DEF ScanType
    <2>6. scan' \in [Requests -> ScanType]
        BY <2>1, <2>5 DEF TypeOK
    <2>7. track' \in [Backends -> Nat]
        <3>1. PICK k : track' = [track EXCEPT ![k] = @ + 1]
            BY <2>1
        <3> QED
            BY <3>1, CountUp DEF TypeOK
    <2> QED
        BY <1>6, <2>6, <2>7 DEF TwoRandomInsert, TypeOK
<1>7. ASSUME NEW r \in Requests, TwoRandomPick(r) PROVE TypeOK'
    <2> DEFINE i == IF scan[r].n[2] >= scan[r].n[1] THEN 1 ELSE 2
    <2>1. Candidate(r, scan[r].c[i])
        BY <1>7 DEF TwoRandomPick
    <2>2. scan[r].c \in (Backends \cup {NoBackend}) \X (Backends \cup {NoBackend})
        BY DEF TypeOK, ScanType
    <2>3. scan[r].c[1] \in Backends \cup {NoBackend} /\ scan[r].c[2] \in Backends \cup {NoBackend}
        BY <2>2
    <2>4. i = 1 \/ i = 2
        OBVIOUS
    <2> HIDE DEF i
    <2>5. scan[r].c[i] \in Backends \cup {NoBackend}
        BY <2>3, <2>4
    <2> QED
        BY <1>7, <2>1, <2>5, CandidateType
           DEF TwoRandomPick, AfterSelect, TypeOK, Goto, Labels, shared
<1>8. ASSUME NEW r \in Requests, LeastConnStart(r) PROVE TypeOK'
    <2>1. [NoScan EXCEPT !.todo = vec[r]] \in ScanType
        BY NoScanType DEF ScanType, TypeOK
    <2>2. scan' \in [Requests -> ScanType]
        BY <1>8, <2>1 DEF LeastConnStart, TypeOK
    <2> QED
        BY <1>8, <2>2 DEF LeastConnStart, TypeOK, Goto, Labels, shared
<1>9. ASSUME NEW r \in Requests, LeastConnRead(r) PROVE TypeOK'
    <2>1. PICK b \in scan[r].todo :
             IF track[b] # 0 THEN LeastConnNote(r, b, Load(b))
                             ELSE scan' = [scan EXCEPT ![r].miss = b]
        BY <1>9 DEF LeastConnRead
    <2>2. scan[r] \in ScanType /\ b \in Backends
        BY DEF TypeOK, ScanType
    <2>3. [scan[r] EXCEPT !.miss = b] \in ScanType
        BY <2>2 DEF ScanType
    <2>4. scan' \in [Requests -> ScanType]
        <3>1. CASE track[b] # 0
            BY <2>1, <2>2, <3>1, LoadType, NoteType
        <3>2. CASE track[b] = 0
            BY <2>1, <2>3, <3>2 DEF TypeOK
        <3> QED
            BY <3>1, <3>2
    <2> QED
        BY <1>9, <2>4 DEF LeastConnRead, TypeOK, shared
<1>10. ASSUME NEW r \in Requests, LeastConnInsert(r) PROVE TypeOK'
    <2>1. scan[r].miss \in Backends
        BY <1>10 DEF LeastConnInsert, TypeOK, ScanType
    <2>2. scan' \in [Requests -> ScanType]
        BY <1>10, <2>1, NoteType DEF LeastConnInsert
    <2>3. track' \in [Backends -> Nat]
        BY <1>10, <2>1 DEF LeastConnInsert, TypeOK
    <2> QED
        BY <1>10, <2>2, <2>3 DEF LeastConnInsert, TypeOK
<1>11. ASSUME NEW r \in Requests, LeastConnPick(r) PROVE TypeOK'
    <2>1. PICK b \in Backends : Candidate(r, b)
        BY <1>11 DEF LeastConnPick, TypeOK, ScanType
    <2> QED
        BY <1>11, <2>1, CandidateType DEF LeastConnPick, AfterSelect, TypeOK, Goto, Labels, shared
<1>12. ASSUME NEW r \in Requests, CheckHealth(r) PROVE TypeOK'
    <2>1. Unhealthy(cur[r]) \in BOOLEAN
        BY DEF Unhealthy
    <2> QED
        BY <1>12, <2>1 DEF CheckHealth, TypeOK, Goto, Labels, shared
<1>13. ASSUME NEW r \in Requests, TakeParts(r) PROVE TypeOK'
    BY <1>13 DEF TakeParts, TypeOK, Goto, Labels, shared
<1>14. ASSUME NEW r \in Requests, TrackRead(r) PROVE TypeOK'
    <2>1. cur[r] \in Backends
        BY <1>14 DEF TrackRead, Located, Placed
    <2>2. track[cur[r]] \in Nat
        BY <2>1 DEF TypeOK
    <2>3. arc' \in [Requests -> Nat]
        BY <1>14, <2>2 DEF TrackRead, TypeOK
    <2>4. pc' \in [Requests -> Labels]
        BY <1>14 DEF TrackRead, TypeOK, Goto, Labels
    <2> QED
        BY <1>14, <2>3, <2>4 DEF TrackRead, TypeOK, shared
<1>15. ASSUME NEW r \in Requests, TrackInsert(r) PROVE TypeOK'
    <2>1. cur[r] \in Backends
        BY <1>15 DEF TrackInsert, Located, Placed
    <2> QED
        BY <1>15, <2>1 DEF TrackInsert, TypeOK, Goto, Labels
<1>16. ASSUME NEW r \in Requests, Connected(r) PROVE TypeOK'
    BY <1>16 DEF Connected, TypeOK, Goto, Labels, shared
<1>17. ASSUME NEW r \in Requests, ConnectFailed(r) PROVE TypeOK'
    BY <1>17 DEF ConnectFailed, TypeOK, Goto, Labels, shared
<1>18. ASSUME NEW r \in Requests, RecordFailure(r) PROVE TypeOK'
    <2>1. \A b \in Backends : FailsOf(b) \in Nat
        BY DEF FailsOf, TypeOK
    <2>2. cur[r] \in Backends
        BY <1>18 DEF RecordFailure, Located, Placed
    <2>3. fails' \in [Backends -> [n: Nat, age: 0..Ttl]]
        BY <1>18, <2>1, <2>2 DEF RecordFailure, TypeOK
    <2> QED
        BY <1>18, <2>3 DEF RecordFailure, TypeOK, Goto, Labels
<1>19. ASSUME NEW r \in Requests, Retry(r) PROVE TypeOK'
    BY <1>19 DEF Retry, TypeOK, Goto, Labels, Release, NoBackend, shared
<1>20. ASSUME NEW r \in Requests, AnswerStatus(r) PROVE TypeOK'
    BY <1>20 DEF AnswerStatus, TypeOK, Goto, Labels, Release, NoBackend, shared
<1>21. ASSUME NEW r \in Requests, AnswerBody(r) PROVE TypeOK'
    BY <1>21 DEF AnswerBody, TypeOK, Goto, Labels, shared
<1>22. ASSUME NEW r \in Requests, BodyDropped(r) PROVE TypeOK'
    BY <1>22 DEF BodyDropped, TypeOK, Goto, Labels, Release, NoBackend, shared
<1>23. ASSUME NEW r \in Requests, Timeout(r) PROVE TypeOK'
    BY <1>23, NoScanType DEF Timeout, TypeOK, Goto, Labels, Release, NoBackend, shared
<1>24. CASE Tick
    <2>1. fails' \in [Backends -> [n: Nat, age: 0..Ttl]]
        <3>1. ASSUME NEW b \in Backends
              PROVE  [fails[b] EXCEPT !.age = IF @ < Ttl THEN @ + 1 ELSE @]
                        \in [n: Nat, age: 0..Ttl]
            BY DEF TypeOK
        <3> QED
            BY <1>24, <3>1 DEF Tick
    <2> QED
        BY <1>24, <2>1 DEF Tick, TypeOK
<1>25. CASE UNCHANGED vars
    BY <1>25 DEF vars, TypeOK
<1> QED
    BY <1>1, <1>2, <1>3, <1>4, <1>5, <1>6, <1>7, <1>8, <1>9, <1>10, <1>11, <1>12, <1>13, <1>14, <1>15, <1>16, <1>17, <1>18, <1>19, <1>20, <1>21, <1>22, <1>23, <1>24, <1>25 DEF Next, Select, Handle

\* Every step that needs a selected backend comes after a selection.
LEMMA LocatedStep == TypeOK /\ Located /\ [Next]_vars => Located'
<1> SUFFICES ASSUME TypeOK, Located, [Next]_vars PROVE Located'
    OBVIOUS
<1> USE DEF Located, Placed, TypeOK
<1>1. ASSUME NEW r \in Requests, Arrive(r) PROVE Located'
    BY <1>1 DEF Arrive, Goto
<1>2. ASSUME NEW r \in Requests, SelectOnly(r) PROVE Located'
    BY <1>2 DEF SelectOnly, Goto, Candidate
<1>3. ASSUME NEW r \in Requests, SelectRandom(r) PROVE Located'
    BY <1>3 DEF SelectRandom, Goto, Candidate, AfterSelect
<1>4. ASSUME NEW r \in Requests, SelectRoundRobin(r) PROVE Located'
    BY <1>4 DEF SelectRoundRobin, Goto, Candidate, AfterSelect
<1>5. ASSUME NEW r \in Requests, TwoRandomRead(r) PROVE Located'
    BY <1>5 DEF TwoRandomRead, Goto
<1>6. ASSUME NEW r \in Requests, TwoRandomInsert(r) PROVE Located'
    BY <1>6 DEF TwoRandomInsert, Goto
<1>7. ASSUME NEW r \in Requests, TwoRandomPick(r) PROVE Located'
    BY <1>7 DEF TwoRandomPick, Goto, Candidate, AfterSelect
<1>8. ASSUME NEW r \in Requests, LeastConnStart(r) PROVE Located'
    BY <1>8 DEF LeastConnStart, Goto
<1>9. ASSUME NEW r \in Requests, LeastConnRead(r) PROVE Located'
    BY <1>9 DEF LeastConnRead, Goto, LeastConnNote
<1>10. ASSUME NEW r \in Requests, LeastConnInsert(r) PROVE Located'
    BY <1>10 DEF LeastConnInsert, Goto, LeastConnNote
<1>11. ASSUME NEW r \in Requests, LeastConnPick(r) PROVE Located'
    BY <1>11 DEF LeastConnPick, Goto, Candidate, AfterSelect, ScanType
<1>12. ASSUME NEW r \in Requests, CheckHealth(r) PROVE Located'
    BY <1>12 DEF CheckHealth, Goto
<1>13. ASSUME NEW r \in Requests, TakeParts(r) PROVE Located'
    BY <1>13 DEF TakeParts, Goto
<1>14. ASSUME NEW r \in Requests, TrackRead(r) PROVE Located'
    BY <1>14 DEF TrackRead, Goto
<1>15. ASSUME NEW r \in Requests, TrackInsert(r) PROVE Located'
    BY <1>15 DEF TrackInsert, Goto
<1>16. ASSUME NEW r \in Requests, Connected(r) PROVE Located'
    BY <1>16 DEF Connected, Goto, shared
<1>17. ASSUME NEW r \in Requests, ConnectFailed(r) PROVE Located'
    BY <1>17 DEF ConnectFailed, Goto, shared
<1>18. ASSUME NEW r \in Requests, RecordFailure(r) PROVE Located'
    BY <1>18 DEF RecordFailure, Goto
<1>19. ASSUME NEW r \in Requests, Retry(r) PROVE Located'
    BY <1>19 DEF Retry, Goto, Release
<1>20. ASSUME NEW r \in Requests, AnswerStatus(r) PROVE Located'
    BY <1>20 DEF AnswerStatus, Goto, Release
<1>21. ASSUME NEW r \in Requests, AnswerBody(r) PROVE Located'
    BY <1>21 DEF AnswerBody, Goto
<1>22. ASSUME NEW r \in Requests, BodyDropped(r) PROVE Located'
    BY <1>22 DEF BodyDropped, Goto, Release
<1>23. ASSUME NEW r \in Requests, Timeout(r) PROVE Located'
    BY <1>23 DEF Timeout, Goto, Release
<1>24. CASE Tick
    BY <1>24 DEF Tick
<1>25. CASE UNCHANGED vars
    BY <1>25 DEF vars
<1> QED
    BY <1>1, <1>2, <1>3, <1>4, <1>5, <1>6, <1>7, <1>8, <1>9, <1>10, <1>11, <1>12, <1>13, <1>14, <1>15, <1>16, <1>17, <1>18, <1>19, <1>20, <1>21, <1>22, <1>23, <1>24, <1>25 DEF Next, Select, Handle

\* The shared tables and the locals of every request keep their types, and a
\* request that uses a backend has one.
THEOREM TypeCorrect == Spec => [](TypeOK /\ Located)
<1>1. Init => TypeOK /\ Located
    BY LBAssumption, NoScanType
       DEF Init, TypeOK, LBAssumption, Labels, Backends, NoBackend, Located, Placed
<1>2. (TypeOK /\ Located) /\ [Next]_vars => (TypeOK /\ Located)'
    BY TypeStep, LocatedStep
<1> QED
    BY <1>1, <1>2, PTL DEF Spec

-----------------------------------------------------------------------------
(***************************************************************************)
(* The budget of a request: the backends it has left, the request parts    *)
(* and the marker of an unhealthy backend.  A request that may still retry *)
(* has kept its parts, and a new one has accepted nothing yet.             *)
(***************************************************************************)
Late == {"track", "track_insert", "connect", "record", "retry"}

Budget ==
    /\ PartsAvailable
    /\ LastResort
    /\ RetryHasBackend
    /\ \A r \in Requests :
          /\ pc[r] \in Late => (vec[r] # {} => parts[r])
          /\ pc[r] = "idle" => ~sick[r]

\* Every step of the handler, and every failure recorded by others, keeps the
\* budget of the request.
LEMMA BudgetStep == TypeOK /\ Budget /\ [Next]_vars => Budget'
<1> SUFFICES ASSUME TypeOK, Budget, [Next]_vars PROVE Budget'
    OBVIOUS
<1> USE DEF Budget, PartsAvailable, LastResort, RetryHasBackend, Late, TypeOK
<1>1. ASSUME NEW r \in Requests, Arrive(r) PROVE Budget'
    <2>1. 1..cfg.proxies # {}
        BY ProxiesType
    <2> QED
        BY <1>1, <2>1 DEF Arrive, Goto
<1>2. ASSUME NEW r \in Requests, SelectOnly(r) PROVE Budget'
    BY <1>2 DEF SelectOnly, Goto, Candidate
<1>3. ASSUME NEW r \in Requests, SelectRandom(r) PROVE Budget'
    BY <1>3 DEF SelectRandom, Goto, Candidate, AfterSelect, Selecting
<1>4. ASSUME NEW r \in Requests, SelectRoundRobin(r) PROVE Budget'
    BY <1>4 DEF SelectRoundRobin, Goto, Candidate, AfterSelect, Selecting
<1>5. ASSUME NEW r \in Requests, TwoRandomRead(r) PROVE Budget'
    BY <1>5 DEF TwoRandomRead, Goto, Selecting
<1>6. ASSUME NEW r \in Requests, TwoRandomInsert(r) PROVE Budget'
    BY <1>6 DEF TwoRandomInsert, Goto
<1>7. ASSUME NEW r \in Requests, TwoRandomPick(r) PROVE Budget'
    BY <1>7 DEF TwoRandomPick, Goto, Candidate, AfterSelect
<1>8. ASSUME NEW r \in Requests, LeastConnStart(r) PROVE Budget'
    BY <1>8 DEF LeastConnStart, Goto, Selecting
<1>9. ASSUME NEW r \in Requests, LeastConnRead(r) PROVE Budget'
    BY <1>9 DEF LeastConnRead, Goto
<1>10. ASSUME NEW r \in Requests, LeastConnInsert(r) PROVE Budget'
    BY <1>10 DEF LeastConnInsert, Goto
<1>11. ASSUME NEW r \in Requests, LeastConnPick(r) PROVE Budget'
    BY <1>11 DEF LeastConnPick, Goto, Candidate, AfterSelect
<1>12. ASSUME NEW r \in Requests, CheckHealth(r) PROVE Budget'
    BY <1>12 DEF CheckHealth, Goto
<1>13. ASSUME NEW r \in Requests, TakeParts(r) PROVE Budget'
    BY <1>13 DEF TakeParts, Goto
<1>14. ASSUME NEW r \in Requests, TrackRead(r) PROVE Budget'
    BY <1>14 DEF TrackRead, Goto
<1>15. ASSUME NEW r \in Requests, TrackInsert(r) PROVE Budget'
    BY <1>15 DEF TrackInsert, Goto
<1>16. ASSUME NEW r \in Requests, Connected(r) PROVE Budget'
    BY <1>16 DEF Connected, Goto, shared
<1>17. ASSUME NEW r \in Requests, ConnectFailed(r) PROVE Budget'
    BY <1>17 DEF ConnectFailed, Goto, shared
<1>18. ASSUME NEW r \in Requests, RecordFailure(r) PROVE Budget'
    BY <1>18 DEF RecordFailure, Goto
<1>19. ASSUME NEW r \in Requests, Retry(r) PROVE Budget'
    BY <1>19 DEF Retry, Goto, Release
<1>20. ASSUME NEW r \in Requests, AnswerStatus(r) PROVE Budget'
    BY <1>20 DEF AnswerStatus, Goto, Release
<1>21. ASSUME NEW r \in Requests, AnswerBody(r) PROVE Budget'
    BY <1>21 DEF AnswerBody, Goto
<1>22. ASSUME NEW r \in Requests, BodyDropped(r) PROVE Budget'
    BY <1>22 DEF BodyDropped, Goto, Release
<1>23. ASSUME NEW r \in Requests, Timeout(r) PROVE Budget'
    BY <1>23 DEF Timeout, Goto, Release
<1>24. CASE Tick
    BY <1>24 DEF Tick
<1>25. CASE UNCHANGED vars
    BY <1>25 DEF vars
<1> QED
    BY <1>1, <1>2, <1>3, <1>4, <1>5, <1>6, <1>7, <1>8, <1>9, <1>10, <1>11, <1>12, <1>13, <1>14, <1>15, <1>16, <1>17, <1>18, <1>19, <1>20, <1>21, <1>22, <1>23, <1>24, <1>25 DEF Next, Select, Handle

\* The budget holds from the arrival of the request on.
LEMMA BudgetInvariant == Spec => []Budget
<1>1. Init => Budget
    BY DEF Init, Budget, PartsAvailable, LastResort, RetryHasBackend, Late
<1>2. (TypeOK /\ Located) /\ Budget /\ [Next]_vars => Budget'
    BY BudgetStep
<1> QED
    BY <1>1, <1>2, TypeCorrect, PTL DEF Spec

\* However often a request is retried, its parts are there when a backend is
\* selected: the handler never fails with "Request parts not found".
THEOREM PartsNeverMissing == Spec => []PartsAvailable
BY BudgetInvariant, PTL DEF Budget

\* An unhealthy backend is accepted only when no other backend is left,
\* whatever the failures other requests record meanwhile.
THEOREM UnhealthyOnlyLast == Spec => []LastResort
BY BudgetInvariant, PTL DEF Budget

\* determine_proxy_to is never entered with an empty vector.
THEOREM RetriesHaveBackends == Spec => []RetryHasBackend
BY BudgetInvariant, PTL DEF Budget

-----------------------------------------------------------------------------
(***************************************************************************)
(* The counters of least_conn and two_random.  A step replaces the entry   *)
(* of a backend only in a task that found none, and a task finds none only *)
(* while there is none: with an entry in place and nobody about to insert  *)
(* one, both facts persist.                                                *)
(***************************************************************************)
\* No step of any task replaces or loses the counter of a warm backend.
LEMMA WarmStep ==
    ASSUME TypeOK, Located, Next, NEW b \in Backends, Warm(b)
    PROVE  Warm(b)' /\ track'[b] = track[b]
<1> DEFINE Goal == Warm(b)' /\ track'[b] = track[b]
<1> USE DEF Warm, Inserting, TypeOK
<1>0. b # NoBackend
    BY DEF Backends, NoBackend
<1>1. ASSUME NEW r \in Requests, Arrive(r) PROVE Goal
    BY <1>0, <1>1 DEF Arrive, Goto, shared
<1>2. ASSUME NEW r \in Requests, SelectOnly(r) PROVE Goal
    BY <1>0, <1>2 DEF SelectOnly, Goto, Candidate, shared
<1>3. ASSUME NEW r \in Requests, SelectRandom(r) PROVE Goal
    BY <1>0, <1>3 DEF SelectRandom, Goto, Candidate, AfterSelect, Selecting, shared
<1>4. ASSUME NEW r \in Requests, SelectRoundRobin(r) PROVE Goal
    BY <1>0, <1>4 DEF SelectRoundRobin, Goto, Candidate, AfterSelect, Selecting
<1>5. ASSUME NEW r \in Requests, TwoRandomRead(r) PROVE Goal
    <2> DEFINE Read(x) == IF track[x] = 0 THEN -1 ELSE Load(x)
    <2>1. PICK b1, b2 \in Backends :
             scan' = [scan EXCEPT ![r] =
                        [NoScan EXCEPT !.c = <<b1, b2>>, !.n = <<Read(b1), Read(b2)>>]]
        BY <1>5 DEF TwoRandomRead
    <2>2. Read(b) # -1
        BY LoadType
    <2> HIDE DEF Read
    <2>3. scan'[r].c = <<b1, b2>> /\ scan'[r].n = <<Read(b1), Read(b2)>>
        BY <2>1 DEF NoScan
    <2>4. pc'[r] = "two_insert"
        BY <1>5 DEF TwoRandomRead, Goto
    <2>5. ~Inserting(r, b)'
        BY <2>2, <2>3, <2>4
    <2>6. \A q \in Requests \ {r} : ~Inserting(q, b)'
        BY <1>5, <2>1 DEF TwoRandomRead, Goto
    <2> QED
        BY <1>5, <2>5, <2>6 DEF TwoRandomRead, shared
<1>6. ASSUME NEW r \in Requests, TwoRandomInsert(r) PROVE Goal
    BY <1>0, <1>6 DEF TwoRandomInsert, Goto
<1>7. ASSUME NEW r \in Requests, TwoRandomPick(r) PROVE Goal
    BY <1>0, <1>7 DEF TwoRandomPick, Goto, Candidate, AfterSelect, shared
<1>8. ASSUME NEW r \in Requests, LeastConnStart(r) PROVE Goal
    <2>1. scan'[r].miss = NoBackend /\ pc'[r] = "lc_scan"
        BY <1>8 DEF LeastConnStart, NoScan, Goto
    <2>2. ~Inserting(r, b)'
        BY <1>0, <2>1
    <2>3. \A q \in Requests \ {r} : ~Inserting(q, b)'
        BY <1>8 DEF LeastConnStart, Goto
    <2> QED
        BY <1>8, <2>2, <2>3 DEF LeastConnStart, shared
<1>9. ASSUME NEW r \in Requests, LeastConnRead(r) PROVE Goal
    <2>1. PICK d \in scan[r].todo :
             IF track[d] # 0 THEN LeastConnNote(r, d, Load(d))
                             ELSE scan' = [scan EXCEPT ![r].miss = d]
        BY <1>9 DEF LeastConnRead
    <2>2. scan'[r].miss # b
        <3>1. CASE track[d] # 0
            <4>1. scan'[r].miss = NoBackend
                BY <2>1, <3>1 DEF LeastConnNote
            <4> QED
                BY <1>0, <4>1
        <3>2. CASE track[d] = 0
            <4>1. scan[r] \in ScanType /\ scan' = [scan EXCEPT ![r].miss = d]
                BY <2>1, <3>2
            <4>2. scan'[r].miss = d
                BY <4>1 DEF ScanType
            <4> QED
                BY <3>2, <4>2
        <3> QED
            BY <3>1, <3>2
    <2>3. ~Inserting(r, b)'
        BY <1>9, <2>2 DEF LeastConnRead
    <2>4. \A q \in Requests \ {r} : scan'[q] = scan[q]
        BY <2>1 DEF LeastConnNote
    <2>5. \A q \in Requests \ {r} : ~Inserting(q, b)'
        BY <1>9, <2>4 DEF LeastConnRead
    <2> QED
        BY <1>9, <2>3, <2>5 DEF LeastConnRead, shared
<1>10. ASSUME NEW r \in Requests, LeastConnInsert(r) PROVE Goal
    <2>1. scan'[r].miss = NoBackend /\ \A q \in Requests \ {r} : scan'[q] = scan[q]
        BY <1>10 DEF LeastConnInsert, LeastConnNote
    <2>2. scan[r].miss # b
        BY <1>10 DEF LeastConnInsert
    <2>3. track'[b] = track[b]
        BY <1>10, <2>2 DEF LeastConnInsert
    <2>4. \A q \in Requests : ~Inserting(q, b)'
        BY <1>0, <1>10, <2>1 DEF LeastConnInsert
    <2> QED
        BY <2>3, <2>4
<1>11. ASSUME NEW r \in Requests, LeastConnPick(r) PROVE Goal
    BY <1>0, <1>11 DEF LeastConnPick, Goto, Candidate, AfterSelect, shared
<1>12. ASSUME NEW r \in Requests, CheckHealth(r) PROVE Goal
    BY <1>0, <1>12 DEF CheckHealth, Goto, shared
<1>13. ASSUME NEW r \in Requests, TakeParts(r) PROVE Goal
    BY <1>0, <1>13 DEF TakeParts, Goto, shared
<1>14. ASSUME NEW r \in Requests, TrackRead(r) PROVE Goal
    BY <1>0, <1>14 DEF TrackRead, Goto, shared
<1>15. ASSUME NEW r \in Requests, TrackInsert(r) PROVE Goal
    BY <1>0, <1>15 DEF TrackInsert, Goto
<1>16. ASSUME NEW r \in Requests, Connected(r) PROVE Goal
    BY <1>0, <1>16 DEF Connected, Goto, shared
<1>17. ASSUME NEW r \in Requests, ConnectFailed(r) PROVE Goal
    BY <1>0, <1>17 DEF ConnectFailed, Goto, shared
<1>18. ASSUME NEW r \in Requests, RecordFailure(r) PROVE Goal
    BY <1>0, <1>18 DEF RecordFailure, Goto
<1>19. ASSUME NEW r \in Requests, Retry(r) PROVE Goal
    BY <1>0, <1>19 DEF Retry, Goto, Release, shared
<1>20. ASSUME NEW r \in Requests, AnswerStatus(r) PROVE Goal
    BY <1>0, <1>20 DEF AnswerStatus, Goto, Release, shared
<1>21. ASSUME NEW r \in Requests, AnswerBody(r) PROVE Goal
    BY <1>0, <1>21 DEF AnswerBody, Goto, shared
<1>22. ASSUME NEW r \in Requests, BodyDropped(r) PROVE Goal
    BY <1>0, <1>22 DEF BodyDropped, Goto, Release, shared
<1>23. ASSUME NEW r \in Requests, Timeout(r) PROVE Goal
    BY <1>0, <1>23 DEF Timeout, Goto, Release, shared
<1>24. CASE Tick
    BY <1>24 DEF Tick
<1> QED
    BY <1>1, <1>2, <1>3, <1>4, <1>5, <1>6, <1>7, <1>8, <1>9, <1>10, <1>11, <1>12, <1>13, <1>14, <1>15, <1>16, <1>17, <1>18, <1>19, <1>20, <1>21, <1>22, <1>23, <1>24 DEF Next, Select, Handle

\* Once a backend has a counter and no task is in the middle of creating one,
\* its counter is never replaced, so later requests are all counted.
THEOREM CountersStay == Spec => WarmForever
<1>1. TypeOK /\ Located /\ [Next]_vars =>
         [\A b \in Backends : Warm(b) => Warm(b)' /\ track'[b] = track[b]]_vars
    BY WarmStep
<1> QED
    BY <1>1, TypeCorrect, PTL DEF Spec, WarmForever
=============================================================================
