------------------------ MODULE ResponseCacheProofs ------------------------
(***************************************************************************)
(* What is served from the cache, for any number of tasks, requests,       *)
(* configurations and responses.                                           *)
(***************************************************************************)
EXTENDS ResponseCache, FiniteSetTheorems, TLAPS

Entries == [by: Inputs, vary: SUBSET Headers, resp: Responses, len: Nat, age: Nat]

\* What has to hold of a stored response so that it may be served at all.
Good(e) ==
    /\ e \in Entries
    /\ e.by.mode # "no_store" /\ should_cache_response(e.resp, e.by)
    /\ e.resp.vary \subseteq e.vary
    /\ e.len = Len(e.resp.frames) /\ ~e.resp.broken

\* The locals have their types.
Locals ==
    /\ pc \in [Tasks -> Labels]
    /\ req \in [Tasks -> Inputs]
    /\ cfg \in [Tasks -> Configs]
    /\ resp \in [Tasks -> Responses]
    /\ names \in [Tasks -> SUBSET (Headers \cup {Star})]
    /\ buf \in [Tasks -> Nat]
    /\ DOMAIN out = Tasks

Storing == {"store_vary", "cleanup", "insert"}

\* A task that collects or stores a response may do so, and stores all of it.
Collecting(t) ==
    /\ pc[t] \in {"collect"} \cup Storing =>
          req[t].mode # "no_store" /\ should_cache_response(resp[t], req[t])
    /\ pc[t] \in Storing =>
          /\ names[t] = cfg[t].vary \cup resp[t].vary /\ Star \notin names[t]
          /\ buf[t] = Len(resp[t].frames) /\ ~resp[t].broken

\* What a task serves from the cache was found under its own key, and fresh.
Serving(t) ==
    out[t].hit =>
        /\ pc[t] = "done"
        /\ \A e \in out[t].from :
              /\ Good(e) /\ Fresh(e)
              /\ Name(e) = VaryKey(req[t], e.vary)
              /\ out[t].frames = 1..e.len

\* The caches only hold what may be served.
AllGood ==
    /\ \A e \in cache : Good(e)
    /\ \A v \in vary_cache : v.names \subseteq Headers

IInv == Locals /\ (\A t \in Tasks : Collecting(t) /\ Serving(t)) /\ AllGood

-----------------------------------------------------------------------------
\* Two requests have the same key for headers only if these headers are the
\* same and have the same values (first field lines) in both.
LEMMA VaryKeyInjective ==
    ASSUME NEW i \in Inputs, NEW j \in Inputs, NEW ns, NEW ms,
           VaryKey(i, ns) = VaryKey(j, ms)
    PROVE  ns = ms /\ i.key = j.key /\ \A h \in ns : FirstLine(i, h) = FirstLine(j, h)
<1>1. ns = ms /\ i.key = j.key
    BY DEF VaryKey
<1>2. {<<h, FirstLine(i, h)>> : h \in ns} = {<<h, FirstLine(j, h)>> : h \in ms}
    BY DEF VaryKey
<1>3. ASSUME NEW h \in ns PROVE FirstLine(i, h) = FirstLine(j, h)
    <2>1. PICK g \in ms : <<h, FirstLine(i, h)>> = <<g, FirstLine(j, g)>>
        BY <1>2, <1>3
    <2> QED
        BY <2>1
<1> QED
    BY <1>1, <1>3

\* A task starts from a request, a configuration and a response.
LEMMA Defaults ==
    /\ AnInput \in Inputs /\ AConfig \in Configs /\ AResponse \in Responses
    /\ \A w \in Responses : w.vary \subseteq Headers \cup {Star}
    /\ \A c \in Configs : c.vary \subseteq Headers
BY CacheAssumption DEF CacheAssumption, AnInput, AConfig, AResponse, IsConfig, IsResponse

\* A cache over its capacity loses entries and gets no others.
LEMMA EvictedSubset == \A s : \A r \in Evicted(s) : r \subseteq s
BY DEF Evicted

LEMMA InitInv == Init => IInv
<1> SUFFICES ASSUME Init PROVE IInv
    OBVIOUS
<1>1. Locals
    BY Defaults DEF Init, Locals, Labels
<1>2. \A t \in Tasks : Collecting(t) /\ Serving(t)
    BY DEF Init, Collecting, Serving, Storing, Miss
<1>3. AllGood
    BY DEF Init, AllGood
<1> QED
    BY <1>1, <1>2, <1>3 DEF IInv

\* The step does not touch the locals of u.
Untouched(u) ==
    /\ pc'[u] = pc[u] /\ req'[u] = req[u] /\ cfg'[u] = cfg[u] /\ names'[u] = names[u]
    /\ resp'[u] = resp[u] /\ buf'[u] = buf[u] /\ out'[u] = out[u]

\* A step of t has to keep the invariant for t and for the cache only.
LEMMA StepOfOne ==
    ASSUME IInv, NEW t \in Tasks, \A u \in Tasks \ {t} : Untouched(u),
           Locals', Collecting(t)', Serving(t)', AllGood'
    PROVE  IInv'
<1>1. ASSUME NEW u \in Tasks, u # t PROVE Collecting(u)' /\ Serving(u)'
    BY <1>1 DEF Untouched, IInv, Collecting, Serving
<1> QED
    BY <1>1 DEF IInv

\* A task that ends leaves the invariant alone.
LEMMA EndInv ==
    ASSUME IInv, NEW t \in Tasks, End(t), UNCHANGED <<vary_cache, cache>>
    PROVE  IInv'
<1>1. Locals'
    BY Defaults DEF IInv, Locals, End, Goto, Labels
<1>2. Collecting(t)' /\ Serving(t)'
    BY DEF IInv, Locals, End, Goto, Collecting, Serving, Storing, Miss
<1>3. AllGood'
    BY DEF IInv, AllGood
<1>4. \A u \in Tasks \ {t} : Untouched(u)
    BY DEF IInv, Locals, End, Goto, Untouched
<1> QED
    BY <1>1, <1>2, <1>3, <1>4, StepOfOne

\* Every step keeps the invariant.
LEMMA StepInv == IInv /\ [Next]_vars => IInv'
<1> SUFFICES ASSUME IInv, [Next]_vars PROVE IInv'
    OBVIOUS
<1> USE DEF IInv, locals
<1>1. ASSUME NEW t \in Tasks, Arrive(t) PROVE IInv'
    <2>1. Locals'
        BY <1>1, Defaults DEF Arrive, Locals, Goto, Labels
    <2>2. Collecting(t)'
        BY <1>1 DEF Arrive, Locals, Collecting, Storing, Goto
    <2>3. Serving(t)'
        BY <1>1 DEF Arrive, Locals, Serving, Goto, Miss
    <2>4. AllGood'
        BY <1>1 DEF Arrive, AllGood
    <2>5. \A u \in Tasks \ {t} : Untouched(u)
        BY <1>1 DEF Arrive, Locals, Goto, Untouched
    <2> QED
        BY <2>1, <2>2, <2>3, <2>4, <2>5, StepOfOne
<1>2. ASSUME NEW t \in Tasks, GetVary(t) PROVE IInv'
    <2>1. Locals'
        BY <1>2, Defaults DEF GetVary, Locals, Goto, Labels, AllGood
    <2>2. Collecting(t)'
        BY <1>2 DEF GetVary, Locals, Collecting, Storing, Goto
    <2>3. Serving(t)'
        BY <1>2 DEF GetVary, Locals, Serving, Goto, Miss
    <2>4. AllGood'
        BY <1>2 DEF GetVary, AllGood
    <2>5. \A u \in Tasks \ {t} : Untouched(u)
        BY <1>2 DEF GetVary, Locals, Goto, Untouched
    <2> QED
        BY <2>1, <2>2, <2>3, <2>4, <2>5, StepOfOne
<1>3. ASSUME NEW t \in Tasks, GetEntry(t) PROVE IInv'
    <2>1. Locals'
        BY <1>3, Defaults DEF GetEntry, Locals, Goto, Labels
    <2>2. Collecting(t)'
        BY <1>3 DEF GetEntry, Locals, Collecting, Storing, Goto
    <2>3. Serving(t)'
        <3>1. CASE out' = out
            BY <1>3, <3>1 DEF GetEntry, Locals, Serving, Goto
        <3>2. ASSUME NEW e \in cache, Name(e) = VaryKey(req[t], names[t]), Fresh(e),
                     out' = [out EXCEPT ![t] = [hit |-> TRUE, frames |-> 1..e.len, from |-> {e}]]
              PROVE  Serving(t)'
            <4>1. Good(e) /\ req[t] \in Inputs
                BY DEF AllGood, Locals
            <4>2. e.vary = names[t]
                BY <3>2, <4>1, VaryKeyInjective DEF Good, Entries, Name
            <4>3. pc'[t] = "done" /\ req' = req
                BY <1>3, <3>2 DEF GetEntry, Locals, Goto
            <4>4. out'[t] = [hit |-> TRUE, frames |-> 1..e.len, from |-> {e}]
                BY <3>2 DEF Locals
            <4> QED
                BY <3>2, <4>1, <4>2, <4>3, <4>4 DEF Serving
        <3> QED
            BY <1>3, <3>1, <3>2 DEF GetEntry
    <2>4. AllGood'
        BY <1>3 DEF GetEntry, AllGood
    <2>5. \A u \in Tasks \ {t} : Untouched(u)
        BY <1>3 DEF GetEntry, Locals, Goto, Untouched
    <2> QED
        BY <2>1, <2>2, <2>3, <2>4, <2>5, StepOfOne
<1>4. ASSUME NEW t \in Tasks, Respond(t) PROVE IInv'
    <2>1. Locals'
        BY <1>4, Defaults DEF Respond, Locals, Goto, Labels
    <2>2. Collecting(t)'
        BY <1>4 DEF Respond, Locals, Collecting, Storing, Goto
    <2>3. Serving(t)'
        BY <1>4 DEF Respond, Locals, Serving, Goto, Miss
    <2>4. AllGood'
        BY <1>4 DEF Respond, AllGood
    <2>5. \A u \in Tasks \ {t} : Untouched(u)
        BY <1>4 DEF Respond, Locals, Goto, Untouched
    <2> QED
        BY <2>1, <2>2, <2>3, <2>4, <2>5, StepOfOne
<1>5. ASSUME NEW t \in Tasks, CollectFrame(t) PROVE IInv'
    <2>1. Locals'
        BY <1>5, Defaults DEF CollectFrame, Locals, Goto, Labels
    <2>2. Collecting(t)'
        BY <1>5 DEF CollectFrame, Locals, Collecting, Storing, Goto
    <2>3. Serving(t)'
        BY <1>5 DEF CollectFrame, Locals, Serving, Goto, Miss
    <2>4. AllGood'
        BY <1>5 DEF CollectFrame, AllGood
    <2>5. \A u \in Tasks \ {t} : Untouched(u)
        BY <1>5 DEF CollectFrame, Locals, Goto, Untouched
    <2> QED
        BY <2>1, <2>2, <2>3, <2>4, <2>5, StepOfOne
<1>6. ASSUME NEW t \in Tasks, CollectTooLarge(t) PROVE IInv'
    <2>1. Locals'
        BY <1>6, Defaults DEF CollectTooLarge, Locals, Goto, Labels
    <2>2. Collecting(t)'
        BY <1>6 DEF CollectTooLarge, Locals, Collecting, Storing, Goto
    <2>3. Serving(t)'
        BY <1>6 DEF CollectTooLarge, Locals, Serving, Goto, Miss
    <2>4. AllGood'
        BY <1>6 DEF CollectTooLarge, AllGood
    <2>5. \A u \in Tasks \ {t} : Untouched(u)
        BY <1>6 DEF CollectTooLarge, Locals, Goto, Untouched
    <2> QED
        BY <2>1, <2>2, <2>3, <2>4, <2>5, StepOfOne
<1>7. ASSUME NEW t \in Tasks, CollectEnds(t) PROVE IInv'
    <2>1. Locals'
        BY <1>7, Defaults DEF CollectEnds, Locals, Goto, Labels
    <2>2. Collecting(t)'
        BY <1>7 DEF CollectEnds, Locals, Collecting, Storing, Goto
    <2>3. Serving(t)'
        BY <1>7 DEF CollectEnds, Locals, Serving, Goto, Miss
    <2>4. AllGood'
        BY <1>7 DEF CollectEnds, AllGood
    <2>5. \A u \in Tasks \ {t} : Untouched(u)
        BY <1>7 DEF CollectEnds, Locals, Goto, Untouched
    <2> QED
        BY <2>1, <2>2, <2>3, <2>4, <2>5, StepOfOne
<1>8. ASSUME NEW t \in Tasks, StoreVary(t) PROVE IInv'
    <2>1. Locals'
        BY <1>8, Defaults DEF StoreVary, Locals, Goto, Labels
    <2>2. Collecting(t)'
        BY <1>8 DEF StoreVary, Locals, Collecting, Storing, Goto
    <2>3. Serving(t)'
        BY <1>8 DEF StoreVary, Locals, Serving, Goto, Miss
    <2>4. AllGood'
        <3>1. names[t] \subseteq Headers
            BY <1>8 DEF StoreVary, Locals, Collecting, Storing
        <3>2. vary_cache' \subseteq vary_cache \cup {[key |-> req[t].key, names |-> names[t]]}
            BY <1>8, EvictedSubset DEF StoreVary
        <3> QED
            BY <1>8, <3>1, <3>2 DEF StoreVary, AllGood
    <2>5. \A u \in Tasks \ {t} : Untouched(u)
        BY <1>8 DEF StoreVary, Locals, Goto, Untouched
    <2> QED
        BY <2>1, <2>2, <2>3, <2>4, <2>5, StepOfOne
<1>9. ASSUME NEW t \in Tasks, Cleanup(t) PROVE IInv'
    <2>1. Locals'
        BY <1>9, Defaults DEF Cleanup, Locals, Goto, Labels
    <2>2. Collecting(t)'
        BY <1>9 DEF Cleanup, Locals, Collecting, Storing, Goto
    <2>3. Serving(t)'
        BY <1>9 DEF Cleanup, Locals, Serving, Goto, Miss
    <2>4. AllGood'
        BY <1>9 DEF Cleanup, AllGood
    <2>5. \A u \in Tasks \ {t} : Untouched(u)
        BY <1>9 DEF Cleanup, Locals, Goto, Untouched
    <2> QED
        BY <2>1, <2>2, <2>3, <2>4, <2>5, StepOfOne
<1>10. ASSUME NEW t \in Tasks, Insert(t) PROVE IInv'
    <2>1. Locals'
        BY <1>10, Defaults DEF Insert, Locals, Goto, Labels
    <2>2. Collecting(t)'
        BY <1>10 DEF Insert, Locals, Collecting, Storing, Goto
    <2>3. Serving(t)'
        BY <1>10 DEF Insert, Locals, Serving, Goto, Miss
    <2>4. AllGood'
        <3>1. cfg[t].vary \cup resp[t].vary = names[t] /\ names[t] \subseteq Headers
            BY <1>10 DEF Insert, Locals, Collecting, Storing
        <3>2. Good(Entry(t))
            BY <1>10, <3>1 DEF Insert, Entry, Good, Entries, Locals, Collecting, Storing
        <3>3. cache' \subseteq cache \cup {Entry(t)}
            BY <1>10, EvictedSubset DEF Insert
        <3> QED
            BY <1>10, <3>2, <3>3 DEF Insert, AllGood
    <2>5. \A u \in Tasks \ {t} : Untouched(u)
        BY <1>10 DEF Insert, Locals, Goto, Untouched
    <2> QED
        BY <2>1, <2>2, <2>3, <2>4, <2>5, StepOfOne
<1>11. ASSUME NEW t \in Tasks, CollectFails(t) \/ Finish(t) \/ Drop(t) PROVE IInv'
    BY <1>11, EndInv DEF CollectFails, Finish, Drop
<1>12. CASE Tick
    <2>1. AllGood'
        BY <1>12 DEF Tick, AllGood, Good, Entries
    <2> QED
        BY <1>12, <2>1 DEF Tick, Locals, Collecting, Serving
<1>13. CASE UNCHANGED vars
    BY <1>13 DEF vars, Locals, Collecting, Serving, AllGood
<1> QED
    BY <1>1, <1>2, <1>3, <1>4, <1>5, <1>6, <1>7, <1>8, <1>9, <1>10, <1>11, <1>12, <1>13 DEF Next

-----------------------------------------------------------------------------
LEMMA Invariant == Spec => []IInv
BY InitInv, StepInv, PTL DEF Spec

\* An optional value has one element at most.
LEMMA OptionUnique ==
    ASSUME NEW s, IsOption(s), NEW a \in s, NEW b \in s
    PROVE  a = b
<1> SUFFICES ASSUME a # b PROVE FALSE
    OBVIOUS
<1>1. IsFiniteSet({a}) /\ Cardinality({a}) = 1
    BY FS_Singleton
<1>2. IsFiniteSet({a} \cup {b}) /\ Cardinality({a} \cup {b}) = 2
    BY <1>1, FS_AddElement
<1>3. Cardinality({a} \cup {b}) <= Cardinality(s)
    BY FS_Subset DEF IsOption
<1> QED
    BY <1>2, <1>3, FS_CardinalityType DEF IsOption

\* However stores and lookups interleave, a response from the cache was made
\* for a request that agrees with the one it is served to on all headers it
\* varies on.
THEOREM HitsFit == Spec => []HitFits
<1>1. IInv => HitFits
    <2> SUFFICES ASSUME IInv, NEW t \in Hits, NEW e \in out[t].from
                 PROVE  /\ e.by.key = req[t].key
                        /\ e.vary \subseteq Headers /\ e.resp.vary \subseteq e.vary
                        /\ \A h \in e.vary : FirstLine(e.by, h) = FirstLine(req[t], h)
        BY DEF HitFits
    <2>1. Good(e) /\ VaryKey(e.by, e.vary) = VaryKey(req[t], e.vary) /\ req[t] \in Inputs
        BY DEF IInv, Serving, Hits, Locals, Name
    <2> QED
        BY <2>1, VaryKeyInjective DEF Good, Entries
<1> QED
    BY <1>1, Invariant, PTL

\* No stored response is served past its lifetime.
THEOREM HitsFresh == Spec => []HitFresh
<1>1. IInv => HitFresh
    <2> SUFFICES ASSUME IInv, NEW t \in Hits, NEW e \in out[t].from
                 PROVE  /\ \A a \in e.resp.s_max_age : e.age <= a
                        /\ e.resp.s_max_age = {} => \A a \in e.resp.max_age : e.age <= a
        BY DEF HitFresh
    <2>1. Fresh(e) /\ e.resp \in Responses
        BY DEF IInv, Serving, Hits, Good, Entries
    <2>2. IsOption(e.resp.s_max_age) /\ IsOption(e.resp.max_age)
        BY <2>1, CacheAssumption DEF CacheAssumption, IsResponse
    <2>3. ASSUME NEW a \in e.resp.s_max_age PROVE e.age <= a
        <3>1. Lifetime(e.resp) \in e.resp.s_max_age
            BY <2>3 DEF Lifetime
        <3> QED
            BY <2>1, <2>2, <3>1, OptionUnique DEF Fresh
    <2>4. ASSUME e.resp.s_max_age = {}, NEW a \in e.resp.max_age PROVE e.age <= a
        <3>1. Lifetime(e.resp) \in e.resp.max_age
            BY <2>4 DEF Lifetime
        <3> QED
            BY <2>1, <2>2, <3>1, OptionUnique DEF Fresh
    <2> QED
        BY <2>3, <2>4
<1> QED
    BY <1>1, Invariant, PTL

\* Private and no-store responses, answers to no-store requests and non-public
\* answers to authorized requests are never served to somebody else.
THEOREM HitsShareable == Spec => []HitShareable
<1>1. IInv => HitShareable
    BY DEF IInv, HitShareable, Hits, Serving, Good, should_cache_response
<1> QED
    BY <1>1, Invariant, PTL

\* A response from the cache is complete, although it was collected by a task
\* that might have failed, been dropped or given up on the way.
THEOREM HitsComplete == Spec => []HitComplete
<1>1. IInv => HitComplete
    BY DEF IInv, HitComplete, Hits, Serving, Good
<1> QED
    BY <1>1, Invariant, PTL
=============================================================================
