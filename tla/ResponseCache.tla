--------------------------- MODULE ResponseCache ---------------------------
(***************************************************************************)
(* The HTTP cache of optional/cache.rs.  One cache is shared by the        *)
(* requests of all hosts: `vary_cache` has, for each cache key, the        *)
(* request headers its responses vary on, and `cache` the responses, under *)
(* the key together with the names and values of those headers.            *)
(*                                                                         *)
(* A request looks both up, one after the other; a miss goes to the rest   *)
(* of the module chain, whose response is collected frame by frame and     *)
(* stored in three steps.  Requests run on several threads, and may be     *)
(* dropped at every await.  Metrics are left out.                          *)
(***************************************************************************)
EXTENDS Naturals, Sequences, FiniteSets

CONSTANTS Tasks,       \* requests in progress
          Headers,     \* request headers
          Inputs,      \* the requests that may come: [key, head, auth, mode]
          Configs,     \* what may be configured for one: [vary, max_size]
          Responses,   \* what the rest of the chain may answer, see IsResponse
          Capacity,    \* the capacity of both caches
          DefaultAge,  \* DEFAULT_MAX_AGE
          MaxAge       \* bound: no response is fresh at this age

Star == "*"   \* in a Vary header
Modes == {"normal", "no_cache", "no_store"}
Controls == {"none", "no_store", "private", "public", "other"}
IsOption(s) == s \subseteq Nat /\ IsFiniteSet(s) /\ Cardinality(s) <= 1

\* A request as CacheDecision::from_request sees it: no_store is also the mode
\* of other methods than GET and HEAD and of upgrades.  head: the field lines of
\* each header, in order.
IsInput(i) == i.mode \in Modes /\ i.auth \in BOOLEAN /\ Headers \subseteq DOMAIN i.head

\* HeaderMap::get: the first field line of a header, if there is one.
FirstLine(i, h) == IF i.head[h] = <<>> THEN <<>> ELSE <<Head(i.head[h])>>

\* What extract_cache_config yields; no max_size: no limit.
IsConfig(c) == c.vary \subseteq Headers /\ IsOption(c.max_size)

\* cc: the Cache-Control header (none: no valid one); frames: the sizes of the
\* frames of the body; broken: the body fails after them.
IsResponse(w) ==
    /\ w.vary \subseteq Headers \cup {Star}
    /\ w.cc \in Controls
    /\ IsOption(w.s_max_age) /\ IsOption(w.max_age)
    /\ w.frames \in Seq(Nat)
    /\ w.broken \in BOOLEAN

\* The lifetime of a stored response.
Lifetime(w) ==
    IF w.s_max_age # {} THEN CHOOSE a \in w.s_max_age : TRUE
    ELSE IF w.max_age # {} THEN CHOOSE a \in w.max_age : TRUE
    ELSE DefaultAge

ASSUME CacheAssumption ==
    /\ \A i \in Inputs : IsInput(i)
    /\ \A c \in Configs : IsConfig(c)
    /\ \A w \in Responses : IsResponse(w) /\ Lifetime(w) < MaxAge
    /\ {} \notin {Inputs, Configs, Responses}
    /\ Capacity \in Nat \ {0}
    /\ {DefaultAge, MaxAge} \subseteq Nat

VARIABLES
    vary_cache,  \* set of [key, names]
    cache,       \* set of stored responses: [by, vary, resp, len, age]
    pc,          \* where each task is
    req,         \* its request
    cfg,         \* its configuration
    names,       \* processed_vary: read from vary_cache, or about to be stored
    resp,        \* the response of the rest of the chain
    buf,         \* frames of it that have been collected
    out          \* what the client gets: [hit, frames, from]

vars == <<vary_cache, cache, pc, req, cfg, names, resp, buf, out>>
locals == <<req, cfg, names, resp, buf>>

AnInput == CHOOSE i \in Inputs : TRUE
AConfig == CHOOSE c \in Configs : TRUE
AResponse == CHOOSE w \in Responses : TRUE
Miss(frames) == [hit |-> FALSE, frames |-> frames, from |-> {}]

Init ==
    /\ vary_cache = {}
    /\ cache = {}
    /\ pc = [t \in Tasks |-> "idle"]
    /\ req = [t \in Tasks |-> AnInput]
    /\ cfg = [t \in Tasks |-> AConfig]
    /\ names = [t \in Tasks |-> {}]
    /\ resp = [t \in Tasks |-> AResponse]
    /\ buf = [t \in Tasks |-> 0]
    /\ out = [t \in Tasks |-> Miss({})]

Goto(t, l) == pc' = [pc EXCEPT ![t] = l]

\* The handlers of a request are dropped, and another request may come.
End(t) ==
    /\ Goto(t, "idle")
    /\ req' = [req EXCEPT ![t] = AnInput]
    /\ cfg' = [cfg EXCEPT ![t] = AConfig]
    /\ names' = [names EXCEPT ![t] = {}]
    /\ resp' = [resp EXCEPT ![t] = AResponse]
    /\ buf' = [buf EXCEPT ![t] = 0]
    /\ out' = [out EXCEPT ![t] = Miss({})]

\* Mutant: the values of the headers are not part of the key.
VaryKeyNames(i, ns) == [key |-> i.key, names |-> ns, values |-> {}]

\* VaryKeyBuilder::build.
VaryKey(i, ns) == [key |-> i.key, names |-> ns, values |-> {<<h, FirstLine(i, h)>> : h \in ns}]

\* The key of a stored response; a response is kept with the request it was
\* made for and the headers it varies on.
Name(e) == VaryKey(e.by, e.vary)

-----------------------------------------------------------------------------
(***************************************************************************)
(* request_handler: is the response in the cache?                          *)
(***************************************************************************)

\* A request that is not to be stored passes; no-cache skips the lookup.
Arrive(t) ==
    /\ pc[t] = "idle"
    /\ \E i \in Inputs, c \in Configs :
          /\ req' = [req EXCEPT ![t] = i]
          /\ cfg' = [cfg EXCEPT ![t] = c]
          /\ Goto(t, IF i.mode = "normal" THEN "get_vary" ELSE "origin")
    /\ UNCHANGED <<vary_cache, cache, names, resp, buf, out>>

GetVary(t) ==
    /\ pc[t] = "get_vary"
    /\ \/ \E v \in vary_cache :
             /\ v.key = req[t].key
             /\ names' = [names EXCEPT ![t] = v.names]
             /\ Goto(t, "get_entry")
       \/ /\ \A v \in vary_cache : v.key # req[t].key
          /\ Goto(t, "origin")
          /\ UNCHANGED names
    /\ UNCHANGED <<vary_cache, cache, req, cfg, resp, buf, out>>

\* Mutant: max-age is taken before s-maxage.
FreshPrivate(e) ==
    e.age <= IF e.resp.max_age # {} THEN CHOOSE a \in e.resp.max_age : TRUE ELSE Lifetime(e.resp)

Fresh(e) == e.age <= Lifetime(e.resp)

\* The stored response, if it is there and fresh; the request goes on otherwise.
GetEntry(t) ==
    /\ pc[t] = "get_entry"
    /\ LET found == {e \in cache : Name(e) = VaryKey(req[t], names[t]) /\ Fresh(e)} IN
       \/ \E e \in found :
             /\ out' = [out EXCEPT ![t] = [hit |-> TRUE, frames |-> 1..e.len, from |-> {e}]]
             /\ Goto(t, "done")
       \/ /\ found = {}
          /\ Goto(t, "origin")
          /\ UNCHANGED out
    /\ names' = [names EXCEPT ![t] = {}]
    /\ UNCHANGED <<vary_cache, cache, req, cfg, resp, buf>>

-----------------------------------------------------------------------------
(***************************************************************************)
(* response_modifying_handler: pass the response on, and store it.         *)
(***************************************************************************)

\* Mutant: responses to authorized requests are stored like others.
should_cache_response_auth(w, i) ==
    w.cc = "public" \/ (w.cc = "other" /\ (w.max_age # {} \/ w.s_max_age # {}))

should_cache_response(w, i) ==
    \/ w.cc = "public"
    \/ w.cc = "other" /\ ~i.auth /\ (w.max_age # {} \/ w.s_max_age # {})

\* The rest of the chain answers; the body is only touched if it is to be stored.
Respond(t) ==
    /\ pc[t] = "origin"
    /\ \E w \in Responses :
          IF req[t].mode # "no_store" /\ should_cache_response(w, req[t])
          THEN /\ resp' = [resp EXCEPT ![t] = w]
               /\ Goto(t, "collect")
               /\ UNCHANGED out
          ELSE /\ out' = [out EXCEPT ![t] = Miss(1..Len(w.frames))]
               /\ resp' = [resp EXCEPT ![t] = w]
               /\ Goto(t, "done")
    /\ UNCHANGED <<vary_cache, cache, req, cfg, names, buf>>

\* Size of the first n frames of the response.
Collected(t, n) ==
    LET size[k \in 0..n] == IF k = 0 THEN 0 ELSE size[k - 1] + resp[t].frames[k] IN size[n]

Exceeds(t) == \E limit \in cfg[t].max_size : Collected(t, buf[t] + 1) > limit

\* collect_body: the next frame fits into the buffer.
CollectFrame(t) ==
    /\ pc[t] = "collect" /\ buf[t] < Len(resp[t].frames) /\ ~Exceeds(t)
    /\ buf' = [buf EXCEPT ![t] = @ + 1]
    /\ UNCHANGED <<vary_cache, cache, pc, req, cfg, names, resp, out>>

\* Mutant: what was collected is stored.
CollectTooLargeStored(t) ==
    /\ pc[t] = "collect" /\ buf[t] < Len(resp[t].frames) /\ Exceeds(t)
    /\ names' = [names EXCEPT ![t] = cfg[t].vary \cup resp[t].vary]
    /\ Goto(t, "store_vary")
    /\ UNCHANGED <<vary_cache, cache, req, cfg, resp, buf, out>>

\* collect_body returns false; the buffer is sent, and then the rest of the
\* body, from which the frame that did not fit has been taken.
CollectTooLarge(t) ==
    /\ pc[t] = "collect" /\ buf[t] < Len(resp[t].frames) /\ Exceeds(t)
    /\ out' = [out EXCEPT ![t] = Miss((1..buf[t]) \cup ((buf[t] + 2)..Len(resp[t].frames)))]
    /\ Goto(t, "done")
    /\ UNCHANGED <<vary_cache, cache, locals>>

\* The body fails while it is collected, and the handler with it.
CollectFails(t) ==
    /\ pc[t] = "collect" /\ buf[t] = Len(resp[t].frames) /\ resp[t].broken
    /\ End(t)
    /\ UNCHANGED <<vary_cache, cache>>

\* The end of the body: which headers does the response vary on?
CollectEnds(t) ==
    /\ pc[t] = "collect" /\ buf[t] = Len(resp[t].frames) /\ ~resp[t].broken
    /\ LET processed_vary == cfg[t].vary \cup resp[t].vary IN
          /\ names' = [names EXCEPT ![t] = processed_vary]
          /\ IF Star \in processed_vary
             THEN out' = [out EXCEPT ![t] = Miss(1..buf[t])] /\ Goto(t, "done")
             ELSE UNCHANGED out /\ Goto(t, "store_vary")
    /\ UNCHANGED <<vary_cache, cache, req, cfg, resp, buf>>

\* quick_cache: a cache over its capacity loses some entry.
Evicted(s) == IF Cardinality(s) <= Capacity THEN {s} ELSE {s \ {x} : x \in s}

StoreVary(t) ==
    /\ pc[t] = "store_vary"
    /\ vary_cache' \in Evicted({v \in vary_cache : v.key # req[t].key}
                                 \cup {[key |-> req[t].key, names |-> names[t]]})
    /\ Goto(t, "cleanup")
    /\ UNCHANGED <<cache, locals, out>>

\* cleanup_expired_entries.
Cleanup(t) ==
    /\ pc[t] = "cleanup"
    /\ cache' = {e \in cache : Fresh(e)}
    /\ Goto(t, "insert")
    /\ UNCHANGED <<vary_cache, locals, out>>

Entry(t) ==
    [by |-> req[t], vary |-> names[t], resp |-> resp[t], len |-> buf[t], age |-> 0]

\* The response goes into the cache and to the client.
Insert(t) ==
    /\ pc[t] = "insert"
    /\ cache' \in Evicted({e \in cache : Name(e) # Name(Entry(t))} \cup {Entry(t)})
    /\ out' = [out EXCEPT ![t] = Miss(1..buf[t])]
    /\ Goto(t, "done")
    /\ UNCHANGED <<vary_cache, locals>>

-----------------------------------------------------------------------------

Finish(t) ==
    /\ pc[t] = "done"
    /\ End(t)
    /\ UNCHANGED <<vary_cache, cache>>

\* The request times out, or the client goes away, while the task awaits.
Drop(t) ==
    /\ pc[t] \in {"origin", "collect"}
    /\ End(t)
    /\ UNCHANGED <<vary_cache, cache>>

Tick ==
    /\ \E e \in cache : e.age < MaxAge
    /\ cache' = {[e EXCEPT !.age = IF @ < MaxAge THEN @ + 1 ELSE @] : e \in cache}
    /\ UNCHANGED <<vary_cache, pc, locals, out>>

Next ==
    \/ \E t \in Tasks :
          \/ Arrive(t) \/ GetVary(t) \/ GetEntry(t) \/ Respond(t)
          \/ CollectFrame(t) \/ CollectTooLarge(t) \/ CollectFails(t) \/ CollectEnds(t)
          \/ StoreVary(t) \/ Cleanup(t) \/ Insert(t)
          \/ Finish(t) \/ Drop(t)
    \/ Tick

Spec == Init /\ [][Next]_vars

-----------------------------------------------------------------------------
(***************************************************************************)
(* Properties.                                                             *)
(***************************************************************************)
Labels == {"idle", "get_vary", "get_entry", "origin", "collect", "store_vary", "cleanup",
           "insert", "done"}

Hits == {t \in Tasks : out[t].hit}

\* A response from the cache was made for a request with the same key and the
\* same values (first field lines) of all headers it varies on, by its own Vary
\* header or by the configuration it was stored under, whichever other responses
\* have been stored for the key since.  (The documentation speaks of headers and
\* not of their first lines: requests that differ in a further line share an
\* entry.)
HitFits ==
    \A t \in Hits : \A e \in out[t].from :
        /\ e.by.key = req[t].key
        /\ e.vary \subseteq Headers /\ e.resp.vary \subseteq e.vary
        /\ \A h \in e.vary : FirstLine(e.by, h) = FirstLine(req[t], h)

\* No response is served past the lifetime that applies to a shared cache.
HitFresh ==
    \A t \in Hits : \A e \in out[t].from :
        /\ \A a \in e.resp.s_max_age : e.age <= a
        /\ e.resp.s_max_age = {} => \A a \in e.resp.max_age : e.age <= a

\* Nobody is served from the cache what must not be shared: a private or
\* no-store response, the answer to a request that asked for no-store, or, if
\* it is not public, the answer to an authorized request.
HitShareable ==
    \A t \in Hits : \A e \in out[t].from :
        /\ e.resp.cc \notin {"none", "no_store", "private"}
        /\ e.by.mode # "no_store"
        /\ e.by.auth => e.resp.cc = "public"

\* A response from the cache is complete, whatever became of the request it was
\* collected for.
HitComplete ==
    \A t \in Hits : \A e \in out[t].from :
        out[t].frames = 1..Len(e.resp.frames) /\ ~e.resp.broken

\* A response that does not come from the cache reaches the client as the rest
\* of the chain has made it, stored or not.
BodyPassedOn ==
    \A t \in Tasks : pc[t] = "done" /\ ~out[t].hit => out[t].frames = 1..Len(resp[t].frames)
=============================================================================
