----------------------------- MODULE FileServing -----------------------------
(***************************************************************************)
(* From the path of a request to a file: the static file module            *)
(* (static.rs) and the modules that look for a script (cgi.rs, fcgi.rs) or *)
(* pass every request on (scgi.rs, fcgi.rs with "pass").                   *)
(*                                                                         *)
(* Requests run at the same time and share the caches of resolved paths of *)
(* their module, whose entries live for Ttl; the files change meanwhile.   *)
(* Every look at the file system is a step of its own.  A client keeps     *)
(* what it got, and asks whether it is still current.                      *)
(*                                                                         *)
(* A path is a sequence of names; a full path begins with a root.  Files   *)
(* are replaced as a whole; they have a size and a time of modification,   *)
(* which follows the clock, and may be links to what is elsewhere.         *)
(***************************************************************************)
EXTENDS Integers, Sequences, FiniteSets, SequencesExt, TLC

CONSTANTS
    Sites,        \* server configurations, see IsSite
    Scenes,       \* requests, the file system and what changes in it, see IsScene
    Indexes,      \* the names of index files, in order
    Scripts,      \* names with the extension of a script
    CgiBin,       \* "cgi-bin"
    Packed,       \* the name of the compressed form of a file, for some names
    Sizes,        \* sizes of files that are written
    Slots,        \* requests at the same time
    Ttl,          \* the life of a cached path, or of the answer for one
    Second,       \* how long a second is, in steps of the clock
    Width,        \* u64
    MaxTime, MaxEdits,   \* bounds; that of requests is in the scene
    None

Modules == {"static", "cgi", "fcgi", "scgi", "pass"}

\* host stands for the hostname and the address of the configuration.
IsSite(s) ==
    /\ s.module \in Modules /\ s.root \in STRING
    /\ {s.check, s.listing, s.precompressed} \subseteq BOOLEAN

\* Numbers of bytes; a range has a first byte, a last one or both.
Numbers == 0..(Width - 1)
IsRange(x) == x[1] \in Numbers \cup {None} /\ x[2] \in Numbers \cup {None} /\ ~(x[1] = None /\ x[2] = None)

IsRequest(q) ==
    /\ q.site \in Sites /\ q.path \in Seq(STRING)
    /\ q.method \in {"GET", "HEAD", "OPTIONS", "PUT", "malformed"}
    /\ q.cond \in {"none", "If-None-Match", "If-Match"}
    /\ q.range = None \/ IsRange(q.range)

\* The ways to what is in a directory are directories.
ProperPrefixes(p) == {SubSeq(p, 1, n) : n \in 1..(Len(p) - 1)}
IsTree(t) ==
    \A p \in DOMAIN t :
        /\ p \in Seq(STRING) /\ p # <<>> /\ t[p].type \in {"file", "dir", "other", "denied"}
        /\ t[p].away \in BOOLEAN /\ (t[p].away => t[p].type = "file")
        /\ \A q \in ProperPrefixes(p) : q \in DOMAIN t /\ t[q].type = "dir"

\* What clients ask for, what there is at the beginning, in its first version,
\* the full paths of files that are written and removed, and whether what is
\* written may be a link to another place.
IsScene(x) ==
    /\ x.requestsAtMost \in Nat
    /\ \A q \in x.requests : IsRequest(q)
    /\ IsTree(x.tree)
    /\ \A p \in DOMAIN x.tree : x.tree[p].type = "file" => x.tree[p].version = 0 /\ x.tree[p].size \in Numbers
    /\ x.editable \subseteq Seq(STRING)
    /\ \A p \in DOMAIN x.tree : x.tree[p].modified \in Int /\ x.tree[p].modified <= 0
    /\ \A p \in x.editable : p \in DOMAIN x.tree => x.tree[p].type = "file"
    /\ x.links \subseteq BOOLEAN

ASSUME FileServingAssumption ==
    /\ \A s \in Sites : IsSite(s)
    /\ \A x \in Scenes : IsScene(x)
    /\ Indexes \in Seq(STRING)
    /\ {Ttl, MaxTime, MaxEdits} \subseteq Nat
    /\ {Width, Second} \subseteq Nat \ {0} /\ Sizes \subseteq Numbers
    /\ None \notin Nat

VARIABLES
    scene,
    tree,      \* nodes by full path
    cache,     \* pathbuf_cache, path_cache: by module, host and path
    allowed,   \* path_traversal_check_cache: by full path
    req,       \* the requests, None where there is none
    held,      \* what the client keeps, by site and path
    now, edits, count,
    settled    \* history: the last change, or the last time that something older was cached

vars == <<scene, tree, cache, allowed, req, held, now, edits, count, settled>>

-----------------------------------------------------------------------------
(***************************************************************************)
(* The file system.                                                        *)
(***************************************************************************)
Node(type, version, size, modified, away, of) ==
    [type |-> type, version |-> version, size |-> size, modified |-> modified, away |-> away, of |-> of]

\* A function with one more entry, or another one.
With(f, k, v) == [x \in DOMAIN f \cup {k} |-> IF x = k THEN v ELSE f[x]]

Error(type) == Node(type, None, None, None, FALSE, None)
Errors == {"not found", "not a directory", "denied"}

\* fs::metadata
Metadata(p) ==
    IF p \in DOMAIN tree THEN tree[p]
    ELSE IF \E q \in ProperPrefixes(p) : q \in DOMAIN tree /\ tree[q].type = "file"
    THEN Error("not a directory") ELSE Error("not found")

Original(p) == {q \in DOMAIN tree : Front(q) = Front(p) /\ Last(q) \in DOMAIN Packed /\ Packed[Last(q)] = Last(p)}

WriteFile(p) ==
    /\ edits < MaxEdits
    /\ p \in scene.editable /\ Front(p) \in DOMAIN tree /\ tree[Front(p)].type = "dir"
    /\ \E size \in Sizes, away \in scene.links :
          LET old == Original(p)
              of == IF old = {} THEN edits + 1 ELSE tree[CHOOSE q \in old : TRUE].version
          IN tree' = With(tree, p, Node("file", edits + 1, size, now, away, of))
    /\ edits' = edits + 1 /\ settled' = now
    /\ UNCHANGED <<scene, cache, allowed, req, held, now, count>>

RemoveFile(p) ==
    /\ edits < MaxEdits
    /\ p \in scene.editable \cap DOMAIN tree
    /\ tree' = [q \in DOMAIN tree \ {p} |-> tree[q]]
    /\ edits' = edits + 1 /\ settled' = now
    /\ UNCHANGED <<scene, cache, allowed, req, held, now, count>>

-----------------------------------------------------------------------------
(***************************************************************************)
(* A request arrives, and its path is looked up.                           *)
(***************************************************************************)
\* Mutant: an entry does not expire.
TtlGetForever(entries, key) == IF key \in DOMAIN entries THEN entries[key] ELSE None

\* TtlCache::get
TtlGet(entries, key) ==
    IF key \in DOMAIN entries /\ now - entries[key].time < Ttl THEN entries[key] ELSE None

\* The key has no port, no location and no root.
CacheKey(q) == <<q.site.module, q.site.host, q.path>>

Full(q) == <<q.site.root>> \o q.path

\* hit: the path was cached; joined: what the path stands for; target: the file
\* or script it turned out to be, with the rest of the path.
NewRequest(q, pc, hit, target, info) ==
    [q |-> q, pc |-> pc, hit |-> hit, joined |-> IF q.site.module = "static" THEN target ELSE Full(q),
     target |-> target, info |-> info, ok |-> None, k |-> 0, meta |-> None, etag |-> None,
     has |-> IF <<q.site, q.path>> \in DOMAIN held THEN held[<<q.site, q.path>>] ELSE None,
     content |-> None, written |-> None, part |-> None, status |-> None, env |-> None, epoch |-> edits, time |-> now]

Checked(q, pc) == IF q.site.check THEN "check" ELSE pc

\* static.rs: the file, from the cache or by its path; it is checked in any case.
StaticLooksUp(q) ==
    LET e == TtlGet(cache, CacheKey(q)) IN
    IF e = None THEN NewRequest(q, Checked(q, "stat"), FALSE, Full(q), None)
                ELSE NewRequest(q, Checked(q, "stat"), TRUE, e.target, None)

\* cgi.rs: a cached script is not checked again.  fcgi.rs: a script is not checked.
CgiLooksUp(q) ==
    LET e == TtlGet(cache, CacheKey(q)) IN
    IF e = None THEN NewRequest(q, Checked(q, "stat"), FALSE, None, None)
                ELSE NewRequest(q, "resolved", TRUE, e.target, e.info)

FcgiLooksUp(q) ==
    LET e == TtlGet(cache, CacheKey(q)) IN
    IF e = None THEN NewRequest(q, "stat", FALSE, None, None)
                ELSE NewRequest(q, "resolved", TRUE, e.target, e.info)

\* scgi.rs, and fcgi.rs with "pass": the whole path is the script, and the rest.
ScgiPasses(q) == NewRequest(q, Checked(q, "resolved"), FALSE, Full(q), q.path)
FcgiPasses(q) == NewRequest(q, Checked(q, "resolved"), FALSE, Full(q), q.path)

Arrive(r) ==
    /\ req[r] = None /\ count < scene.requestsAtMost
    /\ count' = count + 1
    /\ \E q \in scene.requests :
          /\ q.method \in {"GET", "HEAD"}
          /\ req' = [req EXCEPT ![r] =
                CASE q.site.module = "static" -> StaticLooksUp(q)
                  [] q.site.module = "cgi" -> CgiLooksUp(q)
                  [] q.site.module = "fcgi" -> FcgiLooksUp(q)
                  [] q.site.module = "scgi" -> ScgiPasses(q)
                  [] q.site.module = "pass" -> FcgiPasses(q)]
    /\ UNCHANGED <<scene, tree, cache, allowed, held, now, edits, settled>>

\* A path that does not begin with a slash or cannot be decoded; static.rs: a
\* method that it does not have.
RefusalStatus(q) == CASE q.method = "OPTIONS" -> 204 [] q.method = "PUT" -> 405 [] OTHER -> 400

Refuse(r) ==
    /\ req[r] = None /\ count < scene.requestsAtMost
    /\ count' = count + 1
    /\ \E q \in scene.requests :
          /\ q.method = "malformed" \/ (q.site.module = "static" /\ q.method \in {"OPTIONS", "PUT"})
          /\ req' = [req EXCEPT ![r] = [NewRequest(q, "done", FALSE, None, None)
                                           EXCEPT !.status = RefusalStatus(q)]]
    /\ UNCHANGED <<scene, tree, cache, allowed, held, now, edits, settled>>

-----------------------------------------------------------------------------
(***************************************************************************)
(* The steps of a request.                                                 *)
(***************************************************************************)
At(r, pc) == req[r] # None /\ req[r].pc = pc
Module(r) == req[r].q.site.module

\* What only changes the request.
To(r, x) ==
    /\ req' = [req EXCEPT ![r] = x]
    /\ UNCHANGED <<scene, tree, cache, allowed, held, now, edits, count, settled>>

Done(x, status) == [x EXCEPT !.pc = "done", !.status = status]

\* The canonical form of a path is below a root: so is the path, and it is not
\* a link to another place.
Below(p, root) == Head(p) = root /\ ~(p \in DOMAIN tree /\ tree[p].away)

Decided(x, ok) ==
    IF ok THEN [x EXCEPT !.pc = IF x.q.site.module \in {"static", "cgi"} THEN "stat" ELSE "resolved"]
          ELSE Done(x, 403)

\* disable_url_sanitizer: the canonical path has to be below the root.
\* static.rs has a cache for the answers, whose key has no root either.
CheckStatic(r) ==
    /\ At(r, "check") /\ Module(r) = "static"
    /\ LET x == req[r]
           e == TtlGet(allowed, x.target)
       IN To(r, IF e # None THEN Decided(x, e.ok)
                ELSE [x EXCEPT !.pc = "allow", !.ok = Below(x.target, x.q.site.root)])

Allow(r) ==
    /\ At(r, "allow")
    /\ LET x == req[r] IN
       /\ allowed' = With(allowed, x.target, [ok |-> x.ok, time |-> now])
       /\ req' = [req EXCEPT ![r] = Decided(x, x.ok)]
       /\ settled' = IF x.epoch # edits THEN now ELSE settled
    /\ UNCHANGED <<scene, tree, cache, held, now, edits, count>>

Check(r) ==
    /\ At(r, "check") /\ Module(r) # "static"
    /\ To(r, Decided(req[r], Below(req[r].joined, req[r].q.site.root)))

StatusOfError(type) == IF type = "denied" THEN 403 ELSE 404

InCgiBin(path) == path # <<>> /\ path[1] = CgiBin

\* A file that is run: cgi.rs runs all that is requested below cgi-bin; fcgi.rs
\* does so only where the request has more than the path of the script.
HasExtension(p) == Last(p) \in Scripts
CgiRuns(x, p) == InCgiBin(x.q.path) \/ HasExtension(p)
FcgiRuns(x, p) == HasExtension(p)
Runs(x, p) == IF x.q.site.module = "cgi" THEN CgiRuns(x, p) ELSE FcgiRuns(x, p)

Found(x, p, info) == [x EXCEPT !.pc = "store", !.target = p, !.info = info]
NotFound(x) == Found(x, None, None)

StatStatic(r) ==
    /\ At(r, "stat") /\ Module(r) = "static"
    /\ LET x == req[r]
           m == Metadata(x.target)
       IN To(r, IF m.type \in Errors THEN Done(x, StatusOfError(m.type))
                ELSE IF x.hit THEN [x EXCEPT !.pc = "serve", !.meta = m]
                ELSE IF m.type = "dir" THEN [x EXCEPT !.pc = "index", !.k = 1, !.meta = m]
                ELSE [x EXCEPT !.pc = "store", !.meta = m])

StatScript(r) ==
    /\ At(r, "stat") /\ Module(r) # "static"
    /\ LET x == req[r]
           m == Metadata(x.joined)
       IN To(r, IF m.type = "file" /\ Runs(x, x.joined) THEN Found(x, x.joined, None)
                ELSE IF m.type = "dir" THEN [x EXCEPT !.pc = "index", !.k = 1]
                ELSE IF m.type = "not a directory" THEN [x EXCEPT !.pc = "pop", !.k = Len(x.joined)]
                ELSE NotFound(x))

\* The next index file is tried.
NoIndexLeft(x) == x.k > Len(Indexes)
NextIndex(x) == [x EXCEPT !.k = x.k + 1]

IndexStatic(r) ==
    /\ At(r, "index") /\ Module(r) = "static"
    /\ LET x == req[r] IN
       To(r, IF NoIndexLeft(x) THEN [x EXCEPT !.pc = "store"]
             ELSE LET p == Append(x.joined, Indexes[x.k])
                      m == Metadata(p)
                  IN IF m.type = "file" THEN [x EXCEPT !.pc = "store", !.target = p, !.meta = m]
                     ELSE IF m.type = "denied" THEN Done(x, 403)
                     ELSE NextIndex(x))

IndexScript(r) ==
    /\ At(r, "index") /\ Module(r) # "static"
    /\ LET x == req[r] IN
       To(r, IF NoIndexLeft(x) THEN NotFound(x)
             ELSE LET p == Append(x.joined, Indexes[x.k]) IN
                  IF Metadata(p).type # "file" THEN NextIndex(x)
                  ELSE IF Runs(x, p) THEN Found(x, p, None) ELSE NotFound(x))

\* Something in the path is not a directory: names are taken from the end until
\* there is a script; the rest is its path info.
Pop(r) ==
    /\ At(r, "pop")
    /\ LET x == req[r]
           n == x.k - 1
           p == SubSeq(x.joined, 1, n)
           m == Metadata(p)
       IN To(r, IF n = 0 \/ (m.type = "file" /\ Head(p) # x.q.site.root) THEN NotFound(x)
                ELSE IF m.type = "file" /\ (InCgiBin(x.q.path) \/ HasExtension(p))
                THEN Found(x, p, SubSeq(x.joined, n + 1, Len(x.joined)))
                ELSE IF m.type \in {"file", "not a directory"} THEN [x EXCEPT !.k = n]
                ELSE NotFound(x))

\* The path is cached; entries that have expired are removed.
Store(r) ==
    /\ At(r, "store")
    /\ LET x == req[r]
           live == {key \in DOMAIN cache : now - cache[key].time < Ttl}
       IN /\ cache' = With([key \in live |-> cache[key]], CacheKey(x.q),
                           [target |-> x.target, info |-> x.info, time |-> now])
          /\ req' = [req EXCEPT ![r].pc = IF Module(r) = "static" THEN "serve" ELSE "resolved"]
          /\ settled' = IF x.epoch # edits THEN now ELSE settled
    /\ UNCHANGED <<scene, tree, allowed, held, now, edits, count>>

-----------------------------------------------------------------------------
(***************************************************************************)
(* A script is run: what it is told, and the next module if there is none. *)
(***************************************************************************)
\* What the request tells goes before what the configuration and the process
\* have.
Before(f, g) == [v \in DOMAIN f \cup DOMAIN g |-> IF v \in DOMAIN f THEN f[v] ELSE g[v]]

Given == [v \in {"CONFIGURED", "PATH_INFO", "CONTENT_LENGTH"} |-> "configured"]
Inherited == [v \in {"PATH", "CONFIGURED", "SCRIPT_NAME", "PATH_INFO"} |-> "process"]

Told(x) ==
    Before([DOCUMENT_ROOT |-> <<x.q.site.root>>,
            PATH_INFO |-> IF x.info = None THEN <<>> ELSE x.info,
            SCRIPT_FILENAME |-> x.target],
           IF Head(x.target) # x.q.site.root THEN <<>> ELSE [SCRIPT_NAME |-> Tail(x.target)])

Rest == Before(Given, Inherited)
FcgiEnvironment(x) == Before(Told(x), Rest)
ScgiEnvironment(x) == Before(Told(x), Before([SCGI |-> "1", CONTENT_LENGTH |-> "0"], Rest))
CgiEnvironment(x) == Before(Told(x), Before([SERVER_NAME |-> x.q.site.host], Rest))

Environment(x) ==
    CASE x.q.site.module \in {"fcgi", "pass"} -> FcgiEnvironment(x)
      [] x.q.site.module = "scgi" -> ScgiEnvironment(x)
      [] x.q.site.module = "cgi" -> CgiEnvironment(x)

Execute(r) ==
    /\ At(r, "resolved")
    /\ LET x == req[r] IN
       To(r, IF x.target = None THEN Done(x, None)
             ELSE Done([x EXCEPT !.env = Environment(x)], None))

-----------------------------------------------------------------------------
(***************************************************************************)
(* A file is served.                                                       *)
(***************************************************************************)
\* Mutant: the last bytes begin one byte too early.
ParseRangeShort(x, last) ==
    IF x[1] = None THEN <<(last - x[2]) % Width, last>>
    ELSE <<x[1], IF x[2] = None THEN last ELSE x[2]>>

\* parse_range_header: the last bytes, from a byte on, or both ends.
parse_range_header(x, last) ==
    IF x[1] = None THEN <<(last - x[2] + 1) % Width, last>>
    ELSE <<x[1], IF x[2] = None THEN last ELSE x[2]>>

RangeOutside(part, size) == part[2] > size - 1 \/ part[1] > size - 1 \/ part[1] > part[2]

\* Mutant: the ETag of a path is remembered for ever.
EtagOfPath(x) == <<x.target, x.meta.size, 0>>

\* The ETag: of path, size and time of modification in whole seconds.
\* (etag_cache keeps only what was computed from the same key.)
InSeconds(time) == time \div Second
Etag(x) == <<x.target, x.meta.size, InSeconds(x.meta.modified)>>

\* Conditions come before ranges.
NotModified(x) == x.q.cond = "If-None-Match" /\ x.has # None /\ x.has.etag = x.etag
PreconditionFailed(x) == x.q.cond = "If-Match" /\ x.has # None /\ x.has.etag # x.etag

Opens(x, pc) == IF x.q.method = "HEAD" THEN "done" ELSE pc

Partial(x) ==
    IF x.meta.size = 0 THEN Done(x, 416)
    ELSE LET part == parse_range_header(x.q.range, x.meta.size - 1) IN
         IF RangeOutside(part, x.meta.size) THEN Done(x, 416)
         ELSE [x EXCEPT !.pc = Opens(x, "open"), !.status = 206, !.part = part]

Whole(x) ==
    [x EXCEPT !.status = 200,
              !.pc = IF x.q.site.precompressed /\ Last(x.target) \in DOMAIN Packed
                     THEN "compressed" ELSE Opens(x, "open")]

ServeFile(r) ==
    /\ At(r, "serve") /\ req[r].meta.type = "file"
    /\ LET x == [req[r] EXCEPT !.etag = Etag(req[r])] IN
       To(r, IF NotModified(x) THEN Done(x, 304)
             ELSE IF PreconditionFailed(x) THEN Done(x, 412)
             ELSE IF x.q.range # None THEN Partial(x)
             ELSE Whole(x))

\* A directory without an index file, or something that is neither.
ServeDirectory(r) ==
    /\ At(r, "serve") /\ req[r].meta.type = "dir"
    /\ LET x == req[r] IN
       To(r, IF x.q.site.listing
             THEN IF x.target \in DOMAIN tree THEN Done(x, 200) ELSE Done(x, 404)
             ELSE Done(x, 403))

ServeOther(r) == At(r, "serve") /\ req[r].meta.type = "other" /\ To(r, Done(req[r], 501))

\* "precompressed": the compressed file is sent instead, if there is one.
Precompressed(r) ==
    /\ At(r, "compressed")
    /\ LET x == req[r]
           p == Append(Front(x.target), Packed[Last(x.target)])
       IN To(r, [x EXCEPT !.pc = Opens(x, "open"),
                          !.target = IF Metadata(p).type = "file" THEN p ELSE @])

Open(r) ==
    /\ At(r, "open")
    /\ LET x == req[r]
           m == Metadata(x.target)
       IN To(r, IF m.type \in Errors THEN Done(x, StatusOfError(m.type))
                ELSE [x EXCEPT !.pc = "done", !.content = m.of, !.written = m.modified])

-----------------------------------------------------------------------------
\* The client keeps a complete file with its ETag.  (modified is history: when
\* the file was written.)
Deliver(r) ==
    /\ At(r, "done")
    /\ req' = [req EXCEPT ![r] = None]
    /\ LET x == req[r] IN
       held' = IF x.status = 200 /\ x.content # None
               THEN With(held, <<x.q.site, x.q.path>>,
                         [etag |-> x.etag, content |-> x.content, modified |-> x.written])
               ELSE held
    /\ UNCHANGED <<scene, tree, cache, allowed, now, edits, count, settled>>

Tick == now < MaxTime /\ now' = now + 1 /\ UNCHANGED <<scene, tree, cache, allowed, req, held, edits, count, settled>>

Init ==
    /\ scene \in Scenes /\ tree = scene.tree
    /\ cache = <<>> /\ allowed = <<>> /\ held = <<>>
    /\ req = [r \in Slots |-> None]
    /\ now = 0 /\ edits = 0 /\ count = 0
    /\ settled = -Ttl

Step(r) ==
    \/ Arrive(r) \/ Refuse(r) \/ CheckStatic(r) \/ Allow(r) \/ Check(r)
    \/ StatStatic(r) \/ StatScript(r) \/ IndexStatic(r) \/ IndexScript(r) \/ Pop(r) \/ Store(r)
    \/ Execute(r)
    \/ ServeFile(r) \/ ServeDirectory(r) \/ ServeOther(r) \/ Precompressed(r) \/ Open(r)
    \/ Deliver(r)

Next ==
    \/ Tick
    \/ \E p \in scene.editable : WriteFile(p)
    \/ \E p \in scene.editable : RemoveFile(p)
    \/ \E r \in Slots : Step(r)

Spec == Init /\ [][Next]_vars

-----------------------------------------------------------------------------
\* The configurations of a host, of one module, have one root.  (The keys of the
\* caches rely on it, see CacheKey.)
OneRoot ==
    \A x \in Scenes : \A p, q \in x.requests :
        p.site.module = q.site.module /\ p.site.host = q.site.host => p.site.root = q.site.root

\* What a path stands for, in the file system as it is: a file, the first index
\* file of a directory, or the directory.
StaticFor(q) ==
    LET p == Full(q)
        files == {i \in DOMAIN Indexes : Metadata(Append(p, Indexes[i])).type = "file"}
    IN IF p \in DOMAIN tree /\ tree[p].type = "dir" /\ files # {}
       THEN Append(p, Indexes[CHOOSE i \in files : \A j \in files : i <= j]) ELSE p

\* The script for a path: the only file on the way to it that is one, or the
\* first index file of a directory, if it is one; with the rest of the path.
ScriptFor(q) ==
    LET p == Full(q)
        way == {x \in ProperPrefixes(p) \cup {p, StaticFor(q)} : Metadata(x).type = "file"}
        runs(x) == Last(x) \in Scripts \/ (InCgiBin(q.path) /\ (q.site.module = "cgi" \/ IsStrictPrefix(x, p)))
        found == {x \in way : runs(x)}
    IN IF found = {} THEN <<None, None>>
       ELSE LET x == CHOOSE x \in found : TRUE
            IN <<x, IF IsStrictPrefix(x, p) THEN SubSeq(p, Len(x) + 1, Len(p)) ELSE None>>

\* Once nothing has changed for the life of a cached path, and no lookup that
\* began before the change has cached its result since, every request gets the
\* file or the script that its path stands for, whatever requests ran at the
\* same time and what they left in the cache; and a script is told the path
\* that was requested, in two parts.
ResolvedRight ==
    \A r \in Slots :
        LET x == req[r] IN
        x # None /\ x.time >= settled + Ttl /\ x.epoch = edits =>
            /\ x.pc = "serve" => x.target = StaticFor(x.q)
            /\ x.pc = "resolved" /\ x.q.site.module \in {"cgi", "fcgi"} => <<x.target, x.info>> = ScriptFor(x.q)
            /\ x.env # None /\ x.info # None /\ x.q.site.module \in {"cgi", "fcgi"} =>
                  x.env["SCRIPT_NAME"] \o x.env["PATH_INFO"] = x.q.path


\* "Client's cached version matches our current version": what the client keeps
\* when the server answers 304 is what is in the file, although the file may
\* have been replaced between the reading of its metadata and its opening, when
\* the copy was sent.  It may also be what was written in the same second, since
\* the ETag has whole seconds: of two files of one size that were written within
\* one, the client may keep the wrong one.  (Not with precompressed files, which
\* have the ETag of the original.)
NotModifiedCurrent ==
    \A r \in Slots :
        LET x == req[r] IN
        x # None /\ x.status = 304 /\ ~x.q.site.precompressed =>
            \/ x.has.content = x.meta.of
            \/ InSeconds(x.has.modified) = InSeconds(x.meta.modified)

\* The bytes that a range asks for.
Wanted(x, size) ==
    IF x[1] = None THEN (size - x[2])..(size - 1)
    ELSE x[1]..(IF x[2] = None THEN size - 1 ELSE x[2])

\* A partial response has exactly the bytes that were asked for, and all bytes
\* of the file that can be asked for can be had, at every boundary: the first,
\* the last, all, none, and in an empty file.
RangeRight ==
    \A r \in Slots :
        LET x == req[r] IN
        x # None /\ x.status \in {206, 416} =>
            LET wanted == Wanted(x.q.range, x.meta.size)
                there == wanted # {} /\ wanted \subseteq 0..(x.meta.size - 1)
            IN /\ x.status = 206 <=> there
               /\ x.status = 206 => x.part[1]..x.part[2] = wanted
=============================================================================
