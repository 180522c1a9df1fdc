-------------------------- MODULE FileServingProofs --------------------------
(***************************************************************************)
(* For any sites, scenes and bounds: a client is told that its copy is     *)
(* current only if it was written in the second in which the file was, and *)
(* a partial response has the bytes that were asked for; and where a host has one root, a path leads to what it       *)
(* stands for once the files have been quiet for the life of a cached path.*)
(*                                                                         *)
(* The argument goes from the files to the client and back.  What is at a  *)
(* path is never older than what was there before (Since).  So what a      *)
(* client keeps was written no earlier than its ETag says, although it was *)
(* read after the metadata of which the ETag was made, and no later than   *)
(* what is there (Remembered): if the ETag of the latter is that of the    *)
(* former, all three are of one second.  What is known of one request      *)
(* (ReqInv) depends on no other request, nor on the cache of paths.  The   *)
(* lookup of a path is another matter: it depends on both, see RInv below. *)
(***************************************************************************)
EXTENDS FileServing, SequenceTheorems, TLAPS

(***************************************************************************)
(* The inductive invariant.                                                *)
(***************************************************************************)
\* Nothing was written in the future.
TreeType ==
    /\ edits \in Nat /\ now \in Nat
    /\ \A p \in DOMAIN tree :
          /\ tree[p].modified \in Int /\ tree[p].modified <= now
          /\ tree[p].type = "file" => tree[p].size \in Numbers

\* What is at the path was written then or later.
Since(p, time) == time \in Int /\ time <= now /\ (p \in DOMAIN tree => time <= tree[p].modified)

\* What has been read with an ETag: it is not older than that, and not younger
\* than what is at the path of the ETag.
Remembered(tag, modified) == tag[3] \in Int /\ tag[3] <= InSeconds(modified) /\ Since(tag[1], modified)

\* What clients keep.
HeldInv ==
    \A key \in DOMAIN held :
        ~key[1].precompressed => Remembered(held[key].etag, held[key].modified)

Fields == {"q", "pc", "hit", "joined", "target", "info", "ok", "k", "meta", "etag", "has", "content",
           "written", "part", "status", "env", "epoch", "time"}

Shape(x) == DOMAIN x = Fields /\ x.q \in scene.requests

\* Nothing is sent before the file is known.
Sending == {"compressed", "open", "done"}
Unsent(x) ==
    /\ x.pc \notin Sending => x.status \notin {200, 206, 304, 416}
    /\ x.pc # "done" => x.content = None
    /\ x.pc = "compressed" => x.q.site.precompressed

\* The metadata is that of what is there, or of something older.
MetaInv(x) ==
    /\ x.pc = "serve" => x.q.site.module = "static"
    /\ x.pc = "pop" => x.q.site.module # "static"
    /\ x.pc \in {"index", "store", "serve"} /\ x.q.site.module = "static" /\ x.meta.type = "file" =>
          x.meta.size \in Numbers /\ Since(x.target, x.meta.modified)

\* What the client had when it asked ...
HasInv(x) ==
    x.pc \notin Sending /\ x.has # None /\ ~x.q.site.precompressed => Remembered(x.has.etag, x.has.modified)

\* ... is of the same second as the file, if the ETags are the same.
SameInv(x) ==
    /\ x.pc \in {"index", "store", "serve"} /\ x.q.site.module = "static" /\ x.meta.type = "file"
    /\ x.has # None /\ ~x.q.site.precompressed /\ x.has.etag = Etag(x)
    => InSeconds(x.has.modified) = InSeconds(x.meta.modified)

\* The file is opened whose ETag is sent, and its content is sent with it.
TagInv(x) ==
    /\ x.pc = "open" /\ ~x.q.site.precompressed => x.etag = Etag(x) /\ Since(x.target, x.meta.modified)
    /\ x.pc = "done" /\ x.status = 200 /\ x.content # None /\ ~x.q.site.precompressed =>
          Remembered(x.etag, x.written)

\* NotModifiedCurrent and RangeRight, of one request.
CurrentInv(x) ==
    x.status = 304 /\ ~x.q.site.precompressed => InSeconds(x.has.modified) = InSeconds(x.meta.modified)

RangeInv(x) ==
    x.status \in {206, 416} =>
        LET wanted == Wanted(x.q.range, x.meta.size)
            there == wanted # {} /\ wanted \subseteq 0..(x.meta.size - 1)
        IN /\ x.status = 206 <=> there
           /\ x.status = 206 => x.part[1]..x.part[2] = wanted

ReqInv(x) ==
    /\ Shape(x) /\ Unsent(x) /\ MetaInv(x) /\ HasInv(x) /\ SameInv(x) /\ TagInv(x)
    /\ CurrentInv(x) /\ RangeInv(x)

IInv ==
    /\ scene \in Scenes
    /\ TreeType
    /\ HeldInv
    /\ DOMAIN req = Slots
    /\ \A r \in Slots : req[r] # None => ReqInv(req[r])

-----------------------------------------------------------------------------
(***************************************************************************)
(* Ranges.                                                                 *)
(***************************************************************************)
\* u64 arithmetic: a difference of two numbers wraps at most once.
LEMMA Wraps ==
    ASSUME NEW w \in Nat \ {0}, NEW a \in Int, a < w, -w < a
    PROVE  a % w = IF a < 0 THEN a + w ELSE a
  OBVIOUS

\* A range is satisfiable for parse_range_header and its check just if all that
\* it asks for is there and that is not nothing; and then it is what it asks for.
LEMMA RangeParsed ==
    ASSUME NEW x, IsRange(x), NEW size \in Numbers \ {0}
    PROVE  LET part == parse_range_header(x, size - 1)
               wanted == Wanted(x, size)
               there == wanted # {} /\ wanted \subseteq 0..(size - 1)
           IN /\ RangeOutside(part, size) <=> ~there
              /\ ~RangeOutside(part, size) => part[1]..part[2] = wanted
  <1> DEFINE part == parse_range_header(x, size - 1)
             wanted == Wanted(x, size)
             there == wanted # {} /\ wanted \subseteq 0..(size - 1)
  <1>0. Width \in Nat \ {0} /\ None \notin Nat /\ size \in Nat /\ size > 0 /\ size < Width
    BY FileServingAssumption DEF Numbers
  <1>1. CASE x[1] = None
    <2>1. x[2] \in Nat /\ x[2] < Width
      BY <1>0, <1>1 DEF IsRange, Numbers
    <2>2. (size - 1 - x[2] + 1) % Width = IF size - x[2] < 0 THEN size - x[2] + Width ELSE size - x[2]
      <3>1. size - x[2] \in Int /\ size - x[2] < Width /\ -Width < size - x[2]
        BY <1>0, <2>1
      <3>2. size - 1 - x[2] + 1 = size - x[2]
        BY <1>0, <2>1
      <3> QED BY <3>1, <3>2, <1>0, Wraps
    <2>3. part[2] = size - 1 /\ part[1] = IF size - x[2] < 0 THEN size - x[2] + Width ELSE size - x[2]
      BY <1>1, <2>2 DEF parse_range_header
    <2>4. wanted = (size - x[2])..(size - 1)
      BY <1>1 DEF Wanted
    <2>5. CASE x[2] = 0
      BY <1>0, <2>1, <2>3, <2>4, <2>5 DEF RangeOutside
    <2>6. CASE x[2] > size
      <3>1. size - x[2] \in wanted /\ size - x[2] \notin 0..(size - 1)
        BY <1>0, <2>1, <2>4, <2>6
      <3>2. part[1] > size - 1
        BY <1>0, <2>1, <2>3, <2>6
      <3> QED BY <3>1, <3>2 DEF RangeOutside
    <2>7. CASE x[2] # 0 /\ ~(x[2] > size)
      <3>1. size - 1 \in wanted /\ wanted \subseteq 0..(size - 1)
        BY <1>0, <2>1, <2>4, <2>7
      <3>2. part[1] = size - x[2] /\ part[1] <= size - 1
        BY <1>0, <2>1, <2>3, <2>7
      <3> QED BY <1>0, <3>1, <3>2, <2>1, <2>3, <2>4 DEF RangeOutside
    <2> QED BY <2>1, <2>5, <2>6, <2>7
  <1>2. CASE x[1] # None
    <2> DEFINE b == IF x[2] = None THEN size - 1 ELSE x[2]
    <2>1. x[1] \in Nat /\ b \in Nat
      BY <1>0, <1>2 DEF IsRange, Numbers
    <2>2. part[1] = x[1] /\ part[2] = b /\ wanted = x[1]..b
      BY <1>2 DEF parse_range_header, Wanted
    <2> HIDE DEF b
    <2>3. CASE x[1] > b
      BY <1>0, <2>1, <2>2, <2>3 DEF RangeOutside
    <2>4. CASE x[1] <= b /\ b > size - 1
      <3>1. b \in wanted /\ b \notin 0..(size - 1)
        BY <1>0, <2>1, <2>2, <2>4
      <3> QED BY <1>0, <2>1, <2>2, <2>4, <3>1 DEF RangeOutside
    <2>5. CASE x[1] <= b /\ b <= size - 1
      <3>1. b \in wanted /\ wanted \subseteq 0..(size - 1)
        BY <1>0, <2>1, <2>2, <2>5
      <3> QED BY <1>0, <2>1, <2>2, <2>5, <3>1 DEF RangeOutside
    <2> QED BY <1>0, <2>1, <2>3, <2>4, <2>5
  <1> QED BY <1>1, <1>2

\* An empty file has nothing that a range can ask for.
LEMMA RangeOfNothing ==
    ASSUME NEW x, IsRange(x)
    PROVE  ~(Wanted(x, 0) # {} /\ Wanted(x, 0) \subseteq 0..(0 - 1))
  <1>0. Width \in Nat \ {0} /\ None \notin Nat
    BY FileServingAssumption
  <1>1. 0..(0 - 1) = {}
    OBVIOUS
  <1> QED BY <1>1

\* Seconds follow each other as times do.
LEMMA SecondsOrdered ==
    ASSUME NEW a \in Int, NEW b \in Int
    PROVE  InSeconds(a) \in Int /\ (a <= b => InSeconds(a) <= InSeconds(b))
  BY FileServingAssumption DEF InSeconds

-----------------------------------------------------------------------------
(***************************************************************************)
(* What keeps the invariant of a request.                                  *)
(***************************************************************************)
\* A step that changes one request only.
LEMMA OneRequest ==
    ASSUME IInv, NEW r \in Slots, NEW y, ReqInv(y),
           UNCHANGED <<scene, tree, held, now, edits>>, req' = [req EXCEPT ![r] = y]
    PROVE  IInv'
  <1>1. UNCHANGED <<scene, tree, held, now, edits>> /\ req' = [req EXCEPT ![r] = y]
    OBVIOUS
  <1>2. scene' \in Scenes /\ TreeType' /\ HeldInv'
    BY <1>1 DEF IInv, TreeType, HeldInv, Remembered, Since
  <1>3. DOMAIN req' = Slots
    BY <1>1 DEF IInv
  <1>4. ASSUME NEW x, ReqInv(x) PROVE ReqInv(x)'
    BY <1>1, <1>4 DEF ReqInv, Shape, Unsent, MetaInv, HasInv, SameInv, TagInv, CurrentInv, RangeInv,
                      Remembered, Since
  <1>5. ASSUME NEW s \in Slots, req'[s] # None PROVE ReqInv(req[s])'
    <2>1. CASE s = r
      <3>1. req'[s] = y
        BY <1>1, <2>1 DEF IInv
      <3> QED BY <3>1, <1>4
    <2>2. CASE s # r
      <3>1. req'[s] = req[s] /\ ReqInv(req[s])
        BY <1>1, <1>5, <2>2 DEF IInv
      <3> QED BY <3>1, <1>4
    <2> QED BY <2>1, <2>2
  <1> QED BY <1>2, <1>3, <1>5 DEF IInv

LEMMA ToKeeps ==
    ASSUME IInv, NEW r \in Slots, NEW y, To(r, y), ReqInv(y)
    PROVE  IInv'
  BY OneRequest DEF To

\* A request that arrives: what its client has is remembered.
LEMMA NewInv ==
    ASSUME IInv, NEW q \in scene.requests, NEW pc \in {"check", "stat", "resolved"},
           NEW hit, NEW target, NEW info
    PROVE  ReqInv(NewRequest(q, pc, hit, target, info))
  <1> DEFINE y == NewRequest(q, pc, hit, target, info)
  <1>1. /\ DOMAIN y = Fields /\ y.q = q /\ y.pc = pc /\ y.content = None /\ y.status = None
        /\ y.has = IF <<q.site, q.path>> \in DOMAIN held THEN held[<<q.site, q.path>>] ELSE None
    BY DEF NewRequest, Fields
  <1>2. y.status \notin {200, 206, 304, 416}
    BY <1>1, FileServingAssumption
  <1>3. y.pc \notin Sending /\ y.pc \notin {"index", "pop", "store", "serve", "open", "done"}
    BY <1>1 DEF Sending
  <1>4. HasInv(y)
    BY <1>1 DEF HasInv, IInv, HeldInv
  <1> HIDE DEF y
  <1>5. Shape(y) /\ Unsent(y)
    BY <1>1, <1>2, <1>3 DEF Shape, Unsent
  <1>6. MetaInv(y) /\ SameInv(y) /\ TagInv(y)
    BY <1>3 DEF MetaInv, SameInv, TagInv
  <1>7. CurrentInv(y) /\ RangeInv(y)
    BY <1>2 DEF CurrentInv, RangeInv
  <1>8. ReqInv(y)
    BY <1>4, <1>5, <1>6, <1>7 DEF ReqInv
  <1> QED BY <1>8 DEF y

\* A request that is answered without a file.
LEMMA AnsweredInv ==
    ASSUME NEW y, Shape(y), y.pc = "done", y.status \notin {200, 206, 304, 416}
    PROVE  ReqInv(y)
  BY DEF ReqInv, Unsent, MetaInv, HasInv, SameInv, TagInv, CurrentInv, RangeInv, Sending

LEMMA DoneInv ==
    ASSUME NEW x, ReqInv(x), NEW st, st \notin {200, 206, 304, 416}
    PROVE  ReqInv(Done(x, st))
  <1>1. Shape(Done(x, st)) /\ Done(x, st).pc = "done" /\ Done(x, st).status = st
    BY DEF Done, ReqInv, Shape, Fields
  <1> QED BY <1>1, AnsweredInv

\* A request whose path is being looked up.
LEMMA LookupInv ==
    ASSUME NEW x, ReqInv(x), x.pc \notin Sending,
           NEW y, DOMAIN y = Fields, y.q = x.q, y.has = x.has, y.status = x.status,
           y.content = x.content, y.pc \notin Sending,
           MetaInv(y), SameInv(y)
    PROVE  ReqInv(y)
  <1>1. Shape(y) /\ Unsent(y)
    BY DEF ReqInv, Shape, Unsent, Sending
  <1>2. HasInv(y)
    BY DEF ReqInv, HasInv
  <1>3. TagInv(y)
    BY DEF TagInv, Sending
  <1>4. CurrentInv(y) /\ RangeInv(y)
    BY <1>1 DEF CurrentInv, RangeInv, Unsent
  <1> QED BY <1>1, <1>2, <1>3, <1>4 DEF ReqInv

\* The metadata of a file, just read: its ETag is the client's only if they are
\* of one second.
LEMMA MetaRead ==
    ASSUME IInv, NEW p, NEW m, m = Metadata(p), m.type \notin Errors
    PROVE  /\ p \in DOMAIN tree /\ m = tree[p]
           /\ Since(p, m.modified)
           /\ m.type = "file" => m.size \in Numbers
           /\ \A has : Remembered(has.etag, has.modified) /\ has.etag = <<p, m.size, InSeconds(m.modified)>>
                        => InSeconds(has.modified) = InSeconds(m.modified)
  <1>1. p \in DOMAIN tree
    BY DEF Metadata, Error, Node, Errors
  <1>2. m = tree[p]
    BY <1>1 DEF Metadata
  <1>3. /\ m.modified \in Int /\ m.modified <= now
        /\ m.type = "file" => m.size \in Numbers
    BY <1>1, <1>2 DEF IInv, TreeType
  <1>4. Since(p, m.modified)
    BY <1>2, <1>3 DEF Since
  <1>5. ASSUME NEW has, Remembered(has.etag, has.modified), has.etag = <<p, m.size, InSeconds(m.modified)>>
        PROVE  InSeconds(has.modified) = InSeconds(m.modified)
    <2>1. has.etag[1] = p /\ has.etag[3] = InSeconds(m.modified)
      BY <1>5
    <2>2. has.modified \in Int /\ has.modified <= m.modified /\ InSeconds(m.modified) <= InSeconds(has.modified)
      BY <1>1, <1>2, <1>5, <2>1 DEF Remembered, Since
    <2>3. /\ InSeconds(has.modified) \in Int /\ InSeconds(m.modified) \in Int
          /\ InSeconds(has.modified) <= InSeconds(m.modified)
      BY <1>3, <2>2, SecondsOrdered
    <2> QED BY <2>2, <2>3
  <1> QED BY <1>1, <1>2, <1>3, <1>4, <1>5

\* What is written is younger than what was there.
LEMMA SinceStays ==
    ASSUME NEW p, NEW q, NEW time, Since(q, time), now' = now,
           \/ tree' = [w \in DOMAIN tree \ {p} |-> tree[w]]
           \/ \E n : n.modified = now /\ tree' = [w \in DOMAIN tree \cup {p} |-> IF w = p THEN n ELSE tree[w]]
    PROVE  Since(q, time)'
  <1>1. CASE tree' = [w \in DOMAIN tree \ {p} |-> tree[w]]
    BY <1>1 DEF Since
  <1>2. ASSUME NEW n, n.modified = now,
               tree' = [w \in DOMAIN tree \cup {p} |-> IF w = p THEN n ELSE tree[w]]
        PROVE  Since(q, time)'
    <2>1. CASE q = p
      BY <1>2, <2>1 DEF Since
    <2>2. CASE q # p
      BY <1>2, <2>2 DEF Since
    <2> QED BY <2>1, <2>2
  <1> QED BY <1>1, <1>2

-----------------------------------------------------------------------------
(***************************************************************************)
(* The steps.                                                              *)
(***************************************************************************)
\* The files change under the requests.
LEMMA EditStep ==
    ASSUME IInv, NEW p, WriteFile(p) \/ RemoveFile(p)
    PROVE  IInv'
  <1>1. edits \in Nat /\ edits' = edits + 1 /\ now \in Nat /\ UNCHANGED <<scene, req, held, now>>
    BY DEF IInv, TreeType, WriteFile, RemoveFile
  <1>2. \/ tree' = [q \in DOMAIN tree \ {p} |-> tree[q]]
        \/ \E n : /\ n.modified = now /\ n.size \in Sizes
                  /\ tree' = [q \in DOMAIN tree \cup {p} |-> IF q = p THEN n ELSE tree[q]]
    <2>1. CASE RemoveFile(p)
      BY <2>1 DEF RemoveFile
    <2>2. CASE WriteFile(p)
      <3>1. PICK size \in Sizes, away \in scene.links : \E of : tree' = With(tree, p, Node("file", edits + 1, size, now, away, of))
        BY <2>2 DEF WriteFile
      <3>2. PICK of : tree' = With(tree, p, Node("file", edits + 1, size, now, away, of))
        BY <3>1
      <3> DEFINE n == Node("file", edits + 1, size, now, away, of)
      <3>3. n.modified = now /\ n.size \in Sizes
        BY DEF Node
      <3>4. tree' = [q \in DOMAIN tree \cup {p} |-> IF q = p THEN n ELSE tree[q]]
        BY <3>2 DEF With
      <3> QED BY <3>3, <3>4
    <2> QED BY <2>1, <2>2
  <1>3. TreeType'
    <2>1. Sizes \subseteq Numbers
      BY FileServingAssumption
    <2>2. ASSUME NEW q \in DOMAIN tree'
          PROVE  /\ tree'[q].modified \in Int /\ tree'[q].modified <= now'
                 /\ tree'[q].type = "file" => tree'[q].size \in Numbers
      BY <1>1, <1>2, <2>1, <2>2 DEF IInv, TreeType
    <2> QED BY <1>1, <2>2 DEF TreeType
  <1>4. ASSUME NEW q, NEW time, Since(q, time) PROVE Since(q, time)'
    BY <1>1, <1>2, <1>4, SinceStays
  <1>5. ASSUME NEW tag, NEW time, Remembered(tag, time) PROVE Remembered(tag, time)'
    BY <1>4, <1>5 DEF Remembered
  <1>6. HeldInv'
    BY <1>1, <1>5 DEF IInv, HeldInv
  <1>7. ASSUME NEW x, ReqInv(x) PROVE ReqInv(x)'
    <2>1. Shape(x)' /\ Unsent(x)' /\ SameInv(x)' /\ CurrentInv(x)' /\ RangeInv(x)'
      BY <1>1, <1>7 DEF ReqInv, Shape, Unsent, SameInv, CurrentInv, RangeInv
    <2>2. MetaInv(x)'
      BY <1>4, <1>7 DEF ReqInv, MetaInv
    <2>3. HasInv(x)'
      BY <1>5, <1>7 DEF ReqInv, HasInv
    <2>4. TagInv(x)'
      BY <1>4, <1>5, <1>7 DEF ReqInv, TagInv
    <2> QED BY <2>1, <2>2, <2>3, <2>4 DEF ReqInv
  <1> QED BY <1>1, <1>3, <1>6, <1>7 DEF IInv

LEMMA ArriveStep ==
    ASSUME IInv, NEW r \in Slots, Arrive(r)
    PROVE  IInv'
  <1>1. PICK q \in scene.requests :
           req' = [req EXCEPT ![r] =
                CASE q.site.module = "static" -> StaticLooksUp(q)
                  [] q.site.module = "cgi" -> CgiLooksUp(q)
                  [] q.site.module = "fcgi" -> FcgiLooksUp(q)
                  [] q.site.module = "scgi" -> ScgiPasses(q)
                  [] q.site.module = "pass" -> FcgiPasses(q)]
    BY DEF Arrive
  <1>2. q.site.module \in Modules
    BY FileServingAssumption DEF IInv, IsScene, IsRequest, IsSite
  <1>3. /\ ReqInv(StaticLooksUp(q)) /\ ReqInv(CgiLooksUp(q)) /\ ReqInv(FcgiLooksUp(q))
        /\ ReqInv(ScgiPasses(q)) /\ ReqInv(FcgiPasses(q))
    <2>1. Checked(q, "stat") \in {"check", "stat", "resolved"} /\ Checked(q, "resolved") \in {"check", "stat", "resolved"}
      BY DEF Checked
    <2> QED BY <2>1, NewInv DEF StaticLooksUp, CgiLooksUp, FcgiLooksUp, ScgiPasses, FcgiPasses
  <1>4. PICK y : ReqInv(y) /\ req' = [req EXCEPT ![r] = y]
    BY <1>1, <1>2, <1>3 DEF Modules
  <1> QED
    <2>1. UNCHANGED <<scene, tree, held, now, edits>>
      BY DEF Arrive
    <2> QED BY <1>4, <2>1, OneRequest

LEMMA RefuseStep ==
    ASSUME IInv, NEW r \in Slots, Refuse(r)
    PROVE  IInv'
  <1>1. PICK q \in scene.requests :
           req' = [req EXCEPT ![r] = [NewRequest(q, "done", FALSE, None, None) EXCEPT !.status = RefusalStatus(q)]]
    BY DEF Refuse
  <1> DEFINE y == [NewRequest(q, "done", FALSE, None, None) EXCEPT !.status = RefusalStatus(q)]
  <1>2. RefusalStatus(q) \notin {200, 206, 304, 416}
    BY DEF RefusalStatus
  <1>3. Shape(y) /\ y.pc = "done" /\ y.status = RefusalStatus(q)
    BY DEF NewRequest, Shape, Fields
  <1>4. ReqInv(y)
    BY <1>2, <1>3, AnsweredInv
  <1>5. UNCHANGED <<scene, tree, held, now, edits>>
    BY DEF Refuse
  <1> QED BY <1>1, <1>4, <1>5, OneRequest

LEMMA LookupStep ==
    ASSUME IInv, NEW r \in Slots,
           CheckStatic(r) \/ Check(r) \/ StatScript(r) \/ IndexScript(r) \/ Pop(r)
    PROVE  IInv'
  <1> DEFINE x == req[r]
  <1>1. ReqInv(x) /\ x.pc \in {"check", "stat", "index", "pop"}
    BY DEF IInv, CheckStatic, Check, StatScript, IndexScript, Pop, At
  <1>2. x.pc \notin Sending /\ DOMAIN x = Fields
    BY <1>1 DEF Sending, ReqInv, Shape
  <1>3. PICK y :
           /\ To(r, y)
           /\ \/ y = Done(x, 403)
              \/ /\ DOMAIN y = Fields /\ y.q = x.q /\ y.has = x.has /\ y.status = x.status
                 /\ y.content = x.content
                 /\ y.pc \in {"allow", "stat", "index", "pop", "store", "resolved"}
                 /\ y.pc \in {"index", "pop", "store"} => x.q.site.module # "static"
    <2> HIDE DEF x
    <2>1. CASE CheckStatic(r) \/ Check(r)
      <3> DEFINE y == [x EXCEPT !.pc = IF x.q.site.module \in {"static", "cgi"} THEN "stat" ELSE "resolved"]
                 z == [x EXCEPT !.pc = "allow", !.ok = Below(x.target, x.q.site.root)]
      <3>1. To(r, Done(x, 403)) \/ To(r, y) \/ To(r, z)
        BY <2>1 DEF CheckStatic, Check, Decided, x
      <3>2. /\ DOMAIN y = Fields /\ y.q = x.q /\ y.has = x.has /\ y.status = x.status
            /\ y.content = x.content /\ y.pc \in {"stat", "resolved"}
        BY <1>2 DEF Fields
      <3>3. /\ DOMAIN z = Fields /\ z.q = x.q /\ z.has = x.has /\ z.status = x.status
            /\ z.content = x.content /\ z.pc = "allow"
        BY <1>2 DEF Fields
      <3> HIDE DEF y, z
      <3> QED BY <3>1, <3>2, <3>3
    <2>2. ASSUME NEW p, NEW info
          PROVE  LET y == Found(x, p, info)
                 IN /\ DOMAIN y = Fields /\ y.q = x.q /\ y.has = x.has /\ y.status = x.status
                    /\ y.content = x.content /\ y.pc = "store"
      BY <1>2 DEF Found, Fields
    <2>3. ASSUME NEW k, NEW pc
          PROVE  LET y == [x EXCEPT !.pc = pc, !.k = k]
                 IN /\ DOMAIN y = Fields /\ y.q = x.q /\ y.has = x.has /\ y.status = x.status
                    /\ y.content = x.content /\ y.pc = pc
      BY <1>2 DEF Fields
    <2>4. ASSUME NEW k
          PROVE  LET y == [x EXCEPT !.k = k]
                 IN /\ DOMAIN y = Fields /\ y.q = x.q /\ y.has = x.has /\ y.status = x.status
                    /\ y.content = x.content /\ y.pc = x.pc
      BY <1>2 DEF Fields
    <2>5. CASE StatScript(r)
      <3>1. x.q.site.module # "static"
        BY <2>5 DEF StatScript, Module, x
      <3>2. \/ \E p : To(r, Found(x, p, None))
            \/ \E pc \in {"index", "pop"} : \E k : To(r, [x EXCEPT !.pc = pc, !.k = k])
        BY <2>5 DEF StatScript, NotFound, x
      <3>3. CASE \E p : To(r, Found(x, p, None))
        BY <3>1, <3>3, <2>2
      <3>4. CASE \E pc \in {"index", "pop"} : \E k : To(r, [x EXCEPT !.pc = pc, !.k = k])
        <4>0. PICK pc \in {"index", "pop"} : \E k : To(r, [x EXCEPT !.pc = pc, !.k = k])
          BY <3>4
        <4>1. PICK k : To(r, [x EXCEPT !.pc = pc, !.k = k])
          BY <4>0
        <4> DEFINE y == [x EXCEPT !.pc = pc, !.k = k]
        <4>2. /\ DOMAIN y = Fields /\ y.q = x.q /\ y.has = x.has /\ y.status = x.status
              /\ y.content = x.content /\ y.pc = pc
          BY <2>3
        <4>3. To(r, y)
          BY <4>1
        <4> HIDE DEF y
        <4> QED BY <3>1, <4>2, <4>3
      <3> QED BY <3>2, <3>3, <3>4
    <2>6. CASE IndexScript(r)
      <3>1. x.q.site.module # "static" /\ x.pc = "index"
        BY <2>6 DEF IndexScript, Module, At, x
      <3>2. \/ \E p : To(r, Found(x, p, None))
            \/ To(r, [x EXCEPT !.k = x.k + 1])
        BY <2>6 DEF IndexScript, NotFound, NextIndex, x
      <3> QED BY <3>1, <3>2, <2>2, <2>4
    <2>7. CASE Pop(r)
      <3>1. x.pc = "pop"
        BY <2>7 DEF Pop, At, x
      <3>2. \/ \E p, info : To(r, Found(x, p, info))
            \/ To(r, [x EXCEPT !.k = x.k - 1])
        BY <2>7 DEF Pop, NotFound, x
      <3>3. x.q.site.module # "static"
        BY <1>1, <3>1 DEF ReqInv, MetaInv
      <3> QED BY <3>1, <3>2, <3>3, <2>2, <2>4
    <2> QED BY <2>1, <2>5, <2>6, <2>7, Zenon
  <1>4. CASE y = Done(x, 403)
    BY <1>1, <1>3, <1>4, DoneInv, ToKeeps
  <1>5. CASE y # Done(x, 403)
    <2> HIDE DEF x
    <2>1. /\ DOMAIN y = Fields /\ y.q = x.q /\ y.has = x.has /\ y.status = x.status
          /\ y.content = x.content /\ y.pc \notin Sending
      BY <1>3, <1>5 DEF Sending
    <2>2. y.pc # "serve" /\ (y.pc \in {"index", "pop", "store"} => y.q.site.module # "static")
      BY <1>3, <1>5
    <2>3. MetaInv(y) /\ SameInv(y)
      BY <2>2 DEF MetaInv, SameInv
    <2>4. ReqInv(y)
      BY <1>1, <1>2, <2>1, <2>3, LookupInv
    <2> QED BY <1>3, <2>4, ToKeeps
  <1> QED BY <1>4, <1>5

\* The metadata of the path, or of an index file, is read by the static file
\* module.
LEMMA StaticStep ==
    ASSUME IInv, NEW r \in Slots, StatStatic(r) \/ IndexStatic(r)
    PROVE  IInv'
  <1> DEFINE x == req[r]
  <1>1. ReqInv(x) /\ x.pc \in {"stat", "index"} /\ x.q.site.module = "static"
    BY DEF IInv, StatStatic, IndexStatic, At, Module
  <1>2. x.pc \notin Sending /\ DOMAIN x = Fields
    BY <1>1 DEF Sending, ReqInv, Shape
  <1>3. \A st : st \in {403, 404} /\ To(r, Done(x, st)) => IInv'
    BY <1>1, DoneInv, ToKeeps
  <1>4. ASSUME NEW y, To(r, y), DOMAIN y = Fields, y.q = x.q, y.has = x.has, y.status = x.status,
               y.content = x.content, y.pc \in {"index", "store", "serve"},
               \/ y.meta = Metadata(y.target) /\ y.meta.type \notin Errors
               \/ x.pc = "index" /\ y.target = x.target /\ y.meta = x.meta
        PROVE  IInv'
    <2> HIDE DEF x
    <2>1. y.pc \notin Sending /\ y.pc # "pop" /\ HasInv(x) /\ x.has = y.has
      BY <1>1, <1>4 DEF Sending, ReqInv
    <2>2. MetaInv(y) /\ SameInv(y)
      <3>1. CASE y.meta = Metadata(y.target) /\ y.meta.type \notin Errors
        <4>1. MetaInv(y)
          BY <1>1, <1>4, <2>1, <3>1, MetaRead DEF MetaInv
        <4>2. y.has # None /\ ~y.q.site.precompressed => Remembered(y.has.etag, y.has.modified)
          BY <1>2, <1>4, <2>1 DEF HasInv
        <4>3. SameInv(y)
          BY <4>2, <3>1, MetaRead DEF SameInv, Etag
        <4> QED BY <4>1, <4>3
      <3>2. CASE x.pc = "index" /\ y.target = x.target /\ y.meta = x.meta
        BY <1>1, <1>4, <2>1, <3>2 DEF ReqInv, MetaInv, SameInv, Etag
      <3> QED BY <1>4, <3>1, <3>2
    <2>3. ReqInv(y)
      BY <1>1, <1>2, <1>4, <2>1, <2>2, LookupInv
    <2> QED BY <1>4, <2>3, ToKeeps
  <1>5. CASE StatStatic(r)
    <2> DEFINE m == Metadata(x.target)
               y1 == [x EXCEPT !.pc = "serve", !.meta = m]
               y2 == [x EXCEPT !.pc = "index", !.k = 1, !.meta = m]
               y3 == [x EXCEPT !.pc = "store", !.meta = m]
    <2>1. \/ \E st \in {403, 404} : To(r, Done(x, st))
          \/ m.type \notin Errors /\ (To(r, y1) \/ To(r, y2) \/ To(r, y3))
      BY <1>5 DEF StatStatic, StatusOfError
    <2> HIDE DEF x, m
    <2>2. ASSUME NEW y \in {y1, y2, y3}
          PROVE  /\ DOMAIN y = Fields /\ y.q = x.q /\ y.has = x.has /\ y.status = x.status
                 /\ y.content = x.content /\ y.pc \in {"index", "store", "serve"}
                 /\ y.meta = m /\ y.target = x.target
      BY <1>2 DEF Fields
    <2> HIDE DEF y1, y2, y3
    <2>4. ASSUME NEW y \in {y1, y2, y3}, m.type \notin Errors, To(r, y) PROVE IInv'
      BY <2>2, <2>4, <1>4 DEF m
    <2> QED BY <1>3, <2>1, <2>4
  <1>6. CASE IndexStatic(r)
    <2> DEFINE p == Append(x.joined, Indexes[x.k])
               m == Metadata(p)
               y1 == [x EXCEPT !.pc = "store"]
               y2 == [x EXCEPT !.pc = "store", !.target = p, !.meta = m]
               y3 == [x EXCEPT !.k = x.k + 1]
    <2>1. \/ To(r, Done(x, 403))
          \/ m.type = "file" /\ To(r, y2)
          \/ To(r, y1) \/ To(r, y3)
      BY <1>6 DEF IndexStatic, NextIndex
    <2>2. x.pc = "index"
      BY <1>6 DEF IndexStatic, At
    <2> HIDE DEF x, m, p
    <2>3. /\ DOMAIN y2 = Fields /\ y2.q = x.q /\ y2.has = x.has /\ y2.status = x.status
          /\ y2.content = x.content /\ y2.pc = "store" /\ y2.target = p /\ y2.meta = m
      BY <1>2 DEF Fields
    <2>4. ASSUME NEW y \in {y1, y3}
          PROVE  /\ DOMAIN y = Fields /\ y.q = x.q /\ y.has = x.has /\ y.status = x.status
                 /\ y.content = x.content /\ y.pc \in {"index", "store"}
                 /\ y.meta = x.meta /\ y.target = x.target
      BY <1>2, <2>2 DEF Fields
    <2> HIDE DEF y1, y2, y3
    <2>5. m.type = "file" /\ To(r, y2) => IInv'
      BY <2>3, <1>4 DEF m, Errors
    <2>6. ASSUME NEW y \in {y1, y3}, To(r, y) PROVE IInv'
      BY <2>2, <2>4, <2>6, <1>4
    <2> QED BY <1>3, <2>1, <2>5, <2>6
  <1> QED BY <1>5, <1>6

\* The path is cached, or the script is run.
LEMMA StoreStep ==
    ASSUME IInv, NEW r \in Slots, Store(r)
    PROVE  IInv'
  <1> DEFINE x == req[r]
             y == [x EXCEPT !.pc = IF Module(r) = "static" THEN "serve" ELSE "resolved"]
  <1>1. ReqInv(x) /\ x.pc = "store"
    BY DEF IInv, Store, At
  <1>2. x.pc \notin Sending /\ DOMAIN x = Fields
    BY <1>1 DEF Sending, ReqInv, Shape
  <1>3. UNCHANGED <<scene, tree, held, now, edits>> /\ req' = [req EXCEPT ![r] = y]
    BY DEF Store
  <1>4. /\ DOMAIN y = Fields /\ y.q = x.q /\ y.has = x.has /\ y.status = x.status
        /\ y.content = x.content /\ y.target = x.target /\ y.meta = x.meta
        /\ y.pc \in {"serve", "resolved"} /\ (y.pc = "serve" => x.q.site.module = "static")
    BY <1>2 DEF Fields, Module
  <1> HIDE DEF x, y
  <1>5. MetaInv(y) /\ SameInv(y) /\ y.pc \notin Sending
    BY <1>1, <1>4 DEF ReqInv, MetaInv, SameInv, Etag, Sending
  <1>6. ReqInv(y)
    BY <1>1, <1>2, <1>4, <1>5, LookupInv
  <1> QED BY <1>3, <1>6, OneRequest

\* The answer for a path is cached.
LEMMA AllowStep ==
    ASSUME IInv, NEW r \in Slots, Allow(r)
    PROVE  IInv'
  <1> DEFINE x == req[r]
             y == [x EXCEPT !.pc = IF x.q.site.module \in {"static", "cgi"} THEN "stat" ELSE "resolved"]
  <1>1. ReqInv(x) /\ x.pc = "allow"
    BY DEF IInv, Allow, At
  <1>2. x.pc \notin Sending /\ DOMAIN x = Fields
    BY <1>1 DEF Sending, ReqInv, Shape
  <1>3. /\ UNCHANGED <<scene, tree, held, now, edits>>
        /\ req' = [req EXCEPT ![r] = y] \/ req' = [req EXCEPT ![r] = Done(x, 403)]
    BY DEF Allow, Decided
  <1> HIDE DEF x
  <1>4. /\ DOMAIN y = Fields /\ y.q = x.q /\ y.has = x.has /\ y.status = x.status
        /\ y.content = x.content /\ y.pc \in {"stat", "resolved"}
    BY <1>2 DEF Fields
  <1> HIDE DEF y
  <1>5. MetaInv(y) /\ SameInv(y) /\ y.pc \notin Sending
    BY <1>4 DEF MetaInv, SameInv, Sending
  <1>6. ReqInv(y)
    BY <1>1, <1>2, <1>4, <1>5, LookupInv
  <1>7. ReqInv(Done(x, 403))
    BY <1>1, DoneInv
  <1> QED BY <1>3, <1>6, <1>7, OneRequest

LEMMA ExecuteStep ==
    ASSUME IInv, NEW r \in Slots, Execute(r)
    PROVE  IInv'
  <1> DEFINE x == req[r]
             z == [x EXCEPT !.env = Environment(x)]
  <1>1. ReqInv(x)
    BY DEF IInv, Execute, At
  <1>2. None \notin {200, 206, 304, 416}
    BY FileServingAssumption
  <1>3. DOMAIN x = Fields /\ x.q \in scene.requests
    BY <1>1 DEF ReqInv, Shape
  <1>4. To(r, Done(x, None)) \/ To(r, Done(z, None))
    BY DEF Execute
  <1>5. Shape(z)
    <2> HIDE DEF x
    <2> QED BY <1>3 DEF Shape, Fields
  <1> HIDE DEF x, z
  <1>6. ReqInv(Done(z, None))
    <2>1. Shape(Done(z, None)) /\ Done(z, None).pc = "done" /\ Done(z, None).status = None
      BY <1>5 DEF Done, Shape, Fields
    <2> QED BY <1>2, <2>1, AnsweredInv
  <1>7. ReqInv(Done(x, None))
    BY <1>1, <1>2, DoneInv
  <1> QED BY <1>4, <1>6, <1>7, ToKeeps

\* The file is opened or its compressed form is looked for: for a file that has
\* an ETag, and a request for all of it or for a part that is there.
LEMMA ServeFileStep ==
    ASSUME IInv, NEW r \in Slots, ServeFile(r)
    PROVE  IInv'
  <1> DEFINE w == req[r]
             x == [w EXCEPT !.etag = Etag(w)]
  <1>1. ReqInv(w) /\ w.pc = "serve" /\ w.meta.type = "file"
    BY DEF IInv, ServeFile, At
  <1>2. DOMAIN w = Fields /\ w.q \in scene.requests /\ w.q.site.module = "static"
    BY <1>1 DEF ReqInv, Shape, MetaInv
  <1>3. w.meta.size \in Numbers /\ Since(w.target, w.meta.modified)
    BY <1>1, <1>2 DEF ReqInv, MetaInv
  <1>4. To(r, IF NotModified(x) THEN Done(x, 304)
              ELSE IF PreconditionFailed(x) THEN Done(x, 412)
              ELSE IF x.q.range # None THEN Partial(x)
              ELSE Whole(x))
    BY DEF ServeFile
  <1>5. w.content = None /\ w.status \notin {200, 206, 304, 416}
    BY <1>1 DEF ReqInv, Unsent, Sending
  <1>6. w.has # None /\ ~w.q.site.precompressed /\ w.has.etag = Etag(w) =>
           InSeconds(w.has.modified) = InSeconds(w.meta.modified)
    BY <1>1, <1>2 DEF ReqInv, SameInv
  <1> HIDE DEF w
  <1>7. /\ DOMAIN x = Fields /\ x.q = w.q /\ x.has = w.has /\ x.content = None /\ x.meta = w.meta
        /\ x.target = w.target /\ x.etag = Etag(w)
    BY <1>2, <1>5 DEF Fields
  <1>8. x.q \in scene.requests /\ x.meta.size \in Numbers /\ (x.q.range # None => IsRange(x.q.range))
    BY <1>2, <1>3, <1>7, FileServingAssumption DEF IInv, IsScene, IsRequest
  <1> HIDE DEF x
  <1>9. ASSUME NEW y, y.pc \in Sending, DOMAIN y = Fields, y.q = x.q, y.content = None,
               y.pc = "compressed" => y.q.site.precompressed,
               y.pc = "open" => y.etag = x.etag /\ y.target = x.target /\ y.meta = x.meta,
               CurrentInv(y), RangeInv(y)
        PROVE  ReqInv(y)
    <2>1. Shape(y) /\ Unsent(y)
      BY <1>8, <1>9 DEF Shape, Unsent
    <2>2. MetaInv(y) /\ HasInv(y) /\ SameInv(y)
      BY <1>9 DEF MetaInv, HasInv, SameInv, Sending
    <2>3. TagInv(y)
      BY <1>3, <1>7, <1>9 DEF TagInv, Etag
    <2> QED BY <1>9, <2>1, <2>2, <2>3 DEF ReqInv
  <1>10. ASSUME NotModified(x) PROVE ReqInv(Done(x, 304))
    <2> DEFINE y == Done(x, 304)
    <2>1. /\ DOMAIN y = Fields /\ y.pc = "done" /\ y.q = x.q /\ y.content = x.content /\ y.status = 304
          /\ y.has = x.has /\ y.meta = x.meta
      BY <1>7 DEF Done, Fields
    <2> HIDE DEF y
    <2>2. ~y.q.site.precompressed => InSeconds(y.has.modified) = InSeconds(y.meta.modified)
      BY <1>6, <1>7, <1>10, <2>1 DEF NotModified
    <2>3. CurrentInv(y) /\ RangeInv(y)
      BY <2>1, <2>2 DEF CurrentInv, RangeInv
    <2>4. ReqInv(y)
      BY <1>7, <1>9, <2>1, <2>3 DEF Sending
    <2> QED BY <2>4 DEF y
  <1>11. ReqInv(Done(x, 412))
    <2>1. Shape(Done(x, 412)) /\ Done(x, 412).pc = "done" /\ Done(x, 412).status = 412
      BY <1>7, <1>8 DEF Done, Shape, Fields
    <2> QED BY <2>1, AnsweredInv
  <1>12. Opens(x, "open") \in {"open", "done"}
    BY DEF Opens
  <1>13. ReqInv(Whole(x))
    <2> DEFINE y == Whole(x)
    <2>1. /\ DOMAIN y = Fields /\ y.q = x.q /\ y.content = x.content /\ y.status = 200
          /\ y.etag = x.etag /\ y.target = x.target /\ y.meta = x.meta
          /\ y.pc \in {"compressed", "open", "done"} /\ (y.pc = "compressed" => x.q.site.precompressed)
      BY <1>7, <1>12 DEF Whole, Fields
    <2> HIDE DEF y
    <2>2. CurrentInv(y) /\ RangeInv(y)
      BY <2>1 DEF CurrentInv, RangeInv
    <2>3. ReqInv(y)
      BY <1>7, <1>9, <2>1, <2>2 DEF Sending
    <2> QED BY <2>3 DEF y
  <1>14. ASSUME x.q.range # None PROVE ReqInv(Partial(x))
    <2> DEFINE size == x.meta.size
               part == parse_range_header(x.q.range, size - 1)
               wanted == Wanted(x.q.range, size)
               there == wanted # {} /\ wanted \subseteq 0..(size - 1)
    <2>1. ASSUME ~there PROVE ReqInv(Done(x, 416))
      <3> DEFINE y == Done(x, 416)
      <3>1. /\ DOMAIN y = Fields /\ y.pc = "done" /\ y.q = x.q /\ y.content = x.content /\ y.status = 416
            /\ y.meta = x.meta
        BY <1>7 DEF Done, Fields
      <3> HIDE DEF y
      <3>2. CurrentInv(y) /\ RangeInv(y)
        BY <2>1, <3>1 DEF CurrentInv, RangeInv
      <3>3. ReqInv(y)
        BY <1>7, <1>9, <3>1, <3>2 DEF Sending
      <3> QED BY <3>3 DEF y
    <2>2. CASE size = 0
      <3>1. ~there
        BY <1>8, <1>14, <2>2, RangeOfNothing
      <3> QED BY <2>1, <2>2, <3>1 DEF Partial
    <2>3. CASE size # 0
      <3>1. /\ RangeOutside(part, size) <=> ~there
            /\ ~RangeOutside(part, size) => part[1]..part[2] = wanted
        BY <1>8, <1>14, <2>3, RangeParsed
      <3>2. CASE RangeOutside(part, size)
        BY <2>1, <2>3, <3>1, <3>2 DEF Partial
      <3>3. CASE ~RangeOutside(part, size)
        <4> DEFINE y == [x EXCEPT !.pc = Opens(x, "open"), !.status = 206, !.part = part]
        <4>1. Partial(x) = y
          BY <2>3, <3>3 DEF Partial
        <4> HIDE DEF part
        <4>2. /\ DOMAIN y = Fields /\ y.pc \in {"open", "done"} /\ y.q = x.q /\ y.content = x.content
              /\ y.status = 206 /\ y.meta = x.meta /\ y.part = part
              /\ y.etag = x.etag /\ y.target = x.target
          BY <1>7, <1>12 DEF Fields
        <4> HIDE DEF y
        <4>3. CurrentInv(y) /\ RangeInv(y)
          BY <3>1, <3>3, <4>2 DEF CurrentInv, RangeInv
        <4>4. ReqInv(y)
          BY <1>7, <1>9, <4>2, <4>3 DEF Sending
        <4> QED BY <4>1, <4>4
      <3> QED BY <3>2, <3>3
    <2> QED BY <2>2, <2>3
  <1> QED BY <1>4, <1>10, <1>11, <1>13, <1>14, ToKeeps

LEMMA ServeOtherStep ==
    ASSUME IInv, NEW r \in Slots, ServeDirectory(r) \/ ServeOther(r)
    PROVE  IInv'
  <1> DEFINE x == req[r]
  <1>1. ReqInv(x) /\ x.pc = "serve"
    BY DEF IInv, ServeDirectory, ServeOther, At
  <1>2. \E st \in {200, 403, 404, 501} : To(r, Done(x, st))
    BY DEF ServeDirectory, ServeOther
  <1>3. \A st \in {403, 404, 501} : ReqInv(Done(x, st))
    BY <1>1, DoneInv
  <1>4. ReqInv(Done(x, 200))
    <2> DEFINE y == Done(x, 200)
    <2> HIDE DEF x
    <2>1. DOMAIN x = Fields /\ x.q \in scene.requests /\ x.content = None
      BY <1>1 DEF ReqInv, Shape, Unsent
    <2>2. DOMAIN y = Fields /\ y.q = x.q /\ y.pc = "done" /\ y.status = 200 /\ y.content = None
      BY <2>1 DEF Done, Fields
    <2> HIDE DEF y
    <2>3. Shape(y) /\ Unsent(y) /\ MetaInv(y) /\ HasInv(y) /\ SameInv(y)
      BY <2>1, <2>2 DEF Shape, Unsent, MetaInv, HasInv, SameInv, Sending
    <2>4. TagInv(y) /\ CurrentInv(y) /\ RangeInv(y)
      BY <2>2 DEF TagInv, CurrentInv, RangeInv
    <2>5. ReqInv(y)
      BY <2>3, <2>4 DEF ReqInv
    <2> QED BY <2>5 DEF y
  <1> QED BY <1>2, <1>3, <1>4, ToKeeps

LEMMA PrecompressedStep ==
    ASSUME IInv, NEW r \in Slots, Precompressed(r)
    PROVE  IInv'
  <1> DEFINE x == req[r]
  <1>1. ReqInv(x) /\ x.pc = "compressed"
    BY DEF IInv, Precompressed, At
  <1>2. DOMAIN x = Fields /\ x.q \in scene.requests /\ x.content = None /\ x.q.site.precompressed
    BY <1>1 DEF ReqInv, Shape, Unsent
  <1>3. PICK p : To(r, [x EXCEPT !.pc = Opens(x, "open"), !.target = p])
    BY DEF Precompressed
  <1> DEFINE y == [x EXCEPT !.pc = Opens(x, "open"), !.target = p]
  <1> HIDE DEF x
  <1>4. /\ DOMAIN y = Fields /\ y.q = x.q /\ y.pc \in {"open", "done"} /\ y.content = None
        /\ y.status = x.status /\ y.has = x.has /\ y.meta = x.meta /\ y.part = x.part
    BY <1>2 DEF Opens, Fields
  <1> HIDE DEF y
  <1>5. Shape(y) /\ Unsent(y) /\ MetaInv(y) /\ HasInv(y) /\ SameInv(y)
    BY <1>2, <1>4 DEF Shape, Unsent, MetaInv, HasInv, SameInv, Sending
  <1>6. TagInv(y) /\ CurrentInv(y)
    BY <1>2, <1>4 DEF TagInv, CurrentInv
  <1>7. RangeInv(y)
    BY <1>1, <1>4 DEF ReqInv, RangeInv
  <1>8. ReqInv(y)
    BY <1>5, <1>6, <1>7 DEF ReqInv
  <1> QED BY <1>3, <1>8, ToKeeps DEF y

\* What is read now goes with the ETag, although that may be older: then what
\* is read is younger.
LEMMA OpenStep ==
    ASSUME IInv, NEW r \in Slots, Open(r)
    PROVE  IInv'
  <1> DEFINE x == req[r]
             m == Metadata(x.target)
             y == [x EXCEPT !.pc = "done", !.content = m.of, !.written = m.modified]
  <1>1. ReqInv(x) /\ x.pc = "open"
    BY DEF IInv, Open, At
  <1>2. DOMAIN x = Fields /\ x.q \in scene.requests
    BY <1>1 DEF ReqInv, Shape
  <1>3. (\E st \in {403, 404} : To(r, Done(x, st))) \/ (m.type \notin Errors /\ To(r, y))
    BY DEF Open, StatusOfError
  <1>4. \A st \in {403, 404} : ReqInv(Done(x, st))
    BY <1>1, DoneInv
  <1>5. ASSUME m.type \notin Errors PROVE ReqInv(y)
    <2>1. x.target \in DOMAIN tree /\ m = tree[x.target] /\ Since(x.target, m.modified)
      BY <1>5, MetaRead
    <2> HIDE DEF x, m
    <2>2. /\ DOMAIN y = Fields /\ y.q = x.q /\ y.pc = "done" /\ y.content = m.of /\ y.written = m.modified
          /\ y.status = x.status /\ y.has = x.has /\ y.meta = x.meta /\ y.part = x.part /\ y.etag = x.etag
      BY <1>2 DEF Fields
    <2> HIDE DEF y
    <2>3. Shape(y) /\ Unsent(y) /\ MetaInv(y) /\ HasInv(y) /\ SameInv(y)
      BY <1>2, <2>2 DEF Shape, Unsent, MetaInv, HasInv, SameInv, Sending
    <2>4. TagInv(y)
      <3>1. ASSUME ~x.q.site.precompressed PROVE Remembered(x.etag, m.modified)
        <4>1. x.etag = Etag(x) /\ Since(x.target, x.meta.modified)
          BY <1>1, <3>1 DEF ReqInv, TagInv
        <4>2. x.meta.modified \in Int /\ m.modified \in Int /\ x.meta.modified <= m.modified
          BY <2>1, <4>1 DEF Since
        <4>3. x.etag[1] = x.target /\ x.etag[3] = InSeconds(x.meta.modified)
          BY <4>1 DEF Etag
        <4> QED BY <2>1, <4>2, <4>3, SecondsOrdered DEF Remembered
      <3> QED BY <2>2, <3>1 DEF TagInv
    <2>5. CurrentInv(y)
      BY <1>1, <2>2 DEF ReqInv, CurrentInv
    <2>6. RangeInv(y)
      BY <1>1, <2>2 DEF ReqInv, RangeInv
    <2> QED BY <2>3, <2>4, <2>5, <2>6 DEF ReqInv
  <1> QED BY <1>3, <1>4, <1>5, ToKeeps

\* A client that keeps a file keeps what its ETag names.
LEMMA DeliverStep ==
    ASSUME IInv, NEW r \in Slots, Deliver(r)
    PROVE  IInv'
  <1> DEFINE x == req[r]
             key == <<x.q.site, x.q.path>>
             kept == [etag |-> x.etag, content |-> x.content, modified |-> x.written]
  <1>1. ReqInv(x) /\ x.pc = "done"
    BY DEF IInv, Deliver, At
  <1>2. UNCHANGED <<scene, tree, now, edits>> /\ req' = [req EXCEPT ![r] = None]
    BY DEF Deliver
  <1>3. held' = IF x.status = 200 /\ x.content # None THEN With(held, key, kept) ELSE held
    BY DEF Deliver
  <1>4. scene' \in Scenes /\ TreeType' /\ DOMAIN req' = Slots
    BY <1>2 DEF IInv, TreeType
  <1>5. HeldInv
    BY DEF IInv
  <1> HIDE DEF x
  <1>6. HeldInv'
    <2>1. ASSUME NEW tag, NEW content, Remembered(tag, content) PROVE Remembered(tag, content)'
      BY <1>2, <2>1 DEF Remembered, Since
    <2>2. CASE held' = held
      BY <1>5, <2>1, <2>2 DEF HeldInv
    <2>3. CASE x.status = 200 /\ x.content # None
      <3>1. held' = With(held, key, kept)
        BY <1>3, <2>3
      <3>2. ~key[1].precompressed => Remembered(kept.etag, kept.modified)
        BY <1>1, <2>3 DEF ReqInv, TagInv
      <3> HIDE DEF key, kept
      <3>3. ASSUME NEW k \in DOMAIN held', ~k[1].precompressed
            PROVE  Remembered(held'[k].etag, held'[k].modified)
        <4>1. CASE k = key
          BY <3>1, <3>2, <3>3, <4>1 DEF With
        <4>2. CASE k # key
          <5>1. k \in DOMAIN held /\ held'[k] = held[k]
            BY <3>1, <3>3, <4>2 DEF With
          <5> QED BY <1>5, <3>3, <5>1 DEF HeldInv
        <4> QED BY <4>1, <4>2
      <3> QED BY <2>1, <3>3 DEF HeldInv
    <2> QED BY <1>3, <2>2, <2>3
  <1>7. ASSUME NEW y, ReqInv(y) PROVE ReqInv(y)'
    BY <1>2, <1>7 DEF ReqInv, Shape, Unsent, MetaInv, HasInv, SameInv, TagInv, CurrentInv, RangeInv,
                      Remembered, Since
  <1>8. ASSUME NEW s \in Slots, req'[s] # None PROVE ReqInv(req[s])'
    <2>1. req'[s] = req[s] /\ ReqInv(req[s])
      BY <1>2, <1>8 DEF IInv
    <2> QED BY <1>7, <2>1
  <1> QED BY <1>4, <1>6, <1>8 DEF IInv

\* Time, and steps that change nothing.
LEMMA QuietStep ==
    ASSUME IInv, Tick \/ UNCHANGED vars
    PROVE  IInv'
  <1>1. UNCHANGED <<scene, tree, held, edits, req>> /\ now \in Nat /\ now' \in Nat /\ now <= now'
    BY DEF Tick, vars, IInv, TreeType
  <1>2. TreeType'
    <2>1. ASSUME NEW p \in DOMAIN tree PROVE tree[p].modified \in Int /\ tree[p].modified <= now'
      <3>1. tree[p].modified \in Int /\ tree[p].modified <= now
        BY DEF IInv, TreeType
      <3> QED BY <1>1, <3>1
    <2> QED BY <1>1, <2>1 DEF IInv, TreeType
  <1>3. ASSUME NEW p, NEW time, Since(p, time) PROVE Since(p, time)'
    BY <1>1, <1>3 DEF Since
  <1>4. ASSUME NEW tag, NEW time, Remembered(tag, time) PROVE Remembered(tag, time)'
    BY <1>3, <1>4 DEF Remembered
  <1>5. scene' \in Scenes /\ HeldInv' /\ DOMAIN req' = Slots
    BY <1>1, <1>4 DEF IInv, HeldInv
  <1>6. ASSUME NEW x, ReqInv(x) PROVE ReqInv(x)'
    <2>1. Shape(x)' /\ Unsent(x)' /\ SameInv(x)' /\ CurrentInv(x)' /\ RangeInv(x)'
      BY <1>1, <1>6 DEF ReqInv, Shape, Unsent, SameInv, CurrentInv, RangeInv
    <2>2. MetaInv(x)' /\ HasInv(x)' /\ TagInv(x)'
      BY <1>3, <1>4, <1>6 DEF ReqInv, MetaInv, HasInv, TagInv
    <2> QED BY <2>1, <2>2 DEF ReqInv
  <1>7. ASSUME NEW r \in Slots, req'[r] # None PROVE ReqInv(req[r])'
    BY <1>1, <1>6, <1>7 DEF IInv
  <1> QED BY <1>2, <1>5, <1>7 DEF IInv

LEMMA IInvInit == Init => IInv
  <1> SUFFICES ASSUME Init PROVE IInv
    OBVIOUS
  <1>1. scene \in Scenes /\ IsScene(scene) /\ tree = scene.tree /\ edits = 0 /\ now = 0
    BY FileServingAssumption DEF Init
  <1>2. TreeType
    BY <1>1 DEF TreeType, IsScene
  <1>3. HeldInv
    BY DEF Init, HeldInv
  <1>4. DOMAIN req = Slots /\ \A r \in Slots : req[r] = None
    BY DEF Init
  <1> QED BY <1>1, <1>2, <1>3, <1>4 DEF IInv

LEMMA IInvStep == IInv /\ [Next]_vars => IInv'
  <1> SUFFICES ASSUME IInv, [Next]_vars PROVE IInv'
    OBVIOUS
  <1>1. CASE Tick \/ UNCHANGED vars
    BY <1>1, QuietStep
  <1>2. CASE \E p \in scene.editable : WriteFile(p) \/ RemoveFile(p)
    BY <1>2, EditStep
  <1>3. ASSUME NEW r \in Slots, Step(r) PROVE IInv'
    BY <1>3, ArriveStep, RefuseStep, LookupStep, AllowStep, StaticStep, StoreStep, ExecuteStep, ServeFileStep,
       ServeOtherStep, PrecompressedStep, OpenStep, DeliverStep, Zenon DEF Step
  <1> QED BY <1>1, <1>2, <1>3 DEF Next

\* The inductive invariant holds in every state.
THEOREM IInvAlways == Spec => []IInv
  BY IInvInit, IInvStep, PTL DEF Spec

\* A client that is told with 304 that its copy is current has what is in the
\* file or what was written in the same second, for any number of requests,
\* replacements and removals at the same time (static.rs, the comparison with
\* If-None-Match).
THEOREM NotModifiedCurrentAlways == Spec => []NotModifiedCurrent
  <1>1. IInv => NotModifiedCurrent
    BY DEF IInv, ReqInv, CurrentInv, NotModifiedCurrent
  <1> QED BY <1>1, IInvAlways, PTL

\* For files and ranges of any size that u64 holds, wrapping included, a range
\* is answered with 206 and exactly the bytes it asks for, just if they are all
\* there (static.rs, parse_range_header and the check of its result).
THEOREM RangeRightAlways == Spec => []RangeRight
  <1>1. IInv => RangeRight
    BY DEF IInv, ReqInv, RangeInv, RangeRight
  <1> QED BY <1>1, IInvAlways, PTL

-----------------------------------------------------------------------------
(***************************************************************************)
(* What a path stands for.                                                 *)
(***************************************************************************)
\* The beginnings of a path.
LEMMA PrefixFacts ==
    ASSUME NEW p \in Seq(STRING), NEW n \in 0..Len(p)
    PROVE  /\ SubSeq(p, 1, n) \in Seq(STRING) /\ Len(SubSeq(p, 1, n)) = n
           /\ \A i \in 1..n : SubSeq(p, 1, n)[i] = p[i]
  <1>1. Len(p) \in Nat /\ \A i \in 1..n : p[i] \in STRING
    BY LenProperties, ElementOfSeq
  <1>2. n \in Int /\ n >= 0 /\ n - 1 + 1 = n
    BY <1>1
  <1>3. /\ SubSeq(p, 1, n) \in Seq(STRING) /\ Len(SubSeq(p, 1, n)) = IF 1 <= n THEN n - 1 + 1 ELSE 0
        /\ \A i \in 1..(n - 1 + 1) : SubSeq(p, 1, n)[i] = p[1 + i - 1]
    BY <1>1, <1>2, SubSeqProperties
  <1>4. \A i \in 1..n : SubSeq(p, 1, n)[i] = p[i]
    BY <1>2, <1>3
  <1> QED BY <1>2, <1>3, <1>4

LEMMA PrefixOfPrefix ==
    ASSUME NEW p \in Seq(STRING), NEW n \in 0..Len(p), NEW m \in 0..n
    PROVE  SubSeq(SubSeq(p, 1, n), 1, m) = SubSeq(p, 1, m)
  <1> DEFINE s == SubSeq(p, 1, n)
  <1>1. Len(p) \in Nat
    BY LenProperties
  <1>2. s \in Seq(STRING) /\ Len(s) = n /\ \A i \in 1..n : s[i] = p[i]
    BY PrefixFacts
  <1>3. m \in 0..Len(p) /\ m \in 0..Len(s)
    BY <1>1, <1>2
  <1> HIDE DEF s
  <1>4. /\ SubSeq(s, 1, m) \in Seq(STRING) /\ Len(SubSeq(s, 1, m)) = m
        /\ \A i \in 1..m : SubSeq(s, 1, m)[i] = s[i]
    BY <1>2, <1>3, PrefixFacts
  <1>5. /\ SubSeq(p, 1, m) \in Seq(STRING) /\ Len(SubSeq(p, 1, m)) = m
        /\ \A i \in 1..m : SubSeq(p, 1, m)[i] = p[i]
    BY <1>3, PrefixFacts
  <1>6. \A i \in 1..m : i \in 1..n
    BY <1>1, <1>3
  <1>7. SubSeq(s, 1, m) = SubSeq(p, 1, m)
    BY <1>2, <1>4, <1>5, <1>6, SeqEqual
  <1> QED BY <1>7 DEF s

LEMMA StrictlyBefore ==
    ASSUME NEW p \in Seq(STRING)
    PROVE  /\ ~IsStrictPrefix(p, p)
           /\ \A i : ~IsStrictPrefix(Append(p, i), p)
           /\ \A n \in 1..(Len(p) - 1) : IsStrictPrefix(SubSeq(p, 1, n), p)
  <1>0. Len(p) \in Nat
    BY LenProperties
  <1>1. ASSUME NEW i PROVE ~IsStrictPrefix(Append(p, i), p)
    <2>1. Len(Append(p, i)) = Len(p) + 1
      OBVIOUS
    <2>2. ~(Len(Append(p, i)) <= Len(p))
      BY <1>0, <2>1
    <2> QED BY <2>2, Zenon DEF IsStrictPrefix, IsPrefix
  <1>2. ASSUME NEW n \in 1..(Len(p) - 1) PROVE IsStrictPrefix(SubSeq(p, 1, n), p)
    <2>1. n \in 0..Len(p) /\ n # Len(p) /\ n <= Len(p) /\ n \in 0..n
      BY <1>0
    <2>2. Len(SubSeq(p, 1, n)) = n
      BY <2>1, PrefixFacts
    <2>3. SubSeq(SubSeq(p, 1, n), 1, n) = SubSeq(p, 1, n)
      BY <2>1, PrefixOfPrefix
    <2> QED BY <2>1, <2>2, <2>3 DEF IsStrictPrefix, IsPrefix
  <1> QED BY <1>1, <1>2 DEF IsStrictPrefix

LEMMA FileIs ==
    ASSUME NEW p
    PROVE  Metadata(p).type = "file" <=> p \in DOMAIN tree /\ tree[p].type = "file"
  BY DEF Metadata, Error, Node

\* On the way to something there are only directories ...
LEMMA NoFileAbove ==
    ASSUME IsTree(tree), NEW p \in DOMAIN tree, NEW q \in ProperPrefixes(p)
    PROVE  Metadata(q).type = "dir"
  BY DEF IsTree, Metadata

\* ... and so at most one file on the way to anything.
LEMMA NothingBelow ==
    ASSUME IsTree(tree), NEW p \in Seq(STRING), NEW m \in 1..Len(p), NEW n \in 1..Len(p), m < n,
           SubSeq(p, 1, n) \in DOMAIN tree
    PROVE  Metadata(SubSeq(p, 1, m)).type = "dir"
  <1>0. Len(p) \in Nat
    BY LenProperties
  <1>1. n \in 0..Len(p) /\ m \in 0..n /\ m \in 1..(n - 1)
    BY <1>0
  <1>2. Len(SubSeq(p, 1, n)) = n /\ SubSeq(SubSeq(p, 1, n), 1, m) = SubSeq(p, 1, m)
    BY <1>1, PrefixFacts, PrefixOfPrefix
  <1>3. SubSeq(p, 1, m) \in ProperPrefixes(SubSeq(p, 1, n))
    BY <1>1, <1>2 DEF ProperPrefixes
  <1> QED BY <1>3, NoFileAbove

LEMMA OneFile ==
    ASSUME IsTree(tree), NEW p \in Seq(STRING), NEW m \in 1..Len(p), NEW n \in 1..Len(p),
           Metadata(SubSeq(p, 1, m)).type = "file", Metadata(SubSeq(p, 1, n)).type = "file"
    PROVE  m = n
  <1>0. Len(p) \in Nat
    BY LenProperties
  <1>1. SubSeq(p, 1, m) \in DOMAIN tree /\ SubSeq(p, 1, n) \in DOMAIN tree
    BY FileIs
  <1>2. ~(m < n)
    BY <1>1, NothingBelow
  <1>3. ~(n < m)
    BY <1>1, NothingBelow
  <1> QED BY <1>0, <1>2, <1>3

\* The first index file of a directory.
FirstIndex(p, i) ==
    /\ i \in DOMAIN Indexes /\ Metadata(Append(p, Indexes[i])).type = "file"
    /\ \A j \in DOMAIN Indexes : j < i => Metadata(Append(p, Indexes[j])).type # "file"

IsDir(p) == p \in DOMAIN tree /\ tree[p].type = "dir"

LEMMA StaticForFile ==
    ASSUME NEW q, ~IsDir(Full(q)) PROVE StaticFor(q) = Full(q)
  BY DEF StaticFor, IsDir

LEMMA StaticForBare ==
    ASSUME NEW q, \A i \in DOMAIN Indexes : Metadata(Append(Full(q), Indexes[i])).type # "file"
    PROVE  StaticFor(q) = Full(q)
  BY DEF StaticFor

LEMMA StaticForIndex ==
    ASSUME NEW q, NEW i, IsDir(Full(q)), FirstIndex(Full(q), i)
    PROVE  StaticFor(q) = Append(Full(q), Indexes[i])
  <1> DEFINE p == Full(q)
             files == {j \in DOMAIN Indexes : Metadata(Append(p, Indexes[j])).type = "file"}
  <1>1. DOMAIN Indexes = 1..Len(Indexes) /\ Len(Indexes) \in Nat
    BY FileServingAssumption, LenProperties
  <1>2. i \in files /\ \A j \in files : i <= j
    BY <1>1 DEF FirstIndex
  <1>3. files \subseteq Nat
    BY <1>1
  <1>4. StaticFor(q) = Append(p, Indexes[CHOOSE k \in files : \A j \in files : k <= j])
    BY <1>2 DEF StaticFor, IsDir
  <1> HIDE DEF files
  <1>5. (CHOOSE k \in files : \A j \in files : k <= j) = i
    <2> DEFINE k == CHOOSE k \in files : \A j \in files : k <= j
    <2>1. k \in files /\ \A j \in files : k <= j
      BY <1>2
    <2> HIDE DEF k
    <2>2. k = i
      BY <1>2, <1>3, <2>1
    <2> QED BY <2>2 DEF k
  <1> QED BY <1>4, <1>5

\* The files among which ScriptFor looks, and those that it takes.
Candidates(q) == ProperPrefixes(Full(q)) \cup {Full(q), StaticFor(q)}
Takes(q, x) ==
    \/ Last(x) \in Scripts
    \/ InCgiBin(q.path) /\ (q.site.module = "cgi" \/ IsStrictPrefix(x, Full(q)))

LEMMA ScriptNone ==
    ASSUME NEW q, \A x \in Candidates(q) : ~(Metadata(x).type = "file" /\ Takes(q, x))
    PROVE  ScriptFor(q) = <<None, None>>
  <1> DEFINE p == Full(q)
             way == {x \in ProperPrefixes(p) \cup {p, StaticFor(q)} : Metadata(x).type = "file"}
             found == {x \in way : Takes(q, x)}
  <1>1. found = {}
    BY DEF Candidates
  <1>2. ScriptFor(q) = IF found = {} THEN <<None, None>>
                       ELSE LET x == CHOOSE x \in found : TRUE
                            IN <<x, IF IsStrictPrefix(x, p) THEN SubSeq(p, Len(x) + 1, Len(p)) ELSE None>>
    BY DEF ScriptFor, Takes
  <1> QED BY <1>1, <1>2

LEMMA ScriptOne ==
    ASSUME NEW q, NEW y \in Candidates(q), Metadata(y).type = "file", Takes(q, y),
           \A x \in Candidates(q) : Metadata(x).type = "file" => x = y
    PROVE  ScriptFor(q) =
              <<y, IF IsStrictPrefix(y, Full(q)) THEN SubSeq(Full(q), Len(y) + 1, Len(Full(q))) ELSE None>>
  <1> DEFINE p == Full(q)
             way == {x \in ProperPrefixes(p) \cup {p, StaticFor(q)} : Metadata(x).type = "file"}
             found == {x \in way : Takes(q, x)}
  <1>1. found = {y}
    BY DEF Candidates
  <1>2. ScriptFor(q) = IF found = {} THEN <<None, None>>
                       ELSE LET x == CHOOSE x \in found : TRUE
                            IN <<x, IF IsStrictPrefix(x, p) THEN SubSeq(p, Len(x) + 1, Len(p)) ELSE None>>
    BY DEF ScriptFor, Takes
  <1> HIDE DEF found
  <1>3. (CHOOSE x \in found : TRUE) = y
    BY <1>1
  <1> QED BY <1>1, <1>2, <1>3

LEMMA FullFacts ==
    ASSUME IInv, NEW q \in scene.requests
    PROVE  /\ Full(q) \in Seq(STRING) /\ Len(Full(q)) \in Nat /\ Len(Full(q)) > 0
           /\ Full(q) = SubSeq(Full(q), 1, Len(Full(q)))
           /\ q.path \in Seq(STRING) /\ q.site.root \in STRING
  <1>1. q.path \in Seq(STRING) /\ q.site.root \in STRING
    BY FileServingAssumption DEF IInv, IsScene, IsRequest, IsSite
  <1>2. <<q.site.root>> \in Seq(STRING) /\ Len(<<q.site.root>>) = 1
    BY <1>1
  <1>3. Full(q) \in Seq(STRING) /\ Len(Full(q)) = 1 + Len(q.path) /\ Len(q.path) \in Nat
    BY <1>1, <1>2, ConcatProperties, LenProperties DEF Full
  <1>4. Len(Full(q)) \in 0..Len(Full(q)) /\ Len(Full(q)) \in Nat /\ Len(Full(q)) > 0
    BY <1>3
  <1>5. Full(q) = SubSeq(Full(q), 1, Len(Full(q)))
    <2> HIDE DEF Full
    <2> DEFINE p == Full(q)
               s == SubSeq(p, 1, Len(p))
    <2>1. s \in Seq(STRING) /\ Len(s) = Len(p) /\ \A i \in 1..Len(p) : s[i] = p[i]
      BY <1>3, <1>4, PrefixFacts
    <2> HIDE DEF s, p
    <2>2. s = p
      BY <1>3, <2>1, SeqEqual DEF p
    <2> QED BY <2>2 DEF s, p
  <1> QED BY <1>1, <1>3, <1>4, <1>5

\* The only file on the way to a path, or at its end, is the script for it or there
\* is none.
LEMMA ScriptAtEnd ==
    ASSUME IInv, IsTree(tree), NEW q \in scene.requests, Full(q) \in DOMAIN tree, ~IsDir(Full(q))
    PROVE  ScriptFor(q) = IF tree[Full(q)].type = "file" /\ Takes(q, Full(q))
                          THEN <<Full(q), None>> ELSE <<None, None>>
  <1> DEFINE p == Full(q)
  <1>1. StaticFor(q) = p
    BY StaticForFile
  <1>2. \A x \in ProperPrefixes(p) : Metadata(x).type = "dir"
    BY NoFileAbove
  <1>3. \A x \in Candidates(q) : Metadata(x).type = "file" => x = p
    BY <1>1, <1>2 DEF Candidates
  <1>4. p \in Candidates(q) /\ (Metadata(p).type = "file" <=> tree[p].type = "file")
    BY FileIs DEF Candidates
  <1>5. ~IsStrictPrefix(p, p)
    BY DEF IsStrictPrefix
  <1>6. CASE tree[p].type = "file" /\ Takes(q, p)
    BY <1>3, <1>4, <1>5, <1>6, ScriptOne
  <1>7. CASE ~(tree[p].type = "file" /\ Takes(q, p))
    BY <1>3, <1>4, <1>7, ScriptNone
  <1> QED BY <1>6, <1>7

LEMMA ScriptIndex ==
    ASSUME IInv, IsTree(tree), NEW q \in scene.requests, NEW i, IsDir(Full(q)), FirstIndex(Full(q), i),
           NEW y, y = Append(Full(q), Indexes[i])
    PROVE  ScriptFor(q) = IF Takes(q, y) THEN <<y, None>> ELSE <<None, None>>
  <1> DEFINE p == Full(q)
  <1>1. StaticFor(q) = y
    BY StaticForIndex
  <1>2. (\A x \in ProperPrefixes(p) : Metadata(x).type = "dir") /\ Metadata(p).type = "dir"
    BY NoFileAbove DEF IsDir, Metadata
  <1>3. \A x \in Candidates(q) : Metadata(x).type = "file" => x = y
    BY <1>1, <1>2 DEF Candidates
  <1>4. y \in Candidates(q) /\ Metadata(y).type = "file"
    BY <1>1 DEF Candidates, FirstIndex
  <1>5. ~IsStrictPrefix(y, p)
    <2>1. Indexes[i] \in STRING /\ p \in Seq(STRING)
      BY FileServingAssumption, FullFacts, LenProperties, ElementOfSeq DEF FirstIndex
    <2> HIDE DEF p
    <2> QED BY <2>1, StrictlyBefore DEF p
  <1>6. CASE Takes(q, y)
    <2>1. ScriptFor(q) = <<y, IF IsStrictPrefix(y, p) THEN SubSeq(p, Len(y) + 1, Len(p)) ELSE None>>
      BY <1>3, <1>4, <1>6, ScriptOne, Zenon
    <2> QED BY <1>5, <1>6, <2>1
  <1>7. CASE ~Takes(q, y)
    <2>1. \A x \in Candidates(q) : ~(Metadata(x).type = "file" /\ Takes(q, x))
      BY <1>3, <1>7, Zenon
    <2>2. ScriptFor(q) = <<None, None>>
      BY <2>1, ScriptNone, Zenon
    <2> QED BY <1>7, <2>2
  <1> QED BY <1>6, <1>7

LEMMA ScriptBare ==
    ASSUME IInv, IsTree(tree), NEW q \in scene.requests, IsDir(Full(q)),
           \A i \in DOMAIN Indexes : Metadata(Append(Full(q), Indexes[i])).type # "file"
    PROVE  ScriptFor(q) = <<None, None>>
  <1> DEFINE p == Full(q)
  <1>1. StaticFor(q) = p
    BY StaticForBare
  <1>2. (\A x \in ProperPrefixes(p) : Metadata(x).type = "dir") /\ Metadata(p).type = "dir"
    BY NoFileAbove DEF IsDir, Metadata
  <1>3. \A x \in Candidates(q) : Metadata(x).type # "file"
    BY <1>1, <1>2 DEF Candidates
  <1> QED BY <1>3, ScriptNone

\* Where there is nothing at the end: the file on the way, if there is one.
LEMMA ScriptNoWay ==
    ASSUME IInv, NEW q \in scene.requests, Full(q) \notin DOMAIN tree,
           \A x \in ProperPrefixes(Full(q)) : ~(Metadata(x).type = "file" /\ Takes(q, x))
    PROVE  ScriptFor(q) = <<None, None>>
  <1>1. StaticFor(q) = Full(q)
    BY StaticForFile DEF IsDir
  <1>2. Metadata(Full(q)).type # "file"
    BY FileIs
  <1> QED BY <1>1, <1>2, ScriptNone DEF Candidates

LEMMA ScriptOnWay ==
    ASSUME IInv, IsTree(tree), NEW q \in scene.requests, Full(q) \notin DOMAIN tree,
           NEW n \in 1..(Len(Full(q)) - 1), Metadata(SubSeq(Full(q), 1, n)).type = "file",
           Takes(q, SubSeq(Full(q), 1, n))
    PROVE  ScriptFor(q) = <<SubSeq(Full(q), 1, n), SubSeq(Full(q), n + 1, Len(Full(q)))>>
  <1> DEFINE p == Full(q)
             y == SubSeq(p, 1, n)
  <1>1. StaticFor(q) = p /\ Metadata(p).type # "file"
    BY StaticForFile, FileIs DEF IsDir
  <1>2. p \in Seq(STRING) /\ Len(p) \in Nat
    BY FullFacts
  <1>3. n \in 1..Len(p) /\ n \in 0..Len(p)
    BY <1>2
  <1>4. y \in ProperPrefixes(p) /\ IsStrictPrefix(y, p) /\ Len(y) = n
    BY <1>2, <1>3, StrictlyBefore, PrefixFacts DEF ProperPrefixes
  <1>5. ASSUME NEW x \in ProperPrefixes(p), Metadata(x).type = "file" PROVE x = y
    <2>1. PICK m \in 1..(Len(p) - 1) : x = SubSeq(p, 1, m)
      BY DEF ProperPrefixes
    <2>2. m \in 1..Len(p)
      BY <1>2
    <2> HIDE DEF p
    <2>3. m = n
      BY <1>2, <1>3, <1>5, <2>1, <2>2, OneFile DEF p
    <2> QED BY <2>1, <2>3
  <1>6. \A x \in Candidates(q) : Metadata(x).type = "file" => x = y
    BY <1>1, <1>5 DEF Candidates
  <1>7. y \in Candidates(q)
    BY <1>4 DEF Candidates
  <1> HIDE DEF y
  <1>8. ScriptFor(q) = <<y, IF IsStrictPrefix(y, p) THEN SubSeq(p, Len(y) + 1, Len(p)) ELSE None>>
    BY <1>6, <1>7, ScriptOne DEF y
  <1> QED BY <1>4, <1>8 DEF y

LEMMA SameTree ==
    ASSUME tree' = tree
    PROVE  /\ \A p : Metadata(p)' = Metadata(p)
           /\ \A q : StaticFor(q)' = StaticFor(q)
           /\ \A q : ScriptFor(q)' = ScriptFor(q)
  <1>1. ASSUME NEW p PROVE Metadata(p)' = Metadata(p)
    BY DEF Metadata
  <1>2. ASSUME NEW q PROVE StaticFor(q)' = StaticFor(q)
    BY DEF StaticFor, Metadata
  <1>3. ASSUME NEW q PROVE ScriptFor(q)' = ScriptFor(q)
    BY DEF ScriptFor, StaticFor, Metadata
  <1> QED BY <1>1, <1>2, <1>3

-----------------------------------------------------------------------------
(***************************************************************************)
(* The inductive invariant of the lookups.  It is about lookups that see   *)
(* one state of the files from their beginning to their end: the steps of  *)
(* such a lookup (Progress) and what it stores are right for that state,   *)
(* which is the state as long as the number of edits is that at its        *)
(* beginning.  What an older lookup stores moves settled.                  *)
(***************************************************************************)
\* The modules that look at the file system for what to serve or to run.
Looked(q) == q.site.module \in {"static", "cgi", "fcgi"}

Rightly(q, target, info) ==
    IF q.site.module = "static" THEN target = StaticFor(q) ELSE <<target, info>> = ScriptFor(q)

\* A beginning of the path that Pop stops at.
RunsAt(q, p) == Metadata(p).type = "file" /\ (InCgiBin(q.path) \/ HasExtension(p))

\* No index file so far; no script so far.
NoIndexBelow(p, k) == \A i \in DOMAIN Indexes : i < k => Metadata(Append(p, Indexes[i])).type # "file"
NoScriptFrom(q, k) == \A n \in k..(Len(Full(q)) - 1) : ~RunsAt(q, SubSeq(Full(q), 1, n))

Progress(x) ==
    LET p == Full(x.q) IN
    /\ x.pc \in {"check", "allow", "stat", "index", "pop"} =>
          x.joined = p /\ (x.q.site.module = "static" => x.target = p)
    /\ x.pc = "index" => IsDir(p) /\ x.k \in Nat \ {0} /\ NoIndexBelow(p, x.k)
    /\ x.pc = "pop" =>
          x.k \in 1..Len(p) /\ Metadata(p).type = "not a directory" /\ NoScriptFrom(x.q, x.k)
    /\ x.pc \in {"store", "serve", "resolved"} /\ Looked(x.q) => Rightly(x.q, x.target, x.info)

\* The request began when the cache had only what is right.
Calm(x) == x.epoch = edits /\ x.time >= settled + Ttl

PathTold(x) ==
    x.env # None /\ x.info # None /\ x.q.site.module \in {"cgi", "fcgi"} =>
        x.env["SCRIPT_NAME"] \o x.env["PATH_INFO"] = x.q.path

\* Where a request can be, by its module and by whether it was cached.
Placed(x) ==
    /\ x.epoch \in Nat /\ x.epoch <= edits /\ x.time \in Nat /\ x.hit \in BOOLEAN
    /\ x.pc \in {"stat", "index", "pop", "store"} => Looked(x.q)
    /\ x.pc = "check" => x.q.site.module # "fcgi"
    /\ x.pc = "allow" => x.q.site.module = "static"
    /\ x.hit => /\ Looked(x.q) /\ x.pc \notin {"index", "pop", "store"}
                /\ x.pc \in {"check", "allow", "stat"} => x.q.site.module = "static"
    /\ x.pc # "done" => x.env = None

Followed(x) ==
    /\ Placed(x)
    /\ ~x.hit /\ x.epoch = edits => Progress(x)
    /\ x.hit /\ Calm(x) /\ x.pc \in {"check", "allow", "stat", "serve", "resolved"} => Rightly(x.q, x.target, x.info)
    /\ Calm(x) => PathTold(x)

\* What was cached since is right for every request with its key.
Valid(key, e) == \A q \in scene.requests : CacheKey(q) = key => Rightly(q, e.target, e.info)

CacheInv ==
    \A key \in DOMAIN cache :
        cache[key].time \in 0..now /\ (cache[key].time > settled => Valid(key, cache[key]))

TreeInv == IsTree(tree) /\ \A p \in scene.editable : p \in DOMAIN tree => tree[p].type = "file"

RInv ==
    /\ now \in Nat /\ settled \in Int /\ settled <= now
    /\ TreeInv
    /\ CacheInv
    /\ \A r \in Slots : req[r] # None => Followed(req[r])

\* While the files stay as they are, what is right stays right.
LEMMA SameProgress ==
    ASSUME tree' = tree, edits' = edits, settled \in Int, settled' \in Int, settled' >= settled,
           NEW x, Followed(x)
    PROVE  Followed(x)'
  <1>0. Ttl \in Nat
    BY FileServingAssumption
  <1>1. (\A p : Metadata(p)' = Metadata(p)) /\ (\A q : StaticFor(q)' = StaticFor(q))
        /\ \A q : ScriptFor(q)' = ScriptFor(q)
    BY SameTree
  <1>2. ASSUME NEW q, NEW t, NEW i, Rightly(q, t, i) PROVE Rightly(q, t, i)'
    BY <1>1, <1>2 DEF Rightly
  <1>3. Progress(x) => Progress(x)'
    <2>1. \A p, k : NoIndexBelow(p, k) => NoIndexBelow(p, k)'
      BY <1>1 DEF NoIndexBelow
    <2>2. \A q, k : NoScriptFrom(q, k) => NoScriptFrom(q, k)'
      BY <1>1 DEF NoScriptFrom, RunsAt
    <2>3. \A p : IsDir(p) => IsDir(p)'
      BY DEF IsDir
    <2> QED BY <1>1, <1>2, <2>1, <2>2, <2>3 DEF Progress
  <1>4. Placed(x)' /\ (PathTold(x) => PathTold(x)')
    BY DEF Followed, Placed, PathTold, Looked
  <1>5. Calm(x)' => Calm(x)
    <2>1. x.time \in Nat
      BY DEF Followed, Placed
    <2> QED BY <1>0, <2>1 DEF Calm
  <1> QED BY <1>2, <1>3, <1>4, <1>5 DEF Followed

LEMMA SameValid ==
    ASSUME tree' = tree, scene' = scene, NEW key, NEW e, Valid(key, e)
    PROVE  Valid(key, e)'
  <1>1. (\A q : StaticFor(q)' = StaticFor(q)) /\ \A q : ScriptFor(q)' = ScriptFor(q)
    BY SameTree
  <1> QED BY <1>1 DEF Valid, Rightly, CacheKey

\* A step that changes one request only.
LEMMA OneFollowed ==
    ASSUME IInv, RInv, NEW r \in Slots, NEW y, y # None => Followed(y),
           UNCHANGED <<scene, tree, cache, now, edits, settled>>, req' = [req EXCEPT ![r] = y]
    PROVE  RInv'
  <1>0. /\ scene' = scene /\ tree' = tree /\ cache' = cache /\ now' = now /\ edits' = edits
        /\ settled' = settled /\ settled \in Int /\ settled >= settled
    BY DEF RInv
  <1>1. TreeInv' /\ now' \in Nat /\ settled' \in Int /\ settled' <= now'
    BY <1>0 DEF RInv, TreeInv
  <1>2. CacheInv'
    BY <1>0, SameValid DEF RInv, CacheInv
  <1>3. ASSUME NEW s \in Slots, req'[s] # None PROVE Followed(req[s])'
    <2>1. req'[s] = IF s = r THEN y ELSE req[s]
      BY DEF IInv
    <2>2. Followed(req'[s])
      BY <1>3, <2>1 DEF RInv
    <2>3. ASSUME NEW x, x = req'[s] PROVE Followed(x)'
      BY <1>0, <2>2, <2>3, SameProgress
    <2> QED BY <2>3
  <1> QED BY <1>1, <1>2, <1>3 DEF RInv

LEMMA ToFollowed ==
    ASSUME IInv, RInv, NEW r \in Slots, NEW y, To(r, y), Followed(y)
    PROVE  RInv'
  BY OneFollowed DEF To

-----------------------------------------------------------------------------
(***************************************************************************)
(* The steps of a lookup.                                                  *)
(***************************************************************************)
\* The same request: only where it is and what was found changes.
SameRequest(x, y) ==
    DOMAIN y = Fields /\ y.q = x.q /\ y.hit = x.hit /\ y.epoch = x.epoch /\ y.time = x.time

\* A request that is past its lookup, and not at a script.
LEMMA PastFollowed ==
    ASSUME NEW x, Followed(x), x.pc # "done", NEW y, SameRequest(x, y), y.pc \in Sending, y.env = x.env
    PROVE  Followed(y)
  <1>1. y.env = None /\ y.pc \notin {"check", "allow", "stat", "index", "pop", "store", "serve", "resolved"}
    BY DEF Followed, Placed, Sending
  <1>2. Placed(y)
    BY <1>1 DEF Followed, Placed, Looked, SameRequest
  <1> QED BY <1>1, <1>2 DEF Followed, Progress, PathTold

\* A lookup that goes on or ends.
LEMMA OnFollowed ==
    ASSUME NEW x, Followed(x), x.pc # "done", ~x.hit, Looked(x.q),
           NEW y, SameRequest(x, y), y.env = x.env,
           y.pc \in {"stat", "index", "pop", "store", "serve", "resolved"},
           x.epoch = edits => Progress(y)
    PROVE  Followed(y)
  <1>1. y.env = None /\ ~y.hit
    BY DEF Followed, Placed, SameRequest
  <1>2. Placed(y)
    BY <1>1 DEF Followed, Placed, Looked, SameRequest
  <1> QED BY <1>1, <1>2 DEF Followed, PathTold, SameRequest

\* What is known of a request that is not at its end.
LEMMA ReqFacts ==
    ASSUME IInv, RInv, NEW r \in Slots, NEW x, x = req[r], x # None
    PROVE  /\ DOMAIN x = Fields /\ x.q \in scene.requests /\ Followed(x)
           /\ x.q.site.module \in Modules /\ IsTree(tree)
           /\ x.pc = "serve" => x.q.site.module = "static"
           /\ x.pc = "pop" => x.q.site.module # "static"
  <1>1. ReqInv(x) /\ Followed(x) /\ IsTree(tree)
    BY DEF IInv, RInv, TreeInv
  <1>2. DOMAIN x = Fields /\ x.q \in scene.requests
    BY <1>1 DEF ReqInv, Shape
  <1>3. x.q.site.module \in Modules
    BY <1>2, FileServingAssumption DEF IInv, IsScene, IsRequest, IsSite
  <1> QED BY <1>1, <1>2, <1>3 DEF ReqInv, MetaInv

LEMMA DoneFollowed ==
    ASSUME NEW x, DOMAIN x = Fields, Followed(x), x.pc # "done", NEW st
    PROVE  Followed(Done(x, st))
  <1>1. SameRequest(x, Done(x, st)) /\ Done(x, st).pc = "done" /\ Done(x, st).env = x.env
    BY DEF Done, SameRequest, Fields
  <1> QED BY <1>1, PastFollowed DEF Sending

\* The path was not cached, or is not looked up.
LEMMA MissFollowed ==
    ASSUME IInv, RInv, NEW q \in scene.requests, NEW pc \in {"check", "stat", "resolved", "done"},
           NEW target, NEW info, NEW y, y = NewRequest(q, pc, FALSE, target, info),
           pc = "stat" => Looked(q),
           pc = "check" => q.site.module # "fcgi",
           pc = "resolved" => ~Looked(q),
           pc \in {"check", "stat"} /\ q.site.module = "static" => target = Full(q)
    PROVE  Followed(y)
  <1>1. /\ y.q = q /\ y.pc = pc /\ y.hit = FALSE /\ y.target = target /\ y.env = None /\ y.epoch = edits
        /\ y.joined = (IF q.site.module = "static" THEN target ELSE Full(q)) /\ y.time = now
    BY DEF NewRequest
  <1>2. edits \in Nat /\ now \in Nat /\ edits <= edits
    BY DEF IInv, TreeType, RInv
  <1>3. Placed(y)
    BY <1>1, <1>2 DEF Placed
  <1>4. Progress(y)
    BY <1>1 DEF Progress
  <1> QED BY <1>1, <1>3, <1>4 DEF Followed, PathTold

\* The path was cached, at most Ttl ago: in a calm time what was cached is right.
LEMMA HitFollowed ==
    ASSUME IInv, RInv, NEW q \in scene.requests, NEW pc \in {"check", "stat", "resolved"},
           NEW e, e = TtlGet(cache, CacheKey(q)), e # None,
           NEW info, NEW y, y = NewRequest(q, pc, TRUE, e.target, info),
           Looked(q), pc = "check" => q.site.module # "fcgi",
           IF q.site.module = "static" THEN pc \in {"check", "stat"} ELSE pc = "resolved" /\ info = e.info
    PROVE  Followed(y)
  <1>1. /\ y.q = q /\ y.pc = pc /\ y.hit = TRUE /\ y.target = e.target /\ y.info = info /\ y.env = None
        /\ y.epoch = edits /\ y.time = now
    BY DEF NewRequest
  <1>2. edits \in Nat /\ now \in Nat /\ edits <= edits /\ settled \in Int /\ Ttl \in Nat
    BY FileServingAssumption DEF IInv, TreeType, RInv
  <1>3. CacheKey(q) \in DOMAIN cache /\ e = cache[CacheKey(q)] /\ now - e.time < Ttl
    BY DEF TtlGet
  <1>4. e.time \in Nat /\ (e.time > settled => Valid(CacheKey(q), e))
    BY <1>2, <1>3 DEF RInv, CacheInv
  <1>5. Calm(y) => e.time > settled
    <2>1. PICK t \in Nat : t = e.time
      BY <1>4
    <2>2. now - t < Ttl /\ (Calm(y) => now >= settled + Ttl)
      BY <1>1, <1>3, <2>1 DEF Calm
    <2>3. Calm(y) => t > settled
      BY <1>2, <2>2
    <2> QED BY <2>1, <2>3
  <1>6. Calm(y) => Rightly(q, y.target, y.info)
    <2>1. Calm(y) => Rightly(q, e.target, e.info)
      BY <1>4, <1>5 DEF Valid
    <2> QED BY <1>1, <2>1 DEF Rightly
  <1>7. Placed(y)
    BY <1>1, <1>2 DEF Placed
  <1> QED BY <1>1, <1>6, <1>7 DEF Followed, PathTold

LEMMA ArriveFollowed ==
    ASSUME IInv, RInv, NEW r \in Slots, Arrive(r)
    PROVE  RInv'
  <1>1. PICK q \in scene.requests :
           req' = [req EXCEPT ![r] =
                CASE q.site.module = "static" -> StaticLooksUp(q)
                  [] q.site.module = "cgi" -> CgiLooksUp(q)
                  [] q.site.module = "fcgi" -> FcgiLooksUp(q)
                  [] q.site.module = "scgi" -> ScgiPasses(q)
                  [] q.site.module = "pass" -> FcgiPasses(q)]
    BY DEF Arrive
  <1>2. q.site.module \in Modules
    BY FileServingAssumption DEF IInv, IsScene, IsRequest, IsSite
  <1>3. Checked(q, "stat") \in {"check", "stat"} /\ Checked(q, "resolved") \in {"check", "resolved"}
    BY DEF Checked
  <1> DEFINE e == TtlGet(cache, CacheKey(q))
  <1>4. ASSUME q.site.module = "static" PROVE Followed(StaticLooksUp(q))
    <2>1. Looked(q)
      BY <1>4 DEF Looked
    <2>2. CASE e = None
      <3>1. StaticLooksUp(q) = NewRequest(q, Checked(q, "stat"), FALSE, Full(q), None)
        BY <2>2 DEF StaticLooksUp
      <3> QED BY <1>3, <1>4, <2>1, <3>1, MissFollowed
    <2>3. CASE e # None
      <3>1. StaticLooksUp(q) = NewRequest(q, Checked(q, "stat"), TRUE, e.target, None)
        BY <2>3 DEF StaticLooksUp
      <3> HIDE DEF e
      <3> QED BY <1>3, <1>4, <2>1, <2>3, <3>1, HitFollowed DEF e
    <2> QED BY <2>2, <2>3
  <1>5. ASSUME q.site.module = "cgi" PROVE Followed(CgiLooksUp(q))
    <2>1. Looked(q)
      BY <1>5 DEF Looked
    <2>2. CASE e = None
      <3>1. CgiLooksUp(q) = NewRequest(q, Checked(q, "stat"), FALSE, None, None)
        BY <2>2 DEF CgiLooksUp
      <3> QED BY <1>3, <1>5, <2>1, <3>1, MissFollowed
    <2>3. CASE e # None
      <3>1. CgiLooksUp(q) = NewRequest(q, "resolved", TRUE, e.target, e.info)
        BY <2>3 DEF CgiLooksUp
      <3> HIDE DEF e
      <3> QED BY <1>5, <2>1, <2>3, <3>1, HitFollowed DEF e
    <2> QED BY <2>2, <2>3
  <1>6. ASSUME q.site.module = "fcgi" PROVE Followed(FcgiLooksUp(q))
    <2>1. Looked(q)
      BY <1>6 DEF Looked
    <2>2. CASE e = None
      <3>1. FcgiLooksUp(q) = NewRequest(q, "stat", FALSE, None, None)
        BY <2>2 DEF FcgiLooksUp
      <3> QED BY <1>6, <2>1, <3>1, MissFollowed
    <2>3. CASE e # None
      <3>1. FcgiLooksUp(q) = NewRequest(q, "resolved", TRUE, e.target, e.info)
        BY <2>3 DEF FcgiLooksUp
      <3> HIDE DEF e
      <3> QED BY <1>6, <2>1, <2>3, <3>1, HitFollowed DEF e
    <2> QED BY <2>2, <2>3
  <1>7. ASSUME q.site.module \in {"scgi", "pass"} PROVE Followed(ScgiPasses(q)) /\ Followed(FcgiPasses(q))
    <2>1. ~Looked(q)
      BY <1>7 DEF Looked
    <2>2. /\ ScgiPasses(q) = NewRequest(q, Checked(q, "resolved"), FALSE, Full(q), q.path)
          /\ FcgiPasses(q) = NewRequest(q, Checked(q, "resolved"), FALSE, Full(q), q.path)
      BY DEF ScgiPasses, FcgiPasses
    <2> QED BY <1>3, <1>7, <2>1, <2>2, MissFollowed
  <1>8. PICK y : Followed(y) /\ req' = [req EXCEPT ![r] = y]
    BY <1>1, <1>2, <1>4, <1>5, <1>6, <1>7 DEF Modules
  <1>9. UNCHANGED <<scene, tree, cache, now, edits, settled>>
    BY DEF Arrive
  <1> QED BY <1>8, <1>9, OneFollowed

LEMMA RefuseFollowed ==
    ASSUME IInv, RInv, NEW r \in Slots, Refuse(r)
    PROVE  RInv'
  <1>1. PICK q \in scene.requests :
           req' = [req EXCEPT ![r] = [NewRequest(q, "done", FALSE, None, None) EXCEPT !.status = RefusalStatus(q)]]
    BY DEF Refuse
  <1> DEFINE y == [NewRequest(q, "done", FALSE, None, None) EXCEPT !.status = RefusalStatus(q)]
  <1>2. y.q = q /\ y.pc = "done" /\ y.hit = FALSE /\ y.env = None /\ y.epoch = edits /\ y.time = now
    BY DEF NewRequest
  <1>3. edits \in Nat /\ now \in Nat /\ edits <= edits
    BY DEF IInv, TreeType, RInv
  <1> HIDE DEF y
  <1>4. Placed(y)
    BY <1>2, <1>3 DEF Placed
  <1>5. Followed(y)
    BY <1>2, <1>4 DEF Followed, Progress, PathTold
  <1>6. UNCHANGED <<scene, tree, cache, now, edits, settled>>
    BY DEF Refuse
  <1> QED BY <1>1, <1>5, <1>6, OneFollowed DEF y

\* A request whose path passes the check, or that goes on to cache the answer.
LEMMA PassFollowed ==
    ASSUME NEW x, DOMAIN x = Fields, Followed(x), x.q.site.module \in Modules, x.pc \in {"check", "allow"},
           NEW y, SameRequest(x, y), y.env = x.env, y.joined = x.joined, y.target = x.target, y.info = x.info,
           \/ y.pc = IF x.q.site.module \in {"static", "cgi"} THEN "stat" ELSE "resolved"
           \/ x.q.site.module = "static" /\ y.pc = "allow"
    PROVE  Followed(y)
  <1>1. y.env = None /\ x.q.site.module # "fcgi"
    BY DEF Followed, Placed
  <1>2. Placed(y)
    BY <1>1 DEF Followed, Placed, SameRequest, Looked, Modules
  <1>3. ~y.hit /\ y.epoch = edits => Progress(y)
    BY <1>1 DEF Followed, Progress, SameRequest, Looked
  <1>4. y.hit /\ Calm(y) => Rightly(y.q, y.target, y.info)
    <2>1. y.hit /\ Calm(y) => Rightly(x.q, x.target, x.info)
      BY DEF Followed, Calm, SameRequest
    <2> QED BY <2>1 DEF SameRequest
  <1> QED BY <1>1, <1>2, <1>3, <1>4 DEF Followed, PathTold

LEMMA DecidedFollowed ==
    ASSUME NEW x, DOMAIN x = Fields, Followed(x), x.q.site.module \in Modules, x.pc \in {"check", "allow"},
           NEW ok
    PROVE  Followed(Decided(x, ok))
  <1> DEFINE y == [x EXCEPT !.pc = IF x.q.site.module \in {"static", "cgi"} THEN "stat" ELSE "resolved"]
  <1>1. Decided(x, ok) = y \/ Decided(x, ok) = Done(x, 403)
    BY DEF Decided
  <1>2. /\ SameRequest(x, y) /\ y.env = x.env /\ y.joined = x.joined /\ y.target = x.target /\ y.info = x.info
        /\ y.pc = IF x.q.site.module \in {"static", "cgi"} THEN "stat" ELSE "resolved"
    BY DEF SameRequest, Fields
  <1> HIDE DEF y
  <1>3. Followed(y)
    BY <1>2, PassFollowed
  <1>4. Followed(Done(x, 403))
    BY DoneFollowed
  <1> QED BY <1>1, <1>3, <1>4

LEMMA CheckFollowed ==
    ASSUME IInv, RInv, NEW r \in Slots, CheckStatic(r) \/ Check(r)
    PROVE  RInv'
  <1>0. PICK x : x = req[r]
    OBVIOUS
  <1>1. x # None /\ x.pc = "check"
    BY <1>0 DEF CheckStatic, Check, At
  <1>2. DOMAIN x = Fields /\ Followed(x) /\ x.q.site.module \in Modules
    BY <1>0, <1>1, ReqFacts
  <1>3. PICK below : below = Below(x.target, x.q.site.root)
    OBVIOUS
  <1> DEFINE y == [x EXCEPT !.pc = "allow", !.ok = below]
  <1>4. (\E ok : To(r, Decided(x, ok))) \/ (x.q.site.module = "static" /\ To(r, y))
    <2>1. CASE CheckStatic(r)
      BY <1>0, <1>3, <2>1 DEF CheckStatic, Module
    <2>2. CASE Check(r)
      BY <1>0, <2>2 DEF Check
    <2> QED BY <2>1, <2>2
  <1>5. \A ok : Followed(Decided(x, ok))
    BY <1>1, <1>2, DecidedFollowed
  <1>6. /\ SameRequest(x, y) /\ y.env = x.env /\ y.joined = x.joined /\ y.target = x.target /\ y.info = x.info
        /\ y.pc = "allow"
    BY <1>2 DEF SameRequest, Fields
  <1> HIDE DEF y
  <1>7. x.q.site.module = "static" => Followed(y)
    BY <1>1, <1>2, <1>6, PassFollowed
  <1> QED BY <1>4, <1>5, <1>7, ToFollowed

LEMMA AllowFollowed ==
    ASSUME IInv, RInv, NEW r \in Slots, Allow(r)
    PROVE  RInv'
  <1>0. PICK x : x = req[r]
    OBVIOUS
  <1>1. x # None /\ x.pc = "allow"
    BY <1>0 DEF Allow, At
  <1>2. DOMAIN x = Fields /\ Followed(x) /\ x.q.site.module \in Modules
    BY <1>0, <1>1, ReqFacts
  <1>3. PICK y : y = Decided(x, x.ok)
    OBVIOUS
  <1>4. Followed(y)
    BY <1>1, <1>2, <1>3, DecidedFollowed
  <1>5. /\ scene' = scene /\ tree' = tree /\ now' = now /\ edits' = edits /\ cache' = cache
        /\ req' = [req EXCEPT ![r] = y]
        /\ settled' = IF x.epoch # edits THEN now ELSE settled
    BY <1>0, <1>3 DEF Allow
  <1>6. now \in Nat /\ settled \in Int /\ settled <= now
    BY DEF RInv
  <1>7. settled' \in Int /\ settled' >= settled /\ settled' <= now'
    BY <1>5, <1>6
  <1>8. TreeInv'
    BY <1>5 DEF RInv, TreeInv
  <1>9. CacheInv'
    <2>1. ASSUME NEW key \in DOMAIN cache
          PROVE  cache[key].time \in 0..now /\ (cache[key].time > settled' => Valid(key, cache[key])')
      <3>1. cache[key].time \in 0..now /\ (cache[key].time > settled => Valid(key, cache[key]))
        BY DEF RInv, CacheInv
      <3>2. PICK t \in Nat : t = cache[key].time
        BY <1>6, <3>1
      <3>3. t > settled' => t > settled
        BY <1>6, <1>7
      <3>4. ASSUME NEW c, c = cache[key], Valid(key, c) PROVE Valid(key, c)'
        BY <1>5, <3>4, SameValid
      <3>5. Valid(key, cache[key]) => Valid(key, cache[key])'
        BY <1>5, <3>4
      <3> QED BY <3>1, <3>2, <3>3, <3>5
    <2> QED BY <1>5, <2>1 DEF CacheInv
  <1>10. ASSUME NEW s \in Slots, req'[s] # None PROVE Followed(req[s])'
    <2>1. req'[s] = IF s = r THEN y ELSE req[s]
      BY <1>5 DEF IInv
    <2>2. Followed(req'[s])
      BY <1>4, <1>10, <2>1 DEF RInv
    <2>3. ASSUME NEW z, z = req'[s] PROVE Followed(z)'
      BY <1>5, <1>6, <1>7, <2>2, <2>3, SameProgress
    <2> QED BY <2>3
  <1> QED BY <1>5, <1>6, <1>7, <1>8, <1>9, <1>10 DEF RInv

LEMMA StatStaticFollowed ==
    ASSUME IInv, RInv, NEW r \in Slots, StatStatic(r)
    PROVE  RInv'
  <1>0. PICK x : x = req[r]
    OBVIOUS
  <1>1. x # None /\ x.pc = "stat" /\ x.q.site.module = "static"
    BY <1>0 DEF StatStatic, At, Module
  <1>2. DOMAIN x = Fields /\ Followed(x) /\ Looked(x.q)
    BY <1>0, <1>1, ReqFacts DEF Looked
  <1>3. PICK m : m = Metadata(x.target)
    OBVIOUS
  <1> DEFINE served == [x EXCEPT !.pc = "serve", !.meta = m]
             index == [x EXCEPT !.pc = "index", !.k = 1, !.meta = m]
             store == [x EXCEPT !.pc = "store", !.meta = m]
  <1>4. \/ To(r, Done(x, StatusOfError(m.type)))
        \/ x.hit /\ To(r, served)
        \/ ~x.hit /\ m.type = "dir" /\ To(r, index)
        \/ ~x.hit /\ m.type \notin Errors /\ m.type # "dir" /\ To(r, store)
    BY <1>0, <1>3 DEF StatStatic
  <1>5. Followed(Done(x, StatusOfError(m.type)))
    BY <1>1, <1>2, DoneFollowed
  <1>6. ASSUME x.hit PROVE Followed(served)
    <2>1. /\ SameRequest(x, served) /\ served.env = x.env /\ served.target = x.target /\ served.info = x.info
          /\ served.pc = "serve"
      BY <1>2 DEF SameRequest, Fields
    <2> HIDE DEF served
    <2>2. served.env = None
      BY <1>1, <1>2, <2>1 DEF Followed, Placed
    <2>3. Placed(served)
      BY <1>1, <1>2, <2>1, <2>2 DEF Followed, Placed, SameRequest
    <2>4. Calm(served) => Rightly(x.q, x.target, x.info)
      BY <1>1, <1>2, <1>6, <2>1 DEF Followed, Calm, SameRequest
    <2> QED BY <1>6, <2>1, <2>2, <2>3, <2>4 DEF Followed, PathTold, SameRequest
  <1>7. ~x.hit /\ x.epoch = edits => x.joined = Full(x.q) /\ x.target = Full(x.q)
    BY <1>1, <1>2 DEF Followed, Progress
  <1>8. ASSUME ~x.hit, m.type = "dir" PROVE Followed(index)
    <2>1. /\ SameRequest(x, index) /\ index.env = x.env /\ index.target = x.target /\ index.joined = x.joined
          /\ index.pc = "index" /\ index.k = 1
      BY <1>2 DEF SameRequest, Fields
    <2> HIDE DEF index
    <2>2. x.epoch = edits => IsDir(Full(x.q))
      BY <1>3, <1>7, <1>8 DEF IsDir, Metadata, Error, Node
    <2>3. \A p : NoIndexBelow(p, 1)
      BY FileServingAssumption, LenProperties DEF NoIndexBelow
    <2>4. x.epoch = edits => Progress(index)
      BY <1>7, <1>8, <2>1, <2>2, <2>3 DEF Progress, SameRequest
    <2> QED BY <1>1, <1>2, <1>8, <2>1, <2>4, OnFollowed
  <1>9. ASSUME ~x.hit, m.type \notin Errors, m.type # "dir" PROVE Followed(store)
    <2>1. /\ SameRequest(x, store) /\ store.env = x.env /\ store.target = x.target /\ store.joined = x.joined
          /\ store.pc = "store"
      BY <1>2 DEF SameRequest, Fields
    <2> HIDE DEF store
    <2>2. x.epoch = edits => ~IsDir(Full(x.q))
      BY <1>3, <1>7, <1>9 DEF IsDir, Metadata
    <2>3. x.epoch = edits => x.target = StaticFor(x.q)
      BY <1>7, <1>9, <2>2, StaticForFile
    <2>4. x.epoch = edits => Progress(store)
      BY <1>1, <2>1, <2>3 DEF Progress, SameRequest, Rightly
    <2> QED BY <1>1, <1>2, <1>9, <2>1, <2>4, OnFollowed
  <1> QED BY <1>4, <1>5, <1>6, <1>8, <1>9, ToFollowed

LEMMA IndexStaticFollowed ==
    ASSUME IInv, RInv, NEW r \in Slots, IndexStatic(r)
    PROVE  RInv'
  <1>0. PICK x : x = req[r]
    OBVIOUS
  <1>1. x # None /\ x.pc = "index" /\ x.q.site.module = "static"
    BY <1>0 DEF IndexStatic, At, Module
  <1>2. DOMAIN x = Fields /\ Followed(x) /\ Looked(x.q)
    BY <1>0, <1>1, ReqFacts DEF Looked
  <1>3. ~x.hit /\ (x.epoch = edits => Progress(x))
    BY <1>1, <1>2 DEF Followed, Placed
  <1>4. PICK p : p = Append(x.joined, Indexes[x.k])
    OBVIOUS
  <1>5. PICK m : m = Metadata(p)
    OBVIOUS
  <1> DEFINE bare == [x EXCEPT !.pc = "store"]
             found == [x EXCEPT !.pc = "store", !.target = p, !.meta = m]
             next == NextIndex(x)
  <1>6. \/ NoIndexLeft(x) /\ To(r, bare)
        \/ ~NoIndexLeft(x) /\ m.type = "file" /\ To(r, found)
        \/ To(r, Done(x, 403))
        \/ ~NoIndexLeft(x) /\ m.type # "file" /\ To(r, next)
    BY <1>0, <1>4, <1>5 DEF IndexStatic
  <1>7. /\ SameRequest(x, bare) /\ bare.env = x.env /\ bare.target = x.target /\ bare.pc = "store"
        /\ SameRequest(x, found) /\ found.env = x.env /\ found.target = p /\ found.pc = "store"
        /\ SameRequest(x, next) /\ next.env = x.env /\ next.target = x.target /\ next.joined = x.joined
        /\ next.pc = "index" /\ next.k = x.k + 1
    BY <1>1, <1>2 DEF SameRequest, Fields, NextIndex
  <1> HIDE DEF bare, found, next
  <1>8. x.epoch = edits =>
           /\ x.joined = Full(x.q) /\ x.target = Full(x.q)
           /\ IsDir(Full(x.q)) /\ x.k \in Nat \ {0} /\ NoIndexBelow(Full(x.q), x.k)
    BY <1>1, <1>3 DEF Progress
  <1>9. DOMAIN Indexes = 1..Len(Indexes) /\ Len(Indexes) \in Nat
    BY FileServingAssumption, LenProperties
  <1>10. ASSUME NoIndexLeft(x) PROVE Followed(bare)
    <2>1. x.epoch = edits => \A i \in DOMAIN Indexes : Metadata(Append(Full(x.q), Indexes[i])).type # "file"
      BY <1>8, <1>9, <1>10 DEF NoIndexLeft, NoIndexBelow
    <2>2. x.epoch = edits => x.target = StaticFor(x.q)
      BY <1>8, <2>1, StaticForBare
    <2>3. x.epoch = edits => Progress(bare)
      BY <1>1, <1>7, <2>2 DEF Progress, SameRequest, Rightly
    <2> QED BY <1>1, <1>2, <1>3, <1>7, <2>3, OnFollowed
  <1>11. ASSUME ~NoIndexLeft(x), m.type = "file" PROVE Followed(found)
    <2>1. x.epoch = edits => FirstIndex(Full(x.q), x.k)
      BY <1>4, <1>5, <1>8, <1>9, <1>11 DEF FirstIndex, NoIndexLeft, NoIndexBelow
    <2>2. x.epoch = edits => p = StaticFor(x.q)
      BY <1>4, <1>8, <2>1, StaticForIndex
    <2>3. x.epoch = edits => Progress(found)
      BY <1>1, <1>7, <2>2 DEF Progress, SameRequest, Rightly
    <2> QED BY <1>1, <1>2, <1>3, <1>7, <2>3, OnFollowed
  <1>12. ASSUME ~NoIndexLeft(x), m.type # "file" PROVE Followed(next)
    <2>1. x.epoch = edits => NoIndexBelow(Full(x.q), x.k + 1) /\ x.k + 1 \in Nat \ {0}
      BY <1>4, <1>5, <1>8, <1>9, <1>12 DEF NoIndexBelow
    <2>2. x.epoch = edits => Progress(next)
      BY <1>7, <1>8, <2>1 DEF Progress, SameRequest
    <2> QED BY <1>1, <1>2, <1>3, <1>7, <2>2, OnFollowed
  <1>13. Followed(Done(x, 403))
    BY <1>1, <1>2, DoneFollowed
  <1> QED BY <1>6, <1>10, <1>11, <1>12, <1>13, ToFollowed

\* A script is looked for: what is run is what ScriptFor takes.
LEMMA RunsTakes ==
    ASSUME NEW x, x.q.site.module \in {"cgi", "fcgi"}, NEW y, ~IsStrictPrefix(y, Full(x.q))
    PROVE  Runs(x, y) <=> Takes(x.q, y)
  BY DEF Runs, CgiRuns, FcgiRuns, HasExtension, Takes

LEMMA RunsAtTakes ==
    ASSUME NEW q, Full(q) \in Seq(STRING), NEW n \in 1..(Len(Full(q)) - 1),
           NEW y, y = SubSeq(Full(q), 1, n)
    PROVE  RunsAt(q, y) <=> Metadata(y).type = "file" /\ Takes(q, y)
  <1>1. IsStrictPrefix(y, Full(q))
    BY StrictlyBefore
  <1> QED BY <1>1 DEF RunsAt, Takes, HasExtension

LEMMA FoundFacts ==
    ASSUME NEW x, DOMAIN x = Fields, NEW p, NEW info, NEW y, y = Found(x, p, info)
    PROVE  SameRequest(x, y) /\ y.env = x.env /\ y.pc = "store" /\ y.target = p /\ y.info = info
  BY DEF SameRequest, Fields, Found

LEMMA FoundFollowed ==
    ASSUME NEW x, DOMAIN x = Fields, Followed(x), x.pc # "done", ~x.hit, x.q.site.module \in {"cgi", "fcgi"},
           NEW p, NEW info, x.epoch = edits => ScriptFor(x.q) = <<p, info>>
    PROVE  Followed(Found(x, p, info))
  <1>0. PICK y : y = Found(x, p, info)
    OBVIOUS
  <1>1. SameRequest(x, y) /\ y.env = x.env /\ y.pc = "store" /\ y.target = p /\ y.info = info
    BY <1>0, FoundFacts
  <1>2. x.epoch = edits => Progress(y)
    BY <1>1 DEF Progress, SameRequest, Rightly
  <1>3. Followed(y)
    BY <1>1, <1>2, OnFollowed DEF Looked
  <1> QED BY <1>0, <1>3

LEMMA StatScriptFollowed ==
    ASSUME IInv, RInv, NEW r \in Slots, StatScript(r)
    PROVE  RInv'
  <1>0. PICK x : x = req[r]
    OBVIOUS
  <1>1. x # None /\ x.pc = "stat" /\ x.q.site.module # "static"
    BY <1>0 DEF StatScript, At, Module
  <1>2. DOMAIN x = Fields /\ Followed(x) /\ x.q \in scene.requests /\ IsTree(tree)
    BY <1>0, <1>1, ReqFacts
  <1>3. ~x.hit /\ x.q.site.module \in {"cgi", "fcgi"} /\ (x.epoch = edits => x.joined = Full(x.q))
    BY <1>1, <1>2 DEF Followed, Placed, Looked, Progress
  <1>4. PICK m : m = Metadata(x.joined)
    OBVIOUS
  <1>5. PICK p : p = Full(x.q)
    OBVIOUS
  <1>6. p \in Seq(STRING) /\ Len(p) \in Nat /\ Len(p) > 0
    BY <1>2, <1>5, FullFacts
  <1>7. Runs(x, p) <=> Takes(x.q, p)
    BY <1>3, <1>5, <1>6, RunsTakes, StrictlyBefore
  <1> DEFINE index == [x EXCEPT !.pc = "index", !.k = 1]
             pop == [x EXCEPT !.pc = "pop", !.k = Len(x.joined)]
  <1>8. \/ m.type = "file" /\ Runs(x, x.joined) /\ To(r, Found(x, x.joined, None))
        \/ m.type = "dir" /\ To(r, index)
        \/ m.type = "not a directory" /\ To(r, pop)
        \/ ~(m.type = "file" /\ Runs(x, x.joined)) /\ m.type \notin {"dir", "not a directory"} /\ To(r, NotFound(x))
    BY <1>0, <1>4 DEF StatScript
  <1>9. ASSUME m.type = "file", Runs(x, x.joined) PROVE Followed(Found(x, x.joined, None))
    <2>1. ASSUME x.epoch = edits PROVE ScriptFor(x.q) = <<x.joined, None>>
      <3>1. x.joined = p /\ m = Metadata(p)
        BY <1>3, <1>4, <1>5, <2>1
      <3>2. p \in DOMAIN tree /\ tree[p].type = "file"
        BY <1>9, <3>1, FileIs
      <3>3. ~IsDir(p) /\ Takes(x.q, p)
        BY <1>7, <1>9, <3>1, <3>2 DEF IsDir
      <3> QED BY <1>2, <1>5, <3>1, <3>2, <3>3, ScriptAtEnd
    <2> QED BY <1>1, <1>2, <1>3, <2>1, FoundFollowed
  <1>10. ASSUME m.type = "dir" PROVE Followed(index)
    <2>1. /\ SameRequest(x, index) /\ index.env = x.env /\ index.joined = x.joined
          /\ index.pc = "index" /\ index.k = 1
      BY <1>2 DEF SameRequest, Fields
    <2> HIDE DEF index
    <2>2. x.epoch = edits => IsDir(Full(x.q))
      BY <1>3, <1>4, <1>10 DEF IsDir, Metadata, Error, Node
    <2>3. \A o : NoIndexBelow(o, 1)
      BY FileServingAssumption, LenProperties DEF NoIndexBelow
    <2>4. x.epoch = edits => Progress(index)
      BY <1>1, <1>3, <2>1, <2>2, <2>3 DEF Progress, SameRequest
    <2> QED BY <1>1, <1>2, <1>3, <2>1, <2>4, OnFollowed DEF Looked
  <1>11. ASSUME m.type = "not a directory" PROVE Followed(pop)
    <2>1. /\ SameRequest(x, pop) /\ pop.env = x.env /\ pop.joined = x.joined
          /\ pop.pc = "pop" /\ pop.k = Len(x.joined)
      BY <1>2 DEF SameRequest, Fields
    <2> HIDE DEF pop
    <2>2. NoScriptFrom(x.q, Len(p)) /\ Len(p) \in 1..Len(p)
      BY <1>5, <1>6 DEF NoScriptFrom
    <2>3. x.epoch = edits => Progress(pop)
      BY <1>1, <1>3, <1>4, <1>5, <1>11, <2>1, <2>2 DEF Progress, SameRequest
    <2> QED BY <1>1, <1>2, <1>3, <2>1, <2>3, OnFollowed DEF Looked
  <1>12. ASSUME ~(m.type = "file" /\ Runs(x, x.joined)), m.type \notin {"dir", "not a directory"}
         PROVE  Followed(NotFound(x))
    <2>1. ASSUME x.epoch = edits PROVE ScriptFor(x.q) = <<None, None>>
      <3>1. m = Metadata(p) /\ ~(m.type = "file" /\ Takes(x.q, p))
        BY <1>3, <1>4, <1>5, <1>7, <1>12, <2>1
      <3>2. CASE p \in DOMAIN tree
        <4>1. m = tree[p]
          BY <3>1, <3>2 DEF Metadata
        <4>2. ~IsDir(p)
          BY <1>12, <4>1 DEF IsDir
        <4> QED BY <1>2, <1>5, <3>1, <3>2, <4>1, <4>2, ScriptAtEnd
      <3>3. CASE p \notin DOMAIN tree
        <4>1. \A o \in ProperPrefixes(p) : ~(o \in DOMAIN tree /\ tree[o].type = "file")
          BY <1>12, <3>1, <3>3 DEF Metadata, Error, Node
        <4>2. \A o \in ProperPrefixes(p) : Metadata(o).type # "file"
          BY <4>1, FileIs
        <4> QED BY <1>2, <1>5, <3>3, <4>2, ScriptNoWay
      <3> QED BY <3>2, <3>3
    <2> QED BY <1>1, <1>2, <1>3, <2>1, FoundFollowed DEF NotFound
  <1> QED BY <1>8, <1>9, <1>10, <1>11, <1>12, ToFollowed

LEMMA IndexScriptFollowed ==
    ASSUME IInv, RInv, NEW r \in Slots, IndexScript(r)
    PROVE  RInv'
  <1>0. PICK x : x = req[r]
    OBVIOUS
  <1>1. x # None /\ x.pc = "index" /\ x.q.site.module # "static"
    BY <1>0 DEF IndexScript, At, Module
  <1>2. DOMAIN x = Fields /\ Followed(x) /\ x.q \in scene.requests /\ IsTree(tree)
    BY <1>0, <1>1, ReqFacts
  <1>3. ~x.hit /\ x.q.site.module \in {"cgi", "fcgi"} /\ (x.epoch = edits => Progress(x))
    BY <1>1, <1>2 DEF Followed, Placed, Looked
  <1>4. PICK p : p = Append(x.joined, Indexes[x.k])
    OBVIOUS
  <1>5. PICK next : next = NextIndex(x)
    OBVIOUS
  <1>6. \/ NoIndexLeft(x) /\ To(r, NotFound(x))
        \/ ~NoIndexLeft(x) /\ Metadata(p).type # "file" /\ To(r, next)
        \/ ~NoIndexLeft(x) /\ Metadata(p).type = "file" /\ Runs(x, p) /\ To(r, Found(x, p, None))
        \/ ~NoIndexLeft(x) /\ Metadata(p).type = "file" /\ ~Runs(x, p) /\ To(r, NotFound(x))
    BY <1>0, <1>4, <1>5 DEF IndexScript
  <1>7. /\ SameRequest(x, next) /\ next.env = x.env /\ next.joined = x.joined
        /\ next.pc = "index" /\ next.k = x.k + 1
    BY <1>1, <1>2, <1>5 DEF SameRequest, Fields, NextIndex
  <1>8. x.epoch = edits =>
           /\ x.joined = Full(x.q)
           /\ IsDir(Full(x.q)) /\ x.k \in Nat \ {0} /\ NoIndexBelow(Full(x.q), x.k)
    BY <1>1, <1>3 DEF Progress
  <1>9. DOMAIN Indexes = 1..Len(Indexes) /\ Len(Indexes) \in Nat
    BY FileServingAssumption, LenProperties
  <1>10. ASSUME NoIndexLeft(x) PROVE Followed(NotFound(x))
    <2>1. x.epoch = edits => \A i \in DOMAIN Indexes : Metadata(Append(Full(x.q), Indexes[i])).type # "file"
      BY <1>8, <1>9, <1>10 DEF NoIndexLeft, NoIndexBelow
    <2>2. x.epoch = edits => ScriptFor(x.q) = <<None, None>>
      BY <1>2, <1>8, <2>1, ScriptBare
    <2> QED BY <1>1, <1>2, <1>3, <2>2, FoundFollowed DEF NotFound
  <1>11. ASSUME ~NoIndexLeft(x), Metadata(p).type # "file" PROVE Followed(next)
    <2>1. x.epoch = edits => NoIndexBelow(Full(x.q), x.k + 1) /\ x.k + 1 \in Nat \ {0}
      BY <1>4, <1>8, <1>9, <1>11 DEF NoIndexBelow
    <2>2. x.epoch = edits => Progress(next)
      BY <1>1, <1>7, <1>8, <2>1 DEF Progress, SameRequest
    <2> QED BY <1>1, <1>2, <1>3, <1>7, <2>2, OnFollowed DEF Looked
  <1>12. ASSUME ~NoIndexLeft(x), Metadata(p).type = "file", x.epoch = edits
         PROVE  ScriptFor(x.q) = IF Runs(x, p) THEN <<p, None>> ELSE <<None, None>>
    <2>1. p = Append(Full(x.q), Indexes[x.k])
      BY <1>4, <1>8, <1>12
    <2>2. FirstIndex(Full(x.q), x.k)
      BY <1>8, <1>9, <1>12, <2>1 DEF FirstIndex, NoIndexLeft, NoIndexBelow
    <2>3. ScriptFor(x.q) = IF Takes(x.q, p) THEN <<p, None>> ELSE <<None, None>>
      BY <1>2, <1>8, <1>12, <2>1, <2>2, ScriptIndex
    <2>4. ~IsStrictPrefix(p, Full(x.q))
      <3>1. Full(x.q) \in Seq(STRING) /\ Indexes[x.k] \in STRING
        BY <1>2, <2>2, FullFacts, FileServingAssumption, LenProperties, ElementOfSeq DEF FirstIndex
      <3> QED BY <2>1, <3>1, StrictlyBefore
    <2>5. Runs(x, p) <=> Takes(x.q, p)
      BY <1>3, <2>4, RunsTakes
    <2> QED BY <2>3, <2>5
  <1>13. ASSUME ~NoIndexLeft(x), Metadata(p).type = "file", Runs(x, p) PROVE Followed(Found(x, p, None))
    BY <1>1, <1>2, <1>3, <1>12, <1>13, FoundFollowed
  <1>14. ASSUME ~NoIndexLeft(x), Metadata(p).type = "file", ~Runs(x, p) PROVE Followed(NotFound(x))
    BY <1>1, <1>2, <1>3, <1>12, <1>14, FoundFollowed DEF NotFound
  <1> QED BY <1>6, <1>10, <1>11, <1>13, <1>14, ToFollowed

LEMMA PopFollowed ==
    ASSUME IInv, RInv, NEW r \in Slots, Pop(r)
    PROVE  RInv'
  <1>0. PICK x : x = req[r]
    OBVIOUS
  <1>1. x # None /\ x.pc = "pop"
    BY <1>0 DEF Pop, At
  <1>2. DOMAIN x = Fields /\ Followed(x) /\ x.q \in scene.requests /\ IsTree(tree) /\ x.q.site.module # "static"
    BY <1>0, <1>1, ReqFacts
  <1>3. ~x.hit /\ x.q.site.module \in {"cgi", "fcgi"} /\ (x.epoch = edits => Progress(x))
    BY <1>1, <1>2 DEF Followed, Placed, Looked
  <1>4. PICK n : n = x.k - 1
    OBVIOUS
  <1>5. PICK p : p = SubSeq(x.joined, 1, n)
    OBVIOUS
  <1>6. PICK rest : rest = SubSeq(x.joined, n + 1, Len(x.joined))
    OBVIOUS
  <1>7. PICK m : m = Metadata(p)
    OBVIOUS
  <1> DEFINE next == [x EXCEPT !.k = n]
             above == m.type = "file" /\ Head(p) # x.q.site.root
             stops == m.type = "file" /\ (InCgiBin(x.q.path) \/ HasExtension(p))
  <1>8. \/ n = 0 /\ To(r, NotFound(x))
        \/ n # 0 /\ above /\ To(r, NotFound(x))
        \/ n # 0 /\ stops /\ To(r, Found(x, p, rest))
        \/ n # 0 /\ ~stops /\ m.type \in {"file", "not a directory"} /\ To(r, next)
        \/ n # 0 /\ ~stops /\ m.type \notin {"file", "not a directory"} /\ To(r, NotFound(x))
    BY <1>0, <1>4, <1>5, <1>6, <1>7 DEF Pop
  <1>9. PICK f : f = Full(x.q)
    OBVIOUS
  <1>10. f \in Seq(STRING) /\ Len(f) \in Nat /\ Len(f) > 0
    BY <1>2, <1>9, FullFacts
  <1>11. ASSUME x.epoch = edits
         PROVE  /\ x.joined = f /\ x.k \in 1..Len(f) /\ n \in 0..(Len(f) - 1) /\ f \notin DOMAIN tree
                /\ \A i \in x.k..(Len(f) - 1) : ~RunsAt(x.q, SubSeq(f, 1, i))
    <2>1. x.joined = f /\ x.k \in 1..Len(f) /\ Metadata(f).type = "not a directory" /\ NoScriptFrom(x.q, x.k)
      BY <1>1, <1>3, <1>9, <1>11 DEF Progress
    <2>2. n \in 0..(Len(f) - 1)
      <3>1. PICK l \in Nat : l = Len(f)
        BY <1>10
      <3>2. PICK k \in 1..l : k = x.k
        BY <2>1, <3>1
      <3>3. n = k - 1
        BY <1>4, <3>2
      <3>4. n \in 0..(l - 1)
        BY <3>3
      <3> QED BY <3>1, <3>4
    <2>3. f \notin DOMAIN tree
      BY <1>2, <2>1 DEF IsTree, Metadata
    <2> QED BY <1>9, <2>1, <2>2, <2>3 DEF NoScriptFrom
  <1>12. ASSUME NEW i \in 1..(Len(f) - 1)
         PROVE  RunsAt(x.q, SubSeq(f, 1, i)) <=> Metadata(SubSeq(f, 1, i)).type = "file" /\ Takes(x.q, SubSeq(f, 1, i))
    BY <1>9, <1>10, RunsAtTakes
  <1>13. ASSUME x.epoch = edits, \A i \in 1..(Len(f) - 1) : ~RunsAt(x.q, SubSeq(f, 1, i))
         PROVE  ScriptFor(x.q) = <<None, None>>
    <2>1. \A o \in ProperPrefixes(f) : ~(Metadata(o).type = "file" /\ Takes(x.q, o))
      BY <1>12, <1>13 DEF ProperPrefixes
    <2> QED BY <1>2, <1>9, <1>11, <1>13, <2>1, ScriptNoWay
  <1>14. ASSUME n = 0 PROVE Followed(NotFound(x))
    <2>1. x.epoch = edits => \A i \in 1..(Len(f) - 1) : ~RunsAt(x.q, SubSeq(f, 1, i))
      <3>1. x.epoch = edits => x.k = 1
        BY <1>4, <1>10, <1>11, <1>14
      <3> QED BY <1>11, <3>1
    <2>2. x.epoch = edits => ScriptFor(x.q) = <<None, None>>
      BY <1>13, <2>1
    <2> QED BY <1>1, <1>2, <1>3, <2>2, FoundFollowed DEF NotFound
  <1>15. ASSUME n # 0, stops PROVE Followed(Found(x, p, rest))
    <2>1. ASSUME x.epoch = edits PROVE ScriptFor(x.q) = <<p, rest>>
      <3>1. n \in 1..(Len(f) - 1) /\ p = SubSeq(f, 1, n) /\ rest = SubSeq(f, n + 1, Len(f))
        <4>1. n \in 0..(Len(f) - 1) /\ x.joined = f
          BY <1>11, <2>1
        <4>2. n \in 1..(Len(f) - 1)
          BY <1>10, <1>15, <4>1
        <4> QED BY <1>5, <1>6, <4>1, <4>2
      <3>2. RunsAt(x.q, p)
        BY <1>7, <1>15 DEF RunsAt
      <3>3. Metadata(SubSeq(f, 1, n)).type = "file" /\ Takes(x.q, SubSeq(f, 1, n))
        BY <1>12, <3>1, <3>2
      <3> QED BY <1>2, <1>9, <1>11, <2>1, <3>1, <3>3, ScriptOnWay
    <2> QED BY <1>1, <1>2, <1>3, <2>1, FoundFollowed
  <1>16. ASSUME n # 0, ~stops PROVE x.epoch = edits => n \in 1..(Len(f) - 1) /\ NoScriptFrom(x.q, n) /\ p = SubSeq(f, 1, n)
    <2> SUFFICES ASSUME x.epoch = edits
                 PROVE n \in 1..(Len(f) - 1) /\ NoScriptFrom(x.q, n) /\ p = SubSeq(f, 1, n)
      OBVIOUS
    <2>1. n \in 1..(Len(f) - 1) /\ p = SubSeq(f, 1, n)
      BY <1>5, <1>10, <1>11, <1>16
    <2>2. ~RunsAt(x.q, p)
      BY <1>7, <1>16 DEF RunsAt
    <2>3. ASSUME NEW i \in n..(Len(f) - 1) PROVE i = n \/ i \in x.k..(Len(f) - 1)
      BY <1>4, <1>10, <1>11, <2>1
    <2>4. \A i \in n..(Len(f) - 1) : ~RunsAt(x.q, SubSeq(f, 1, i))
      BY <1>11, <2>1, <2>2, <2>3
    <2> QED BY <1>9, <2>1, <2>4 DEF NoScriptFrom
  <1>17. ASSUME n # 0, ~stops PROVE Followed(next)
    <2>1. /\ SameRequest(x, next) /\ next.env = x.env /\ next.joined = x.joined /\ next.pc = "pop" /\ next.k = n
      BY <1>1, <1>2 DEF SameRequest, Fields
    <2> HIDE DEF next
    <2>2. x.epoch = edits => n \in 1..Len(f) /\ NoScriptFrom(x.q, n)
      BY <1>10, <1>16, <1>17
    <2>3. x.epoch = edits => Progress(next)
      BY <1>1, <1>3, <1>9, <2>1, <2>2 DEF Progress, SameRequest
    <2> QED BY <1>1, <1>2, <1>3, <2>1, <2>3, OnFollowed DEF Looked
  <1>18. ASSUME n # 0, ~stops, m.type \notin {"file", "not a directory"} PROVE Followed(NotFound(x))
    <2>1. ASSUME x.epoch = edits PROVE \A i \in 1..(Len(f) - 1) : ~RunsAt(x.q, SubSeq(f, 1, i))
      <3>1. n \in 1..(Len(f) - 1) /\ NoScriptFrom(x.q, n) /\ p = SubSeq(f, 1, n)
        BY <1>16, <1>18, <2>1
      <3>2. n \in 1..Len(f) /\ n \in 0..Len(f)
        BY <1>10, <3>1
      <3>3. ASSUME NEW i \in 1..(Len(f) - 1), i < n PROVE Metadata(SubSeq(f, 1, i)).type # "file"
        <4>1. i \in 1..Len(f) /\ i \in 0..n /\ i \in 1..(n - 1)
          BY <1>10, <3>2, <3>3
        <4>2. CASE p \in DOMAIN tree
          <5>1. Metadata(SubSeq(f, 1, i)).type = "dir"
            BY <1>2, <1>10, <3>1, <3>2, <3>3, <4>1, <4>2, NothingBelow
          <5> QED BY <5>1
        <4>3. CASE p \notin DOMAIN tree
          <5>1. SubSeq(f, 1, i) \in ProperPrefixes(p)
            <6>1. Len(p) = n /\ SubSeq(p, 1, i) = SubSeq(f, 1, i)
              BY <1>10, <3>1, <3>2, <4>1, PrefixFacts, PrefixOfPrefix
            <6> QED BY <4>1, <6>1 DEF ProperPrefixes
          <5>2. ~(SubSeq(f, 1, i) \in DOMAIN tree /\ tree[SubSeq(f, 1, i)].type = "file")
            BY <1>7, <1>18, <4>3, <5>1 DEF Metadata, Error, Node
          <5> QED BY <5>2, FileIs
        <4> QED BY <4>2, <4>3
      <3>4. ASSUME NEW i \in 1..(Len(f) - 1) PROVE ~RunsAt(x.q, SubSeq(f, 1, i))
        <4>1. CASE i < n
          BY <3>3, <4>1 DEF RunsAt
        <4>2. CASE ~(i < n)
          <5>1. i \in n..(Len(f) - 1)
            BY <1>10, <3>1, <4>2
          <5> QED BY <1>9, <3>1, <5>1 DEF NoScriptFrom
        <4> QED BY <4>1, <4>2
      <3> QED BY <3>4
    <2>2. x.epoch = edits => ScriptFor(x.q) = <<None, None>>
      BY <1>13, <2>1
    <2> QED BY <1>1, <1>2, <1>3, <2>2, FoundFollowed DEF NotFound
  <1>19. ASSUME n # 0, above PROVE Followed(NotFound(x))
    <2>1. ASSUME x.epoch = edits PROVE FALSE
      <3>1. n \in 1..Len(f) /\ n \in 0..Len(f) /\ p = SubSeq(f, 1, n)
        BY <1>5, <1>10, <1>11, <1>19, <2>1
      <3>2. 1 \in 1..n
        BY <1>10, <3>1
      <3>3. p \in Seq(STRING) /\ Len(p) = n /\ p[1] = f[1]
        BY <1>10, <3>1, <3>2, PrefixFacts
      <3>4. Head(p) = f[1]
        BY <3>3 DEF Head
      <3>5. f[1] = x.q.site.root
        <4>1. x.q.path \in Seq(STRING) /\ x.q.site.root \in STRING
          BY <1>2, FullFacts
        <4>2. PICK root \in STRING : root = x.q.site.root
          BY <4>1
        <4>3. f = <<root>> \o x.q.path
          BY <1>9, <4>2 DEF Full
        <4> QED BY <4>1, <4>2, <4>3
      <3> QED BY <1>19, <3>4, <3>5
    <2> QED BY <1>1, <1>2, <1>3, <2>1, FoundFollowed DEF NotFound
  <1> QED BY <1>8, <1>14, <1>15, <1>17, <1>18, <1>19, ToFollowed

\* What is cached is right for all requests with the key: they have one root.
LEMMA SameKey ==
    ASSUME OneRoot, IInv, NEW p \in scene.requests, NEW q \in scene.requests, CacheKey(p) = CacheKey(q),
           NEW target, NEW info, Rightly(p, target, info)
    PROVE  Rightly(q, target, info)
  <1>1. p.site.module = q.site.module /\ p.site.host = q.site.host /\ p.path = q.path
    BY DEF CacheKey
  <1>2. p.site.root = q.site.root
    BY <1>1 DEF OneRoot, IInv
  <1>3. Full(p) = Full(q)
    BY <1>1, <1>2 DEF Full
  <1>4. StaticFor(p) = StaticFor(q)
    BY <1>3 DEF StaticFor
  <1>5. ScriptFor(p) = ScriptFor(q)
    BY <1>1, <1>3, <1>4 DEF ScriptFor
  <1> QED BY <1>1, <1>4, <1>5 DEF Rightly

LEMMA StoreFollowed ==
    ASSUME OneRoot, IInv, RInv, NEW r \in Slots, Store(r)
    PROVE  RInv'
  <1>0. PICK x : x = req[r]
    OBVIOUS
  <1>1. x # None /\ x.pc = "store"
    BY <1>0 DEF Store, At
  <1>2. DOMAIN x = Fields /\ Followed(x) /\ x.q \in scene.requests
    BY <1>0, <1>1, ReqFacts
  <1>3. ~x.hit /\ Looked(x.q) /\ (x.epoch = edits => Rightly(x.q, x.target, x.info))
    BY <1>1, <1>2 DEF Followed, Placed, Progress
  <1>4. PICK e : e = [target |-> x.target, info |-> x.info, time |-> now]
    OBVIOUS
  <1>5. PICK live : live = {key \in DOMAIN cache : now - cache[key].time < Ttl}
    OBVIOUS
  <1>6. PICK y : y = [x EXCEPT !.pc = IF x.q.site.module = "static" THEN "serve" ELSE "resolved"]
    OBVIOUS
  <1>7. /\ scene' = scene /\ tree' = tree /\ now' = now /\ edits' = edits
        /\ cache' = With([key \in live |-> cache[key]], CacheKey(x.q), e)
        /\ req' = [req EXCEPT ![r] = y]
        /\ settled' = IF x.epoch # edits THEN now ELSE settled
    BY <1>0, <1>4, <1>5, <1>6 DEF Store, Module
  <1>8. now \in Nat /\ settled \in Int /\ settled <= now
    BY DEF RInv
  <1>9. settled' \in Int /\ settled' >= settled /\ settled' <= now'
    BY <1>7, <1>8
  <1>10. TreeInv'
    BY <1>7 DEF RInv, TreeInv
  <1>11. Followed(y)
    <2>1. /\ SameRequest(x, y) /\ y.env = x.env /\ y.target = x.target /\ y.info = x.info
          /\ y.pc = IF x.q.site.module = "static" THEN "serve" ELSE "resolved"
      BY <1>2, <1>6 DEF SameRequest, Fields
    <2>2. x.epoch = edits => Progress(y)
      BY <1>3, <2>1 DEF Progress, SameRequest
    <2>3. y.pc \in {"stat", "index", "pop", "store", "serve", "resolved"}
      BY <2>1
    <2> QED BY <1>1, <1>2, <1>3, <2>1, <2>2, <2>3, OnFollowed
  <1>12. ASSUME NEW s \in Slots, req'[s] # None PROVE Followed(req[s])'
    <2>1. req'[s] = IF s = r THEN y ELSE req[s]
      BY <1>7 DEF IInv
    <2>2. Followed(req'[s])
      BY <1>11, <1>12, <2>1 DEF RInv
    <2>3. ASSUME NEW z, z = req'[s] PROVE Followed(z)'
      BY <1>7, <1>8, <1>9, <2>2, <2>3, SameProgress
    <2> QED BY <2>3
  <1>13. CacheInv'
    <2>1. ASSUME NEW key \in DOMAIN cache' PROVE cache'[key].time \in 0..now' /\ (cache'[key].time > settled' => Valid(key, cache[key])')
      <3>1. CASE key = CacheKey(x.q)
        <4>1. cache'[key] = e
          BY <1>7, <3>1 DEF With
        <4>2. e.time = now /\ e.target = x.target /\ e.info = x.info
          BY <1>4
        <4>3. ASSUME e.time > settled' PROVE Valid(key, e)
          <5>1. x.epoch = edits
            BY <1>7, <1>8, <4>2, <4>3
          <5>2. Rightly(x.q, e.target, e.info)
            BY <1>3, <4>2, <5>1
          <5>3. ASSUME NEW q \in scene.requests, CacheKey(q) = key PROVE Rightly(q, e.target, e.info)
            BY <1>2, <3>1, <5>2, <5>3, SameKey
          <5> QED BY <5>3 DEF Valid
        <4>4. ASSUME NEW c, c = cache'[key], Valid(key, c) PROVE Valid(key, c)'
          BY <1>7, <4>4, SameValid
        <4>5. cache'[key].time > settled' => Valid(key, cache[key])'
          BY <4>1, <4>3, <4>4
        <4>6. cache'[key].time \in 0..now'
          BY <1>7, <1>8, <4>1, <4>2
        <4> QED BY <4>5, <4>6
      <3>2. CASE key # CacheKey(x.q)
        <4>1. key \in DOMAIN cache /\ cache'[key] = cache[key]
          BY <1>5, <1>7, <2>1, <3>2 DEF With
        <4>2. cache[key].time \in 0..now /\ (cache[key].time > settled => Valid(key, cache[key]))
          BY <4>1 DEF RInv, CacheInv
        <4>3. PICK t \in Nat : t = cache[key].time
          BY <1>8, <4>2
        <4>4. t > settled' => t > settled
          BY <1>8, <1>9
        <4>5. ASSUME NEW c, c = cache'[key], Valid(key, c) PROVE Valid(key, c)'
          BY <1>7, <4>5, SameValid
        <4>6. cache'[key].time > settled' => Valid(key, cache[key])'
          BY <4>1, <4>2, <4>3, <4>4, <4>5
        <4> QED BY <1>7, <4>1, <4>2, <4>6
      <3> QED BY <3>1, <3>2
    <2> QED BY <2>1 DEF CacheInv
  <1> QED BY <1>7, <1>8, <1>9, <1>10, <1>12, <1>13 DEF RInv

-----------------------------------------------------------------------------
(***************************************************************************)
(* The other steps.                                                        *)
(***************************************************************************)
\* A script on the way to a path: what is before it and what is after it.
LEMMA ScriptParts ==
    ASSUME IInv, NEW q \in scene.requests, NEW t, NEW i, <<t, i>> = ScriptFor(q), i # None
    PROVE  \E n \in 1..(Len(Full(q)) - 1) :
              t = SubSeq(Full(q), 1, n) /\ i = SubSeq(Full(q), n + 1, Len(Full(q)))
  <1> DEFINE p == Full(q)
             way == {x \in ProperPrefixes(p) \cup {p, StaticFor(q)} : Metadata(x).type = "file"}
             found == {x \in way : Takes(q, x)}
             y == CHOOSE x \in found : TRUE
  <1>0. p \in Seq(STRING) /\ Len(p) \in Nat
    BY FullFacts
  <1>1. ScriptFor(q) = IF found = {} THEN <<None, None>>
                       ELSE <<y, IF IsStrictPrefix(y, p) THEN SubSeq(p, Len(y) + 1, Len(p)) ELSE None>>
    BY DEF ScriptFor, Takes
  <1>2. StaticFor(q) = p \/ \E e : StaticFor(q) = Append(p, e)
    BY DEF StaticFor
  <1>3. found \subseteq ProperPrefixes(p) \cup {p, StaticFor(q)}
    OBVIOUS
  <1> HIDE DEF found
  <1>4. found # {} => y \in found
    OBVIOUS
  <1> HIDE DEF y
  <1>5. found # {} /\ t = y /\ i = SubSeq(p, Len(y) + 1, Len(p)) /\ IsStrictPrefix(y, p)
    BY <1>1
  <1>6. y \in ProperPrefixes(p)
    BY <1>0, <1>2, <1>3, <1>4, <1>5, StrictlyBefore
  <1>7. PICK n \in 1..(Len(p) - 1) : y = SubSeq(p, 1, n)
    BY <1>6 DEF ProperPrefixes
  <1>8. n \in 0..Len(p)
    BY <1>0
  <1>9. Len(y) = n
    BY <1>0, <1>7, <1>8, PrefixFacts
  <1> QED BY <1>5, <1>7, <1>9

\* The root goes before the path, and the two parts make up the path.
LEMMA PathParts ==
    ASSUME IInv, NEW q \in scene.requests, NEW n \in 1..(Len(Full(q)) - 1),
           NEW t, t = SubSeq(Full(q), 1, n), NEW i, i = SubSeq(Full(q), n + 1, Len(Full(q)))
    PROVE  Head(t) = q.site.root /\ Tail(t) \o i = q.path
  <1>1. PICK p : p = Full(q)
    OBVIOUS
  <1>2. p \in Seq(STRING) /\ q.path \in Seq(STRING) /\ q.site.root \in STRING
    BY <1>1, FullFacts
  <1>3. PICK l \in Nat : l = Len(q.path)
    BY <1>2, LenProperties
  <1>4. /\ Len(p) = l + 1 /\ p[1] = q.site.root
        /\ \A j \in 1..l : p[j + 1] = q.path[j]
    <2>1. <<q.site.root>> \in Seq(STRING) /\ Len(<<q.site.root>>) = 1 /\ <<q.site.root>>[1] = q.site.root
      BY <1>2
    <2>2. PICK s : s = <<q.site.root>>
      OBVIOUS
    <2>3. p = s \o q.path /\ s \in Seq(STRING) /\ Len(s) = 1 /\ s[1] = q.site.root
      BY <1>1, <2>1, <2>2 DEF Full
    <2>4. /\ Len(p) = Len(s) + Len(q.path)
          /\ \A j \in 1..(Len(s) + Len(q.path)) : p[j] = IF j <= Len(s) THEN s[j] ELSE q.path[j - Len(s)]
      BY <1>2, <2>3, ConcatProperties
    <2>5. \A j \in 1..(1 + l) : p[j] = IF j <= 1 THEN s[j] ELSE q.path[j - 1]
      BY <1>3, <2>3, <2>4
    <2>6. Len(p) = l + 1
      BY <1>3, <2>3, <2>4
    <2>7. p[1] = q.site.root
      <3>1. 1 \in 1..(1 + l) /\ 1 <= 1
        OBVIOUS
      <3> QED BY <2>3, <2>5, <3>1, Zenon
    <2>8. ASSUME NEW j \in 1..l PROVE p[j + 1] = q.path[j]
      <3>1. j + 1 \in 1..(1 + l) /\ ~(j + 1 <= 1) /\ j + 1 - 1 = j
        OBVIOUS
      <3> QED BY <2>5, <3>1
    <2> QED BY <2>6, <2>7, <2>8
  <1>5. /\ n \in 1..l /\ n \in 0..Len(p) /\ 1 \in 1..Len(p) /\ n \in 1..Len(p) /\ 2 \in Int /\ n \in Int
        /\ n + 1 \in Int /\ l + 1 \in Int
    BY <1>1, <1>4
  <1>6. Head(t) = p[1] /\ Tail(t) = SubSeq(p, 1 + 1, n)
    BY <1>1, <1>2, <1>5, HeadTailOfSubSeq
  <1>7. \A j \in 1..(l + 1) : p[j] \in STRING
    BY <1>2, <1>4, ElementOfSeq
  <1>8. /\ Tail(t) \in Seq(STRING) /\ Len(Tail(t)) = n - 1
        /\ \A j \in 1..(n - 1) : Tail(t)[j] = p[j + 1]
    <2>1. \A j \in 2..n : p[j] \in STRING
      BY <1>5, <1>7
    <2>2. /\ SubSeq(p, 2, n) \in Seq(STRING) /\ Len(SubSeq(p, 2, n)) = IF 2 <= n THEN n - 2 + 1 ELSE 0
          /\ \A j \in 1..(n - 2 + 1) : SubSeq(p, 2, n)[j] = p[2 + j - 1]
      BY <1>5, <2>1, SubSeqProperties
    <2>3. ASSUME NEW j \in 1..(n - 1) PROVE SubSeq(p, 2, n)[j] = p[j + 1]
      <3>1. j \in 1..(n - 2 + 1) /\ 2 + j - 1 = j + 1
        BY <1>5
      <3> QED BY <2>2, <3>1
    <2>4. Len(SubSeq(p, 2, n)) = n - 1
      BY <1>5, <2>2
    <2>5. Tail(t) = SubSeq(p, 2, n)
      BY <1>6
    <2> QED BY <2>2, <2>3, <2>4, <2>5
  <1>9. /\ i \in Seq(STRING) /\ Len(i) = l + 1 - n
        /\ \A j \in 1..(l + 1 - n) : i[j] = p[n + j]
    <2>1. \A j \in (n + 1)..(l + 1) : p[j] \in STRING
      BY <1>5, <1>7
    <2>2. i = SubSeq(p, n + 1, l + 1)
      BY <1>1, <1>4
    <2>3. /\ i \in Seq(STRING) /\ Len(i) = IF n + 1 <= l + 1 THEN l + 1 - (n + 1) + 1 ELSE 0
          /\ \A j \in 1..(l + 1 - (n + 1) + 1) : i[j] = p[n + 1 + j - 1]
      BY <1>5, <2>1, <2>2, SubSeqProperties
    <2>4. ASSUME NEW j \in 1..(l + 1 - n) PROVE i[j] = p[n + j]
      <3>1. j \in 1..(l + 1 - (n + 1) + 1) /\ n + 1 + j - 1 = n + j
        BY <1>5
      <3> QED BY <2>3, <3>1
    <2>5. Len(i) = l + 1 - n
      BY <1>5, <2>3
    <2> QED BY <2>3, <2>4, <2>5
  <1>10. PICK w : w = Tail(t) \o i
    OBVIOUS
  <1>11. /\ w \in Seq(STRING) /\ Len(w) = Len(Tail(t)) + Len(i)
         /\ \A j \in 1..(Len(Tail(t)) + Len(i)) : w[j] = IF j <= Len(Tail(t)) THEN Tail(t)[j] ELSE i[j - Len(Tail(t))]
    <2>1. PICK u : u = Tail(t)
      OBVIOUS
    <2>2. u \in Seq(STRING) /\ i \in Seq(STRING)
      BY <1>8, <1>9, <2>1
    <2>3. /\ u \o i \in Seq(STRING) /\ Len(u \o i) = Len(u) + Len(i)
          /\ \A j \in 1..(Len(u) + Len(i)) : (u \o i)[j] = IF j <= Len(u) THEN u[j] ELSE i[j - Len(u)]
      BY <2>2, ConcatProperties, Zenon
    <2> QED BY <1>10, <2>1, <2>3, Zenon
  <1>12. n - 1 + (l + 1 - n) = l
    BY <1>5
  <1>13. Len(w) = l /\ \A j \in 1..l : w[j] = IF j <= n - 1 THEN Tail(t)[j] ELSE i[j - (n - 1)]
    BY <1>8, <1>9, <1>11, <1>12
  <1>14. ASSUME NEW j \in 1..l PROVE w[j] = q.path[j]
    <2>1. CASE j <= n - 1
      <3>1. j \in 1..(n - 1)
        BY <1>5, <2>1
      <3> QED BY <1>4, <1>8, <1>13, <2>1, <3>1
    <2>2. CASE ~(j <= n - 1)
      <3>1. j - (n - 1) \in 1..(l + 1 - n) /\ n + (j - (n - 1)) = j + 1
        BY <1>5, <2>2
      <3>2. i[j - (n - 1)] = p[j + 1]
        BY <1>9, <3>1
      <3> QED BY <1>4, <1>13, <2>2, <3>2
    <2> QED BY <2>1, <2>2
  <1>15. w = q.path
    BY <1>2, <1>3, <1>11, <1>13, <1>14, SeqEqual
  <1> QED BY <1>4, <1>6, <1>10, <1>15

\* What the request tells goes before everything else.
LEMMA EnvironmentTells ==
    ASSUME NEW x, x.q.site.module \in {"cgi", "fcgi"}, x.info # None, Head(x.target) = x.q.site.root
    PROVE  Environment(x)["SCRIPT_NAME"] = Tail(x.target) /\ Environment(x)["PATH_INFO"] = x.info
  <1> DEFINE a == [DOCUMENT_ROOT |-> <<x.q.site.root>>, PATH_INFO |-> x.info, SCRIPT_FILENAME |-> x.target]
             b == [SCRIPT_NAME |-> Tail(x.target)]
  <1>1. Told(x) = Before(a, b)
    BY DEF Told
  <1>2. /\ "PATH_INFO" \in DOMAIN a /\ a["PATH_INFO"] = x.info /\ "SCRIPT_NAME" \notin DOMAIN a
        /\ "SCRIPT_NAME" \in DOMAIN b /\ b["SCRIPT_NAME"] = Tail(x.target)
    OBVIOUS
  <1> HIDE DEF a, b
  <1>3. /\ "PATH_INFO" \in DOMAIN Told(x) /\ Told(x)["PATH_INFO"] = x.info
        /\ "SCRIPT_NAME" \in DOMAIN Told(x) /\ Told(x)["SCRIPT_NAME"] = Tail(x.target)
    BY <1>1, <1>2 DEF Before
  <1>4. \E g : Environment(x) = Before(Told(x), g)
    BY DEF Environment, FcgiEnvironment, CgiEnvironment
  <1> QED BY <1>3, <1>4 DEF Before

LEMMA ExecuteFollowed ==
    ASSUME IInv, RInv, NEW r \in Slots, Execute(r)
    PROVE  RInv'
  <1>0. PICK x : x = req[r]
    OBVIOUS
  <1>1. x # None /\ x.pc = "resolved"
    BY <1>0 DEF Execute, At
  <1>2. DOMAIN x = Fields /\ Followed(x) /\ x.q \in scene.requests
    BY <1>0, <1>1, ReqFacts
  <1>3. PICK env : env = Environment(x)
    OBVIOUS
  <1>4. PICK y : y = Done([x EXCEPT !.env = env], None)
    OBVIOUS
  <1>5. To(r, Done(x, None)) \/ To(r, y)
    BY <1>0, <1>3, <1>4 DEF Execute
  <1>6. Followed(Done(x, None))
    BY <1>1, <1>2, DoneFollowed
  <1>7. SameRequest(x, y) /\ y.pc = "done" /\ y.env = env /\ y.target = x.target /\ y.info = x.info
    BY <1>2, <1>4 DEF SameRequest, Fields, Done
  <1>8. Placed(y)
    BY <1>2, <1>7 DEF Followed, Placed, SameRequest
  <1>9. ASSUME Calm(y) PROVE PathTold(y)
    <2> SUFFICES ASSUME x.info # None, x.q.site.module \in {"cgi", "fcgi"}
                 PROVE  env["SCRIPT_NAME"] \o env["PATH_INFO"] = x.q.path
      BY <1>7 DEF PathTold, SameRequest
    <2>1. Rightly(x.q, x.target, x.info)
      <3>1. Calm(x) /\ x.epoch = edits
        BY <1>7, <1>9 DEF Calm, SameRequest
      <3> QED BY <1>1, <1>2, <3>1 DEF Followed, Progress, Looked
    <2>2. <<x.target, x.info>> = ScriptFor(x.q)
      BY <2>1 DEF Rightly
    <2>3. PICK n \in 1..(Len(Full(x.q)) - 1) :
             x.target = SubSeq(Full(x.q), 1, n) /\ x.info = SubSeq(Full(x.q), n + 1, Len(Full(x.q)))
      BY <1>2, <2>2, ScriptParts
    <2>4. PICK t, i : t = x.target /\ i = x.info
      OBVIOUS
    <2>5. Head(t) = x.q.site.root /\ Tail(t) \o i = x.q.path
      BY <1>2, <2>3, <2>4, PathParts
    <2>6. env["SCRIPT_NAME"] = Tail(x.target) /\ env["PATH_INFO"] = x.info
      BY <1>3, <2>4, <2>5, EnvironmentTells
    <2> QED BY <2>4, <2>5, <2>6
  <1>10. Followed(y)
    BY <1>7, <1>8, <1>9 DEF Followed, Progress
  <1> QED BY <1>5, <1>6, <1>10, ToFollowed

\* A file is served: its request is past the lookup.
LEMMA ServeFollowed ==
    ASSUME IInv, RInv, NEW r \in Slots,
           ServeFile(r) \/ ServeDirectory(r) \/ ServeOther(r) \/ Precompressed(r) \/ Open(r)
    PROVE  RInv'
  <1>0. PICK x : x = req[r]
    OBVIOUS
  <1>1. x # None /\ x.pc \in {"serve", "compressed", "open"}
    BY <1>0 DEF ServeFile, ServeDirectory, ServeOther, Precompressed, Open, At
  <1>2. DOMAIN x = Fields /\ Followed(x)
    BY <1>0, <1>1, ReqFacts
  <1> DEFINE OK(y) == SameRequest(x, y) /\ y.pc \in Sending /\ y.env = x.env
  <1>3. \A st : OK(Done(x, st))
    BY <1>2 DEF SameRequest, Fields, Done, Sending
  <1>4. Opens(x, "open") \in {"open", "done"}
    BY DEF Opens
  <1>5. \E y : OK(y) /\ To(r, y)
    <2>1. CASE ServeFile(r)
      <3> DEFINE z == [x EXCEPT !.etag = Etag(x)]
      <3>1. To(r, IF NotModified(z) THEN Done(z, 304)
                  ELSE IF PreconditionFailed(z) THEN Done(z, 412)
                  ELSE IF z.q.range # None THEN Partial(z)
                  ELSE Whole(z))
        BY <1>0, <2>1 DEF ServeFile
      <3>2. SameRequest(x, z) /\ z.env = x.env /\ z.q = x.q
        BY <1>2 DEF SameRequest, Fields
      <3> HIDE DEF z
      <3>3. Opens(z, "open") \in {"open", "done"}
        BY DEF Opens
      <3>4. \A st : OK(Done(z, st))
        BY <3>2 DEF SameRequest, Fields, Done, Sending
      <3>5. OK(Whole(z))
        BY <3>2, <3>3 DEF SameRequest, Fields, Whole, Sending
      <3>6. OK(Partial(z))
        <4>1. \A part : OK([z EXCEPT !.pc = Opens(z, "open"), !.status = 206, !.part = part])
          BY <3>2, <3>3 DEF SameRequest, Fields, Sending
        <4> HIDE DEF OK
        <4> QED BY <3>4, <4>1 DEF Partial
      <3> HIDE DEF OK
      <3> QED BY <3>1, <3>4, <3>5, <3>6
    <2>2. CASE ServeDirectory(r) \/ ServeOther(r)
      <3>1. \E st : To(r, Done(x, st))
        BY <1>0, <2>2 DEF ServeDirectory, ServeOther
      <3> HIDE DEF OK
      <3> QED BY <1>3, <3>1
    <2>3. CASE Precompressed(r)
      <3>1. PICK p : To(r, [x EXCEPT !.pc = Opens(x, "open"), !.target = p])
        BY <1>0, <2>3 DEF Precompressed
      <3>2. OK([x EXCEPT !.pc = Opens(x, "open"), !.target = p])
        BY <1>2, <1>4 DEF SameRequest, Fields, Sending
      <3> HIDE DEF OK
      <3> QED BY <3>1, <3>2
    <2>4. CASE Open(r)
      <3>1. (\E st : To(r, Done(x, st))) \/ \E c, t : To(r, [x EXCEPT !.pc = "done", !.content = c, !.written = t])
        BY <1>0, <2>4 DEF Open
      <3>2. \A c, t : OK([x EXCEPT !.pc = "done", !.content = c, !.written = t])
        BY <1>2 DEF SameRequest, Fields, Sending
      <3> HIDE DEF OK
      <3> QED BY <1>3, <3>1, <3>2
    <2> QED BY <2>1, <2>2, <2>3, <2>4
  <1>6. PICK y : OK(y) /\ To(r, y)
    BY <1>5
  <1>7. Followed(y)
    BY <1>1, <1>2, <1>6, PastFollowed
  <1> QED BY <1>6, <1>7, ToFollowed

LEMMA DeliverFollowed ==
    ASSUME IInv, RInv, NEW r \in Slots, Deliver(r)
    PROVE  RInv'
  <1>1. UNCHANGED <<scene, tree, cache, now, edits, settled>> /\ req' = [req EXCEPT ![r] = None]
    BY DEF Deliver
  <1> QED BY <1>1, OneFollowed

LEMMA QuietFollowed ==
    ASSUME IInv, RInv, Tick \/ UNCHANGED vars
    PROVE  RInv'
  <1>1. now' \in Nat /\ now <= now' /\ settled \in Int /\ settled <= now' /\ now \in Nat /\ settled >= settled
    BY DEF RInv, Tick, vars
  <1>2. /\ scene' = scene /\ tree' = tree /\ cache' = cache /\ req' = req /\ edits' = edits /\ settled' = settled
    BY DEF Tick, vars
  <1>3. TreeInv'
    BY <1>2 DEF RInv, TreeInv
  <1>4. CacheInv'
    <2>1. \A t : t \in 0..now => t \in 0..now'
      BY <1>1
    <2> QED BY <1>2, <2>1, SameValid DEF RInv, CacheInv
  <1>5. ASSUME NEW s \in Slots, req'[s] # None PROVE Followed(req[s])'
    <2>1. Followed(req'[s])
      BY <1>2, <1>5 DEF RInv
    <2>2. ASSUME NEW x, x = req'[s] PROVE Followed(x)'
      BY <1>1, <1>2, <2>1, <2>2, SameProgress
    <2> QED BY <2>2
  <1> QED BY <1>1, <1>2, <1>3, <1>4, <1>5 DEF RInv

\* A file is written into a directory, or removed: there is still a way of
\* directories to everything.
LEMMA TreeStays ==
    ASSUME IInv, TreeInv, NEW p \in scene.editable, WriteFile(p) \/ RemoveFile(p)
    PROVE  TreeInv'
  <1>0. scene' = scene /\ scene.editable \subseteq Seq(STRING)
    BY FileServingAssumption DEF WriteFile, RemoveFile, IInv, IsScene
  <1>1. ASSUME NEW o \in DOMAIN tree PROVE p \notin ProperPrefixes(o)
    BY DEF TreeInv, IsTree
  <1>2. ASSUME NEW t, DOMAIN t \subseteq DOMAIN tree \cup {p}, DOMAIN tree \ {p} \subseteq DOMAIN t,
               \A o \in DOMAIN t \ {p} : t[o] = tree[o],
               p \in DOMAIN t => t[p].type = "file" /\ t[p].away \in BOOLEAN /\ p # <<>>,
               p \in DOMAIN t => \A o \in ProperPrefixes(p) : o \in DOMAIN tree /\ tree[o].type = "dir"
        PROVE  IsTree(t) /\ \A o \in scene.editable : o \in DOMAIN t => t[o].type = "file"
    <2>1. ASSUME NEW o \in DOMAIN t
          PROVE  /\ o \in Seq(STRING) /\ o # <<>> /\ t[o].type \in {"file", "dir", "other", "denied"}
                 /\ t[o].away \in BOOLEAN /\ (t[o].away => t[o].type = "file")
                 /\ \A q \in ProperPrefixes(o) : q \in DOMAIN tree /\ tree[q].type = "dir" /\ q # p
      <3>1. CASE o = p
        <4>1. /\ o \in Seq(STRING) /\ o # <<>> /\ t[o].type = "file" /\ t[o].away \in BOOLEAN
              /\ \A q \in ProperPrefixes(o) : q \in DOMAIN tree /\ tree[q].type = "dir"
          BY <1>0, <1>2, <3>1
        <4>2. ASSUME p \in ProperPrefixes(p) PROVE FALSE
          <5>1. PICK n \in 1..(Len(p) - 1) : p = SubSeq(p, 1, n)
            BY <4>2 DEF ProperPrefixes
          <5>2. Len(p) \in Nat
            BY <1>0, LenProperties
          <5>3. n \in 0..Len(p) /\ n # Len(p)
            BY <5>2
          <5>4. Len(SubSeq(p, 1, n)) = n
            BY <1>0, <5>3, PrefixFacts
          <5> QED BY <5>1, <5>3, <5>4
        <4> QED BY <3>1, <4>1, <4>2
      <3>2. CASE o # p
        BY <1>1, <1>2, <3>2 DEF TreeInv, IsTree
      <3> QED BY <3>1, <3>2
    <2>2. IsTree(t)
      BY <1>2, <2>1 DEF IsTree
    <2>3. \A o \in scene.editable : o \in DOMAIN t => t[o].type = "file"
      BY <1>2 DEF TreeInv
    <2> QED BY <2>2, <2>3
  <1>3. CASE RemoveFile(p)
    <2>1. tree' = [q \in DOMAIN tree \ {p} |-> tree[q]]
      BY <1>3 DEF RemoveFile
    <2>2. ASSUME NEW t, t = tree' PROVE IsTree(t) /\ \A o \in scene.editable : o \in DOMAIN t => t[o].type = "file"
      <3>1. DOMAIN t = DOMAIN tree \ {p} /\ \A o \in DOMAIN t : t[o] = tree[o]
        BY <2>1, <2>2
      <3> QED BY <1>2, <3>1
    <2> QED BY <1>0, <2>2 DEF TreeInv
  <1>4. CASE WriteFile(p)
    <2>1. PICK n : n.type = "file" /\ n.away \in BOOLEAN /\ tree' = With(tree, p, n)
      <3>1. scene.links \subseteq BOOLEAN
        BY FileServingAssumption DEF IInv, IsScene
      <3> QED BY <1>4, <3>1 DEF WriteFile, Node
    <2>2. PICK f : f = Front(p)
      OBVIOUS
    <2>3. f \in DOMAIN tree /\ tree[f].type = "dir" /\ f = SubSeq(p, 1, Len(p) - 1)
      BY <1>4, <2>2 DEF WriteFile, Front
    <2>4. PICK l \in Nat : l = Len(p)
      BY <1>0, LenProperties
    <2>5. l >= 2
      <3>1. f # <<>>
        BY <2>3 DEF TreeInv, IsTree
      <3>2. ASSUME l < 2 PROVE FALSE
        <4>1. l - 1 \in Int /\ l - 1 < 1 /\ 1 \in Int
          BY <3>2
        <4>2. SubSeq(p, 1, l - 1) = <<>>
          BY <4>1, SubSeqEmpty
        <4> QED BY <2>3, <2>4, <3>1, <4>2
      <3> QED BY <3>2
    <2>6. p # <<>>
      BY <2>4, <2>5
    <2>7. ASSUME NEW o \in ProperPrefixes(p) PROVE o \in DOMAIN tree /\ tree[o].type = "dir"
      <3>1. PICK i \in 1..(l - 1) : o = SubSeq(p, 1, i)
        BY <2>4 DEF ProperPrefixes
      <3>2. CASE i = l - 1
        BY <2>3, <2>4, <3>1, <3>2
      <3>3. CASE i # l - 1
        <4>1. l - 1 \in 0..Len(p) /\ i \in 0..(l - 1) /\ i \in 1..(l - 1 - 1)
          BY <2>4, <2>5, <3>3
        <4>2. Len(f) = l - 1 /\ SubSeq(f, 1, i) = o
          BY <1>0, <2>3, <2>4, <3>1, <4>1, PrefixFacts, PrefixOfPrefix
        <4>3. o \in ProperPrefixes(f)
          BY <4>1, <4>2 DEF ProperPrefixes
        <4> QED BY <2>3, <4>3 DEF TreeInv, IsTree
      <3> QED BY <3>2, <3>3
    <2>8. ASSUME NEW t, t = tree' PROVE IsTree(t) /\ \A o \in scene.editable : o \in DOMAIN t => t[o].type = "file"
      <3>1. /\ DOMAIN t = DOMAIN tree \cup {p} /\ t[p].type = "file" /\ t[p].away \in BOOLEAN
            /\ \A o \in DOMAIN t \ {p} : t[o] = tree[o]
        BY <2>1, <2>8 DEF With
      <3> QED BY <1>2, <2>6, <2>7, <3>1
    <2> QED BY <1>0, <2>8 DEF TreeInv
  <1> QED BY <1>3, <1>4

\* What began before a change is not calm any more, nor is what was cached.
LEMMA EditFollowed ==
    ASSUME IInv, RInv, NEW p \in scene.editable, WriteFile(p) \/ RemoveFile(p)
    PROVE  RInv'
  <1>1. edits \in Nat /\ now \in Nat /\ settled \in Int
    BY DEF IInv, TreeType, RInv
  <1>2. edits' = edits + 1 /\ settled' = now /\ now' = now /\ cache' = cache /\ req' = req /\ scene' = scene
    BY DEF WriteFile, RemoveFile
  <1>3. TreeInv'
    BY TreeStays DEF RInv
  <1>4. CacheInv'
    <2>1. \A t : t \in 0..now => ~(t > now)
      BY <1>1
    <2> QED BY <1>2, <2>1 DEF RInv, CacheInv
  <1>5. ASSUME NEW x, Followed(x) PROVE Followed(x)'
    <2>1. x.epoch \in Nat /\ x.epoch <= edits
      BY <1>5 DEF Followed, Placed
    <2>2. x.epoch <= edits' /\ x.epoch # edits'
      BY <1>1, <1>2, <2>1
    <2>3. Placed(x)'
      BY <1>5, <2>2 DEF Followed, Placed, Looked
    <2> QED BY <2>2, <2>3 DEF Followed, Calm
  <1>6. ASSUME NEW s \in Slots, req'[s] # None PROVE Followed(req[s])'
    <2>1. Followed(req'[s])
      BY <1>2, <1>6 DEF RInv
    <2>2. ASSUME NEW x, x = req'[s] PROVE Followed(x)'
      BY <1>5, <2>1, <2>2
    <2> QED BY <2>2
  <1> QED BY <1>1, <1>2, <1>3, <1>4, <1>6 DEF RInv

LEMMA RInvInit == Init => RInv
  <1> SUFFICES ASSUME Init PROVE RInv
    OBVIOUS
  <1>1. scene \in Scenes /\ IsScene(scene) /\ tree = scene.tree /\ Ttl \in Nat
    BY FileServingAssumption DEF Init
  <1>2. TreeInv
    BY <1>1 DEF TreeInv, IsScene
  <1>3. CacheInv
    BY DEF Init, CacheInv
  <1>4. now \in Nat /\ settled \in Int /\ settled <= now
    BY <1>1 DEF Init
  <1>5. \A r \in Slots : req[r] = None
    BY DEF Init
  <1> QED BY <1>2, <1>3, <1>4, <1>5 DEF RInv

LEMMA RInvStep == OneRoot /\ IInv /\ RInv /\ [Next]_vars => RInv'
  <1> SUFFICES ASSUME OneRoot, IInv, RInv, [Next]_vars PROVE RInv'
    OBVIOUS
  <1>1. CASE Tick \/ UNCHANGED vars
    BY <1>1, QuietFollowed
  <1>2. CASE \E p \in scene.editable : WriteFile(p) \/ RemoveFile(p)
    BY <1>2, EditFollowed
  <1>3. ASSUME NEW r \in Slots, Step(r) PROVE RInv'
    BY <1>3, ArriveFollowed, RefuseFollowed, CheckFollowed, AllowFollowed, StatStaticFollowed, StatScriptFollowed,
       IndexStaticFollowed, IndexScriptFollowed, PopFollowed, StoreFollowed, ExecuteFollowed, ServeFollowed,
       DeliverFollowed, Zenon DEF Step
  <1> QED BY <1>1, <1>2, <1>3 DEF Next

LEMMA RInvRight == IInv /\ RInv => ResolvedRight
  <1> SUFFICES ASSUME IInv, RInv, NEW r \in Slots, NEW x, x = req[r], x # None,
                      x.time >= settled + Ttl, x.epoch = edits
               PROVE  /\ x.pc = "serve" => x.target = StaticFor(x.q)
                      /\ x.pc = "resolved" /\ x.q.site.module \in {"cgi", "fcgi"} =>
                            <<x.target, x.info>> = ScriptFor(x.q)
                      /\ PathTold(x)
    BY DEF ResolvedRight, PathTold
  <1>1. Followed(x) /\ (x.pc = "serve" => x.q.site.module = "static")
    BY ReqFacts
  <1>2. Calm(x)
    BY DEF Calm
  <1>3. x.pc \in {"serve", "resolved"} /\ Looked(x.q) => Rightly(x.q, x.target, x.info)
    BY <1>1, <1>2 DEF Followed, Placed, Progress
  <1> QED BY <1>1, <1>2, <1>3 DEF Followed, Rightly, Looked

\* Where the configurations of a host have one root: once nothing has changed
\* for the life of a cached path, every request gets the file or the script that
\* its path stands for, and a script is told the path that was requested, for
\* any files, indexes and paths and any number of requests at the same time
\* (static.rs, cgi.rs and fcgi.rs, the lookup of a path and its cache).
THEOREM ResolvedRightAlways == ASSUME OneRoot PROVE Spec => []ResolvedRight
  <1>1. IInv /\ RInv /\ [Next]_vars => RInv'
    BY RInvStep
  <1> QED BY <1>1, IInvAlways, IInvStep, RInvInit, RInvRight, PTL DEF Spec
=============================================================================
