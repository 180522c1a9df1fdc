---------------------------- MODULE GatewayProofs ----------------------------
(***************************************************************************)
(* Gateway implements TwoStreams, for every application, and for any       *)
(* number of records of any length.                                        *)
(*                                                                         *)
(* What was written to a stream and has not been read is on its way: with  *)
(* SCGI and CGI in the pipe of the stream, with FastCGI in the socket, in  *)
(* the decoder's buffer or in the split's, where records of both streams   *)
(* take turns.  The invariant names the texts that both streams have after *)
(* each unit on the way: the first is what was taken by the readers, the   *)
(* last is what was written, and every unit adds its text to its stream    *)
(* (Carries), until END_REQUEST, after which nothing is added.             *)
(*                                                                         *)
(* The second half shows that the response has the application's output as *)
(* its body, however that is cut: ResponseIntact.                          *)
(***************************************************************************)
EXTENDS Gateway, SequenceTheorems, WellFoundedInduction, TLAPS

Chars == {"x", "r", "n", "ok", "failed", "refused", "cut"}
Text == Seq(Chars)
Records == AppSteps \ [type : {"read"}]
Units == [unit : {"header", "content"}, rec : Records]

(***************************************************************************)
(* What is on its way.                                                     *)
(***************************************************************************)
IsEnd(u) == u.unit = "content" /\ u.rec.type = "end"
HasEnd(U, n) == \E j \in 1..n : IsEnd(U[j])

\* What a unit adds to the texts of the streams.
After(u, texts) ==
    IF u.unit = "content" /\ ~Silent(u.rec)
    THEN [texts EXCEPT ![StreamOf(u.rec)] = @ \o TextOf(u.rec)] ELSE texts

Begins(p, w) == \E rest \in Text : w = p \o rest

\* From some texts the units U lead to others, through the texts mid.
Leads(U, mid, from, to) ==
    /\ mid \in [0..Len(U) -> [Streams -> Text]]
    /\ mid[0] = from /\ mid[Len(U)] = to
    /\ \A i \in 1..Len(U) : mid[i] = IF HasEnd(U, i - 1) THEN mid[i - 1] ELSE After(U[i], mid[i - 1])
    /\ \A i \in 0..Len(U), s \in Streams : Begins(mid[i][s], to[s])
    /\ \A i \in 0..Len(U) : HasEnd(U, i) => mid[i] = to

Carries(U, from, to) == \E mid : Leads(U, mid, from, to)

\* The text that a pipe holds, unit by unit.
Joined(U, texts) ==
    /\ texts \in [1..Len(U) -> Text]
    /\ \A i \in 1..Len(U) : texts[i] = IF i = 1 THEN U[i].rec.text ELSE texts[i - 1] \o U[i].rec.text

Holds(U, from, to) ==
    \E texts : Joined(U, texts) /\ to = IF U = <<>> THEN from ELSE from \o texts[Len(U)]

-----------------------------------------------------------------------------
(***************************************************************************)
(* Texts and records.                                                      *)
(***************************************************************************)
LEMMA RecordFacts ==
    ASSUME NEW x \in Records
    PROVE  StreamOf(x) \in Streams /\ TextOf(x) \in Text
  <1>1. \/ x \in [type : Streams, text : Seq({"x", "r", "n"})]
        \/ x \in [type : {"end"}, status : {"ok", "failed", "refused", "cut"}]
    BY DEF Records, AppSteps
  <1>2. CASE x \in [type : Streams, text : Seq({"x", "r", "n"})]
    <2>1. x.type \in Streams /\ x.text \in Seq({"x", "r", "n"}) /\ x.type # "end"
      BY <1>2 DEF Streams
    <2>2. x.text \in Text
      BY <2>1 DEF Text, Chars
    <2> QED BY <2>1, <2>2 DEF StreamOf, TextOf
  <1>3. CASE x \in [type : {"end"}, status : {"ok", "failed", "refused", "cut"}]
    <2>1. x.type = "end" /\ x.status \in Chars
      BY <1>3 DEF Chars
    <2>2. <<x.status>> \in Text
      BY <2>1 DEF Text
    <2> QED BY <2>1, <2>2 DEF StreamOf, TextOf, Streams
  <1> QED BY <1>1, <1>2, <1>3

LEMMA TextFacts ==
    ASSUME NEW a \in Text, NEW b \in Text
    PROVE  /\ a \o b \in Text
           /\ a \o <<>> = a /\ <<>> \in Text
  BY ConcatProperties, ConcatEmptySeq DEF Text

LEMMA TextAssoc ==
    ASSUME NEW a \in Text, NEW b \in Text, NEW c \in Text
    PROVE  (a \o b) \o c = a \o (b \o c)
  BY ConcatAssociative DEF Text

LEMMA BeginsFacts ==
    ASSUME NEW p \in Text, NEW w \in Text
    PROVE  /\ Begins(w, w)
           /\ \A t \in Text : Begins(p, w) => Begins(p, w \o t)
           /\ Begins(p, w) => IsPrefix(p, w)
           /\ \A t \in Text : Begins(w \o t, w) => t = <<>>
           /\ \A t \in Text : t # <<>> => IsStrictPrefix(w, w \o t)
  <1>1. Begins(w, w)
    <2>1. <<>> \in Text /\ w = w \o <<>>
      BY ConcatEmptySeq DEF Text
    <2> QED BY <2>1 DEF Begins
  <1>2. ASSUME NEW t \in Text, Begins(p, w) PROVE Begins(p, w \o t)
    <2>1. PICK rest \in Text : w = p \o rest
      BY <1>2 DEF Begins
    <2>2. w \o t = p \o (rest \o t) /\ rest \o t \in Text
      BY <2>1, ConcatAssociative, ConcatProperties DEF Text
    <2> QED BY <2>2 DEF Begins
  <1>3. ASSUME NEW q \in Text, NEW t \in Text PROVE IsPrefix(q, q \o t) /\ Len(q \o t) = Len(q) + Len(t)
    <2>1. /\ q \o t \in Seq(Chars) /\ Len(q \o t) = Len(q) + Len(t) /\ Len(q) \in Nat /\ Len(t) \in Nat
          /\ \A i \in 1..Len(q) : (q \o t)[i] = q[i]
      BY ConcatProperties, LenProperties DEF Text
    <2>2. SubSeq(q, 1, Len(q)) = SubSeq(q \o t, 1, Len(q))
      BY <2>1, SubSeqOfConcat1, SubSeqFull DEF Text
    <2> QED BY <2>1, <2>2 DEF IsPrefix
  <1>4. Begins(p, w) => IsPrefix(p, w)
    BY <1>3 DEF Begins
  <1>5. ASSUME NEW t \in Text, Begins(w \o t, w) PROVE t = <<>>
    <2>1. PICK rest \in Text : w = (w \o t) \o rest
      BY <1>5 DEF Begins
    <2>2. w \o t \in Text /\ Len(w) = Len(w) + Len(t) + Len(rest) /\ {Len(w), Len(t), Len(rest)} \subseteq Nat
      BY <2>1, ConcatProperties, LenProperties DEF Text
    <2>3. Len(t) = 0
      BY <2>2
    <2> QED BY <2>3, EmptySeq DEF Text
  <1>6. ASSUME NEW t \in Text, t # <<>> PROVE IsStrictPrefix(w, w \o t)
    <2>1. w # w \o t
      BY <1>6, ConcatEqualIffEmpty DEF Text
    <2> QED BY <2>1, <1>3 DEF IsStrictPrefix
  <1> QED BY <1>1, <1>2, <1>4, <1>5, <1>6

LEMMA AfterFacts ==
    ASSUME NEW u \in Units, NEW texts \in [Streams -> Text]
    PROVE  /\ After(u, texts) \in [Streams -> Text]
           /\ \A s \in Streams : \E t \in Text : After(u, texts)[s] = texts[s] \o t
  <1>1. u.rec \in Records
    BY DEF Units
  <1>2. StreamOf(u.rec) \in Streams /\ TextOf(u.rec) \in Text
    BY <1>1, RecordFacts
  <1>3. \A s \in Streams : texts[s] \o TextOf(u.rec) \in Text /\ texts[s] \o <<>> = texts[s] /\ <<>> \in Text
    BY <1>2, ConcatProperties, ConcatEmptySeq DEF Text
  <1> QED BY <1>2, <1>3 DEF After

-----------------------------------------------------------------------------
(***************************************************************************)
(* Units on their way.                                                     *)
(***************************************************************************)
\* Nothing on its way: all that was written was taken.
LEMMA CarriesNone ==
    ASSUME NEW from \in [Streams -> Text], NEW to
    PROVE  Carries(<<>>, from, to) <=> from = to
  <1>1. ASSUME Carries(<<>>, from, to) PROVE from = to
    BY <1>1 DEF Carries, Leads
  <1>2. Carries(<<>>, from, from)
    <2> DEFINE mid == [i \in 0..0 |-> from]
    <2>1. mid \in [0..Len(<<>>) -> [Streams -> Text]] /\ mid[0] = from /\ Len(<<>>) = 0
      OBVIOUS
    <2>2. \A i \in 0..0, s \in Streams : Begins(mid[i][s], from[s])
      BY BeginsFacts
    <2>3. \A i \in 0..0 : mid[i] = from
      OBVIOUS
    <2> HIDE DEF mid
    <2> QED BY <2>1, <2>2, <2>3 DEF Carries, Leads
  <1> QED BY <1>1, <1>2

\* What is taken is the beginning of what was written.
LEMMA CarriesBegins ==
    ASSUME NEW U \in Seq(Units), NEW from, NEW to, Carries(U, from, to), NEW s \in Streams
    PROVE  Begins(from[s], to[s])
  <1>1. Len(U) \in Nat
    BY LenProperties
  <1> QED BY <1>1 DEF Carries, Leads

\* One more unit is written.
LEMMA CarriesMore ==
    ASSUME NEW U \in Seq(Units), NEW u \in Units, NEW from, NEW to \in [Streams -> Text],
           Carries(U, from, to)
    PROVE  Carries(Append(U, u), from, IF HasEnd(U, Len(U)) THEN to ELSE After(u, to))
  <1>1. PICK mid : Leads(U, mid, from, to)
    BY DEF Carries
  <1> DEFINE n == Len(U)
             V == Append(U, u)
             to1 == IF HasEnd(U, n) THEN to ELSE After(u, to)
             mid1 == [i \in 0..(n + 1) |-> IF i <= n THEN mid[i] ELSE to1]
  <1>2. n \in Nat
    BY LenProperties
  <1>3. Len(V) = n + 1 /\ (\A i \in 1..n : V[i] = U[i]) /\ V[n + 1] = u
    BY AppendProperties
  <1>4. to1 \in [Streams -> Text] /\ \A s \in Streams : Begins(to[s], to1[s])
    <2>1. to \in [Streams -> Text] /\ After(u, to) \in [Streams -> Text]
      BY AfterFacts
    <2>2. \A s \in Streams : Begins(to[s], After(u, to)[s])
      BY <2>1, AfterFacts DEF Begins
    <2>3. \A s \in Streams : Begins(to[s], to[s])
      BY BeginsFacts
    <2> QED BY <2>1, <2>2, <2>3
  <1>5. \A i \in 0..n : HasEnd(V, i) <=> HasEnd(U, i)
    BY <1>2, <1>3 DEF HasEnd
  <1>6. /\ mid \in [0..n -> [Streams -> Text]] /\ mid[0] = from /\ mid[n] = to
        /\ \A i \in 1..n : mid[i] = IF HasEnd(U, i - 1) THEN mid[i - 1] ELSE After(U[i], mid[i - 1])
        /\ \A i \in 0..n, s \in Streams : Begins(mid[i][s], to[s])
        /\ \A i \in 0..n : HasEnd(U, i) => mid[i] = to
    BY <1>1 DEF Leads
  <1> HIDE DEF n, V, to1
  <1>7. /\ mid1 \in [0..(n + 1) -> [Streams -> Text]]
        /\ mid1[0] = from /\ mid1[n + 1] = to1
        /\ \A i \in 0..n : mid1[i] = mid[i]
    BY <1>2, <1>4, <1>6
  <1> HIDE DEF mid1
  <1>8. ASSUME NEW i \in 1..(n + 1)
        PROVE  mid1[i] = IF HasEnd(V, i - 1) THEN mid1[i - 1] ELSE After(V[i], mid1[i - 1])
    <2>1. CASE i \in 1..n
      <3>1. i - 1 \in 0..n /\ i \in 0..n
        BY <1>2, <2>1
      <3> QED BY <2>1, <3>1, <1>3, <1>5, <1>6, <1>7
    <2>2. CASE i = n + 1
      <3>1. i - 1 = n /\ n \in 0..n
        BY <1>2, <2>2
      <3> QED BY <2>2, <3>1, <1>3, <1>5, <1>6, <1>7 DEF to1
    <2> QED BY <1>2, <2>1, <2>2
  <1>9. ASSUME NEW i \in 0..(n + 1), NEW s \in Streams PROVE Begins(mid1[i][s], to1[s])
    <2>1. CASE i \in 0..n
      <3>1. mid1[i][s] = mid[i][s] /\ mid[i][s] \in Text /\ Begins(mid[i][s], to[s])
        BY <1>6, <1>7, <2>1
      <3>2. CASE to1 = to
        BY <3>1, <3>2
      <3>3. CASE to1 # to
        <4>1. PICK t \in Text : to1[s] = to[s] \o t
          BY <3>3, AfterFacts DEF to1
        <4> QED BY <3>1, <4>1, BeginsFacts
      <3> QED BY <3>2, <3>3
    <2>2. CASE i = n + 1
      BY <1>4, <1>7, <2>2, BeginsFacts
    <2> QED BY <1>2, <2>1, <2>2
  <1>10. ASSUME NEW i \in 0..(n + 1), HasEnd(V, i) PROVE mid1[i] = to1
    <2>1. CASE i \in 0..n
      <3>1. HasEnd(U, i) /\ HasEnd(U, n)
        BY <1>2, <1>5, <1>10, <2>1 DEF HasEnd
      <3> QED BY <3>1, <1>6, <1>7, <2>1 DEF to1
    <2>2. CASE i = n + 1
      BY <1>7, <2>2
    <2> QED BY <1>2, <2>1, <2>2
  <1>11. Leads(V, mid1, from, to1)
    BY <1>3, <1>7, <1>8, <1>9, <1>10 DEF Leads
  <1> QED BY <1>11 DEF Carries, V, to1, n

\* The first unit is taken.
LEMMA CarriesNext ==
    ASSUME NEW U \in Seq(Units), U # <<>>, NEW from, NEW to, Carries(U, from, to)
    PROVE  /\ from \in [Streams -> Text]
           /\ After(U[1], from) \in [Streams -> Text]
           /\ \A s \in Streams : Begins(After(U[1], from)[s], to[s])
           /\ IsEnd(U[1]) => After(U[1], from) = to
           /\ ~IsEnd(U[1]) => Carries(Tail(U), After(U[1], from), to)
  <1>1. PICK mid : Leads(U, mid, from, to)
    BY DEF Carries
  <1> DEFINE n == Len(U)
             T == Tail(U)
             mid1 == [i \in 0..(n - 1) |-> mid[i + 1]]
  <1>2. n \in Nat /\ n > 0
    BY LenProperties, EmptySeq
  <1>3. Len(T) = n - 1 /\ \A i \in 1..(n - 1) : T[i] = U[i + 1]
    BY HeadTailProperties
  <1>4. /\ mid \in [0..n -> [Streams -> Text]] /\ mid[0] = from /\ mid[n] = to
        /\ \A i \in 1..n : mid[i] = IF HasEnd(U, i - 1) THEN mid[i - 1] ELSE After(U[i], mid[i - 1])
        /\ \A i \in 0..n, s \in Streams : Begins(mid[i][s], to[s])
        /\ \A i \in 0..n : HasEnd(U, i) => mid[i] = to
    BY <1>1 DEF Leads
  <1> HIDE DEF n, T
  <1>5. mid[1] = After(U[1], from) /\ 1 \in 0..n
    <2>1. 1 \in 1..n /\ ~HasEnd(U, 0) /\ 1 - 1 = 0
      BY <1>2 DEF HasEnd
    <2> QED BY <1>4, <2>1
  <1>6. IsEnd(U[1]) => mid[1] = to
    <2>1. IsEnd(U[1]) => HasEnd(U, 1)
      BY DEF HasEnd
    <2> QED BY <1>4, <1>5, <2>1
  <1>7. ASSUME ~IsEnd(U[1]) PROVE Leads(T, mid1, mid[1], to)
    <2>1. \A i \in 0..(n - 1) : HasEnd(T, i) <=> HasEnd(U, i + 1)
      <3>1. ASSUME NEW i \in 0..(n - 1), HasEnd(T, i) PROVE HasEnd(U, i + 1)
        <4>1. PICK j \in 1..i : IsEnd(T[j])
          BY <3>1 DEF HasEnd
        <4>2. j \in 1..(n - 1) /\ j + 1 \in 1..(i + 1)
          BY <1>2
        <4> QED BY <1>3, <4>1, <4>2 DEF HasEnd
      <3>2. ASSUME NEW i \in 0..(n - 1), HasEnd(U, i + 1) PROVE HasEnd(T, i)
        <4>1. PICK j \in 1..(i + 1) : IsEnd(U[j])
          BY <3>2 DEF HasEnd
        <4>2. j # 1
          BY <1>7, <4>1
        <4>3. j - 1 \in 1..i /\ j - 1 \in 1..(n - 1) /\ (j - 1) + 1 = j
          BY <1>2, <4>2
        <4>4. T[j - 1] = U[j]
          BY <1>3, <4>3
        <4> QED BY <4>1, <4>3, <4>4 DEF HasEnd
      <3> QED BY <3>1, <3>2
    <2>2. /\ mid1 \in [0..(n - 1) -> [Streams -> Text]]
          /\ \A i \in 0..(n - 1) : mid1[i] = mid[i + 1] /\ i + 1 \in 0..n
          /\ mid1[0] = mid[1] /\ mid1[n - 1] = to
      BY <1>2, <1>4
    <2> HIDE DEF mid1
    <2>3. ASSUME NEW i \in 1..(n - 1)
          PROVE  mid1[i] = IF HasEnd(T, i - 1) THEN mid1[i - 1] ELSE After(T[i], mid1[i - 1])
      <3>1. i - 1 \in 0..(n - 1) /\ i \in 0..(n - 1) /\ i + 1 \in 1..n /\ (i + 1) - 1 = i /\ (i - 1) + 1 = i
        BY <1>2
      <3>2. mid[i + 1] = IF HasEnd(U, i) THEN mid[i] ELSE After(U[i + 1], mid[i])
        BY <1>4, <3>1
      <3>3. HasEnd(T, i - 1) <=> HasEnd(U, i)
        BY <2>1, <3>1
      <3>4. mid1[i] = mid[i + 1] /\ mid1[i - 1] = mid[i] /\ T[i] = U[i + 1]
        BY <1>3, <2>2, <3>1
      <3> QED BY <3>2, <3>3, <3>4
    <2>4. \A i \in 0..(n - 1), s \in Streams : Begins(mid1[i][s], to[s])
      BY <1>4, <2>2
    <2>5. \A i \in 0..(n - 1) : HasEnd(T, i) => mid1[i] = to
      BY <1>4, <2>1, <2>2
    <2> QED BY <1>3, <2>2, <2>3, <2>4, <2>5 DEF Leads
  <1>8. from \in [Streams -> Text] /\ mid[1] \in [Streams -> Text] /\ \A s \in Streams : Begins(mid[1][s], to[s])
    BY <1>2, <1>4, <1>5
  <1>9. ~IsEnd(U[1]) => Carries(T, mid[1], to)
    BY <1>7 DEF Carries
  <1> QED BY <1>5, <1>6, <1>8, <1>9 DEF T

-----------------------------------------------------------------------------
(***************************************************************************)
(* Text in a pipe.                                                         *)
(***************************************************************************)
PipeUnits == [unit : {"content"}, rec : [type : Streams, text : Seq({"x", "r", "n"})]]

LEMMA PipeUnitFacts ==
    ASSUME NEW u \in PipeUnits
    PROVE  u \in Units /\ u.rec.text \in Text /\ u.rec.type \in Streams /\ u.rec.type # "end" /\ u.unit = "content"
  <1>1. u.rec \in [type : Streams, text : Seq({"x", "r", "n"})] /\ u.unit = "content" /\ DOMAIN u = {"unit", "rec"}
    BY DEF PipeUnits
  <1>2. u.rec.text \in Text /\ u.rec.type \in Streams
    BY <1>1 DEF Text, Chars
  <1>3. u.rec.type # "end" /\ u.rec.type # "read"
    BY <1>2 DEF Streams
  <1>4. u.rec \in Records
    BY <1>1, <1>3 DEF Records, AppSteps
  <1>5. u \in Units
    BY <1>4 DEF PipeUnits, Units
  <1> QED BY <1>1, <1>2, <1>3, <1>5

\* The least of some numbers.
LEMMA LeastOf ==
    ASSUME NEW T, T \subseteq Nat, T # {}
    PROVE  \E m \in T : \A k \in T : m <= k
  <1>1. PICK m \in T : \A k \in T : ~(<<k, m>> \in OpToRel(<, Nat))
    BY WFMin, NatLessThanWellFounded
  <1>2. \A k \in T : ~(k < m)
    BY <1>1 DEF OpToRel
  <1>3. \A k \in T : m <= k
    BY <1>2
  <1> QED BY <1>3

\* Reading all of a pipe gives its units' texts, one after the other.
LEMMA Flattened ==
    ASSUME NEW U \in Seq(PipeUnits), U # <<>>, NEW texts, Joined(U, texts)
    PROVE  Texts(U) = texts[Len(U)]
  <1> DEFINE n == Len(U)
             seqs == [i \in DOMAIN U |-> U[i].rec.text]
  <1>1. n \in Nat /\ n > 0 /\ DOMAIN U = 1..n
    BY LenProperties, EmptySeq
  <1>2. \A i \in 1..n : U[i].rec.text \in Text
    BY <1>1, ElementOfSeq, PipeUnitFacts
  <1>3. seqs \in Seq(Text) /\ Len(seqs) = n /\ \A i \in 1..n : seqs[i] = U[i].rec.text
    BY <1>1, <1>2
  <1>4. /\ texts \in [1..n -> Text]
        /\ \A i \in 1..n : texts[i] = IF i = 1 THEN seqs[i] ELSE texts[i - 1] \o seqs[i]
    BY <1>3 DEF Joined
  <1>5. Texts(U) = FlattenSeq(seqs)
    BY DEF Texts
  <1> HIDE DEF n, seqs
  <1> DEFINE Rec(f) == f = [i \in 1..n |-> IF i = 1 THEN seqs[i] ELSE f[i - 1] \o seqs[i]]
  <1>6. Rec(texts)
    BY <1>4
  <1>7. PICK f : Rec(f) /\ Texts(U) = f[n]
    <2>1. FlattenSeq(seqs) = (CHOOSE f : Rec(f))[n]
      BY <1>1, <1>3 DEF FlattenSeq
    <2>2. Rec(CHOOSE f : Rec(f))
      BY <1>6
    <2> QED BY <1>5, <2>1, <2>2
  <1>8. \A i \in 1..n : f[i] = IF i = 1 THEN seqs[i] ELSE f[i - 1] \o seqs[i]
    BY <1>7
  <1> DEFINE T == {i \in 1..n : f[i] # texts[i]}
  <1>9. T = {}
    <2> SUFFICES ASSUME T # {} PROVE FALSE
      OBVIOUS
    <2>1. T \subseteq Nat
      BY <1>1
    <2> HIDE DEF T
    <2>2. PICK m \in T : \A k \in T : m <= k
      BY <2>1, LeastOf
    <2>3. m \in 1..n /\ f[m] # texts[m]
      BY <2>2 DEF T
    <2>4. CASE m = 1
      BY <1>4, <1>8, <2>3, <2>4
    <2>5. CASE m # 1
      <3>1. m - 1 \in 1..n /\ ~(m <= m - 1)
        BY <1>1, <2>3, <2>5
      <3>2. f[m - 1] = texts[m - 1]
        BY <2>2, <3>1 DEF T
      <3> QED BY <1>4, <1>8, <2>3, <2>5, <3>2
    <2> QED BY <2>4, <2>5
  <1>10. n \in 1..n
    BY <1>1
  <1>11. f[n] = texts[n]
    BY <1>9, <1>10
  <1> QED BY <1>7, <1>11 DEF n

LEMMA HoldsNothing ==
    ASSUME NEW from, NEW to
    PROVE  Holds(<<>>, from, to) <=> from = to
  <1>1. Holds(<<>>, from, to) => from = to
    BY DEF Holds
  <1>2. Joined(<<>>, <<>>)
    BY DEF Joined
  <1>3. Holds(<<>>, from, from)
    BY <1>2 DEF Holds
  <1> QED BY <1>1, <1>3

LEMMA HoldsAll ==
    ASSUME NEW U \in Seq(PipeUnits), U # <<>>, NEW from, NEW to, Holds(U, from, to)
    PROVE  Texts(U) \in Text /\ to = from \o Texts(U)
  <1>1. PICK texts : Joined(U, texts) /\ to = from \o texts[Len(U)]
    BY DEF Holds
  <1>2. Texts(U) = texts[Len(U)]
    BY <1>1, Flattened
  <1>3. Len(U) \in 1..Len(U)
    BY LenProperties, EmptySeq
  <1> QED BY <1>1, <1>2, <1>3 DEF Joined

LEMMA HoldsMore ==
    ASSUME NEW U \in Seq(PipeUnits), NEW u \in PipeUnits, NEW from \in Text, NEW to \in Text, Holds(U, from, to)
    PROVE  Holds(Append(U, u), from, to \o u.rec.text)
  <1>0. ASSUME NEW a \in Text, NEW b \in Text
        PROVE  a \o b \in Text /\ (from \o a) \o b = from \o (a \o b)
    BY TextFacts, TextAssoc
  <1>1. PICK texts : Joined(U, texts) /\ to = IF U = <<>> THEN from ELSE from \o texts[Len(U)]
    BY DEF Holds
  <1> DEFINE n == Len(U)
             V == Append(U, u)
             t == u.rec.text
             last == IF U = <<>> THEN t ELSE texts[n] \o t
             texts1 == [i \in 1..(n + 1) |-> IF i <= n THEN texts[i] ELSE last]
  <1>2. n \in Nat /\ (U = <<>> <=> n = 0)
    BY LenProperties, EmptySeq
  <1>3. Len(V) = n + 1 /\ (\A i \in 1..n : V[i] = U[i]) /\ V[n + 1] = u /\ V # <<>>
    BY AppendProperties
  <1>4. t \in Text
    BY PipeUnitFacts
  <1>5. /\ texts \in [1..n -> Text]
        /\ \A i \in 1..n : texts[i] = IF i = 1 THEN U[i].rec.text ELSE texts[i - 1] \o U[i].rec.text
    BY <1>1 DEF Joined
  <1>6. n # 0 => texts[n] \in Text
    BY <1>2, <1>5
  <1>7. last \in Text /\ to \o t = from \o last
    <2>1. CASE U = <<>>
      BY <1>1, <1>4, <2>1
    <2>2. CASE U # <<>>
      <3>1. texts[n] \in Text /\ to = from \o texts[n]
        BY <1>1, <1>2, <1>6, <2>2
      <3> HIDE DEF t, n
      <3>2. \A a \in Text : a \o t \in Text /\ (from \o a) \o t = from \o (a \o t)
        BY <1>0, <1>4
      <3>3. (from \o texts[n]) \o t = from \o (texts[n] \o t) /\ texts[n] \o t \in Text
        BY <3>1, <3>2, Zenon
      <3> QED BY <2>2, <3>1, <3>3
    <2> QED BY <2>1, <2>2
  <1> HIDE DEF n, V, last, t
  <1>8. texts1 \in [1..(n + 1) -> Text] /\ texts1[n + 1] = last /\ \A i \in 1..n : texts1[i] = texts[i]
    BY <1>2, <1>5, <1>7
  <1> HIDE DEF texts1
  <1>9. ASSUME NEW i \in 1..(n + 1)
        PROVE  texts1[i] = IF i = 1 THEN V[i].rec.text ELSE texts1[i - 1] \o V[i].rec.text
    <2>1. CASE i \in 1..n
      <3>1. i # 1 => i - 1 \in 1..n
        BY <1>2, <2>1
      <3> QED BY <1>3, <1>5, <1>8, <2>1, <3>1
    <2>2. CASE i = n + 1
      <3>1. CASE n = 0
        BY <1>2, <1>3, <1>8, <2>2, <3>1 DEF last, t
      <3>2. CASE n # 0
        <4>1. i # 1 /\ i - 1 = n /\ n \in 1..n
          BY <1>2, <2>2, <3>2
        <4> QED BY <1>2, <1>3, <1>8, <2>2, <3>2, <4>1 DEF last, t
      <3> QED BY <3>1, <3>2
    <2> QED BY <1>2, <2>1, <2>2
  <1>10. Joined(V, texts1)
    BY <1>3, <1>8, <1>9 DEF Joined
  <1>11. Holds(V, from, to \o t)
    BY <1>3, <1>7, <1>8, <1>10 DEF Holds
  <1> QED BY <1>11 DEF V, t

-----------------------------------------------------------------------------
(***************************************************************************)
(* Records and units.                                                      *)
(***************************************************************************)
\* Headers and contents take turns, from the state st of the decoder, which has
\* read the header of rec, to the application, which writes the records ss and
\* has written the header of the first one if open.
Framed(U, st, rec, open, ss) ==
    /\ \A i \in 1..(Len(U) - 1) :
          /\ U[i].unit = "header" => U[i + 1].unit = "content" /\ U[i + 1].rec = U[i].rec
          /\ U[i].unit = "content" => U[i + 1].unit = "header"
    /\ U # <<>> => /\ U[1].unit = IF st = "content" THEN "content" ELSE "header"
                   /\ st = "content" => U[1].rec = rec
    /\ open <=> IF U = <<>> THEN st = "content" ELSE U[Len(U)].unit = "header"
    /\ open => Head(ss) = IF U = <<>> THEN rec ELSE U[Len(U)].rec

LEMMA FramedHeader ==
    ASSUME NEW U \in Seq(Units), NEW x \in Records, NEW st \in {"head", "content"}, NEW rec, NEW ss,
           Head(ss) = x, Framed(U, st, rec, FALSE, ss)
    PROVE  Framed(Append(U, Unit("header", x)), st, rec, TRUE, ss)
  <1> DEFINE n == Len(U)
             u == Unit("header", x)
             V == Append(U, u)
  <1>1. u \in Units /\ u.unit = "header" /\ u.rec = x
    BY DEF Unit, Units
  <1> HIDE DEF u
  <1>2. n \in Nat /\ (U = <<>> <=> n = 0)
    BY LenProperties, EmptySeq
  <1>3. Len(V) = n + 1 /\ V # <<>> /\ (\A i \in 1..n : V[i] = U[i]) /\ V[n + 1] = u
    BY <1>1, AppendProperties
  <1>5. (U = <<>> => st # "content") /\ (U # <<>> => U[n].unit # "header")
    BY DEF Framed
  <1> HIDE DEF n, V
  <1>6. ASSUME NEW i \in 1..(Len(V) - 1)
        PROVE  /\ V[i].unit = "header" => V[i + 1].unit = "content" /\ V[i + 1].rec = V[i].rec
               /\ V[i].unit = "content" => V[i + 1].unit = "header"
    <2>1. CASE i = n
      BY <1>1, <1>2, <1>3, <1>5, <2>1
    <2>2. CASE i # n
      <3>1. i \in 1..(n - 1) /\ i \in 1..n /\ i + 1 \in 1..n
        BY <1>2, <1>3, <2>2
      <3> QED BY <1>3, <3>1 DEF Framed, n
    <2> QED BY <2>1, <2>2
  <1>7. /\ V[1].unit = IF st = "content" THEN "content" ELSE "header"
        /\ st = "content" => V[1].rec = rec
    <2>1. CASE n = 0
      BY <1>1, <1>2, <1>3, <1>5, <2>1
    <2>2. CASE n # 0
      <3>1. V[1] = U[1]
        BY <1>2, <1>3, <2>2
      <3> QED BY <1>2, <2>2, <3>1 DEF Framed
    <2> QED BY <2>1, <2>2
  <1>8. Framed(V, st, rec, TRUE, ss)
    BY <1>1, <1>3, <1>6, <1>7 DEF Framed
  <1> QED BY <1>8 DEF V, u

LEMMA FramedContent ==
    ASSUME NEW U \in Seq(Units), NEW x \in Records, NEW st \in {"head", "content"}, NEW rec, NEW ss, NEW tt,
           Head(ss) = x, Framed(U, st, rec, TRUE, ss)
    PROVE  Framed(Append(U, Unit("content", x)), st, rec, FALSE, tt)
  <1> DEFINE n == Len(U)
             u == Unit("content", x)
             V == Append(U, u)
  <1>1. u \in Units /\ u.unit = "content" /\ u.rec = x
    BY DEF Unit, Units
  <1> HIDE DEF u
  <1>2. n \in Nat /\ (U = <<>> <=> n = 0)
    BY LenProperties, EmptySeq
  <1>3. Len(V) = n + 1 /\ V # <<>> /\ (\A i \in 1..n : V[i] = U[i]) /\ V[n + 1] = u
    BY <1>1, AppendProperties
  <1>4. /\ U = <<>> => st = "content" /\ x = rec
        /\ U # <<>> => U[n].unit = "header" /\ x = U[n].rec
    BY DEF Framed
  <1> HIDE DEF n, V
  <1>5. ASSUME NEW i \in 1..(Len(V) - 1)
        PROVE  /\ V[i].unit = "header" => V[i + 1].unit = "content" /\ V[i + 1].rec = V[i].rec
               /\ V[i].unit = "content" => V[i + 1].unit = "header"
    <2>1. CASE i = n
      BY <1>1, <1>2, <1>3, <1>4, <2>1
    <2>2. CASE i # n
      <3>1. i \in 1..(n - 1) /\ i \in 1..n /\ i + 1 \in 1..n
        BY <1>2, <1>3, <2>2
      <3> QED BY <1>3, <3>1 DEF Framed, n
    <2> QED BY <2>1, <2>2
  <1>6. /\ V[1].unit = IF st = "content" THEN "content" ELSE "header"
        /\ st = "content" => V[1].rec = rec
    <2>1. CASE n = 0
      BY <1>1, <1>2, <1>3, <1>4, <2>1
    <2>2. CASE n # 0
      <3>1. V[1] = U[1]
        BY <1>2, <1>3, <2>2
      <3> QED BY <1>2, <2>2, <3>1 DEF Framed
    <2> QED BY <2>1, <2>2
  <1>7. Framed(V, st, rec, FALSE, tt)
    BY <1>1, <1>3, <1>5, <1>6 DEF Framed
  <1> QED BY <1>7 DEF V, u

LEMMA FramedTake ==
    ASSUME NEW U \in Seq(Units), U # <<>>, NEW st \in {"head", "content"}, NEW rec, NEW open, NEW ss,
           Framed(U, st, rec, open, ss)
    PROVE  /\ st = "head" => U[1].unit = "header" /\ Framed(Tail(U), "content", U[1].rec, open, ss)
           /\ st = "content" => /\ U[1].unit = "content" /\ U[1].rec = rec
                                /\ Framed(Tail(U), "head", None, open, ss)
  <1> DEFINE n == Len(U)
             V == Tail(U)
             st1 == IF st = "head" THEN "content" ELSE "head"
             rec1 == IF st = "head" THEN U[1].rec ELSE None
  <1>1. n \in Nat /\ n > 0
    BY LenProperties, EmptySeq
  <1>2. V \in Seq(Units) /\ Len(V) = n - 1 /\ (\A i \in 1..(n - 1) : V[i] = U[i + 1])
    BY HeadTailProperties
  <1>3. V = <<>> <=> n = 1
    <2>1. \A W \in Seq(Units) : W = <<>> <=> Len(W) = 0
      BY EmptySeq
    <2> HIDE DEF V, n
    <2> QED BY <1>1, <1>2, <2>1
  <1>4. U[1].unit = (IF st = "content" THEN "content" ELSE "header") /\ (st = "content" => U[1].rec = rec)
    BY DEF Framed
  <1>5. /\ open <=> U[n].unit = "header"
        /\ open => Head(ss) = U[n].rec
    BY DEF Framed
  <1>6. \A i \in 1..(n - 1) :
          /\ U[i].unit = "header" => U[i + 1].unit = "content" /\ U[i + 1].rec = U[i].rec
          /\ U[i].unit = "content" => U[i + 1].unit = "header"
    BY DEF Framed
  <1> HIDE DEF n, V
  <1>7. ASSUME NEW i \in 1..(Len(V) - 1)
        PROVE  /\ V[i].unit = "header" => V[i + 1].unit = "content" /\ V[i + 1].rec = V[i].rec
               /\ V[i].unit = "content" => V[i + 1].unit = "header"
    <2>1. i \in 1..(n - 1) /\ i + 1 \in 1..(n - 1)
      BY <1>1, <1>2
    <2> QED BY <1>2, <1>6, <2>1
  <1>8. CASE n = 1
    <2>1. V = <<>> /\ (open <=> st1 = "content") /\ (open => Head(ss) = rec1)
      BY <1>3, <1>4, <1>5, <1>8
    <2>2. Framed(V, st1, rec1, open, ss)
      BY <1>7, <2>1 DEF Framed
    <2> QED BY <1>4, <2>2 DEF V
  <1>9. CASE n # 1
    <2>1. 1 \in 1..(n - 1) /\ n - 1 \in 1..(n - 1) /\ (n - 1) + 1 = n /\ V # <<>>
      BY <1>1, <1>3, <1>9
    <2>2. V[1] = U[2] /\ V[n - 1] = U[n]
      BY <1>2, <2>1
    <2>3. V[1].unit = (IF st1 = "content" THEN "content" ELSE "header") /\ (st1 = "content" => V[1].rec = rec1)
      BY <1>4, <1>6, <2>1, <2>2
    <2>4. Framed(V, st1, rec1, open, ss)
      BY <1>2, <1>5, <1>7, <2>1, <2>2, <2>3 DEF Framed
    <2> QED BY <1>4, <2>4 DEF V
  <1> QED BY <1>8, <1>9

-----------------------------------------------------------------------------
(***************************************************************************)
(* The inductive invariant.                                                *)
(***************************************************************************)
\* What the application has still to do is the end of what it does.
StepsInv ==
    /\ app \in Apps /\ app.steps \in Seq(AppSteps)
    /\ steps \in Seq(AppSteps) /\ Len(steps) <= Len(app.steps)
    /\ \A i \in 1..Len(steps) : steps[i] = app.steps[Len(app.steps) - Len(steps) + i]
    /\ kind # "fcgi" => \A i \in 1..Len(app.steps) : app.steps[i].type # "end"

Decodes == {"decode out", "decode err"}

TypeInv ==
    /\ kind \in {"fcgi", "scgi", "cgi"}
    /\ closed \in BOOLEAN /\ half \in BOOLEAN
    /\ written \in [Streams -> Text] /\ read \in [Streams -> Text]
    /\ wire \in [Streams -> Seq(Units)]
    /\ buf \in [Streams -> Text \cup {None}]
    /\ DOMAIN dec = {"buf", "state", "rec", "error"}
    /\ dec.buf \in Seq(Units) /\ dec.state \in {"head", "content", "finished"}
    /\ dec.state = "content" => dec.rec \in Records
    /\ ended \subseteq Streams

\* While the decoder is polled no item waits: SplitStreamByMap polls it only
\* with both of its buffers empty.
AtInv == at \in Decodes => kind = "fcgi" /\ buf = [s \in Streams |-> None]

\* A stream that was seen to end has ended, and was read.
EndedInv == \A s \in ended : (closed \/ Over) /\ read[s] = written[s]

OnWay == dec.buf \o wire["out"]
Item(s) == IF buf[s] = None THEN <<>> ELSE buf[s]
Taken == [s \in Streams |-> read[s] \o Item(s)]

FcgiInv ==
    /\ dec.state = "finished" => Over /\ Taken = written
    /\ dec.state # "finished" =>
          /\ ~dec.error
          /\ Framed(OnWay, dec.state, dec.rec, half, steps)
          /\ half => steps # <<>>
          /\ Carries(OnWay, Taken, written)
          /\ Over <=> HasEnd(OnWay, Len(OnWay))

PipeInv == \A s \in Streams : wire[s] \in Seq(PipeUnits) /\ Holds(wire[s], read[s], written[s])

IInv ==
    /\ StepsInv /\ TypeInv /\ AtInv /\ EndedInv
    /\ kind = "fcgi" => FcgiInv
    /\ kind # "fcgi" => PipeInv

LEMMA IInvInit == Init => IInv
  <1> SUFFICES ASSUME Init PROVE IInv
    OBVIOUS
  <1>1. IsApp(app) /\ app \in Apps /\ kind \in {"fcgi", "scgi", "cgi"}
    BY GatewayAssumption DEF Init
  <1>2. app.steps \in Seq(AppSteps) /\ Len(app.steps) \in Nat
    BY <1>1, LenProperties DEF IsApp
  <1>3. StepsInv
    <2>1. steps = app.steps /\ Len(app.steps) - Len(steps) = 0
      BY <1>2 DEF Init
    <2>2. DOMAIN app.steps = 1..Len(app.steps)
      BY <1>2, LenProperties
    <2> QED BY <1>1, <1>2, <2>1, <2>2 DEF StepsInv, Init
  <1>4. <<>> \in Text /\ <<>> \in Seq(Units) /\ <<>> \in Seq(PipeUnits)
    BY EmptySeq DEF Text
  <1>5. TypeInv
    BY <1>1, <1>4 DEF TypeInv, Init
  <1>6. AtInv
    BY GatewayAssumption DEF AtInv, Init, Decodes
  <1>7. EndedInv
    BY DEF EndedInv, Init
  <1>8. ~Over
    BY <1>2 DEF Over, Init
  <1>9. ASSUME kind = "fcgi" PROVE FcgiInv
    <2>1. OnWay = <<>> /\ dec.state = "head" /\ ~dec.error /\ half = FALSE
      BY <1>4 DEF Init, OnWay, Streams
    <2>2. Taken = written /\ Taken \in [Streams -> Text]
      BY <1>4, TextFacts DEF Taken, Item, Init
    <2>3. Framed(OnWay, dec.state, dec.rec, half, steps)
      BY <2>1 DEF Framed
    <2>4. Carries(OnWay, Taken, written)
      BY <2>1, <2>2, CarriesNone
    <2>5. ~HasEnd(OnWay, Len(OnWay))
      BY <2>1 DEF HasEnd
    <2> QED BY <1>8, <2>1, <2>3, <2>4, <2>5 DEF FcgiInv
  <1>10. PipeInv
    BY <1>4, HoldsNothing DEF PipeInv, Init
  <1> QED BY <1>3, <1>5, <1>6, <1>7, <1>9, <1>10 DEF IInv

-----------------------------------------------------------------------------
(***************************************************************************)
(* What the parts of steps do to the streams.                              *)
(***************************************************************************)
LEMMA NotDecoding == None \notin Decodes /\ {"out", "err"} \cap Decodes = {}
  BY GatewayAssumption DEF Decodes

LEMMA ReadyEffect ==
    ASSUME NEW s \in Streams, NEW text, Ready(s, text)
    PROVE  /\ read' = [read EXCEPT ![s] = @ \o text]
           /\ UNCHANGED ended
           /\ at' \notin Decodes
  <1>1. read' = [read EXCEPT ![s] = @ \o text] /\ UNCHANGED ended
    BY DEF Ready
  <1>2. at' \in {"out", "err", None}
    BY DEF Ready, Streams, Fails, Sleep, BodyEnds, HeadGets, Respond, BodyGets, FcgiRespond, ScgiRespond,
           CgiRespond, BodyBegins
  <1> QED BY <1>1, <1>2, NotDecoding

LEMMA FinishedEffect ==
    ASSUME NEW s \in Streams, NEW w, Finished(s, w)
    PROVE  /\ ended' = ended \cup {s}
           /\ UNCHANGED read
           /\ at' \notin Decodes
  <1>1. ended' = ended \cup {s} /\ UNCHANGED read
    BY DEF Finished
  <1>2. at' \in {"out", "err", None}
    BY DEF Finished, Sleep, BodyEnds, Respond, Fails, FcgiRespond, ScgiRespond, CgiRespond, BodyBegins
  <1> QED BY <1>1, <1>2, NotDecoding

LEMMA PendingEffect ==
    ASSUME NEW s \in Streams, Pending(s)
    PROVE  UNCHANGED <<read, ended>> /\ at' \notin Decodes
  <1>1. at' \in {"err", None}
    BY DEF Pending, Sleep
  <1> QED BY <1>1, NotDecoding DEF Pending, hist

-----------------------------------------------------------------------------
(***************************************************************************)
(* Steps of TwoStreams.                                                    *)
(***************************************************************************)
Allowed == [Promise!Next]_(Promise!vars)

LEMMA NothingAllowed ==
    ASSUME UNCHANGED <<written, read, ended>>, (closed' \/ Over') <=> (closed \/ Over)
    PROVE  Allowed
  BY DEF Allowed, Promise!vars

LEMMA CloseAllowed ==
    ASSUME UNCHANGED <<written, read, ended>>, closed' \/ Over'
    PROVE  Allowed
  <1>1. CASE closed \/ Over
    BY <1>1, NothingAllowed
  <1>2. CASE ~(closed \/ Over)
    BY <1>2 DEF Allowed, Promise!Next, Promise!Close
  <1> QED BY <1>1, <1>2

LEMMA ReadAllowed ==
    ASSUME IInv, NEW s \in Streams, NEW text \in Text, Begins(read[s] \o text, written[s]),
           read' = [read EXCEPT ![s] = @ \o text], UNCHANGED <<written, ended, closed, app, steps>>
    PROVE  Allowed
  <1>1. read \in [Streams -> Text] /\ written \in [Streams -> Text]
    BY DEF IInv, TypeInv
  <1>2. (closed' \/ Over') <=> (closed \/ Over)
    BY DEF Over
  <1>3. CASE text = <<>>
    <2>1. read' = read
      <3>1. read[s] \o text = read[s]
        BY <1>1, <1>3, TextFacts
      <3> QED BY <1>1, <3>1
    <2> QED BY <1>2, <2>1, NothingAllowed
  <1>4. CASE text # <<>>
    <2>1. s \notin ended
      <3> SUFFICES ASSUME s \in ended PROVE FALSE
        OBVIOUS
      <3>1. read[s] = written[s]
        BY DEF IInv, EndedInv
      <3> QED BY <1>1, <1>4, <3>1, BeginsFacts
    <2>2. read[s] \in Text /\ written[s] \in Text /\ read[s] \o text \in Text
      BY <1>1, TextFacts
    <2>3. IsStrictPrefix(read[s], read[s] \o text)
      BY <1>4, <2>2, BeginsFacts
    <2>4. IsPrefix(read[s] \o text, written[s])
      BY <2>2, BeginsFacts
    <2>5. read'[s] = read[s] \o text /\ read' = [read EXCEPT ![s] = read'[s]]
      BY <1>1
    <2>6. UNCHANGED <<written, ended>> /\ (closed \/ Over)' = (closed \/ Over)
      BY <1>2
    <2>7. Promise!Read(s)
      BY <2>1, <2>3, <2>4, <2>5, <2>6
         DEF Promise!Read, Promise!IsStrictPrefix, Promise!IsPrefix, IsStrictPrefix, IsPrefix
    <2> QED BY <2>7 DEF Allowed, Promise!Next
  <1> QED BY <1>3, <1>4

LEMMA EndAllowed ==
    ASSUME NEW s \in Streams, closed \/ Over, read[s] = written[s], ended' = ended \cup {s},
           UNCHANGED <<read, written, closed, app, steps>>
    PROVE  Allowed
  <1>1. (closed \/ Over)' = (closed \/ Over)
    BY DEF Over
  <1>2. Promise!End(s)
    BY <1>1 DEF Promise!End
  <1> QED BY <1>2 DEF Allowed, Promise!Next

LEMMA WriteAllowed ==
    ASSUME IInv, NEW s \in Streams, NEW text \in Text, ~closed, ~Over,
           written' = [written EXCEPT ![s] = @ \o text], UNCHANGED <<read, ended, closed>>,
           text = <<>> => (Over' <=> Over)
    PROVE  Allowed
  <1>1. written \in [Streams -> Text]
    BY DEF IInv, TypeInv
  <1>2. CASE text = <<>>
    <2>1. written' = written
      <3>1. written[s] \o text = written[s]
        BY <1>1, <1>2, TextFacts
      <3> QED BY <1>1, <3>1
    <2> QED BY <1>2, <2>1, NothingAllowed
  <1>3. CASE text # <<>>
    <2>1. IsStrictPrefix(written[s], written[s] \o text)
      BY <1>1, <1>3, BeginsFacts
    <2>2. written'[s] = written[s] \o text /\ written' = [written EXCEPT ![s] = written'[s]]
      BY <1>1
    <2>3. (closed \/ Over)' \in BOOLEAN
      OBVIOUS
    <2>4. Promise!Write(s)
      BY <2>1, <2>2, <2>3
         DEF Promise!Write, Promise!IsStrictPrefix, Promise!IsPrefix, IsStrictPrefix, IsPrefix
    <2> QED BY <2>4 DEF Allowed, Promise!Next
  <1> QED BY <1>2, <1>3

-----------------------------------------------------------------------------
(***************************************************************************)
(* The steps.                                                              *)
(***************************************************************************)
\* Steps that move nothing.
LEMMA QuietStep ==
    ASSUME IInv, UNCHANGED <<kind, app, steps, half, closed, wire, dec, buf, read, written, ended>>,
           at' \in Decodes => at' = at \/ (kind = "fcgi" /\ buf = [s \in Streams |-> None])
    PROVE  IInv' /\ Allowed
  <1>1. Over' <=> Over
    BY DEF Over
  <1>2. Allowed
    BY <1>1, NothingAllowed
  <1>3. StepsInv'
    BY DEF IInv, StepsInv
  <1>4. TypeInv'
    BY DEF IInv, TypeInv
  <1>5. AtInv'
    BY DEF IInv, AtInv
  <1>6. EndedInv'
    BY <1>1 DEF IInv, EndedInv
  <1>7. OnWay' = OnWay /\ Taken' = Taken
    BY DEF OnWay, Taken, Item
  <1>8. kind' = "fcgi" => FcgiInv'
    BY <1>1, <1>7 DEF IInv, FcgiInv
  <1>9. kind' # "fcgi" => PipeInv'
    BY DEF IInv, PipeInv
  <1> QED BY <1>2, <1>3, <1>4, <1>5, <1>6, <1>8, <1>9 DEF IInv

LEMMA IdleStep ==
    ASSUME IInv,
           \/ Execute \/ Copy \/ CopyEnds \/ BodyLeftover \/ ClientReads \/ ClientLeaves
           \/ \E t \in Tasks : Poll(t)
           \/ \E s \in Streams : PipePending(s) \/ SplitWait(s) \/ SplitDecode(s) \/ DecodePending(s)
           \/ UNCHANGED vars
    PROVE  IInv' /\ Allowed
  <1>1. CASE Execute \/ Copy \/ CopyEnds \/ ClientReads \/ ClientLeaves \/ UNCHANGED vars
    <2>1. UNCHANGED <<kind, app, steps, half, closed, wire, dec, buf, read, written, ended, at>>
      BY <1>1 DEF Execute, FcgiConnect, ScgiConnect, CgiSpawn, FcgiUnavailable, ScgiUnavailable,
                  CgiSpawnFails, Begin, Refused, Copy, CopyEnds, ClientReads, ClientLeaves, vars, appVars,
                  chan, sched, resp, hist
    <2> QED BY <2>1, QuietStep
  <1>2. CASE BodyLeftover
    <2>1. UNCHANGED <<kind, app, steps, half, closed, wire, dec, buf, read, written, ended>>
      BY <1>2 DEF BodyLeftover, appVars, chan, hist
    <2>2. at' \in {"out", None}
      BY <1>2 DEF BodyLeftover, BodyGets, Sleep
    <2> QED BY <2>1, <2>2, NotDecoding, QuietStep
  <1>3. ASSUME NEW t \in Tasks, Poll(t) PROVE IInv' /\ Allowed
    <2>1. UNCHANGED <<kind, app, steps, half, closed, wire, dec, buf, read, written, ended>>
      BY <1>3 DEF Poll, appVars, chan, hist
    <2>2. at' \in {"out", "err"} \/ at' = at
      BY <1>3 DEF Poll
    <2> QED BY <2>1, <2>2, NotDecoding, QuietStep
  <1>4. ASSUME NEW s \in Streams, PipePending(s) \/ SplitWait(s) \/ DecodePending(s) PROVE IInv' /\ Allowed
    <2>1. UNCHANGED <<kind, app, steps, half, closed, wire, dec, buf, written>> /\ Pending(s)
      BY <1>4 DEF PipePending, SplitWait, DecodePending, appVars
    <2> QED BY <2>1, PendingEffect, QuietStep
  <1>5. ASSUME NEW s \in Streams, SplitDecode(s) PROVE IInv' /\ Allowed
    <2>1. UNCHANGED <<kind, app, steps, half, closed, wire, dec, buf, read, written, ended>>
      BY <1>5 DEF SplitDecode, appVars, hist
    <2>2. kind = "fcgi" /\ buf = [q \in Streams |-> None]
      BY <1>5 DEF SplitDecode
    <2> QED BY <2>1, <2>2, QuietStep
  <1> QED BY <1>1, <1>2, <1>3, <1>4, <1>5

\* The application goes on to its next step.
LEMMA NextStepOf ==
    ASSUME StepsInv, steps # <<>>, steps' = Tail(steps), UNCHANGED <<kind, app>>
    PROVE  StepsInv' /\ (Over' <=> Over \/ Head(steps).type = "end")
  <1> DEFINE n == Len(app.steps)
             k == Len(steps)
  <1>1. n \in Nat /\ k \in Nat /\ k > 0 /\ k <= n
    BY LenProperties, EmptySeq DEF StepsInv
  <1>2. Tail(steps) \in Seq(AppSteps) /\ Len(Tail(steps)) = k - 1 /\ (\A i \in 1..(k - 1) : Tail(steps)[i] = steps[i + 1])
    BY HeadTailProperties DEF StepsInv
  <1>3. \A i \in 1..k : steps[i] = app.steps[n - k + i]
    BY DEF StepsInv
  <1>4. Head(steps) = steps[1]
    BY DEF StepsInv
  <1> HIDE DEF n, k
  <1>5. StepsInv'
    <2>1. \A i \in 1..(k - 1) : steps'[i] = app.steps[n - (k - 1) + i]
      <3> TAKE i \in 1..(k - 1)
      <3>1. i + 1 \in 1..k /\ n - k + (i + 1) = n - (k - 1) + i
        BY <1>1
      <3> QED BY <1>2, <1>3, <3>1
    <2>2. k - 1 <= n
      BY <1>1
    <2> QED BY <1>2, <2>1, <2>2 DEF StepsInv, n
  <1>6. Over <=> \E i \in 1..(n - k) : app.steps[i].type = "end"
    BY DEF Over, n, k
  <1>7. Over' <=> \E i \in 1..(n - (k - 1)) : app.steps[i].type = "end"
    BY <1>2 DEF Over, n
  <1>8. Head(steps) = app.steps[n - k + 1]
    <2>1. 1 \in 1..k
      BY <1>1
    <2> QED BY <1>3, <1>4, <2>1
  <1>9. 1..(n - (k - 1)) = 1..(n - k) \cup {n - k + 1}
    BY <1>1
  <1> QED BY <1>5, <1>6, <1>7, <1>8, <1>9

LEMMA AppReadsStep ==
    ASSUME IInv, AppReads
    PROVE  IInv' /\ Allowed
  <1>1. /\ steps # <<>> /\ steps' = Tail(steps) /\ Head(steps).type = "read"
        /\ UNCHANGED <<kind, app, half, closed, wire, dec, buf, read, written, ended, at>>
    BY DEF AppReads, chan, sched, hist
  <1>2. StepsInv' /\ (Over' <=> Over)
    BY <1>1, NextStepOf DEF IInv
  <1>3. Allowed
    BY <1>1, <1>2, NothingAllowed
  <1>4. TypeInv' /\ AtInv'
    BY <1>1 DEF IInv, TypeInv, AtInv
  <1>5. EndedInv'
    BY <1>1, <1>2 DEF IInv, EndedInv
  <1>6. OnWay' = OnWay /\ Taken' = Taken
    BY <1>1 DEF OnWay, Taken, Item
  <1>7. ASSUME kind = "fcgi" PROVE FcgiInv'
    <2>1. CASE dec.state = "finished"
      BY <1>1, <1>2, <1>6, <1>7, <2>1 DEF IInv, FcgiInv
    <2>2. CASE dec.state # "finished"
      <3>1. ~half
        <4> SUFFICES ASSUME half PROVE FALSE
          OBVIOUS
        <4>1. OnWay \in Seq(Units)
          BY ConcatProperties DEF IInv, TypeInv, OnWay, Streams
        <4>2. Head(steps) = IF OnWay = <<>> THEN dec.rec ELSE OnWay[Len(OnWay)].rec
          BY <1>7, <2>2 DEF IInv, FcgiInv, Framed
        <4>3. OnWay = <<>> => dec.rec \in Records
          BY <1>7, <2>2 DEF IInv, FcgiInv, Framed, TypeInv
        <4>4. OnWay # <<>> => OnWay[Len(OnWay)] \in Units
          BY <4>1, ElementOfSeq, EmptySeq
        <4>5. Head(steps) \in Records
          BY <4>2, <4>3, <4>4 DEF Units
        <4> QED BY <1>1, <4>5 DEF Records, AppSteps, Streams
      <3>2. Framed(OnWay, dec.state, dec.rec, half, steps)'
        BY <1>1, <1>6, <1>7, <2>2, <3>1 DEF IInv, FcgiInv, Framed
      <3> QED BY <1>1, <1>2, <1>6, <1>7, <2>2, <3>1, <3>2 DEF IInv, FcgiInv
    <2> QED BY <2>1, <2>2
  <1>8. ASSUME kind # "fcgi" PROVE PipeInv'
    BY <1>1, <1>8 DEF IInv, PipeInv
  <1> QED BY <1>1, <1>2, <1>3, <1>4, <1>5, <1>7, <1>8 DEF IInv

LEMMA AppClosesStep ==
    ASSUME IInv, AppCloses
    PROVE  IInv' /\ Allowed
  <1>1. /\ closed' = TRUE
        /\ UNCHANGED <<kind, app, steps, half, wire, dec, buf, read, written, ended, at>>
    BY DEF AppCloses, hist
  <1>2. Over' <=> Over
    BY <1>1 DEF Over
  <1>3. Allowed
    BY <1>1, CloseAllowed
  <1>4. StepsInv'
    BY <1>1 DEF IInv, StepsInv
  <1>5. TypeInv' /\ AtInv'
    BY <1>1 DEF IInv, TypeInv, AtInv
  <1>6. EndedInv'
    BY <1>1 DEF IInv, EndedInv
  <1>7. OnWay' = OnWay /\ Taken' = Taken
    BY <1>1 DEF OnWay, Taken, Item
  <1>8. kind' = "fcgi" => FcgiInv'
    BY <1>1, <1>2, <1>7 DEF IInv, FcgiInv
  <1>9. kind' # "fcgi" => PipeInv'
    BY <1>1 DEF IInv, PipeInv
  <1> QED BY <1>3, <1>4, <1>5, <1>6, <1>8, <1>9 DEF IInv

\* The next record of the application.
LEMMA RecordToWrite ==
    ASSUME IInv, AppWrites
    PROVE  /\ steps # <<>> /\ Head(steps) \in Records
           /\ kind # "fcgi" => /\ Head(steps) \in [type : Streams, text : Seq({"x", "r", "n"})]
                               /\ ~Over
  <1>1. steps # <<>> /\ Head(steps).type # "read"
    BY DEF AppWrites
  <1>2. Head(steps) \in AppSteps
    BY <1>1, HeadTailProperties DEF IInv, StepsInv
  <1>3. Head(steps) \in Records
    BY <1>1, <1>2 DEF Records
  <1>4. ASSUME kind # "fcgi" PROVE Head(steps).type # "end" /\ ~Over
    <2>1. \A i \in 1..Len(app.steps) : app.steps[i].type # "end"
      BY <1>4 DEF IInv, StepsInv
    <2>2. Len(steps) \in Nat /\ Len(app.steps) \in Nat /\ Len(steps) > 0 /\ Len(steps) <= Len(app.steps)
      BY <1>1, LenProperties, EmptySeq DEF IInv, StepsInv
    <2>3. ~Over
      BY <2>1, <2>2 DEF Over
    <2>4. Len(app.steps) - Len(steps) + 1 \in 1..Len(app.steps) /\ 1 \in 1..Len(steps)
      BY <2>2
    <2>5. Head(steps) = steps[1] /\ steps[1] = app.steps[Len(app.steps) - Len(steps) + 1]
      BY <1>1, <2>4 DEF IInv, StepsInv
    <2> QED BY <2>1, <2>3, <2>4, <2>5
  <1>5. ASSUME kind # "fcgi" PROVE Head(steps) \in [type : Streams, text : Seq({"x", "r", "n"})]
    BY <1>3, <1>4, <1>5 DEF Records, AppSteps
  <1> QED BY <1>1, <1>3, <1>4, <1>5

LEMMA AppendTwo ==
    ASSUME NEW w \in Seq(Units), NEW u \in Units, NEW v \in Units
    PROVE  w \o <<u, v>> = Append(Append(w, u), v)
  <1>1. <<u, v>> \in Seq(Units) /\ Len(<<u, v>>) = 2 /\ <<u, v>>[1] = u /\ <<u, v>>[2] = v
    OBVIOUS
  <1>2. Append(w, u) \in Seq(Units) /\ Len(w) \in Nat
    BY AppendProperties, LenProperties
  <1> DEFINE a == w \o <<u, v>>
             b == Append(Append(w, u), v)
  <1>3. /\ a \in Seq(Units) /\ Len(a) = Len(w) + 2
        /\ \A i \in 1..Len(w) + 2 : a[i] = IF i <= Len(w) THEN w[i] ELSE <<u, v>>[i - Len(w)]
    BY <1>1, ConcatProperties
  <1>4. /\ Len(Append(w, u)) = Len(w) + 1
        /\ \A i \in 1..Len(w) : Append(w, u)[i] = w[i]
        /\ Append(w, u)[Len(w) + 1] = u
    BY AppendProperties
  <1>5. /\ b \in Seq(Units) /\ Len(b) = Len(w) + 2
        /\ \A i \in 1..(Len(w) + 1) : b[i] = Append(w, u)[i]
        /\ b[Len(w) + 2] = v
    BY <1>2, <1>4, AppendProperties
  <1> HIDE DEF a, b
  <1>6. ASSUME NEW i \in 1..(Len(w) + 2) PROVE a[i] = b[i]
    <2>1. CASE i <= Len(w)
      BY <1>2, <1>3, <1>4, <1>5, <2>1
    <2>2. CASE i = Len(w) + 1
      BY <1>1, <1>2, <1>3, <1>4, <1>5, <2>2
    <2>3. CASE i = Len(w) + 2
      BY <1>1, <1>2, <1>3, <1>5, <2>3
    <2> QED BY <1>2, <2>1, <2>2, <2>3
  <1>7. a = b
    BY <1>3, <1>5, <1>6, SeqEqual
  <1> QED BY <1>7 DEF a, b

\* A record is written to its own pipe.
LEMMA PipeWritesStep ==
    ASSUME IInv, AppWrites, kind # "fcgi"
    PROVE  IInv' /\ Allowed
  <1> DEFINE x == Head(steps)
             s == x.type
             u == Unit("content", x)
  <1>1. /\ steps # <<>> /\ x \in Records /\ ~Over
        /\ x \in [type : Streams, text : Seq({"x", "r", "n"})]
    BY RecordToWrite
  <1>2. s \in Streams /\ u \in PipeUnits /\ u.rec = x /\ u \in Units /\ x.text \in Text /\ s # "end"
    <2>1. u \in PipeUnits /\ u.rec = x
      BY <1>1 DEF PipeUnits, Unit
    <2> QED BY <2>1, PipeUnitFacts
  <1>3. /\ UNCHANGED <<kind, app, closed, dec, buf, at, read, ended>> /\ ~closed
        /\ wire' = [wire EXCEPT ![s] = @ \o <<u>>]
        /\ half' = FALSE /\ steps' = Tail(steps)
        /\ written' = IF ~Silent(x) /\ ~Over THEN [written EXCEPT ![StreamOf(x)] = @ \o TextOf(x)] ELSE written
    BY DEF AppWrites, Pipe, Unit, hist
  <1>4. /\ written \in [Streams -> Text] /\ read \in [Streams -> Text]
        /\ wire \in [Streams -> Seq(Units)] /\ \A q \in Streams : wire[q] \in Seq(PipeUnits)
        /\ \A q \in Streams : Holds(wire[q], read[q], written[q])
    BY DEF IInv, TypeInv, PipeInv
  <1> HIDE DEF x, s, u
  <1>5. written' = [written EXCEPT ![s] = @ \o x.text]
    <2>1. StreamOf(x) = s /\ TextOf(x) = x.text
      BY <1>2 DEF StreamOf, TextOf, s
    <2>2. CASE ~Silent(x)
      BY <1>1, <1>3, <2>1, <2>2
    <2>3. CASE Silent(x)
      <3>1. x.text = <<>>
        BY <1>2, <2>3 DEF Silent, s
      <3>2. written[s] \o x.text = written[s]
        BY <1>2, <1>4, <3>1, TextFacts
      <3>3. written' = written
        BY <1>3, <2>3
      <3> QED BY <1>4, <3>2, <3>3
    <2> QED BY <2>2, <2>3
  <1>6. StepsInv' /\ (Over' <=> Over)
    <2>1. StepsInv' /\ (Over' <=> Over \/ x.type = "end")
      BY <1>1, <1>3, NextStepOf DEF IInv, x
    <2> QED BY <1>2, <2>1 DEF s
  <1>7. Allowed
    BY <1>1, <1>2, <1>3, <1>5, <1>6, WriteAllowed
  <1>8. wire' = [wire EXCEPT ![s] = Append(wire[s], u)] /\ Append(wire[s], u) \in Seq(Units) /\ Append(wire[s], u) \in Seq(PipeUnits)
    <2>1. wire[s] \o <<u>> = Append(wire[s], u)
      BY <1>2, <1>4, AppendIsConcat
    <2>2. Append(wire[s], u) \in Seq(Units) /\ Append(wire[s], u) \in Seq(PipeUnits)
      BY <1>2, <1>4, AppendProperties
    <2> QED BY <1>3, <2>1, <2>2
  <1>9. \A q \in Streams : written'[q] \in Text
    <2>1. written[s] \o x.text \in Text
      BY <1>2, <1>4, TextFacts
    <2> QED BY <1>2, <1>4, <1>5, <2>1
  <1>10. TypeInv'
    <2>1. written' \in [Streams -> Text]
      BY <1>4, <1>5, <1>9
    <2>2. wire' \in [Streams -> Seq(Units)]
      BY <1>4, <1>8
    <2> QED BY <1>3, <2>1, <2>2 DEF IInv, TypeInv
  <1>11. AtInv'
    BY <1>3 DEF IInv, AtInv
  <1>12. EndedInv'
    BY <1>1, <1>3 DEF IInv, EndedInv
  <1>13. PipeInv'
    <2>1. ASSUME NEW q \in Streams PROVE wire'[q] \in Seq(PipeUnits) /\ Holds(wire'[q], read[q], written'[q])
      <3>1. CASE q = s
        <4>1. wire'[q] = Append(wire[s], u) /\ written'[q] = written[s] \o x.text
          BY <1>2, <1>4, <1>5, <1>8, <3>1
        <4>2. Holds(Append(wire[s], u), read[s], written[s] \o u.rec.text)
          BY <1>2, <1>4, HoldsMore
        <4> QED BY <1>2, <1>8, <3>1, <4>1, <4>2
      <3>2. CASE q # s
        BY <1>2, <1>4, <1>5, <1>8, <3>2
      <3> QED BY <3>1, <3>2
    <2> QED BY <1>3, <2>1 DEF PipeInv
  <1> QED BY <1>3, <1>6, <1>7, <1>10, <1>11, <1>12, <1>13 DEF IInv

LEMMA HasEndAppend ==
    ASSUME NEW U \in Seq(Units), NEW u \in Units
    PROVE  HasEnd(Append(U, u), Len(Append(U, u))) <=> HasEnd(U, Len(U)) \/ IsEnd(u)
  <1> DEFINE n == Len(U)
             V == Append(U, u)
  <1>1. n \in Nat /\ Len(V) = n + 1 /\ (\A i \in 1..n : V[i] = U[i]) /\ V[n + 1] = u
    BY LenProperties, AppendProperties
  <1> HIDE DEF n, V
  <1>2. HasEnd(V, n + 1) <=> HasEnd(U, n) \/ IsEnd(u)
    <2>1. 1..(n + 1) = 1..n \cup {n + 1}
      BY <1>1
    <2> QED BY <1>1, <2>1 DEF HasEnd
  <1> QED BY <1>1, <1>2 DEF n, V

\* What was on its way stays so when more is written.
LEMMA OnWayMore ==
    ASSUME IInv, NEW units \in Seq(Units), wire' = [wire EXCEPT !["out"] = @ \o units], UNCHANGED dec
    PROVE  OnWay \in Seq(Units) /\ OnWay' = OnWay \o units /\ wire' \in [Streams -> Seq(Units)]
  <1>1. dec.buf \in Seq(Units) /\ wire \in [Streams -> Seq(Units)] /\ "out" \in Streams
    BY DEF IInv, TypeInv, Streams
  <1> DEFINE w == wire["out"]
             b == dec.buf
  <1>2. w \in Seq(Units) /\ b \in Seq(Units)
    BY <1>1
  <1>3. wire'["out"] = w \o units
    BY <1>1
  <1> HIDE DEF w, b
  <1>4. w \o units \in Seq(Units) /\ b \o w \in Seq(Units)
    BY <1>2, ConcatProperties
  <1>5. (b \o w) \o units = b \o (w \o units)
    BY <1>2, ConcatAssociative
  <1>6. wire' \in [Streams -> Seq(Units)]
    BY <1>1, <1>4 DEF w
  <1>7. OnWay = b \o w /\ OnWay' = b \o (w \o units)
    BY <1>3 DEF OnWay, w, b
  <1> QED BY <1>4, <1>5, <1>6, <1>7

\* The header of a record, the content or, if that is empty, both are written
\* to the socket.
LEMMA FcgiWritesStep ==
    ASSUME IInv, AppWrites, kind = "fcgi"
    PROVE  IInv' /\ Allowed
  <1> DEFINE x == Head(steps)
             h == Unit("header", x)
             c == Unit("content", x)
             U == OnWay
             new == IF Over THEN written ELSE After(c, written)
             empty == x.type # "end" /\ x.text = <<>>
  <1>1. steps # <<>> /\ x \in Records
    BY RecordToWrite
  <1>2. /\ h \in Units /\ h.unit = "header" /\ h.rec = x
        /\ c \in Units /\ c.unit = "content" /\ c.rec = x
    BY <1>1 DEF Unit, Units
  <1>3. UNCHANGED <<kind, app, closed, dec, buf, at, read, ended>> /\ ~closed
    BY DEF AppWrites, hist
  <1>4. \/ /\ half /\ half' = FALSE /\ steps' = Tail(steps) /\ written' = new
           /\ wire' = [wire EXCEPT !["out"] = @ \o <<c>>]
        \/ /\ ~half /\ empty /\ half' = FALSE /\ steps' = Tail(steps) /\ written' = new
           /\ wire' = [wire EXCEPT !["out"] = @ \o <<h, c>>]
        \/ /\ ~half /\ half' = TRUE /\ steps' = steps /\ written' = written
           /\ wire' = [wire EXCEPT !["out"] = @ \o <<h>>]
    <2>1. /\ <<c>>[Len(<<c>>)].unit = "content" /\ <<h>>[Len(<<h>>)].unit # "content"
          /\ <<h, c>>[Len(<<h, c>>)].unit = "content"
      BY <1>2
    <2>2. (IF ~Silent(x) /\ ~Over THEN [written EXCEPT ![StreamOf(x)] = @ \o TextOf(x)] ELSE written) = new
      BY <1>2 DEF After
    <2> HIDE DEF h, c, x, new
    <2>3. CASE half
      <3>1. /\ half' = FALSE /\ steps' = Tail(steps) /\ wire' = [wire EXCEPT !["out"] = @ \o <<c>>]
            /\ written' = IF ~Silent(x) /\ ~Over THEN [written EXCEPT ![StreamOf(x)] = @ \o TextOf(x)] ELSE written
        BY <2>1, <2>3 DEF AppWrites, Pipe, x, c
      <3> QED BY <2>2, <2>3, <3>1
    <2>4. CASE ~half /\ empty
      <3>1. /\ half' = FALSE /\ steps' = Tail(steps) /\ wire' = [wire EXCEPT !["out"] = @ \o <<h, c>>]
            /\ written' = IF ~Silent(x) /\ ~Over THEN [written EXCEPT ![StreamOf(x)] = @ \o TextOf(x)] ELSE written
        BY <2>1, <2>4 DEF AppWrites, Pipe, x, h, c
      <3> QED BY <2>2, <2>4, <3>1
    <2>5. CASE ~half /\ ~empty
      BY <2>1, <2>5 DEF AppWrites, Pipe, x, h
    <2> QED BY <2>3, <2>4, <2>5
  <1>5. /\ written \in [Streams -> Text] /\ read \in [Streams -> Text]
        /\ half \in BOOLEAN /\ dec.state \in {"head", "content", "finished"}
    BY DEF IInv, TypeInv
  <1>6. U \in Seq(Units)
    BY ConcatProperties DEF IInv, TypeInv, OnWay, Streams
  <1>7. new \in [Streams -> Text]
    BY <1>2, <1>5, AfterFacts
  <1>8. Taken' = Taken
    BY <1>3 DEF Taken, Item
  <1>9. StreamOf(x) \in Streams /\ TextOf(x) \in Text
    BY <1>1, RecordFacts
  <1>10. IsEnd(c) <=> x.type = "end"
    BY <1>2 DEF IsEnd
  <1>11. ~IsEnd(h) /\ After(h, written) = written
    BY <1>2 DEF IsEnd, After
  <1>12. new = IF Over \/ Silent(x) THEN written ELSE [written EXCEPT ![StreamOf(x)] = @ \o TextOf(x)]
    BY <1>2 DEF After
  <1>13. x.type = "end" => TextOf(x) # <<>>
    BY DEF TextOf
  <1>14. steps' = Tail(steps) => StepsInv' /\ (Over' <=> Over \/ x.type = "end")
    BY <1>1, <1>3, NextStepOf DEF IInv
  <1> HIDE DEF x, h, c, U, new
  <1>15. steps' = steps => StepsInv' /\ (Over' <=> Over)
    BY <1>3 DEF IInv, StepsInv, Over
  <1>16. StepsInv'
    BY <1>4, <1>14, <1>15
  <1>17. Allowed
    <2>1. CASE written' = written
      <3>1. Over' <=> Over \/ Over'
        BY <1>4, <1>14, <1>15
      <3>2. CASE Over'
        BY <1>3, <2>1, <3>2, CloseAllowed
      <3>3. CASE ~Over'
        BY <1>3, <2>1, <3>1, <3>3, NothingAllowed
      <3> QED BY <3>2, <3>3
    <2>2. CASE written' # written
      <3>1. steps' = Tail(steps) /\ ~Over /\ written' = [written EXCEPT ![StreamOf(x)] = @ \o TextOf(x)]
        BY <1>4, <1>12, <2>2
      <3>2. TextOf(x) = <<>> => (Over' <=> Over)
        BY <1>13, <1>14, <3>1
      <3> QED BY <1>3, <1>9, <3>1, <3>2, WriteAllowed
    <2> QED BY <2>1, <2>2
  <1>18. /\ <<c>> \in Seq(Units) /\ <<h>> \in Seq(Units) /\ <<h, c>> \in Seq(Units)
         /\ U \o <<c>> = Append(U, c) /\ U \o <<h>> = Append(U, h) /\ U \o <<h, c>> = Append(Append(U, h), c)
    <2>1. <<c>> \in Seq(Units) /\ <<h>> \in Seq(Units) /\ <<h, c>> \in Seq(Units)
      BY <1>2
    <2>2. U \o <<c>> = Append(U, c) /\ U \o <<h>> = Append(U, h)
      BY <1>2, <1>6, AppendIsConcat
    <2> QED BY <1>2, <1>6, <2>1, <2>2, AppendTwo
  <1>19. /\ wire' \in [Streams -> Seq(Units)]
         /\ \/ half /\ half' = FALSE /\ steps' = Tail(steps) /\ written' = new /\ OnWay' = Append(U, c)
            \/ ~half /\ half' = FALSE /\ steps' = Tail(steps) /\ written' = new /\ OnWay' = Append(Append(U, h), c)
            \/ ~half /\ half' = TRUE /\ steps' = steps /\ written' = written /\ OnWay' = Append(U, h)
    <2>1. \A units \in Seq(Units) :
             wire' = [wire EXCEPT !["out"] = @ \o units] => OnWay' = U \o units /\ wire' \in [Streams -> Seq(Units)]
      BY <1>3, OnWayMore DEF U
    <2> QED BY <1>4, <1>18, <2>1
  <1>20. TypeInv'
    BY <1>3, <1>5, <1>7, <1>19 DEF IInv, TypeInv
  <1>21. AtInv'
    BY <1>3 DEF IInv, AtInv
  <1>22. EndedInv'
    <2>1. ASSUME NEW s \in ended PROVE Over /\ read[s] = written[s]
      BY <1>3 DEF IInv, EndedInv
    <2>2. Over => Over' /\ written' = written
      BY <1>14, <1>15, <1>19 DEF new
    <2> QED BY <1>3, <2>1, <2>2 DEF EndedInv
  <1>23. FcgiInv'
    <2>1. CASE dec.state = "finished"
      <3>1. Over /\ Taken = written
        BY <2>1 DEF IInv, FcgiInv
      <3>2. Over' /\ written' = written
        BY <1>14, <1>15, <1>19, <3>1 DEF new
      <3> QED BY <1>3, <1>8, <2>1, <3>1, <3>2 DEF FcgiInv
    <2>2. CASE dec.state # "finished"
      <3>1. /\ ~dec.error
            /\ Framed(U, dec.state, dec.rec, half, steps)
            /\ Carries(U, Taken, written)
            /\ Over <=> HasEnd(U, Len(U))
        BY <2>2 DEF IInv, FcgiInv, U
      <3>2. dec.state \in {"head", "content"} /\ Head(steps) = x
        BY <1>5, <2>2 DEF x
      <3>3. ASSUME NEW V \in Seq(Units), Framed(V, dec.state, dec.rec, TRUE, steps),
                   Carries(V, Taken, written), Over <=> HasEnd(V, Len(V))
            PROVE  /\ Framed(Append(V, c), dec.state, dec.rec, FALSE, Tail(steps))
                   /\ Carries(Append(V, c), Taken, new)
                   /\ HasEnd(Append(V, c), Len(Append(V, c))) <=> Over \/ x.type = "end"
        <4>1. Framed(Append(V, c), dec.state, dec.rec, FALSE, Tail(steps))
          BY <1>1, <3>2, <3>3, FramedContent DEF c
        <4>2. Carries(Append(V, c), Taken, IF HasEnd(V, Len(V)) THEN written ELSE After(c, written))
          BY <1>2, <1>5, <3>3, CarriesMore
        <4>3. (IF HasEnd(V, Len(V)) THEN written ELSE After(c, written)) = new
          BY <3>3 DEF new
        <4>4. HasEnd(Append(V, c), Len(Append(V, c))) <=> Over \/ x.type = "end"
          BY <1>2, <1>10, <3>3, HasEndAppend
        <4> QED BY <4>1, <4>2, <4>3, <4>4
      <3>4. ASSUME ~half
            PROVE  /\ Framed(Append(U, h), dec.state, dec.rec, TRUE, steps)
                   /\ Carries(Append(U, h), Taken, written)
                   /\ HasEnd(Append(U, h), Len(Append(U, h))) <=> Over
                   /\ Append(U, h) \in Seq(Units)
        <4>1. half = FALSE
          BY <1>5, <3>4
        <4>2. Framed(Append(U, h), dec.state, dec.rec, TRUE, steps)
          BY <1>1, <1>6, <3>1, <3>2, <4>1, FramedHeader DEF h
        <4>3. Carries(Append(U, h), Taken, IF HasEnd(U, Len(U)) THEN written ELSE After(h, written))
          BY <1>2, <1>5, <1>6, <3>1, CarriesMore
        <4>4. HasEnd(Append(U, h), Len(Append(U, h))) <=> Over
          BY <1>2, <1>6, <1>11, <3>1, HasEndAppend
        <4>5. Append(U, h) \in Seq(Units)
          BY <1>2, <1>6, AppendProperties
        <4> QED BY <1>11, <4>2, <4>3, <4>4, <4>5
      <3>5. CASE half
        <4>1. half = TRUE /\ half' = FALSE /\ steps' = Tail(steps) /\ written' = new /\ OnWay' = Append(U, c)
          BY <1>5, <1>19, <3>5
        <4>2. Over' <=> Over \/ x.type = "end"
          BY <1>14, <4>1
        <4> QED BY <1>3, <1>6, <1>8, <2>2, <3>1, <3>3, <4>1, <4>2 DEF FcgiInv
      <3>6. CASE ~half /\ half' = FALSE
        <4>1. steps' = Tail(steps) /\ written' = new /\ OnWay' = Append(Append(U, h), c)
          BY <1>19, <3>6
        <4>2. Over' <=> Over \/ x.type = "end"
          BY <1>14, <4>1
        <4> QED BY <1>3, <1>8, <2>2, <3>1, <3>3, <3>4, <3>6, <4>1, <4>2 DEF FcgiInv
      <3>7. CASE ~half /\ half' = TRUE
        <4>1. steps' = steps /\ written' = written /\ OnWay' = Append(U, h)
          BY <1>19, <3>7
        <4>2. Over' <=> Over
          BY <1>15, <4>1
        <4> QED BY <1>1, <1>3, <1>8, <2>2, <3>1, <3>4, <3>7, <4>1, <4>2 DEF FcgiInv
      <3> QED BY <1>19, <3>5, <3>6, <3>7
    <2> QED BY <2>1, <2>2
  <1> QED BY <1>3, <1>16, <1>17, <1>20, <1>21, <1>22, <1>23 DEF IInv

\* A reader gets text that is the next of its stream.
LEMMA ReadKeeps ==
    ASSUME IInv, NEW s \in Streams, NEW text \in Text, Begins(read[s] \o text, written[s]),
           read' = [read EXCEPT ![s] = @ \o text], UNCHANGED <<kind, app, steps, closed, written, ended>>
    PROVE  Allowed /\ StepsInv' /\ EndedInv' /\ read' \in [Streams -> Text]
  <1>1. read \in [Streams -> Text] /\ written \in [Streams -> Text]
    BY DEF IInv, TypeInv
  <1>2. Allowed
    BY ReadAllowed
  <1>3. StepsInv'
    BY DEF IInv, StepsInv
  <1>4. read[s] \o text \in Text
    BY <1>1, TextFacts
  <1>5. ASSUME NEW q \in ended PROVE (closed \/ Over)' /\ read'[q] = written[q]
    <2>1. (closed \/ Over) /\ read[q] = written[q] /\ q \in Streams
      BY DEF IInv, EndedInv, TypeInv
    <2>2. (closed \/ Over)'
      BY <2>1 DEF Over
    <2>3. CASE q = s
      <3>1. text = <<>>
        BY <1>1, <2>1, <2>3, BeginsFacts
      <3>2. read[s] \o text = read[s]
        BY <1>1, <3>1, TextFacts
      <3> QED BY <1>1, <2>1, <2>2, <2>3, <3>2
    <2>4. CASE q # s
      BY <1>1, <2>1, <2>2, <2>4
    <2> QED BY <2>3, <2>4
  <1>6. EndedInv'
    BY <1>5 DEF EndedInv
  <1> QED BY <1>1, <1>2, <1>3, <1>4, <1>6

\* A reader sees the end of a stream that has ended and was read.
LEMMA EndKeeps ==
    ASSUME IInv, NEW s \in Streams, closed \/ Over, read[s] = written[s], ended' = ended \cup {s}, at' \notin Decodes,
           UNCHANGED <<kind, app, steps, half, closed, wire, dec, buf, read, written>>
    PROVE  IInv' /\ Allowed
  <1>1. Allowed
    BY EndAllowed
  <1>2. Over' <=> Over
    BY DEF Over
  <1>3. StepsInv'
    BY DEF IInv, StepsInv
  <1>4. TypeInv' /\ AtInv'
    BY DEF IInv, TypeInv, AtInv
  <1>5. EndedInv'
    BY <1>2 DEF IInv, EndedInv
  <1>6. OnWay' = OnWay /\ Taken' = Taken
    BY DEF OnWay, Taken, Item
  <1>7. kind' = "fcgi" => FcgiInv'
    BY <1>2, <1>6 DEF IInv, FcgiInv
  <1>8. kind' # "fcgi" => PipeInv'
    BY DEF IInv, PipeInv
  <1> QED BY <1>1, <1>3, <1>4, <1>5, <1>7, <1>8 DEF IInv

\* All that is in a pipe is read.
LEMMA PipeReadStep ==
    ASSUME IInv, NEW s \in Streams, PipeRead(s)
    PROVE  IInv' /\ Allowed
  <1> DEFINE text == Texts(wire[s])
  <1>1. /\ kind # "fcgi" /\ wire[s] # <<>> /\ wire' = [wire EXCEPT ![s] = <<>>] /\ Ready(s, text)
        /\ UNCHANGED <<kind, app, steps, half, closed, written, dec, buf>>
    BY DEF PipeRead, appVars
  <1>2. /\ read \in [Streams -> Text] /\ written \in [Streams -> Text] /\ wire \in [Streams -> Seq(Units)]
        /\ \A q \in Streams : wire[q] \in Seq(PipeUnits) /\ Holds(wire[q], read[q], written[q])
    BY <1>1 DEF IInv, TypeInv, PipeInv
  <1>3. text \in Text /\ written[s] = read[s] \o text
    BY <1>1, <1>2, HoldsAll
  <1> HIDE DEF text
  <1>4. read' = [read EXCEPT ![s] = @ \o text] /\ UNCHANGED ended /\ at' \notin Decodes
    BY <1>1, ReadyEffect
  <1>5. Begins(read[s] \o text, written[s])
    BY <1>2, <1>3, BeginsFacts
  <1>6. Allowed /\ StepsInv' /\ EndedInv' /\ read' \in [Streams -> Text]
    BY <1>1, <1>3, <1>4, <1>5, ReadKeeps
  <1>7. TypeInv'
    <2>1. wire' \in [Streams -> Seq(Units)]
      <3>1. <<>> \in Seq(Units)
        BY EmptySeq
      <3> QED BY <1>1, <1>2, <3>1
    <2> QED BY <1>1, <1>4, <1>6, <2>1 DEF IInv, TypeInv
  <1>8. AtInv'
    BY <1>4 DEF AtInv
  <1>9. PipeInv'
    <2>1. ASSUME NEW q \in Streams PROVE wire'[q] \in Seq(PipeUnits) /\ Holds(wire'[q], read'[q], written[q])
      <3>1. CASE q = s
        <4>1. wire'[q] = <<>> /\ read'[q] = written[q]
          BY <1>1, <1>2, <1>3, <1>4, <3>1
        <4>2. <<>> \in Seq(PipeUnits)
          BY EmptySeq
        <4> QED BY <4>1, <4>2, HoldsNothing
      <3>2. CASE q # s
        BY <1>1, <1>2, <1>4, <3>2
      <3> QED BY <3>1, <3>2
    <2> QED BY <1>1, <2>1 DEF PipeInv
  <1> QED BY <1>1, <1>6, <1>7, <1>8, <1>9 DEF IInv

LEMMA PipeEndsStep ==
    ASSUME IInv, NEW s \in Streams, PipeEnds(s)
    PROVE  IInv' /\ Allowed
  <1>1. /\ kind # "fcgi" /\ wire[s] = <<>> /\ closed /\ Finished(s, woken)
        /\ UNCHANGED <<kind, app, steps, half, closed, written, wire, dec, buf>>
    BY DEF PipeEnds, appVars, chan
  <1>2. Holds(<<>>, read[s], written[s])
    BY <1>1 DEF IInv, PipeInv
  <1>3. read[s] = written[s]
    BY <1>2, HoldsNothing
  <1>4. ended' = ended \cup {s} /\ UNCHANGED read /\ at' \notin Decodes
    BY <1>1, FinishedEffect
  <1> QED BY <1>1, <1>3, <1>4, EndKeeps

LEMMA NoneIsNoText == None \notin Text
  BY GatewayAssumption DEF Text, Chars

\* What was taken is the beginning of what was written.
LEMMA TakenBegins ==
    ASSUME IInv, kind = "fcgi", NEW s \in Streams
    PROVE  OnWay \in Seq(Units) /\ Taken \in [Streams -> Text] /\ Begins(Taken[s], written[s])
  <1>1. /\ read \in [Streams -> Text] /\ written \in [Streams -> Text] /\ buf \in [Streams -> Text \cup {None}]
        /\ FcgiInv
    BY DEF IInv, TypeInv
  <1>2. OnWay \in Seq(Units)
    BY ConcatProperties DEF IInv, TypeInv, OnWay, Streams
  <1>3. \A q \in Streams : Item(q) \in Text
    BY <1>1, TextFacts DEF Item
  <1>4. Taken \in [Streams -> Text]
    <2>1. \A q \in Streams : read[q] \o Item(q) \in Text
      BY <1>1, <1>3, TextFacts
    <2> QED BY <2>1 DEF Taken
  <1>5. CASE dec.state = "finished"
    <2>1. Taken = written
      BY <1>1, <1>5 DEF FcgiInv
    <2> QED BY <1>1, <1>2, <1>4, <2>1, BeginsFacts
  <1>6. CASE dec.state # "finished"
    <2>1. Carries(OnWay, Taken, written)
      BY <1>1, <1>6 DEF FcgiInv
    <2> QED BY <1>2, <1>4, <2>1, CarriesBegins
  <1> QED BY <1>5, <1>6

\* The item kept for a stream is read.
LEMMA SplitTakeStep ==
    ASSUME IInv, NEW s \in Streams, SplitTake(s)
    PROVE  IInv' /\ Allowed
  <1> DEFINE text == buf[s]
  <1>1. /\ kind = "fcgi" /\ text # None /\ buf' = [buf EXCEPT ![s] = None] /\ Ready(s, text)
        /\ UNCHANGED <<kind, app, steps, half, closed, written, wire, dec>>
    BY DEF SplitTake, appVars
  <1>2. /\ read \in [Streams -> Text] /\ written \in [Streams -> Text]
        /\ buf \in [Streams -> Text \cup {None}] /\ FcgiInv
    BY <1>1 DEF IInv, TypeInv
  <1>3. text \in Text /\ Taken[s] = read[s] \o text
    BY <1>1, <1>2 DEF Taken, Item
  <1>4. Begins(read[s] \o text, written[s])
    BY <1>1, <1>3, TakenBegins
  <1>5. \A q \in Streams : buf'[q] = IF q = s THEN None ELSE buf[q]
    BY <1>1, <1>2
  <1> HIDE DEF text
  <1>6. read' = [read EXCEPT ![s] = @ \o text] /\ UNCHANGED ended /\ at' \notin Decodes
    BY <1>1, ReadyEffect
  <1>7. Allowed /\ StepsInv' /\ EndedInv' /\ read' \in [Streams -> Text]
    BY <1>1, <1>3, <1>4, <1>6, ReadKeeps
  <1>8. TypeInv'
    <2>1. buf' \in [Streams -> Text \cup {None}]
      BY <1>1, <1>2
    <2> QED BY <1>1, <1>6, <1>7, <2>1 DEF IInv, TypeInv
  <1>9. AtInv'
    BY <1>6 DEF AtInv
  <1>10. Taken' = Taken
    <2>1. ASSUME NEW q \in Streams PROVE read'[q] \o Item(q)' = read[q] \o Item(q)
      <3>1. CASE q = s
        <4>1. read'[q] = read[s] \o text /\ Item(q)' = <<>> /\ Item(q) = text
          BY <1>1, <1>2, <1>5, <1>6, <3>1 DEF Item, text
        <4>2. read[s] \o text \in Text
          BY <1>2, <1>3, TextFacts
        <4>3. (read[s] \o text) \o <<>> = read[s] \o text
          BY <4>2, TextFacts
        <4> QED BY <3>1, <4>1, <4>3
      <3>2. CASE q # s
        <4>1. read'[q] = read[q] /\ Item(q)' = Item(q)
          BY <1>2, <1>5, <1>6, <3>2 DEF Item
        <4> QED BY <4>1
      <3> QED BY <3>1, <3>2
    <2> QED BY <2>1 DEF Taken
  <1>11. OnWay' = OnWay /\ (Over' <=> Over)
    BY <1>1 DEF OnWay, Over
  <1>12. FcgiInv'
    BY <1>1, <1>2, <1>10, <1>11 DEF FcgiInv
  <1> QED BY <1>1, <1>7, <1>8, <1>9, <1>12 DEF IInv

LEMMA TailConcat ==
    ASSUME NEW U \in Seq(Units), NEW V \in Seq(Units), U # <<>>
    PROVE  /\ U \o V \in Seq(Units) /\ U \o V # <<>> /\ (U \o V)[1] = Head(U) /\ Head(U) \in Units
           /\ Tail(U) \in Seq(Units) /\ Tail(U) \o V = Tail(U \o V)
  <1> DEFINE n == Len(U)
             m == Len(V)
             W == U \o V
             T == Tail(U)
             a == T \o V
             b == Tail(W)
  <1>1. n \in Nat /\ n > 0 /\ m \in Nat
    BY LenProperties, EmptySeq
  <1>2. /\ W \in Seq(Units) /\ Len(W) = n + m
        /\ \A i \in 1..(n + m) : W[i] = IF i <= n THEN U[i] ELSE V[i - n]
    BY ConcatProperties
  <1>3. /\ T \in Seq(Units) /\ Len(T) = n - 1 /\ Head(U) \in Units /\ Head(U) = U[1]
        /\ \A i \in 1..(n - 1) : T[i] = U[i + 1]
    BY HeadTailProperties
  <1> HIDE DEF n, m, W, T
  <1>4. W # <<>>
    BY <1>1, <1>2
  <1>5. W[1] = U[1]
    BY <1>1, <1>2
  <1>6. b \in Seq(Units) /\ Len(b) = n + m - 1 /\ \A i \in 1..(n + m - 1) : b[i] = W[i + 1]
    <2>1. b \in Seq(Units) /\ Len(b) = Len(W) - 1 /\ \A i \in 1..(Len(W) - 1) : b[i] = W[i + 1]
      BY <1>2, <1>4, HeadTailProperties
    <2> HIDE DEF b
    <2> QED BY <1>1, <1>2, <2>1
  <1>7. a \in Seq(Units) /\ Len(a) = (n - 1) + m
    BY <1>3, ConcatProperties DEF m
  <1>8. \A i \in 1..((n - 1) + m) : a[i] = IF i <= n - 1 THEN T[i] ELSE V[i - (n - 1)]
    BY <1>3, ConcatProperties DEF m
  <1> HIDE DEF a, b
  <1>9. ASSUME NEW i \in 1..(n + m - 1) PROVE a[i] = b[i]
    <2>1. i + 1 \in 1..(n + m) /\ i \in 1..((n - 1) + m)
      BY <1>1
    <2>2. CASE i <= n - 1
      <3>1. i \in 1..(n - 1) /\ i + 1 <= n
        BY <1>1, <2>2
      <3> QED BY <1>2, <1>3, <1>6, <1>8, <2>1, <2>2, <3>1
    <2>3. CASE ~(i <= n - 1)
      <3>1. ~(i + 1 <= n) /\ (i + 1) - n = i - (n - 1)
        BY <1>1, <2>3
      <3> QED BY <1>2, <1>6, <1>8, <2>1, <2>3, <3>1
    <2> QED BY <2>2, <2>3
  <1>10. a = b
    <2>1. Len(a) = Len(b) /\ Len(a) = n + m - 1
      BY <1>1, <1>6, <1>7
    <2> QED BY <1>6, <1>7, <1>9, <2>1, SeqEqual
  <1> QED BY <1>2, <1>3, <1>4, <1>5, <1>10 DEF W, T, a, b

LEMMA HasEndTail ==
    ASSUME NEW U \in Seq(Units), U # <<>>, ~IsEnd(U[1])
    PROVE  HasEnd(Tail(U), Len(Tail(U))) <=> HasEnd(U, Len(U))
  <1> DEFINE n == Len(U)
             T == Tail(U)
  <1>1. n \in Nat /\ n > 0
    BY LenProperties, EmptySeq
  <1>2. Len(T) = n - 1 /\ \A i \in 1..(n - 1) : T[i] = U[i + 1]
    BY HeadTailProperties
  <1> HIDE DEF n, T
  <1>3. ASSUME HasEnd(T, n - 1) PROVE HasEnd(U, n)
    <2>1. PICK j \in 1..(n - 1) : IsEnd(T[j])
      BY <1>3 DEF HasEnd
    <2>2. j + 1 \in 1..n /\ T[j] = U[j + 1]
      BY <1>1, <1>2
    <2> QED BY <2>1, <2>2 DEF HasEnd
  <1>4. ASSUME HasEnd(U, n) PROVE HasEnd(T, n - 1)
    <2>1. PICK j \in 1..n : IsEnd(U[j])
      BY <1>4 DEF HasEnd
    <2>2. j - 1 \in 1..(n - 1) /\ (j - 1) + 1 = j
      BY <1>1, <2>1
    <2>3. T[j - 1] = U[j]
      BY <1>2, <2>2
    <2> QED BY <2>1, <2>2, <2>3 DEF HasEnd
  <1> QED BY <1>2, <1>3, <1>4 DEF n, T

\* While the decoder is polled all that was taken was read.
LEMMA DecodingFacts ==
    ASSUME IInv, NEW s \in Streams, at = Decoding(s)
    PROVE  /\ kind = "fcgi" /\ FcgiInv /\ TypeInv
           /\ buf = [q \in Streams |-> None] /\ Taken = read
           /\ OnWay \in Seq(Units)
           /\ dec.buf # <<>> => /\ OnWay # <<>> /\ OnWay[1] = Head(dec.buf) /\ OnWay[1] \in Units
                                /\ Tail(dec.buf) \in Seq(Units) /\ Tail(dec.buf) \o wire["out"] = Tail(OnWay)
  <1>1. at \in Decodes
    BY DEF Decoding, Decodes
  <1>2. kind = "fcgi" /\ FcgiInv /\ TypeInv /\ buf = [q \in Streams |-> None]
    BY <1>1 DEF IInv, AtInv
  <1>3. read \in [Streams -> Text] /\ dec.buf \in Seq(Units) /\ wire["out"] \in Seq(Units)
    BY <1>2 DEF TypeInv, Streams
  <1>4. Taken = read
    <2>1. \A q \in Streams : read[q] \o Item(q) = read[q]
      BY <1>2, <1>3, TextFacts DEF Item
    <2> QED BY <1>3, <2>1 DEF Taken
  <1>5. OnWay \in Seq(Units)
    BY <1>3, ConcatProperties DEF OnWay
  <1> QED BY <1>2, <1>3, <1>4, <1>5, TailConcat DEF OnWay

\* The decoder takes the first unit on the way.
LEMMA UnitTaken ==
    ASSUME IInv, NEW s \in Streams, at = Decoding(s), dec.buf # <<>>, dec.state \in {"head", "content"},
           UNCHANGED <<app, steps, half, written, wire>>, dec'.buf = Tail(dec.buf),
           dec'.state = IF dec.state = "head" THEN "content" ELSE IF OnWay[1].rec.type = "end" THEN "finished" ELSE "head",
           dec'.rec = IF dec.state = "head" THEN OnWay[1].rec ELSE None,
           dec'.state # "finished" => ~dec'.error,
           Taken' = After(OnWay[1], Taken)
    PROVE  FcgiInv'
  <1> DEFINE U == OnWay
             T == Tail(OnWay)
  <1>1. /\ FcgiInv /\ TypeInv /\ U \in Seq(Units) /\ U # <<>> /\ U[1] = Head(dec.buf) /\ U[1] \in Units
        /\ Tail(dec.buf) \o wire["out"] = T
    BY DecodingFacts
  <1>2. OnWay' = T
    BY <1>1 DEF OnWay
  <1>3. /\ Framed(U, dec.state, dec.rec, half, steps) /\ (half => steps # <<>>)
        /\ Carries(U, Taken, written) /\ (Over <=> HasEnd(U, Len(U)))
    BY <1>1 DEF FcgiInv
  <1>4. Over' <=> Over
    BY DEF Over
  <1> HIDE DEF U, T
  <1>5. /\ dec.state = "head" => U[1].unit = "header" /\ Framed(T, "content", U[1].rec, half, steps)
        /\ dec.state = "content" => U[1].unit = "content" /\ U[1].rec = dec.rec /\ Framed(T, "head", None, half, steps)
    BY <1>1, <1>3, FramedTake DEF T, U
  <1>6. /\ IsEnd(U[1]) => After(U[1], Taken) = written
        /\ ~IsEnd(U[1]) => Carries(T, After(U[1], Taken), written)
    BY <1>1, <1>3, CarriesNext DEF T, U
  <1>7. ~IsEnd(U[1]) => (HasEnd(T, Len(T)) <=> HasEnd(U, Len(U)))
    BY <1>1, HasEndTail DEF T, U
  <1>8. IsEnd(U[1]) => HasEnd(U, Len(U))
    <2>1. 1 \in 1..Len(U)
      BY <1>1, LenProperties, EmptySeq
    <2> QED BY <2>1 DEF HasEnd
  <1>9. dec'.state = "finished" <=> IsEnd(U[1])
    BY <1>5 DEF IsEnd, U
  <1>10. CASE IsEnd(U[1])
    <2>1. dec'.state = "finished" /\ Over' /\ Taken' = written
      BY <1>3, <1>4, <1>6, <1>8, <1>9, <1>10 DEF U
    <2> QED BY <2>1 DEF FcgiInv
  <1>11. CASE ~IsEnd(U[1])
    <2>1. dec'.state # "finished" /\ ~dec'.error
      BY <1>9, <1>11
    <2>2. Framed(T, dec'.state, dec'.rec, half, steps)
      BY <1>5, <2>1 DEF U
    <2>3. Carries(T, Taken', written)
      BY <1>6, <1>11 DEF U
    <2>4. Over' <=> HasEnd(T, Len(T))
      BY <1>3, <1>4, <1>7, <1>11
    <2> QED BY <1>2, <1>3, <2>1, <2>2, <2>3, <2>4 DEF FcgiInv
  <1> QED BY <1>10, <1>11

\* The decoder takes a unit that adds nothing, or clears what comes after
\* END_REQUEST.
LEMMA DecodeMoreStep ==
    ASSUME IInv, NEW s \in Streams, DecodeMore(s)
    PROVE  IInv' /\ Allowed
  <1> DEFINE u == OnWay[1]
             x == u.rec
  <1>1. /\ at = Decoding(s) /\ dec.buf # <<>> /\ ~dec.error
        /\ UNCHANGED <<kind, app, steps, half, closed, written, wire, buf, at, read, ended>>
    BY DEF DecodeMore, appVars, sched, hist
  <1>2. /\ kind = "fcgi" /\ FcgiInv /\ TypeInv /\ OnWay \in Seq(Units) /\ OnWay # <<>>
        /\ u = Head(dec.buf) /\ u \in Units /\ Tail(dec.buf) \in Seq(Units)
    BY <1>1, DecodingFacts
  <1>3. \/ dec.state = "head" /\ dec' = [dec EXCEPT !.buf = Tail(@), !.state = "content", !.rec = x]
        \/ /\ dec.state = "content" /\ Silent(x)
           /\ dec' = [dec EXCEPT !.buf = Tail(@), !.rec = None,
                                 !.state = IF x.type = "end" THEN "finished" ELSE "head"]
        \/ dec.state = "finished" /\ dec' = [dec EXCEPT !.buf = <<>>]
    BY <1>2 DEF DecodeMore
  <1>4. x \in Records /\ <<>> \in Seq(Units) /\ DOMAIN dec = {"buf", "state", "rec", "error"}
    BY <1>2, EmptySeq DEF Units, TypeInv
  <1>5. dec.state \in {"head", "content"} => Framed(OnWay, dec.state, dec.rec, half, steps)
    BY <1>2 DEF FcgiInv
  <1> HIDE DEF u, x
  <1>6. /\ DOMAIN dec' = {"buf", "state", "rec", "error"}
        /\ dec'.buf \in Seq(Units) /\ dec'.state \in {"head", "content", "finished"}
        /\ dec'.state = "content" => dec'.rec \in Records
    BY <1>2, <1>3, <1>4
  <1>7. TypeInv'
    BY <1>1, <1>2, <1>6 DEF TypeInv
  <1>8. Taken' = Taken /\ (Over' <=> Over)
    BY <1>1 DEF Taken, Item, Over
  <1>9. FcgiInv'
    <2>1. CASE dec.state = "head"
      <3>1. dec'.buf = Tail(dec.buf) /\ dec'.state = "content" /\ dec'.rec = x /\ dec'.error = dec.error
        BY <1>3, <1>4, <2>1
      <3>2. u.unit = "header"
        BY <1>2, <1>5, <2>1, FramedTake DEF u
      <3>3. Taken' = After(u, Taken)
        BY <1>8, <3>2 DEF After
      <3> QED BY <1>1, <2>1, <3>1, <3>3, UnitTaken DEF u, x
    <2>2. CASE dec.state = "content"
      <3>1. /\ Silent(x) /\ dec'.buf = Tail(dec.buf) /\ dec'.rec = None /\ dec'.error = dec.error
            /\ dec'.state = IF x.type = "end" THEN "finished" ELSE "head"
        BY <1>3, <1>4, <2>2
      <3>2. Taken' = After(u, Taken)
        BY <1>8, <3>1 DEF After, x
      <3> QED BY <1>1, <2>2, <3>1, <3>2, UnitTaken DEF u, x
    <2>3. CASE dec.state = "finished"
      <3>1. dec'.state = "finished"
        BY <1>3, <1>4, <2>3
      <3>2. Over /\ Taken = written
        BY <1>2, <2>3 DEF FcgiInv
      <3> QED BY <1>1, <1>8, <3>1, <3>2 DEF FcgiInv
    <2> QED BY <1>3, <2>1, <2>2, <2>3
  <1>10. StepsInv' /\ AtInv'
    BY <1>1 DEF IInv, StepsInv, AtInv
  <1>11. EndedInv'
    BY <1>1, <1>8 DEF IInv, EndedInv
  <1>12. Allowed
    BY <1>1, <1>8, NothingAllowed
  <1> QED BY <1>1, <1>2, <1>7, <1>9, <1>10, <1>11, <1>12 DEF IInv

\* Only the last record is an error.
LEMMA ErrorEnds ==
    ASSUME NEW x \in Records, x.type # "end"
    PROVE  ~IsError(TextOf(x))
  <1>1. x.text \in Seq({"x", "r", "n"}) /\ TextOf(x) = x.text
    BY DEF Records, AppSteps, TextOf
  <1>2. ASSUME NEW c \in {"refused", "cut"} PROVE <<c>> \notin Seq({"x", "r", "n"})
    <2> SUFFICES ASSUME <<c>> \in Seq({"x", "r", "n"}) PROVE FALSE
      OBVIOUS
    <2>1. <<c>>[1] \in {"x", "r", "n"}
      BY ElementOfSeq
    <2> QED BY <2>1
  <1> QED BY <1>1, <1>2 DEF IsError

\* The decoder takes a record's content, for this reader or for the other.
LEMMA DecodeItemStep ==
    ASSUME IInv, NEW s \in Streams, DecodeItem(s)
    PROVE  IInv' /\ Allowed
  <1> DEFINE u == OnWay[1]
             x == dec.rec
             text == TextOf(x)
             o == StreamOf(x)
  <1>1. /\ at = Decoding(s) /\ dec.buf # <<>> /\ dec.state = "content" /\ ~Silent(x)
        /\ UNCHANGED <<kind, app, steps, half, closed, written, wire>>
        /\ dec' = [dec EXCEPT !.buf = Tail(@), !.rec = None, !.error = IsError(text),
                              !.state = IF x.type = "end" THEN "finished" ELSE "head"]
        /\ \/ o = s /\ Ready(s, text) /\ UNCHANGED buf
           \/ o # s /\ buf' = [buf EXCEPT ![Other(s)] = text] /\ Pending(s)
    BY DEF DecodeItem, appVars
  <1>2. /\ kind = "fcgi" /\ FcgiInv /\ TypeInv /\ OnWay \in Seq(Units) /\ OnWay # <<>>
        /\ buf = [q \in Streams |-> None] /\ Taken = read /\ Tail(dec.buf) \in Seq(Units)
    BY <1>1, DecodingFacts
  <1>3. /\ read \in [Streams -> Text] /\ written \in [Streams -> Text] /\ x \in Records
        /\ DOMAIN dec = {"buf", "state", "rec", "error"}
    BY <1>1, <1>2 DEF TypeInv
  <1>4. Framed(OnWay, "content", x, half, steps) /\ Carries(OnWay, Taken, written)
    BY <1>1, <1>2 DEF FcgiInv
  <1>5. u.unit = "content" /\ u.rec = x
    BY <1>2, <1>4, FramedTake
  <1>6. o \in Streams /\ text \in Text /\ (x.type # "end" => ~IsError(text))
    BY <1>3, RecordFacts, ErrorEnds
  <1>7. /\ DOMAIN dec' = {"buf", "state", "rec", "error"} /\ dec'.buf = Tail(dec.buf) /\ dec'.rec = None
        /\ dec'.error = IsError(text) /\ dec'.state = IF x.type = "end" THEN "finished" ELSE "head"
    BY <1>1, <1>3
  <1> HIDE DEF u, x, text, o
  <1>8. After(u, Taken) = [read EXCEPT ![o] = @ \o text]
    BY <1>1, <1>2, <1>5 DEF After, o, text
  <1>9. \A q \in Streams : Begins(After(u, Taken)[q], written[q])
    BY <1>2, <1>4, CarriesNext DEF u
  <1>10. Begins(read[o] \o text, written[o])
    <2>1. After(u, Taken)[o] = read[o] \o text
      BY <1>3, <1>6, <1>8
    <2> QED BY <1>6, <1>9, <2>1
  <1>11. Other(s) \in Streams /\ (o # s => Other(s) = o)
    BY <1>6 DEF Other, Streams
  <1>12. /\ at' \notin Decodes /\ UNCHANGED ended
         /\ o = s => read' = [read EXCEPT ![s] = @ \o text] /\ buf' = buf
         /\ o # s => read' = read /\ buf' = [buf EXCEPT ![o] = text]
    BY <1>1, <1>11, ReadyEffect, PendingEffect
  <1>13. Taken' = After(u, Taken)
    <2>1. text # None
      BY <1>6, NoneIsNoText
    <2>2. ASSUME NEW q \in Streams PROVE read'[q] \o Item(q)' = After(u, Taken)[q]
      <3>0. read[q] \o <<>> = read[q] /\ read[q] \o text \in Text
        BY <1>3, <1>6, TextFacts
      <3>1. CASE q = o /\ o = s
        <4>1. read'[q] = read[q] \o text /\ Item(q)' = <<>>
          BY <1>2, <1>3, <1>12, <3>1 DEF Item
        <4>2. (read[q] \o text) \o <<>> = read[q] \o text
          BY <3>0, TextFacts
        <4> QED BY <1>3, <1>6, <1>8, <3>1, <4>1, <4>2
      <3>2. CASE q = o /\ o # s
        <4>1. read'[q] = read[q] /\ Item(q)' = text
          BY <1>2, <1>12, <2>1, <3>2 DEF Item
        <4> QED BY <1>3, <1>6, <1>8, <3>2, <4>1
      <3>3. CASE q # o
        <4>1. read'[q] = read[q] /\ Item(q)' = <<>>
          BY <1>2, <1>3, <1>6, <1>12, <3>3 DEF Item
        <4> QED BY <1>3, <1>6, <1>8, <3>0, <3>3, <4>1
      <3> QED BY <3>1, <3>2, <3>3
    <2>3. After(u, Taken) = [q \in Streams |-> After(u, Taken)[q]]
      BY <1>3, <1>8
    <2>4. Taken' = [q \in Streams |-> read'[q] \o Item(q)']
      BY DEF Taken
    <2> QED BY <2>2, <2>3, <2>4
  <1>14. FcgiInv'
    BY <1>1, <1>5, <1>6, <1>7, <1>13, UnitTaken DEF u
  <1>15. Allowed /\ StepsInv' /\ EndedInv' /\ read' \in [Streams -> Text]
    <2>1. CASE o = s
      BY <1>1, <1>6, <1>10, <1>12, <2>1, ReadKeeps
    <2>2. CASE o # s
      <3>1. UNCHANGED <<read, written, ended, closed>> /\ (Over' <=> Over)
        BY <1>1, <1>12, <2>2 DEF Over
      <3>2. Allowed
        BY <3>1, NothingAllowed
      <3>3. StepsInv'
        BY <1>1 DEF IInv, StepsInv
      <3>4. EndedInv'
        BY <3>1 DEF IInv, EndedInv
      <3> QED BY <1>3, <3>1, <3>2, <3>3, <3>4
    <2> QED BY <2>1, <2>2
  <1>16. TypeInv'
    <2>1. buf' \in [Streams -> Text \cup {None}]
      BY <1>2, <1>6, <1>12
    <2>2. dec'.buf \in Seq(Units) /\ dec'.state \in {"head", "finished"}
      BY <1>2, <1>7
    <2> QED BY <1>1, <1>2, <1>7, <1>12, <1>15, <2>1, <2>2 DEF TypeInv
  <1>17. AtInv'
    BY <1>12 DEF AtInv
  <1> QED BY <1>1, <1>2, <1>14, <1>15, <1>16, <1>17 DEF IInv

\* What is in the socket moves to the decoder's buffer.
LEMMA DecodeReadStep ==
    ASSUME IInv, NEW s \in Streams, DecodeRead(s)
    PROVE  IInv' /\ Allowed
  <1> DEFINE w == wire["out"]
  <1>1. /\ at = Decoding(s) /\ dec.buf = <<>>
        /\ dec' = [dec EXCEPT !.buf = w] /\ wire' = [wire EXCEPT !["out"] = <<>>]
        /\ UNCHANGED <<kind, app, steps, half, closed, written, buf, at, read, ended>>
    BY DEF DecodeRead, appVars, sched, hist
  <1>2. kind = "fcgi" /\ FcgiInv /\ TypeInv
    BY <1>1, DecodingFacts
  <1>3. /\ wire \in [Streams -> Seq(Units)] /\ w \in Seq(Units) /\ <<>> \in Seq(Units) /\ "out" \in Streams
        /\ DOMAIN dec = {"buf", "state", "rec", "error"}
    BY <1>2, EmptySeq DEF TypeInv, Streams
  <1> HIDE DEF w
  <1>4. /\ dec'.buf = w /\ dec'.state = dec.state /\ dec'.rec = dec.rec /\ dec'.error = dec.error
        /\ DOMAIN dec' = DOMAIN dec /\ wire'["out"] = <<>> /\ wire' \in [Streams -> Seq(Units)]
    BY <1>1, <1>3
  <1>5. OnWay' = OnWay
    <2>1. w \o <<>> = w /\ <<>> \o w = w
      BY <1>3, ConcatEmptySeq
    <2> QED BY <1>1, <1>4, <2>1 DEF OnWay, w
  <1>6. Taken' = Taken /\ (Over' <=> Over)
    BY <1>1 DEF Taken, Item, Over
  <1>7. FcgiInv'
    BY <1>1, <1>2, <1>4, <1>5, <1>6 DEF FcgiInv
  <1>8. TypeInv'
    BY <1>1, <1>2, <1>3, <1>4 DEF TypeInv
  <1>9. StepsInv' /\ AtInv'
    BY <1>1 DEF IInv, StepsInv, AtInv
  <1>10. EndedInv'
    BY <1>1, <1>6 DEF IInv, EndedInv
  <1>11. Allowed
    BY <1>1, <1>6, NothingAllowed
  <1> QED BY <1>1, <1>2, <1>7, <1>8, <1>9, <1>10, <1>11 DEF IInv

\* At the end of the socket, or after an error, all that was written is read.
LEMMA DecoderDrained ==
    ASSUME IInv, NEW s \in Streams, at = Decoding(s),
           dec.error \/ (dec.buf = <<>> /\ wire["out"] = <<>> /\ closed)
    PROVE  (closed \/ Over) /\ read = written
  <1>1. FcgiInv /\ Taken = read /\ read \in [Streams -> Text]
    BY DecodingFacts DEF TypeInv
  <1>2. CASE dec.state = "finished"
    BY <1>1, <1>2 DEF FcgiInv
  <1>3. CASE dec.state # "finished"
    <2>1. ~dec.error /\ Carries(OnWay, Taken, written)
      BY <1>1, <1>3 DEF FcgiInv
    <2>2. OnWay = <<>> /\ closed
      BY <2>1 DEF OnWay
    <2>3. Carries(<<>>, read, written)
      BY <1>1, <2>1, <2>2
    <2> QED BY <1>1, <2>2, <2>3, CarriesNone
  <1> QED BY <1>2, <1>3

LEMMA DecodeEndsStep ==
    ASSUME IInv, NEW s \in Streams, DecodeEnds(s)
    PROVE  IInv' /\ Allowed
  <1>1. /\ at = Decoding(s) /\ Finished(s, woken \cup Wake(waker[Other(s)]))
        /\ dec.error \/ (dec.buf = <<>> /\ wire["out"] = <<>> /\ closed)
        /\ UNCHANGED <<kind, app, steps, half, closed, written, wire, dec, buf>>
    BY DEF DecodeEnds, appVars, chan
  <1>2. (closed \/ Over) /\ read = written
    BY <1>1, DecoderDrained
  <1>3. ended' = ended \cup {s} /\ UNCHANGED read /\ at' \notin Decodes
    BY <1>1, FinishedEffect
  <1> QED BY <1>1, <1>2, <1>3, EndKeeps

-----------------------------------------------------------------------------
LEMMA IInvStep ==
    ASSUME IInv, [Next]_vars
    PROVE  IInv' /\ Allowed
  <1>1. CASE \/ Execute \/ Copy \/ CopyEnds \/ BodyLeftover \/ ClientReads \/ ClientLeaves
             \/ \E t \in Tasks : Poll(t)
             \/ UNCHANGED vars
    BY <1>1, IdleStep
  <1>2. CASE AppStep
    BY <1>2, AppReadsStep, AppClosesStep, PipeWritesStep, FcgiWritesStep DEF AppStep
  <1>3. ASSUME NEW s \in Streams,
               PipePending(s) \/ SplitWait(s) \/ SplitDecode(s) \/ DecodePending(s)
        PROVE  IInv' /\ Allowed
    BY <1>3, IdleStep
  <1>4. ASSUME NEW s \in Streams, PipeRead(s) \/ PipeEnds(s) \/ SplitTake(s)
        PROVE  IInv' /\ Allowed
    BY <1>4, PipeReadStep, PipeEndsStep, SplitTakeStep
  <1>5. ASSUME NEW s \in Streams, DecodeMore(s) \/ DecodeItem(s) \/ DecodeRead(s) \/ DecodeEnds(s)
        PROVE  IInv' /\ Allowed
    BY <1>5, DecodeMoreStep, DecodeItemStep, DecodeReadStep, DecodeEndsStep
  <1> QED BY <1>1, <1>2, <1>3, <1>4, <1>5, Zenon DEF Next, Run

\* What is on its way is what was written and not yet read, in order: see IInv.
THEOREM IInvAlways == Spec => []IInv
  <1>1. IInv /\ [Next]_vars => IInv'
    BY IInvStep
  <1> QED BY IInvInit, <1>1, PTL DEF Spec

\* Every behaviour of an exchange is one of two independent streams: whatever
\* the application writes, in however many records, and whichever task polls
\* the split stream, each reader gets its own stream in order, complete and
\* without anything of the other, and sees the end only when the application
\* closed or sent END_REQUEST and all was read.
THEOREM GatewayImplementsTwoStreams == Spec => ImplementsTwoStreams
  <1>1. Init => Promise!Init
    <2> SUFFICES ASSUME Init PROVE Promise!Init
      OBVIOUS
    <2>1. IInv
      BY IInvInit
    <2>2. Len(app.steps) \in Nat /\ steps = app.steps
      BY <2>1, LenProperties DEF IInv, StepsInv, Init
    <2>3. (closed \/ Over) = FALSE
      BY <2>2 DEF Over, Init
    <2> QED BY <2>3 DEF Promise!Init, Init
  <1>2. IInv /\ [Next]_vars => [Promise!Next]_(Promise!vars)
    BY IInvStep DEF Allowed
  <1> QED BY <1>1, <1>2, IInvAlways, PTL DEF Spec, ImplementsTwoStreams, Promise!Spec

-----------------------------------------------------------------------------
(***************************************************************************)
(* The response of a gateway has the application's output as its body,     *)
(* however that is cut: ResponseIntact, for every application.             *)
(*                                                                         *)
(* It rests on two facts.  The search for the end of the head, which       *)
(* starts three characters before what was just read, finds the same place *)
(* as a search of the whole text (SearchRight).  And at each point of the  *)
(* exchange what was sent, with what was read past the head, is what was   *)
(* read after the head (RInv); that all is read in the end is the          *)
(* refinement of TwoStreams.                                               *)
(***************************************************************************)
(***************************************************************************)
(* Separators.                                                             *)
(***************************************************************************)
SepAt(t, i) ==
    /\ t[i] \in {"r", "n"}
    /\ \/ i > 1 /\ t[i - 1] = t[i]
       \/ i > 3 /\ \A j \in (i - 3)..i : t[j] \in {"r", "n"}

NoSep(t) == \A i \in 1..Len(t) : ~SepAt(t, i)
FirstSep(t, k) == k \in 1..Len(t) /\ SepAt(t, k) /\ \A j \in 1..(k - 1) : ~SepAt(t, j)

LEMMA TextLen ==
    ASSUME NEW t \in Text
    PROVE  Len(t) \in Nat /\ DOMAIN t = 1..Len(t)
  BY LenProperties DEF Text

LEMMA SomeSep ==
    ASSUME NEW t \in Text
    PROVE  NoSep(t) \/ \E k \in 1..Len(t) : FirstSep(t, k)
  <1> DEFINE E == {i \in 1..Len(t) : SepAt(t, i)}
  <1>1. Len(t) \in Nat
    BY TextLen
  <1>2. CASE E = {}
    BY <1>2 DEF NoSep
  <1>3. CASE E # {}
    <2>1. E \subseteq Nat
      BY <1>1
    <2> HIDE DEF E
    <2>2. PICK m \in E : \A k \in E : m <= k
      BY <1>3, <2>1, LeastOf
    <2>3. m \in 1..Len(t) /\ SepAt(t, m)
      BY <2>2 DEF E
    <2>4. ASSUME NEW j \in 1..(m - 1) PROVE ~SepAt(t, j)
      <3>1. j \in 1..Len(t) /\ ~(m <= j)
        BY <1>1, <2>3
      <3> QED BY <2>2, <3>1 DEF E
    <2> QED BY <2>3, <2>4 DEF FirstSep
  <1> QED BY <1>2, <1>3

\* search_header_body_separator finds the end of the first separator.
LEMMA SeparatorIs ==
    ASSUME NEW t \in Text
    PROVE  /\ Separator(t) \in Nat
           /\ Separator(t) = 0 => NoSep(t)
           /\ Separator(t) # 0 => FirstSep(t, Separator(t))
  <1> DEFINE E == {i \in 1..Len(t) : SepAt(t, i)}
  <1>1. Len(t) \in Nat /\ DOMAIN t = 1..Len(t)
    BY TextLen
  <1>2. Separator(t) = IF E = {} THEN 0 ELSE Min(E)
    BY <1>1 DEF Separator, SepAt
  <1>3. CASE E = {}
    BY <1>2, <1>3 DEF NoSep
  <1>4. CASE E # {}
    <2>1. PICK k \in 1..Len(t) : FirstSep(t, k)
      BY <1>4, SomeSep DEF NoSep
    <2>2. k \in E /\ \A j \in E : k <= j
      <3>1. k \in E
        BY <2>1 DEF FirstSep
      <3>2. ASSUME NEW j \in E PROVE k <= j
        <4>1. j \in 1..Len(t) /\ SepAt(t, j)
          OBVIOUS
        <4>2. ~(j \in 1..(k - 1))
          BY <2>1, <4>1 DEF FirstSep
        <4> QED BY <1>1, <4>1, <4>2
      <3> QED BY <3>1, <3>2
    <2> HIDE DEF E
    <2>3. E \subseteq 1..Len(t)
      BY DEF E
    <2>4. Min(E) \in E /\ \A j \in E : Min(E) <= j
      BY <2>2 DEF Min
    <2>5. Min(E) = k
      <3>1. Min(E) \in 1..Len(t) /\ Min(E) <= k /\ k <= Min(E)
        BY <2>2, <2>3, <2>4, Zenon
      <3> QED BY <1>1, <3>1
    <2>6. k # 0 /\ k \in Nat
      BY <1>1
    <2> QED BY <1>2, <1>4, <2>1, <2>5, <2>6
  <1> QED BY <1>3, <1>4

LEMMA SuffixIs ==
    ASSUME NEW s \in Text, NEW t \in Text, NEW k \in 1..Len(t)
    PROVE  IsSuffix(s, SubSeq(t, 1, k)) <=> Len(s) <= k /\ \A i \in 1..Len(s) : s[Len(s) - i + 1] = t[k - i + 1]
  <1> DEFINE m == Len(s)
             p == SubSeq(t, 1, k)
             a == Reverse(s)
             b == Reverse(p)
  <1>1. m \in Nat /\ k \in Nat /\ Len(t) \in Nat /\ k <= Len(t)
    BY TextLen
  <1>2. \A i \in 1..k : t[i] \in Chars
    BY <1>1, ElementOfSeq DEF Text
  <1>3. p \in Text /\ Len(p) = k /\ \A i \in 1..k : p[i] = t[i]
    <2>1. p \in Seq(Chars) /\ Len(p) = (IF 1 <= k THEN k - 1 + 1 ELSE 0) /\ \A i \in 1..(k - 1 + 1) : p[i] = t[1 + i - 1]
      BY <1>1, <1>2, SubSeqProperties
    <2> HIDE DEF p
    <2> QED BY <1>1, <2>1 DEF Text
  <1> HIDE DEF p
  <1>4. \A i \in 1..m : s[m - i + 1] \in Chars
    BY <1>1, ElementOfSeq DEF Text
  <1>5. \A i \in 1..k : p[k - i + 1] = t[k - i + 1] /\ p[k - i + 1] \in Chars
    BY <1>1, <1>2, <1>3
  <1>6. a \in Text /\ Len(a) = m /\ \A i \in 1..m : a[i] = s[m - i + 1]
    BY <1>1, <1>4 DEF Reverse, Text
  <1>7. b \in Text /\ Len(b) = k /\ \A i \in 1..k : b[i] = t[k - i + 1]
    BY <1>1, <1>3, <1>5 DEF Reverse, Text
  <1> HIDE DEF a, b, m
  <1>8. IsSuffix(s, p) <=> m <= k /\ SubSeq(a, 1, m) = SubSeq(b, 1, m)
    BY <1>6, <1>7 DEF IsSuffix, IsPrefix, a, b
  <1>9. SubSeq(a, 1, m) = a
    BY <1>6, SubSeqFull DEF Text
  <1>10. ASSUME m <= k PROVE a = SubSeq(b, 1, m) <=> \A i \in 1..m : a[i] = b[i]
    <2> DEFINE c == SubSeq(b, 1, m)
    <2>1. \A i \in 1..m : b[i] \in Chars
      BY <1>1, <1>7, <1>10, ElementOfSeq DEF Text
    <2>2. c \in Seq(Chars) /\ Len(c) = (IF 1 <= m THEN m - 1 + 1 ELSE 0) /\ \A i \in 1..(m - 1 + 1) : c[i] = b[1 + i - 1]
      BY <1>1, <2>1, SubSeqProperties
    <2> HIDE DEF c
    <2>3. Len(c) = m /\ \A i \in 1..m : c[i] = b[i]
      BY <1>1, <2>2
    <2>4. a = c <=> \A i \in 1..m : a[i] = c[i]
      BY <1>6, <2>2, <2>3, SeqEqual DEF Text
    <2> QED BY <2>3, <2>4 DEF c
  <1>11. m <= k => \A i \in 1..m : i \in 1..k
    BY <1>1
  <1> QED BY <1>6, <1>7, <1>8, <1>9, <1>10, <1>11 DEF m, p

\* HeadEnd is the end of the first separator.
LEMMA HeadEndIs ==
    ASSUME NEW t \in Text
    PROVE  /\ NoSep(t) => HeadEnd(t) = 0
           /\ \A k \in 1..Len(t) : FirstSep(t, k) => HeadEnd(t) = k
  <1> DEFINE Seps == {<<"n", "n">>, <<"r", "r">>, <<"r", "n", "r", "n">>, <<"n", "r", "n", "r">>}
             Ended(k) == \E x \in Seps : IsSuffix(x, SubSeq(t, 1, k))
             E == {k \in 1..Len(t) : Ended(k)}
  <1>1. Len(t) \in Nat
    BY TextLen
  <1>2. HeadEnd(t) = IF E = {} THEN 0 ELSE CHOOSE k \in E : \A j \in E : k <= j
    BY DEF HeadEnd
  <1>3. ASSUME NEW k \in 1..Len(t)
        PROVE  Ended(k) <=> \/ k >= 2 /\ t[k] = "n" /\ t[k - 1] = "n"
                            \/ k >= 2 /\ t[k] = "r" /\ t[k - 1] = "r"
                            \/ k >= 4 /\ t[k] = "n" /\ t[k - 1] = "r" /\ t[k - 2] = "n" /\ t[k - 3] = "r"
                            \/ k >= 4 /\ t[k] = "r" /\ t[k - 1] = "n" /\ t[k - 2] = "r" /\ t[k - 3] = "n"
    <2>0. k - 1 + 1 = k /\ k - 2 + 1 = k - 1 /\ k - 3 + 1 = k - 2 /\ k - 4 + 1 = k - 3
      BY <1>1
    <2>1. ASSUME NEW a \in Chars, NEW b \in Chars
          PROVE  IsSuffix(<<a, b>>, SubSeq(t, 1, k)) <=> k >= 2 /\ t[k] = b /\ t[k - 1] = a
      <3> DEFINE s == <<a, b>>
      <3>1. s \in Text /\ Len(s) = 2 /\ s[1] = a /\ s[2] = b
        BY DEF Text
      <3> HIDE DEF s
      <3>2. IsSuffix(s, SubSeq(t, 1, k)) <=> 2 <= k /\ \A i \in 1..2 : s[2 - i + 1] = t[k - i + 1]
        <4>1. IsSuffix(s, SubSeq(t, 1, k)) <=> Len(s) <= k /\ \A i \in 1..Len(s) : s[Len(s) - i + 1] = t[k - i + 1]
          BY <3>1, SuffixIs, Zenon
        <4> QED BY <3>1, <4>1
      <3>3. (\A i \in 1..2 : s[2 - i + 1] = t[k - i + 1]) <=> s[2] = t[k] /\ s[1] = t[k - 1]
        <4>1. 1..2 = {1, 2}
          OBVIOUS
        <4> QED BY <2>0, <4>1
      <3> QED BY <3>1, <3>2, <3>3 DEF s
    <2>2. ASSUME NEW a \in Chars, NEW b \in Chars, NEW c \in Chars, NEW d \in Chars
          PROVE  IsSuffix(<<a, b, c, d>>, SubSeq(t, 1, k))
                     <=> k >= 4 /\ t[k] = d /\ t[k - 1] = c /\ t[k - 2] = b /\ t[k - 3] = a
      <3> DEFINE s == <<a, b, c, d>>
      <3>1. s \in Text /\ Len(s) = 4 /\ s[1] = a /\ s[2] = b /\ s[3] = c /\ s[4] = d
        BY DEF Text
      <3> HIDE DEF s
      <3>2. IsSuffix(s, SubSeq(t, 1, k)) <=> 4 <= k /\ \A i \in 1..4 : s[4 - i + 1] = t[k - i + 1]
        <4>1. IsSuffix(s, SubSeq(t, 1, k)) <=> Len(s) <= k /\ \A i \in 1..Len(s) : s[Len(s) - i + 1] = t[k - i + 1]
          BY <3>1, SuffixIs, Zenon
        <4> QED BY <3>1, <4>1
      <3>3. (\A i \in 1..4 : s[4 - i + 1] = t[k - i + 1])
                <=> s[4] = t[k] /\ s[3] = t[k - 1] /\ s[2] = t[k - 2] /\ s[1] = t[k - 3]
        <4>1. 1..4 = {1, 2, 3, 4}
          OBVIOUS
        <4> QED BY <2>0, <4>1
      <3> QED BY <3>1, <3>2, <3>3 DEF s
    <2>3. {"r", "n"} \subseteq Chars
      BY DEF Chars
    <2>4. Ended(k) <=> \/ IsSuffix(<<"n", "n">>, SubSeq(t, 1, k))
                       \/ IsSuffix(<<"r", "r">>, SubSeq(t, 1, k))
                       \/ IsSuffix(<<"r", "n", "r", "n">>, SubSeq(t, 1, k))
                       \/ IsSuffix(<<"n", "r", "n", "r">>, SubSeq(t, 1, k))
      BY Zenon
    <2> HIDE DEF Ended
    <2> QED BY <2>1, <2>2, <2>3, <2>4
  <1> HIDE DEF Ended
  <1>4. ASSUME NEW k \in 1..Len(t), Ended(k) PROVE SepAt(t, k)
    <2>1. k >= 4 => (k - 3)..k = {k - 3, k - 2, k - 1, k}
      BY <1>1
    <2> QED BY <1>1, <1>3, <1>4, <2>1 DEF SepAt
  <1>5. ASSUME NEW k \in 1..Len(t), FirstSep(t, k) PROVE Ended(k)
    <2>1. SepAt(t, k) /\ t[k] \in {"r", "n"}
      BY <1>5 DEF FirstSep, SepAt
    <2>2. CASE k > 1 /\ t[k - 1] = t[k]
      BY <1>1, <1>3, <2>1, <2>2
    <2>3. CASE ~(k > 1 /\ t[k - 1] = t[k])
      <3>1. k > 3 /\ \A j \in (k - 3)..k : t[j] \in {"r", "n"}
        BY <2>1, <2>3 DEF SepAt
      <3>2. /\ t[k - 1] \in {"r", "n"} /\ t[k - 2] \in {"r", "n"} /\ t[k - 3] \in {"r", "n"}
            /\ t[k - 1] # t[k]
        BY <1>1, <2>3, <3>1
      <3>3. ~SepAt(t, k - 1) /\ ~SepAt(t, k - 2)
        <4>1. k - 1 \in 1..(k - 1) /\ k - 2 \in 1..(k - 1)
          BY <1>1, <3>1
        <4> QED BY <1>5, <4>1 DEF FirstSep
      <3>4. t[k - 2] # t[k - 1] /\ t[k - 3] # t[k - 2]
        <4>1. k - 1 > 1 /\ k - 2 > 1 /\ (k - 1) - 1 = k - 2 /\ (k - 2) - 1 = k - 3
          BY <1>1, <3>1
        <4> QED BY <3>2, <3>3, <4>1 DEF SepAt
      <3>5. k >= 4
        BY <1>1, <3>1
      <3> QED BY <1>3, <2>1, <3>2, <3>4, <3>5
    <2> QED BY <2>2, <2>3
  <1>6. NoSep(t) => HeadEnd(t) = 0
    BY <1>2, <1>4 DEF NoSep
  <1>7. ASSUME NEW k \in 1..Len(t), FirstSep(t, k) PROVE HeadEnd(t) = k
    <2>1. k \in E
      BY <1>5, <1>7
    <2>2. ASSUME NEW j \in E PROVE k <= j
      <3>1. j \in 1..Len(t) /\ SepAt(t, j)
        BY <1>4
      <3>2. ~(j \in 1..(k - 1))
        BY <1>7, <3>1 DEF FirstSep
      <3> QED BY <1>1, <3>1, <3>2
    <2>3. E \subseteq 1..Len(t)
      OBVIOUS
    <2> HIDE DEF E
    <2> DEFINE m == CHOOSE i \in E : \A j \in E : i <= j
    <2>4. m \in E /\ \A j \in E : m <= j
      BY <2>1, <2>2
    <2>5. HeadEnd(t) = m
      BY <1>2, <2>1
    <2> HIDE DEF m
    <2>6. m = k
      BY <1>1, <2>1, <2>2, <2>3, <2>4
    <2> QED BY <2>5, <2>6
  <1> QED BY <1>6, <1>7

\* Where a text ends in another, its separators are those of the longer one.
LEMMA SepGrow ==
    ASSUME NEW old \in Text, NEW new \in Text, NEW i \in 1..Len(old)
    PROVE  SepAt(old \o new, i) <=> SepAt(old, i)
  <1>1. Len(old) \in Nat /\ \A j \in 1..Len(old) : (old \o new)[j] = old[j]
    <2>1. Len(old) \in Nat /\ Len(new) \in Nat
      BY TextLen
    <2>2. \A j \in 1..Len(old) + Len(new) : (old \o new)[j] = IF j <= Len(old) THEN old[j] ELSE new[j - Len(old)]
      BY ConcatProperties DEF Text
    <2> QED BY <2>1, <2>2
  <1> DEFINE t == old \o new
  <1> HIDE DEF t
  <1>2. \A j \in 1..Len(old) : t[j] = old[j]
    BY <1>1 DEF t
  <1>3. i > 1 => i - 1 \in 1..Len(old)
    BY <1>1
  <1>4. i > 3 => \A j \in (i - 3)..i : j \in 1..Len(old)
    BY <1>1
  <1>5. SepAt(t, i) <=> SepAt(old, i)
    BY <1>2, <1>3, <1>4 DEF SepAt
  <1> QED BY <1>5 DEF t

LEMMA HeadEndStays ==
    ASSUME NEW old \in Text, NEW new \in Text, ~NoSep(old)
    PROVE  HeadEnd(old) \in 1..Len(old) /\ HeadEnd(old \o new) = HeadEnd(old)
  <1>1. PICK k \in 1..Len(old) : FirstSep(old, k)
    BY SomeSep
  <1>2. HeadEnd(old) = k
    BY <1>1, HeadEndIs
  <1>3. old \o new \in Text /\ Len(old) \in Nat /\ Len(new) \in Nat /\ Len(old \o new) = Len(old) + Len(new)
    BY TextFacts, TextLen, ConcatProperties DEF Text
  <1>4. k \in 1..Len(old \o new)
    BY <1>3
  <1>5. SepAt(old \o new, k)
    BY <1>1, SepGrow DEF FirstSep
  <1>6. ASSUME NEW j \in 1..(k - 1) PROVE ~SepAt(old \o new, j)
    <2>1. j \in 1..Len(old)
      BY <1>3
    <2> QED BY <1>1, <2>1, SepGrow DEF FirstSep
  <1>7. FirstSep(old \o new, k)
    BY <1>4, <1>5, <1>6 DEF FirstSep
  <1>8. HeadEnd(old \o new) = k
    BY <1>3, <1>4, <1>7, HeadEndIs
  <1> QED BY <1>2, <1>8

\* Three characters of what was read before are enough.
LEMMA SearchRight ==
    ASSUME NEW old \in Text, NEW new \in Text, NoSep(old)
    PROVE  LET from == SearchFrom(old, new)
               t == old \o new
               e == Separator(SubSeq(t, from + 1, Len(t)))
           IN /\ e \in Nat
              /\ e = 0 => NoSep(t)
              /\ e # 0 => from + e \in 1..Len(t) /\ HeadEnd(t) = from + e
  <1> DEFINE from == SearchFrom(old, new)
             t == old \o new
             w == SubSeq(t, from + 1, Len(t))
             e == Separator(w)
  <1>1. t \in Text /\ Len(old) \in Nat /\ Len(new) \in Nat /\ Len(t) = Len(old) + Len(new)
    BY TextFacts, TextLen, ConcatProperties DEF Text
  <1>2. from \in Nat /\ from <= Len(old) /\ (from = 0 \/ from = Len(old) - 3)
    BY <1>1 DEF SearchFrom
  <1>3. \A i \in 1..Len(old) : ~SepAt(t, i)
    BY SepGrow DEF NoSep
  <1> HIDE DEF from, t
  <1>4. w \in Text /\ Len(w) = Len(t) - from /\ \A i \in 1..(Len(t) - from) : w[i] = t[from + i]
    <2>1. \A i \in (from + 1)..Len(t) : t[i] \in Chars
      BY <1>1, <1>2, ElementOfSeq DEF Text
    <2>2. from + 1 \in Int /\ Len(t) \in Int
      BY <1>1, <1>2
    <2>3. /\ w \in Seq(Chars)
          /\ Len(w) = IF from + 1 <= Len(t) THEN Len(t) - (from + 1) + 1 ELSE 0
          /\ \A i \in 1..(Len(t) - (from + 1) + 1) : w[i] = t[(from + 1) + i - 1]
      BY <2>1, <2>2, SubSeqProperties
    <2> HIDE DEF w
    <2>4. Len(w) = Len(t) - from
      BY <1>1, <1>2, <2>3
    <2>5. ASSUME NEW i \in 1..(Len(t) - from) PROVE w[i] = t[from + i]
      <3>1. i \in 1..(Len(t) - (from + 1) + 1) /\ (from + 1) + i - 1 = from + i
        BY <1>1, <1>2
      <3> QED BY <2>3, <3>1
    <2> QED BY <2>3, <2>4, <2>5 DEF Text
  <1> HIDE DEF w
  <1>5. ASSUME NEW i \in 1..Len(w), SepAt(w, i) PROVE SepAt(t, from + i)
    <2>1. i \in 1..(Len(t) - from) /\ w[i] = t[from + i]
      BY <1>4
    <2>2. CASE i > 1 /\ w[i - 1] = w[i]
      <3>1. w[i - 1] = t[(from + i) - 1] /\ from + i > 1
        <4>1. i - 1 \in 1..(Len(t) - from) /\ from + (i - 1) = (from + i) - 1 /\ from + i > 1
          BY <1>1, <1>2, <2>1, <2>2
        <4> QED BY <1>4, <4>1
      <3> QED BY <1>5, <2>1, <2>2, <3>1 DEF SepAt
    <2>3. CASE i > 3 /\ \A j \in (i - 3)..i : w[j] \in {"r", "n"}
      <3>1. ASSUME NEW j \in ((from + i) - 3)..(from + i) PROVE t[j] \in {"r", "n"}
        <4>1. j - from \in (i - 3)..i /\ j - from \in 1..(Len(t) - from) /\ from + (j - from) = j
          BY <1>1, <1>2, <2>1, <2>3
        <4>2. w[j - from] = t[j]
          BY <1>4, <4>1
        <4> QED BY <2>3, <4>1, <4>2
      <3>2. from + i > 3
        BY <1>2, <2>1, <2>3
      <3> QED BY <1>5, <2>1, <3>1, <3>2 DEF SepAt
    <2> QED BY <1>5, <2>2, <2>3 DEF SepAt
  <1>6. ASSUME NEW i \in 1..Len(t), SepAt(t, i) PROVE i - from \in 1..Len(w) /\ SepAt(w, i - from)
    <2>1. i > Len(old)
      BY <1>1, <1>3, <1>6
    <2>2. i - from \in 1..Len(w) /\ i - from \in 1..(Len(t) - from) /\ from + (i - from) = i
      BY <1>1, <1>2, <1>4, <2>1
    <2>3. w[i - from] = t[i]
      BY <1>4, <2>2
    <2>4. CASE i > 1 /\ t[i - 1] = t[i]
      <3>1. (i - from) - 1 \in 1..(Len(t) - from) /\ from + ((i - from) - 1) = i - 1 /\ i - from > 1
        BY <1>1, <1>2, <2>1, <2>2, <2>4
      <3>2. w[(i - from) - 1] = t[i - 1]
        BY <1>4, <3>1
      <3> QED BY <1>6, <2>2, <2>3, <2>4, <3>1, <3>2 DEF SepAt
    <2>5. CASE i > 3 /\ \A j \in (i - 3)..i : t[j] \in {"r", "n"}
      <3>1. i - from > 3
        BY <1>1, <1>2, <2>1, <2>5
      <3>2. ASSUME NEW j \in ((i - from) - 3)..(i - from) PROVE w[j] \in {"r", "n"}
        <4>1. j \in 1..(Len(t) - from) /\ from + j \in (i - 3)..i
          BY <1>1, <1>2, <2>2, <3>1
        <4> QED BY <1>4, <2>5, <4>1
      <3> QED BY <1>6, <2>2, <2>3, <3>1, <3>2 DEF SepAt
    <2> QED BY <1>6, <2>4, <2>5 DEF SepAt
  <1>7. e \in Nat /\ (e = 0 => NoSep(w)) /\ (e # 0 => FirstSep(w, e))
    BY <1>4, SeparatorIs
  <1> HIDE DEF e
  <1>8. e = 0 => NoSep(t)
    BY <1>6, <1>7 DEF NoSep
  <1>9. ASSUME e # 0 PROVE from + e \in 1..Len(t) /\ HeadEnd(t) = from + e
    <2>1. e \in 1..Len(w) /\ SepAt(w, e) /\ \A j \in 1..(e - 1) : ~SepAt(w, j)
      BY <1>7, <1>9 DEF FirstSep
    <2>2. from + e \in 1..Len(t)
      BY <1>1, <1>2, <1>4, <2>1
    <2>3. SepAt(t, from + e)
      BY <1>5, <2>1
    <2>4. ASSUME NEW j \in 1..((from + e) - 1), SepAt(t, j) PROVE FALSE
      <3>1. j \in 1..Len(t)
        BY <1>1, <1>2, <2>2
      <3>2. j - from \in 1..Len(w) /\ SepAt(w, j - from)
        BY <1>6, <2>4, <3>1
      <3>3. j - from \in 1..(e - 1)
        BY <1>1, <1>2, <1>4, <1>7, <3>2
      <3> QED BY <2>1, <3>2, <3>3
    <2>5. FirstSep(t, from + e)
      BY <2>2, <2>3, <2>4 DEF FirstSep
    <2> QED BY <1>1, <2>2, <2>5, HeadEndIs
  <1> QED BY <1>7, <1>8, <1>9 DEF from, t, w, e

-----------------------------------------------------------------------------
\* What comes after the head.
Body(t) == SubSeq(t, HeadEnd(t) + 1, Len(t))

LEMMA RestGrows ==
    ASSUME NEW a \in Text, NEW b \in Text, NEW h \in 0..Len(a)
    PROVE  /\ SubSeq(a, h + 1, Len(a)) \in Text
           /\ SubSeq(a \o b, h + 1, Len(a \o b)) = SubSeq(a, h + 1, Len(a)) \o b
  <1> DEFINE n == Len(a)
             m == Len(b)
             t == a \o b
             r == SubSeq(a, h + 1, n)
             x == SubSeq(t, h + 1, n + m)
             y == r \o b
  <1>1. t \in Text /\ n \in Nat /\ m \in Nat /\ Len(t) = n + m /\ h \in Nat /\ h <= n
    BY TextFacts, TextLen, ConcatProperties DEF Text
  <1>2. \A i \in 1..(n + m) : t[i] = IF i <= n THEN a[i] ELSE b[i - n]
    BY ConcatProperties DEF Text
  <1>3. (\A i \in (h + 1)..n : a[i] \in Chars) /\ \A i \in (h + 1)..(n + m) : t[i] \in Chars
    <2>1. \A i \in (h + 1)..n : i \in 1..Len(a)
      BY <1>1
    <2>2. \A i \in (h + 1)..(n + m) : i \in 1..Len(t)
      BY <1>1
    <2> HIDE DEF t
    <2> QED BY <1>1, <2>1, <2>2, ElementOfSeq DEF Text
  <1> HIDE DEF n, m, t
  <1>4. h + 1 \in Int /\ n \in Int /\ n + m \in Int
    BY <1>1
  <1>5. /\ r \in Seq(Chars) /\ Len(r) = (IF h + 1 <= n THEN n - (h + 1) + 1 ELSE 0)
        /\ \A i \in 1..(n - (h + 1) + 1) : r[i] = a[(h + 1) + i - 1]
    BY <1>3, <1>4, SubSeqProperties
  <1>6. /\ x \in Seq(Chars) /\ Len(x) = (IF h + 1 <= n + m THEN (n + m) - (h + 1) + 1 ELSE 0)
        /\ \A i \in 1..((n + m) - (h + 1) + 1) : x[i] = t[(h + 1) + i - 1]
    BY <1>3, <1>4, SubSeqProperties
  <1> HIDE DEF r, x
  <1>7. r \in Text /\ Len(r) = n - h /\ \A i \in 1..(n - h) : r[i] = a[h + i]
    <2>1. ASSUME NEW i \in 1..(n - h) PROVE r[i] = a[h + i]
      <3>1. i \in 1..(n - (h + 1) + 1) /\ (h + 1) + i - 1 = h + i
        BY <1>1
      <3> QED BY <1>5, <3>1
    <2>2. Len(r) = n - h
      BY <1>1, <1>5
    <2> QED BY <1>5, <2>1, <2>2 DEF Text
  <1>8. Len(x) = n + m - h /\ \A i \in 1..(n + m - h) : x[i] = t[h + i]
    <2>1. ASSUME NEW i \in 1..(n + m - h) PROVE x[i] = t[h + i]
      <3>1. i \in 1..((n + m) - (h + 1) + 1) /\ (h + 1) + i - 1 = h + i
        BY <1>1
      <3> QED BY <1>6, <3>1
    <2>2. Len(x) = n + m - h
      BY <1>1, <1>6
    <2> QED BY <2>1, <2>2
  <1>9. y \in Seq(Chars) /\ Len(y) = (n - h) + m
    BY <1>7, ConcatProperties DEF m, Text
  <1>10. \A i \in 1..((n - h) + m) : y[i] = IF i <= n - h THEN r[i] ELSE b[i - (n - h)]
    BY <1>7, ConcatProperties DEF m, Text
  <1> HIDE DEF y
  <1>11. ASSUME NEW i \in 1..(n + m - h) PROVE x[i] = y[i]
    <2>1. i \in 1..((n - h) + m) /\ h + i \in 1..(n + m)
      BY <1>1
    <2>2. CASE i <= n - h
      <3>1. i \in 1..(n - h) /\ h + i <= n
        BY <1>1, <2>2
      <3> QED BY <1>2, <1>7, <1>8, <1>10, <2>1, <2>2, <3>1
    <2>3. CASE ~(i <= n - h)
      <3>1. ~(h + i <= n) /\ (h + i) - n = i - (n - h)
        BY <1>1, <2>3
      <3> QED BY <1>2, <1>8, <1>10, <2>1, <2>3, <3>1
    <2> QED BY <2>2, <2>3
  <1>12. x = y
    <2>1. Len(x) = Len(y) /\ Len(x) = n + m - h
      BY <1>1, <1>8, <1>9
    <2> QED BY <1>6, <1>9, <1>11, <2>1, SeqEqual
  <1> QED BY <1>1, <1>7, <1>12 DEF n, m, t, r, x, y

-----------------------------------------------------------------------------
(***************************************************************************)
(* The inductive invariant.                                                *)
(***************************************************************************)
\* Standard output is polled by the request's task, for a head or a body.
Running == at \in {"out", "decode out"} => run = "req" /\ pc \in {"head", "body"}

\* While the head is read, all that was read is in its buffer, and has no end.
HeadInv ==
    pc \in {"connect", "head"} =>
        /\ head = [text |-> read["out"], length |-> None, lost |-> FALSE]
        /\ sent = <<>> /\ NoSep(read["out"])

\* What was read past the head and is not sent yet, and what was sent before it,
\* are what was read after the head.  A body without a head has all of the output.
Rest == SubSeq(head.text, head.length + 1, Len(head.text))
Right ==
    /\ head.length <= Len(head.text)
    /\ sent \o Rest = Body(read["out"])
    /\ NoSep(read["out"]) => "out" \in ended

BodyInv ==
    pc = "body" =>
        /\ DOMAIN head = {"text", "length", "lost"}
        /\ head.text \in Text /\ head.length \in Nat /\ sent \in Text
        /\ ~head.lost => Right

\* The decoder is not polled before what was read past the head is sent.
PollInv == at = "decode out" /\ pc = "body" => Len(head.text) <= head.length

\* A response that has come to its end is complete; with FastCGI the end of
\* standard output is also that of standard error, and all of it was taken.
DoneInv ==
    pc = "done" =>
        /\ "out" \in ended
        /\ ~head.lost => sent = Body(read["out"])
        /\ kind = "fcgi" => (closed \/ Over) /\ read["err"] = written["err"]

StderrInv ==
    /\ stderr \in {"none", "reading", "cancelled", "stopped", "logged"}
    /\ stderr \in {"cancelled", "stopped"} => kind = "fcgi"
    /\ stderr = "logged" => "err" \in ended

RInv == Running /\ HeadInv /\ BodyInv /\ PollInv /\ DoneInv /\ StderrInv

LEMMA RInvInit == Init => RInv
  <1> SUFFICES ASSUME Init PROVE RInv
    OBVIOUS
  <1>1. None \notin {"out", "decode out"}
    BY GatewayAssumption DEF Streams
  <1>2. read["out"] = <<>>
    BY DEF Init, Streams
  <1>3. NoSep(<<>>)
    BY DEF NoSep
  <1> QED BY <1>1, <1>2, <1>3 DEF Init, RInv, Running, HeadInv, BodyInv, PollInv, DoneInv, StderrInv

-----------------------------------------------------------------------------
(***************************************************************************)
(* Steps that do not touch the response.                                   *)
(***************************************************************************)
\* A stream that has ended and was read stays so: TwoStreams allows no other
\* step.
LEMMA CaughtUp ==
    ASSUME IInv, IInv', Allowed, NEW s \in Streams, closed \/ Over, read[s] = written[s]
    PROVE  (closed \/ Over)' /\ read'[s] = written'[s]
  <1>1. /\ read \in [Streams -> Text] /\ written \in [Streams -> Text]
        /\ read' \in [Streams -> Text] /\ written' \in [Streams -> Text]
    BY DEF IInv, TypeInv
  <1>2. CASE UNCHANGED Promise!vars
    <2>1. read' = read /\ written' = written /\ (closed \/ Over)' = (closed \/ Over)
      BY <1>2 DEF Promise!vars
    <2> QED BY <2>1
  <1>3. CASE Promise!Close
    BY <1>3 DEF Promise!Close
  <1>4. ASSUME NEW q \in Streams, Promise!Write(q) PROVE FALSE
    BY <1>4 DEF Promise!Write
  <1>5. ASSUME NEW q \in Streams, Promise!End(q) PROVE (closed \/ Over)' /\ read'[s] = written'[s]
    <2>1. read' = read /\ written' = written /\ (closed \/ Over)' = (closed \/ Over)
      BY <1>5 DEF Promise!End
    <2> QED BY <2>1
  <1>6. ASSUME NEW q \in Streams, Promise!Read(q) PROVE (closed \/ Over)' /\ read'[s] = written'[s]
    <2>1. /\ read' = [read EXCEPT ![q] = read'[q]] /\ written' = written
          /\ (closed \/ Over)' = (closed \/ Over)
          /\ IsPrefix(read[q], read'[q]) /\ read[q] # read'[q] /\ IsPrefix(read'[q], written[q])
      BY <1>6 DEF Promise!Read, Promise!IsStrictPrefix, Promise!IsPrefix, IsPrefix
    <2>2. q # s
      <3> SUFFICES ASSUME q = s PROVE FALSE
        OBVIOUS
      <3> DEFINE a == read[s]
                 b == read'[s]
      <3>1. a \in Text /\ b \in Text /\ Len(a) \in Nat /\ Len(b) \in Nat
        BY <1>1, TextLen
      <3>2. IsPrefix(a, b) /\ IsPrefix(b, a) /\ a # b
        BY <2>1
      <3> HIDE DEF a, b
      <3>3. Len(a) = Len(b)
        BY <3>1, <3>2 DEF IsPrefix
      <3>4. SubSeq(a, 1, Len(a)) = a /\ SubSeq(b, 1, Len(b)) = b
        BY <3>1, SubSeqFull DEF Text
      <3> QED BY <3>2, <3>3, <3>4 DEF IsPrefix
    <2>3. read'[s] = read[s]
      BY <1>1, <2>1, <2>2
    <2> QED BY <2>1, <2>3
  <1> QED BY <1>2, <1>3, <1>4, <1>5, <1>6, Zenon DEF Allowed, Promise!Next

LEMMA StderrKeeps ==
    ASSUME StderrInv, UNCHANGED kind, ended \subseteq ended',
           \/ stderr' \in {stderr, "reading"}
           \/ stderr' \in {"cancelled", "stopped"} /\ kind = "fcgi"
           \/ stderr' = "logged" /\ "err" \in ended'
    PROVE  StderrInv'
  BY DEF StderrInv

LEMMA QuietResp ==
    ASSUME IInv, RInv, IInv', Allowed, UNCHANGED <<kind, pc, head, sent>>, read'["out"] = read["out"],
           ended \subseteq ended', StderrInv',
           at' \in {"out", "decode out"} => run' = "req" /\ pc \in {"head", "body"},
           at' = "decode out" /\ pc = "body" => Len(head.text) <= head.length
    PROVE  RInv'
  <1>1. Running' /\ PollInv'
    BY DEF Running, PollInv
  <1>2. HeadInv'
    BY DEF RInv, HeadInv
  <1>3. BodyInv'
    BY DEF RInv, BodyInv, Right, Rest
  <1>4. ASSUME pc = "done", kind = "fcgi" PROVE (closed \/ Over)' /\ read'["err"] = written'["err"]
    <2>1. (closed \/ Over) /\ read["err"] = written["err"] /\ "err" \in Streams
      BY <1>4 DEF RInv, DoneInv, Streams
    <2> QED BY <2>1, CaughtUp
  <1>5. DoneInv'
    BY <1>4 DEF RInv, DoneInv
  <1> QED BY <1>1, <1>2, <1>3, <1>5 DEF RInv

\* Other ends of an exchange promise nothing.
LEMMA LeavesResp ==
    ASSUME pc' \in {"failed", "unavailable", "broken", "dropped", "exit"}, at' \notin {"out", "decode out"}, StderrInv'
    PROVE  RInv'
  BY DEF RInv, Running, HeadInv, BodyInv, PollInv, DoneInv

LEMMA IdleResp ==
    ASSUME IInv, RInv, IInv', Allowed,
           \/ Execute \/ Copy \/ CopyEnds \/ AppStep \/ ClientReads \/ ClientLeaves
           \/ \E t \in Tasks : Poll(t)
           \/ \E s \in Streams : DecodeMore(s) \/ DecodeRead(s)
           \/ UNCHANGED vars
    PROVE  RInv'
  <1>0. /\ Running /\ StderrInv /\ PollInv /\ None # "req"
        /\ stderr' = stderr /\ kind' = kind /\ ended' = ended => StderrInv'
    BY GatewayAssumption DEF RInv, StderrInv, Tasks
  <1>1. CASE Copy \/ CopyEnds \/ AppStep \/ ClientReads \/ (\E s \in Streams : DecodeMore(s) \/ DecodeRead(s)) \/ UNCHANGED vars
    <2>1. UNCHANGED <<kind, pc, head, sent, stderr, read, ended, at, run>>
      BY <1>1 DEF Copy, CopyEnds, AppStep, AppReads, AppWrites, AppCloses, ClientReads, DecodeMore, DecodeRead,
                  vars, appVars, chan, sched, resp, hist
    <2>2. /\ at' \in {"out", "decode out"} => run' = "req" /\ pc \in {"head", "body"}
          /\ at' = "decode out" /\ pc = "body" => Len(head.text) <= head.length
      BY <1>0, <2>1 DEF Running, PollInv
    <2> QED BY <1>0, <2>1, <2>2, QuietResp
  <1>2. ASSUME NEW t \in Tasks, Poll(t) PROVE RInv'
    <2>1. UNCHANGED <<kind, pc, head, sent, stderr, read, ended>>
      BY <1>2 DEF Poll, appVars, resp, hist
    <2>2. \/ UNCHANGED <<at, run>>
          \/ at' = "out" /\ run' = "req" /\ pc \in {"head", "body"}
          \/ at' = "err"
      BY <1>2 DEF Poll, Live, Tasks
    <2>3. /\ at' \in {"out", "decode out"} => run' = "req" /\ pc \in {"head", "body"}
          /\ at' = "decode out" /\ pc = "body" => Len(head.text) <= head.length
      BY <1>0, <2>2 DEF Running, PollInv
    <2> QED BY <1>0, <2>1, <2>3, QuietResp
  <1>3. CASE Execute
    <2>1. /\ pc = "connect" /\ pc' \in {"head", "failed", "unavailable"}
          /\ UNCHANGED <<kind, head, sent, stderr, read, ended, at>>
      BY <1>3 DEF Execute, FcgiConnect, ScgiConnect, CgiSpawn, FcgiUnavailable, ScgiUnavailable,
                  CgiSpawnFails, Begin, Refused, appVars, sched, hist
    <2>2. at' \notin {"out", "decode out"}
      BY <1>0, <2>1 DEF Running
    <2>3. StderrInv'
      BY <1>0, <2>1
    <2>4. CASE pc' = "head"
      BY <2>1, <2>2, <2>3, <2>4 DEF RInv, Running, HeadInv, BodyInv, PollInv, DoneInv
    <2>5. CASE pc' # "head"
      BY <2>1, <2>2, <2>3, <2>5, LeavesResp
    <2> QED BY <2>4, <2>5
  <1>4. CASE ClientLeaves
    <2>1. /\ pc' = "dropped" /\ run = None /\ UNCHANGED <<kind, ended, at>>
          /\ stderr' = stderr \/ (stderr' = "cancelled" /\ kind = "fcgi")
      BY <1>4 DEF ClientLeaves, StopStderr, appVars, hist
    <2>2. at' \notin {"out", "decode out"}
      BY <1>0, <2>1 DEF Running
    <2>3. StderrInv'
      BY <1>0, <2>1, StderrKeeps
    <2> QED BY <2>1, <2>2, <2>3, LeavesResp
  <1> QED BY <1>1, <1>2, <1>3, <1>4

\* A stream has nothing for now.
LEMMA PendingResp ==
    ASSUME IInv, RInv, IInv', Allowed, NEW s \in Streams, Pending(s), UNCHANGED kind
    PROVE  RInv'
  <1>1. UNCHANGED <<pc, head, sent, read, ended>> /\ at' \in {"err", None}
    BY DEF Pending, Sleep, hist
  <1>2. stderr' = stderr \/ (stderr' = "stopped" /\ kind = "fcgi")
    BY DEF Pending, RInv, StderrInv
  <1>3. StderrInv'
    BY <1>1, <1>2, StderrKeeps DEF RInv
  <1>4. None \notin {"out", "decode out"}
    BY GatewayAssumption DEF Streams
  <1> QED BY <1>1, <1>3, <1>4, QuietResp

\* The stream turns to the decoder, after what was read past the head.
LEMMA SplitDecodeResp ==
    ASSUME IInv, RInv, IInv', Allowed, NEW s \in Streams, SplitDecode(s)
    PROVE  RInv'
  <1>1. /\ UNCHANGED <<kind, pc, head, sent, stderr, read, ended, run>> /\ Polling(s)
        /\ at' = Decoding(s)
    BY DEF SplitDecode, appVars, resp, hist
  <1>2. at = s /\ ~Leftover
    BY <1>1 DEF Polling
  <1>3. s = "out" => run = "req" /\ pc \in {"head", "body"}
    BY <1>2 DEF RInv, Running
  <1>4. s = "out" /\ pc = "body" => Len(head.text) <= head.length
    <2>1. pc = "body" => Len(head.text) \in Nat /\ head.length \in Nat
      BY TextLen DEF RInv, BodyInv
    <2> QED BY <1>2, <2>1 DEF Leftover
  <1>5. s = "err" => at' \notin {"out", "decode out"}
    BY <1>1 DEF Decoding
  <1>6. StderrInv'
    BY <1>1, StderrKeeps DEF RInv
  <1>7. s \in {"out", "err"}
    BY DEF Streams
  <1>8. /\ at' \in {"out", "decode out"} => run' = "req" /\ pc \in {"head", "body"}
        /\ at' = "decode out" /\ pc = "body" => Len(head.text) <= head.length
    BY <1>1, <1>3, <1>4, <1>5, <1>7
  <1> QED BY <1>1, <1>6, <1>8, QuietResp

-----------------------------------------------------------------------------
(***************************************************************************)
(* Steps of the response.                                                  *)
(***************************************************************************)
\* The head is complete, or there is none: the body begins with what was read
\* past it.
LEMMA RespondResp ==
    ASSUME RInv, UNCHANGED kind, ended \subseteq ended', NEW text \in Text, NEW n \in Nat, NEW lost \in BOOLEAN, NEW w,
           Respond(text, n, lost, w), sent = <<>>,
           ~lost => /\ n <= Len(text) /\ SubSeq(text, n + 1, Len(text)) = Body(read'["out"])
                    /\ NoSep(read'["out"]) => "out" \in ended'
    PROVE  RInv'
  <1>1. /\ head' = [text |-> text, length |-> n, lost |-> lost] /\ sent' = sent
        /\ pc' \in {"failed", "body", "exit"} /\ at' \in {"err", None} /\ stderr' \in {stderr, "reading"}
    BY DEF Respond, Fails, Sleep, FcgiRespond, ScgiRespond, CgiRespond, BodyBegins
  <1>2. StderrInv'
    BY <1>1, StderrKeeps DEF RInv
  <1>3. at' \notin {"out", "decode out"}
    BY <1>1, GatewayAssumption DEF Streams
  <1>4. CASE pc' = "body"
    <2>1. /\ head'.text = text /\ head'.length = n /\ head'.lost = lost /\ sent' = <<>> /\ <<>> \in Text
          /\ DOMAIN head' = {"text", "length", "lost"}
      BY <1>1, TextFacts
    <2>2. ASSUME ~lost PROVE Right'
      <3> DEFINE rest == SubSeq(text, n + 1, Len(text))
      <3>1. n \in 0..Len(text)
        BY <2>2, TextLen
      <3>2. rest \in Text
        BY <3>1, RestGrows
      <3>3. <<>> \o rest = rest
        BY <3>2, ConcatEmptySeq DEF Text
      <3>4. Rest' = rest
        BY <2>1 DEF Rest
      <3> QED BY <2>1, <2>2, <3>3, <3>4 DEF Right
    <2>3. BodyInv'
      BY <2>1, <2>2 DEF BodyInv
    <2> QED BY <1>2, <1>3, <1>4, <2>3 DEF RInv, Running, HeadInv, PollInv, DoneInv
  <1>5. CASE pc' # "body"
    BY <1>1, <1>2, <1>3, <1>5, LeavesResp
  <1> QED BY <1>4, <1>5

\* Once what was read past the head is sent, all that was read after it is.
LEMMA RestSent ==
    ASSUME BodyInv, pc = "body", ~head.lost, Len(head.text) <= head.length
    PROVE  Rest = <<>> /\ sent = Body(read["out"])
  <1>1. /\ head.text \in Text /\ head.length \in Nat /\ sent \in Text
        /\ head.length <= Len(head.text) /\ sent \o Rest = Body(read["out"])
    BY DEF BodyInv, Right
  <1>2. Len(head.text) \in Nat
    BY <1>1, TextLen
  <1>3. Rest = <<>>
    <2>1. head.length = Len(head.text)
      BY <1>1, <1>2
    <2>2. Len(head.text) + 1 > Len(head.text) /\ Len(head.text) + 1 \in Int /\ Len(head.text) \in Int
      BY <1>2
    <2>3. SubSeq(head.text, Len(head.text) + 1, Len(head.text)) = <<>>
      BY <2>2, SubSeqEmpty
    <2> QED BY <2>1, <2>3 DEF Rest
  <1> QED BY <1>1, <1>3, TextFacts

\* More of the output is read.
LEMMA BodyGrows ==
    ASSUME NEW old \in Text, NEW text \in Text, NoSep(old) => text = <<>>
    PROVE  /\ Body(old \o text) = Body(old) \o text /\ Body(old) \in Text
           /\ NoSep(old \o text) => NoSep(old)
  <1>1. old \o text \in Text /\ Len(old) \in Nat /\ old \o <<>> = old
    BY TextFacts, TextLen
  <1>2. NoSep(old) \/ HeadEnd(old) \in 1..Len(old)
    BY HeadEndStays
  <1>3. HeadEnd(old) \in 0..Len(old)
    BY <1>1, <1>2, HeadEndIs
  <1>4. Body(old) \in Text
    BY <1>3, RestGrows DEF Body
  <1>5. CASE NoSep(old)
    <2>1. Body(old) \o <<>> = Body(old)
      BY <1>4, TextFacts
    <2> QED BY <1>1, <1>4, <1>5, <2>1
  <1>6. CASE ~NoSep(old)
    <2>1. HeadEnd(old \o text) = HeadEnd(old)
      BY <1>6, HeadEndStays
    <2>2. Body(old \o text) = Body(old) \o text
      <3>1. \A h \in 0..Len(old) : SubSeq(old \o text, h + 1, Len(old \o text)) = SubSeq(old, h + 1, Len(old)) \o text
        BY RestGrows
      <3> QED BY <1>3, <2>1, <3>1, Zenon DEF Body
    <2>3. ~NoSep(old \o text)
      <3>1. PICK i \in 1..Len(old) : SepAt(old, i)
        BY <1>6 DEF NoSep
      <3>2. SepAt(old \o text, i)
        BY <3>1, SepGrow
      <3>3. i \in 1..Len(old \o text)
        BY <1>1, TextLen, ConcatProperties DEF Text
      <3> QED BY <3>2, <3>3 DEF NoSep
    <2> QED BY <1>4, <2>2, <2>3
  <1> QED BY <1>5, <1>6

LEMMA LeftoverResp ==
    ASSUME IInv, RInv, IInv', BodyLeftover
    PROVE  RInv'
  <1> DEFINE n == Len(head.text)
  <1>1. /\ pc = "body" /\ at = "out" /\ n > head.length /\ UNCHANGED <<kind, pc, stderr, read, ended>>
        /\ head' = [head EXCEPT !.length = n] /\ sent' = sent \o Rest
        /\ \/ at' = None
           \/ at' = "out" /\ run' = run
    BY DEF BodyLeftover, Leftover, BodyGets, Sleep, Rest, appVars, hist
  <1>2. run = "req" /\ None \notin {"out", "decode out"}
    BY <1>1, GatewayAssumption DEF RInv, Running, Streams
  <1>3. head.text \in Text /\ n \in Nat /\ head.length \in Nat /\ sent \in Text
    BY <1>1, TextLen DEF RInv, BodyInv
  <1>4. Rest \in Text
    <2>1. head.length \in 0..n
      BY <1>1, <1>3
    <2> QED BY <1>3, <2>1, RestGrows DEF Rest
  <1>5. StderrInv'
    BY <1>1, StderrKeeps DEF RInv
  <1>6. BodyInv'
    <2>1. sent' \in Text
      BY <1>1, <1>3, <1>4, TextFacts
    <2>2. ASSUME ~head.lost
          PROVE  /\ n <= n /\ sent' \o SubSeq(head.text, n + 1, n) = Body(read["out"])
                 /\ NoSep(read["out"]) => "out" \in ended
      <3>1. sent \o Rest = Body(read["out"]) /\ (NoSep(read["out"]) => "out" \in ended)
        BY <1>1, <2>2 DEF RInv, BodyInv, Right
      <3>2. n + 1 > n /\ n + 1 \in Int /\ n \in Int
        BY <1>3
      <3> HIDE DEF n
      <3>3. SubSeq(head.text, n + 1, n) = <<>>
        BY <3>2, SubSeqEmpty
      <3>4. sent' \o <<>> = sent'
        BY <2>1, TextFacts
      <3> QED BY <1>1, <1>3, <3>1, <3>3, <3>4
    <2>3. /\ head'.text = head.text /\ head'.length = n /\ head'.lost = head.lost
          /\ DOMAIN head' = {"text", "length", "lost"}
      <3>1. DOMAIN head = {"text", "length", "lost"}
        BY <1>1 DEF RInv, BodyInv
      <3> QED BY <1>1, <3>1
    <2> HIDE DEF n
    <2>4. ~head.lost => Right'
      BY <1>1, <2>2, <2>3 DEF Right, Rest, n
    <2> QED BY <1>1, <1>3, <2>1, <2>3, <2>4 DEF BodyInv, n
  <1>7. Running' /\ PollInv'
    BY <1>1, <1>2 DEF Running, PollInv
  <1> QED BY <1>1, <1>5, <1>6, <1>7 DEF RInv, HeadInv, DoneInv

\* A reader gets text: it goes into the head's buffer or into the body.
LEMMA ReadyResp ==
    ASSUME IInv, RInv, IInv', Allowed, NEW s \in Streams, NEW text \in Text, Ready(s, text),
           at \in {s, Decoding(s)}, s = "out" /\ pc = "body" => Len(head.text) <= head.length,
           UNCHANGED <<kind, written>>
    PROVE  RInv'
  <1> DEFINE old == read["out"]
  <1>1. read \in [Streams -> Text] /\ "out" \in Streams /\ old \in Text
    BY DEF IInv, TypeInv, Streams
  <1>2. read' = [read EXCEPT ![s] = @ \o text] /\ ended' = ended
    BY DEF Ready
  <1>3. None \notin {"out", "decode out"}
    BY GatewayAssumption DEF Streams
  <1>4. stderr' = stderr => StderrInv'
    BY <1>2, StderrKeeps DEF RInv
  <1> HIDE DEF old
  <1>5. CASE s = "err"
    <2>1. UNCHANGED <<pc, head, sent, stderr>> /\ at' = "err"
      BY <1>5 DEF Ready, resp
    <2>2. read'["out"] = read["out"]
      BY <1>1, <1>2, <1>5
    <2> QED BY <1>2, <1>4, <2>1, <2>2, QuietResp
  <1>6. CASE s = "out"
    <2>1. run = "req" /\ pc \in {"head", "body"}
      BY <1>6 DEF RInv, Running, Decoding
    <2>2. read'["out"] = old \o text /\ old \o text \in Text
      BY <1>1, <1>2, <1>6, TextFacts DEF old
    <2>3. CASE IsError(text) /\ pc = "head"
      <3>1. pc' = "failed" /\ at' = None /\ stderr' = stderr
        BY <1>6, <2>3 DEF Ready, Fails, Sleep
      <3> QED BY <1>3, <1>4, <3>1, LeavesResp
    <2>4. CASE IsError(text) /\ pc = "body"
      <3>1. /\ pc' = "broken" /\ at' = None
            /\ stderr' = stderr \/ (stderr' = "cancelled" /\ kind = "fcgi")
        BY <1>6, <2>4 DEF Ready, BodyEnds, StopStderr, Sleep
      <3>2. StderrInv'
        BY <1>2, <3>1, StderrKeeps DEF RInv
      <3> QED BY <1>3, <3>1, <3>2, LeavesResp
    <2>5. CASE ~IsError(text) /\ pc = "head"
      <3> DEFINE from == SearchFrom(old, text)
                 t == old \o text
                 e == Separator(SubSeq(t, from + 1, Len(t)))
      <3>1. HeadGets(text, woken)
        BY <1>6, <2>5 DEF Ready
      <3>2. /\ head = [text |-> old, length |-> None, lost |-> FALSE]
            /\ sent = <<>> /\ NoSep(old)
        BY <2>5 DEF RInv, HeadInv, old
      <3>3. \/ Respond(old, 0, TRUE, woken)
            \/ e > 0 /\ Respond(t, from + e, FALSE, woken)
            \/ ~(e > 0) /\ head' = [head EXCEPT !.text = t] /\ at' = "out" /\ UNCHANGED <<run, pc, stderr, sent>>
        BY <3>1, <3>2 DEF HeadGets
      <3>4. /\ e \in Nat /\ (e = 0 => NoSep(t))
            /\ e # 0 => from + e \in 1..Len(t) /\ HeadEnd(t) = from + e
        BY <1>1, <3>2, SearchRight
      <3>5. Len(t) \in Nat
        BY <2>2, TextLen
      <3> HIDE DEF from, t, e
      <3>6. CASE Respond(old, 0, TRUE, woken)
        BY <1>1, <1>2, <3>2, <3>6, RespondResp
      <3>7. CASE e > 0 /\ Respond(t, from + e, FALSE, woken)
        <4>1. from + e \in Nat /\ from + e <= Len(t) /\ HeadEnd(t) = from + e /\ t \in Text /\ read'["out"] = t
          BY <2>2, <3>4, <3>5, <3>7 DEF t
        <4>2. ~NoSep(t)
          <5>1. HeadEnd(t) # 0
            BY <3>4, <3>5, <3>7, <4>1
          <5> QED BY <4>1, <5>1, HeadEndIs
        <4>3. SubSeq(t, (from + e) + 1, Len(t)) = Body(read'["out"])
          BY <4>1 DEF Body
        <4> QED BY <1>2, <3>2, <3>7, <4>1, <4>2, <4>3, RespondResp
      <3>8. CASE ~(e > 0) /\ head' = [head EXCEPT !.text = t] /\ at' = "out" /\ UNCHANGED <<run, pc, stderr, sent>>
        <4>1. NoSep(t)
          BY <3>4, <3>8
        <4>2. head' = [text |-> t, length |-> None, lost |-> FALSE] /\ read'["out"] = t
          BY <2>2, <3>2, <3>8 DEF t
        <4>3. HeadInv'
          BY <3>2, <3>8, <4>1, <4>2 DEF HeadInv
        <4> QED BY <1>4, <2>1, <2>5, <3>8, <4>3 DEF RInv, Running, BodyInv, PollInv, DoneInv
      <3> QED BY <3>3, <3>6, <3>7, <3>8
    <2>6. CASE ~IsError(text) /\ pc = "body"
      <3>1. /\ UNCHANGED <<pc, head, stderr>> /\ sent' = sent \o text
            /\ \/ at' = None
               \/ at' = "out" /\ run' = run
        BY <1>6, <2>6 DEF Ready, BodyGets, Sleep
      <3>2. head.text \in Text /\ sent \in Text /\ sent' \in Text
        BY <2>6, <3>1, TextFacts DEF RInv, BodyInv
      <3>3. ASSUME ~head.lost PROVE Right'
        <4>1. Rest = <<>> /\ sent = Body(old)
          BY <1>6, <2>6, <3>3, RestSent DEF RInv, old
        <4>2. head.length <= Len(head.text) /\ (NoSep(old) => "out" \in ended)
          BY <2>6, <3>3 DEF RInv, BodyInv, Right, old
        <4>3. ASSUME NoSep(old) PROVE text = <<>>
          <5>1. read["out"] = written["out"] /\ read'["out"] = written["out"]
            BY <1>2, <4>2, <4>3 DEF IInv, EndedInv
          <5>2. old = old \o text
            BY <2>2, <5>1 DEF old
          <5> QED BY <1>1, <5>2, BeginsFacts
        <4>4. Body(old \o text) = Body(old) \o text /\ (NoSep(old \o text) => NoSep(old))
          BY <1>1, <4>3, BodyGrows
        <4>5. Rest' = <<>> /\ sent' \o <<>> = sent'
          BY <3>1, <3>2, <4>1, TextFacts DEF Rest
        <4> QED BY <1>2, <2>2, <3>1, <4>1, <4>2, <4>4, <4>5 DEF Right
      <3>4. BodyInv'
        BY <2>6, <3>1, <3>2, <3>3 DEF RInv, BodyInv
      <3>5. Running' /\ PollInv'
        BY <1>3, <2>1, <3>1 DEF Running, PollInv
      <3> QED BY <1>4, <2>6, <3>1, <3>4, <3>5 DEF RInv, HeadInv, DoneInv
    <2> QED BY <2>1, <2>3, <2>4, <2>5, <2>6
  <1> QED BY <1>5, <1>6 DEF Streams

\* A stream has ended: a head that is not complete has no end, or the body is
\* complete.
LEMMA FinishedResp ==
    ASSUME IInv, RInv, IInv', Allowed, NEW s \in Streams, NEW w, Finished(s, w),
           at \in {s, Decoding(s)}, s = "out" /\ pc = "body" => Len(head.text) <= head.length,
           kind = "fcgi" => (closed \/ Over) /\ read["err"] = written["err"],
           UNCHANGED kind
    PROVE  RInv'
  <1>1. ended' = ended \cup {s} /\ read' = read
    BY DEF Finished
  <1>2. None \notin {"out", "decode out"}
    BY GatewayAssumption DEF Streams
  <1>3. read["out"] \in Text
    BY DEF IInv, TypeInv, Streams
  <1>4. CASE s = "err"
    <2>1. at' = None
      BY <1>4 DEF Finished, Sleep
    <2>2. \/ stderr' = "logged" /\ UNCHANGED <<pc, head, sent>>
          \/ stderr' = stderr /\ pc' = "failed"
      BY <1>4 DEF Finished, Fails
    <2>3. StderrInv'
      BY <1>1, <1>4, <2>2, StderrKeeps DEF RInv
    <2>4. CASE UNCHANGED <<pc, head, sent>>
      BY <1>1, <1>2, <2>1, <2>3, <2>4, QuietResp
    <2>5. CASE pc' = "failed"
      BY <1>2, <2>1, <2>3, <2>5, LeavesResp
    <2> QED BY <2>2, <2>4, <2>5
  <1>5. CASE s = "out"
    <2>1. pc \in {"head", "body"}
      BY <1>5 DEF RInv, Running, Decoding
    <2>2. CASE pc = "head"
      <3> DEFINE t == read["out"]
      <3>1. head.text = t /\ sent = <<>> /\ NoSep(t)
        BY <2>2 DEF RInv, HeadInv
      <3>2. Respond(t, 0, FALSE, w)
        BY <1>5, <2>2, <3>1 DEF Finished
      <3>3. Body(t) = SubSeq(t, 0 + 1, Len(t)) /\ 0 <= Len(t)
        BY <1>3, <3>1, HeadEndIs, TextLen DEF Body
      <3> QED BY <1>1, <1>3, <1>5, <3>1, <3>2, <3>3, RespondResp
    <2>3. CASE pc = "body"
      <3>1. /\ pc' = "done" /\ at' = None /\ UNCHANGED <<head, sent>>
            /\ stderr' = stderr \/ (stderr' = "cancelled" /\ kind = "fcgi")
        BY <1>5, <2>3 DEF Finished, BodyEnds, StopStderr, Sleep
      <3>2. StderrInv'
        BY <1>1, <3>1, StderrKeeps DEF RInv
      <3>3. ~head.lost => sent = Body(read["out"])
        BY <1>5, <2>3, RestSent DEF RInv
      <3>4. kind = "fcgi" => (closed \/ Over)' /\ read'["err"] = written'["err"]
        BY CaughtUp DEF Streams
      <3>5. DoneInv'
        BY <1>1, <1>5, <3>1, <3>3, <3>4 DEF DoneInv
      <3> QED BY <1>2, <3>1, <3>2, <3>5 DEF RInv, Running, HeadInv, BodyInv, PollInv
    <2> QED BY <2>1, <2>2, <2>3
  <1> QED BY <1>4, <1>5 DEF Streams

-----------------------------------------------------------------------------
(***************************************************************************)
(* The steps.                                                              *)
(***************************************************************************)
\* A stream is polled only when what was read past the head is sent.
LEMMA PollingFacts ==
    ASSUME RInv, NEW s \in Streams, Polling(s)
    PROVE  at = s /\ (s = "out" /\ pc = "body" => Len(head.text) <= head.length)
  <1>1. at = s /\ ~Leftover
    BY DEF Polling
  <1>2. pc = "body" => Len(head.text) \in Nat /\ head.length \in Nat
    BY TextLen DEF RInv, BodyInv
  <1> QED BY <1>1, <1>2 DEF Leftover

LEMMA PipeReadResp ==
    ASSUME IInv, RInv, IInv', Allowed, NEW s \in Streams, PipeRead(s)
    PROVE  RInv'
  <1> DEFINE text == Texts(wire[s])
  <1>1. /\ kind # "fcgi" /\ Polling(s) /\ wire[s] # <<>> /\ Ready(s, text)
        /\ UNCHANGED <<kind, written>>
    BY DEF PipeRead, appVars
  <1>2. wire[s] \in Seq(PipeUnits) /\ Holds(wire[s], read[s], written[s])
    BY <1>1 DEF IInv, PipeInv
  <1>3. text \in Text
    BY <1>1, <1>2, HoldsAll
  <1> HIDE DEF text
  <1>4. at \in {s, Decoding(s)} /\ (s = "out" /\ pc = "body" => Len(head.text) <= head.length)
    BY <1>1, PollingFacts
  <1> QED BY <1>1, <1>3, <1>4, ReadyResp

LEMMA SplitTakeResp ==
    ASSUME IInv, RInv, IInv', Allowed, NEW s \in Streams, SplitTake(s)
    PROVE  RInv'
  <1> DEFINE text == buf[s]
  <1>1. Polling(s) /\ text # None /\ Ready(s, text) /\ UNCHANGED <<kind, written>>
    BY DEF SplitTake, appVars
  <1>2. text \in Text
    BY <1>1 DEF IInv, TypeInv
  <1> HIDE DEF text
  <1>3. at \in {s, Decoding(s)} /\ (s = "out" /\ pc = "body" => Len(head.text) <= head.length)
    BY <1>1, PollingFacts
  <1> QED BY <1>1, <1>2, <1>3, ReadyResp

LEMMA DecodeItemResp ==
    ASSUME IInv, RInv, IInv', Allowed, NEW s \in Streams, DecodeItem(s)
    PROVE  RInv'
  <1> DEFINE text == TextOf(dec.rec)
  <1>1. /\ at = Decoding(s) /\ dec.state = "content" /\ UNCHANGED <<kind, written>>
        /\ Ready(s, text) \/ Pending(s)
    BY DEF DecodeItem, appVars
  <1>2. text \in Text
    BY <1>1, RecordFacts DEF IInv, TypeInv
  <1> HIDE DEF text
  <1>3. s = "out" /\ pc = "body" => Len(head.text) <= head.length
    BY <1>1 DEF RInv, PollInv, Decoding
  <1>4. CASE Ready(s, text)
    BY <1>1, <1>2, <1>3, <1>4, ReadyResp
  <1>5. CASE Pending(s)
    BY <1>1, <1>5, PendingResp
  <1> QED BY <1>1, <1>4, <1>5

LEMMA PipeEndsResp ==
    ASSUME IInv, RInv, IInv', Allowed, NEW s \in Streams, PipeEnds(s)
    PROVE  RInv'
  <1>1. kind # "fcgi" /\ Polling(s) /\ Finished(s, woken) /\ UNCHANGED kind
    BY DEF PipeEnds, appVars
  <1>2. at \in {s, Decoding(s)} /\ (s = "out" /\ pc = "body" => Len(head.text) <= head.length)
    BY <1>1, PollingFacts
  <1> QED BY <1>1, <1>2, FinishedResp

LEMMA DecodeEndsResp ==
    ASSUME IInv, RInv, IInv', Allowed, NEW s \in Streams, DecodeEnds(s)
    PROVE  RInv'
  <1> DEFINE w == woken \cup Wake(waker[Other(s)])
  <1>1. /\ at = Decoding(s) /\ Finished(s, w) /\ UNCHANGED kind
        /\ dec.error \/ (dec.buf = <<>> /\ wire["out"] = <<>> /\ closed)
    BY DEF DecodeEnds, appVars
  <1> HIDE DEF w
  <1>2. (closed \/ Over) /\ read = written
    BY <1>1, DecoderDrained
  <1>3. s = "out" /\ pc = "body" => Len(head.text) <= head.length
    BY <1>1 DEF RInv, PollInv, Decoding
  <1> QED BY <1>1, <1>2, <1>3, FinishedResp

LEMMA RInvStep ==
    ASSUME IInv, RInv, [Next]_vars
    PROVE  RInv'
  <1>1. IInv' /\ Allowed
    BY IInvStep
  <1>2. CASE \/ Execute \/ Copy \/ CopyEnds \/ AppStep \/ ClientReads \/ ClientLeaves
             \/ \E t \in Tasks : Poll(t)
             \/ UNCHANGED vars
    BY <1>1, <1>2, IdleResp
  <1>3. CASE BodyLeftover
    BY <1>1, <1>3, LeftoverResp
  <1>4. ASSUME NEW s \in Streams, PipePending(s) \/ SplitWait(s) \/ DecodePending(s)
        PROVE  RInv'
    <2>1. Pending(s) /\ UNCHANGED kind
      BY <1>4 DEF PipePending, SplitWait, DecodePending, appVars
    <2> QED BY <1>1, <2>1, PendingResp
  <1>5. ASSUME NEW s \in Streams, PipeRead(s) \/ PipeEnds(s) \/ SplitTake(s) \/ SplitDecode(s)
        PROVE  RInv'
    BY <1>1, <1>5, PipeReadResp, PipeEndsResp, SplitTakeResp, SplitDecodeResp
  <1>6. ASSUME NEW s \in Streams, DecodeMore(s) \/ DecodeRead(s)
        PROVE  RInv'
    BY <1>1, <1>6, IdleResp
  <1>7. ASSUME NEW s \in Streams, DecodeItem(s) \/ DecodeEnds(s)
        PROVE  RInv'
    BY <1>1, <1>7, DecodeItemResp, DecodeEndsResp
  <1> QED BY <1>2, <1>3, <1>4, <1>5, <1>6, <1>7, Zenon DEF Next, Run

\* A response that came to its end has as its body exactly what the application
\* wrote after the head, for every application: get_head finds the separator
\* however the output is cut, what was read past it is sent first and once, and
\* the end of the body is seen only when all of the output was read.  By then
\* all of standard error was logged, or taken when its reader was cancelled.
THEOREM ResponseIntactAlways == Spec => []ResponseIntact
  <1>1. IInv /\ RInv /\ [Next]_vars => RInv'
    BY RInvStep
  <1>2. IInv /\ RInv => ResponseIntact
    <2> SUFFICES ASSUME IInv, RInv, pc = "done", ~head.lost
                 PROVE  /\ sent = Body(written["out"])
                        /\ stderr \notin {"reading", "cancelled", "none"} => read["err"] = written["err"]
      BY DEF ResponseIntact, Body
    <2>1. "out" \in ended /\ sent = Body(read["out"]) /\ (kind = "fcgi" => read["err"] = written["err"])
      BY DEF RInv, DoneInv
    <2>2. read["out"] = written["out"] /\ ("err" \in ended => read["err"] = written["err"])
      BY <2>1 DEF IInv, EndedInv
    <2>3. stderr \notin {"reading", "cancelled", "none"} => kind = "fcgi" \/ "err" \in ended
      BY DEF RInv, StderrInv
    <2> QED BY <2>1, <2>2, <2>3
  <1> QED BY RInvInit, IInvAlways, <1>1, <1>2, PTL DEF Spec
=============================================================================
