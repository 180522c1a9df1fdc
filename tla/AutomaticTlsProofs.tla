-------------------------- MODULE AutomaticTlsProofs --------------------------
(***************************************************************************)
(* What AutomaticTls promises, for any host blocks, clients and bounds:    *)
(* no domain is lost from the cache, no host has two ACME configurations,  *)
(* and the authority finds the challenge of an order answered.  The first  *)
(* holds for all host blocks, the others where OnDemandApart holds; the    *)
(* third but for configurations that a later block has overtaken.          *)
(*                                                                         *)
(* The set-up loop is a recursive function; SetUpDone says what it returns *)
(* by considering the first turn that would leave SetUpInv.  The steps are *)
(* those that make no configuration (Quiet), the receiver's and the        *)
(* adders', and the two that push configurations; a reload starts anew     *)
(* with the files.                                                         *)
(***************************************************************************)
EXTENDS AutomaticTls, SequenceTheorems, WellFoundedInduction, TLAPS

ClientHosts == {cl.host : cl \in Clients}

Fields == {"host", "port", "chal", "cache", "od", "key", "data", "ari", "account"}
HasFields(c) == DOMAIN c = Fields
IsSeq(s) == s \in Seq(Range(s))

-----------------------------------------------------------------------------
(***************************************************************************)
(* What SetUp leaves behind.                                               *)
(***************************************************************************)
SetUpFields == {"configs", "onDemand", "resolvers", "fallbacks", "senders", "lists", "alpn",
                "used", "auto"}

\* x was set up for the block s.
For(s, x) ==
    /\ Automatic(s)
    /\ x.host = s.host /\ x.port = Port(s) /\ x.chal = s.chal /\ x.cache = s.cache

Made(sl, n, x) == \E j \in 1..n : For(sl[j], x)
FromBlock(sl, n, x, onDemand) ==
    \E j \in 1..n : For(sl[j], x) /\ sl[j].onDemand = onDemand

ConfigsFrom(sl, n, st) ==
    /\ IsSeq(st.configs)
    /\ \A k \in DOMAIN st.configs :
          LET c == st.configs[k] IN
          /\ DOMAIN c = Fields /\ c.od = 0
          /\ FromBlock(sl, n, c, FALSE)
          /\ <<c.port, c.host>> \in st.auto

OnDemandFrom(sl, n, st) ==
    /\ IsSeq(st.onDemand)
    /\ \A k \in DOMAIN st.onDemand :
          LET od == st.onDemand[k] IN
          /\ FromBlock(sl, n, od, TRUE)
          /\ <<od.port, od.host>> \in st.auto

\* No two entries have one port and host.
Distinct(s) == \A i, j \in DOMAIN s : s[i].port = s[j].port /\ s[i].host = s[j].host => i = j

ListsOk(lists, alpn) ==
    /\ lists \in Seq(SUBSET Nat) /\ Len(lists) > 0
    /\ alpn \in [Ports -> Nat]
    /\ \A p \in Ports : alpn[p] # 0 => alpn[p] \in 2..Len(lists)
    /\ \A p, q \in Ports : alpn[p] # 0 /\ alpn[p] = alpn[q] => p = q

\* The list of a port has configurations of the port that use it.
ListsMembers(lists, alpn, configs) ==
    \A p \in Ports : alpn[p] # 0 =>
        \A j \in lists[alpn[p]] :
            j \in DOMAIN configs /\ configs[j].port = p /\ configs[j].chal = "tls-alpn-01"

\* The configurations for HTTP-01 are in the list for it.
HttpListed(lists, configs) ==
    \A i \in DOMAIN configs : configs[i].chal = "http-01" => i \in lists[1]

\* Those for TLS-ALPN-01 are in the list in use for their port, unless overtaken.
AlpnListed(lists, alpn, configs, onDemand) ==
    \A i \in DOMAIN configs :
        configs[i].chal = "tls-alpn-01" /\ ~Overtaken(onDemand, configs[i], i) =>
            alpn[configs[i].port] # 0 /\ i \in lists[alpn[configs[i].port]]

\* No later entry replaces the list of the k-th.
Latest(onDemand, k) ==
    \A m \in DOMAIN onDemand :
        k < m => ~(onDemand[m].port = onDemand[k].port /\ onDemand[m].chal = "tls-alpn-01")

\* The list l is for TLS-ALPN-01 on the port p, whether or not it is the one in use.
ListFor(lists, alpn, p, l) ==
    l \in 2..Len(lists) /\ \A q \in Ports : alpn[q] = l => q = p

\* The list that an on-demand configuration names.
ListRight(lists, alpn, onDemand, k) ==
    LET od == onDemand[k] IN
    CASE od.chal = "http-01" -> od.list = 1
      [] od.chal = "tls-alpn-01" -> /\ ListFor(lists, alpn, od.port, od.list)
                                    /\ Latest(onDemand, k) => od.list = alpn[od.port]
      [] OTHER -> od.list = 0

\* All of this, which keeps challenges answerable.
ListsInv(lists, alpn, configs, onDemand) ==
    /\ ListsOk(lists, alpn)
    /\ ListsMembers(lists, alpn, configs)
    /\ HttpListed(lists, configs)
    /\ AlpnListed(lists, alpn, configs, onDemand)
    /\ \A k \in DOMAIN onDemand : ListRight(lists, alpn, onDemand, k)

SetUpInv(sl, n, st) ==
    /\ DOMAIN st = SetUpFields
    /\ ConfigsFrom(sl, n, st) /\ OnDemandFrom(sl, n, st)
    /\ Distinct(st.configs) /\ Distinct(st.onDemand)
    /\ ListsInv(st.lists, st.alpn, st.configs, st.onDemand)

\* A set of naturals that is not empty has a least element.
LEMMA LeastOf ==
    ASSUME NEW T, T \subseteq Nat, T # {}
    PROVE  \E m \in T : \A k \in T : m <= k
  <1>1. PICK m \in T : \A k \in T : ~(<<k, m>> \in OpToRel(<, Nat))
    BY WFMin, NatLessThanWellFounded
  <1>2. \A k \in T : ~(k < m)
    BY <1>1 DEF OpToRel
  <1>3. \A k \in T : m <= k
    BY <1>2
  <1> QED BY <1>3

\* The elements of a sequence are its range.
LEMMA SeqFacts ==
    ASSUME NEW s, IsSeq(s)
    PROVE  Len(s) \in Nat /\ DOMAIN s = 1..Len(s)
  BY LenProperties DEF IsSeq

\* What Append makes of a sequence.
LEMMA AppendFacts ==
    ASSUME NEW s, IsSeq(s), NEW x
    PROVE  /\ IsSeq(Append(s, x)) /\ Len(Append(s, x)) = Len(s) + 1
           /\ DOMAIN Append(s, x) = 1..(Len(s) + 1)
           /\ \A i \in DOMAIN s : Append(s, x)[i] = s[i]
           /\ Append(s, x)[Len(s) + 1] = x
  <1> DEFINE S == Range(s) \cup {x}
             t == Append(s, x)
  <1>1. s \in Seq(S) /\ x \in S
    BY SeqFacts DEF IsSeq, Range
  <1>2. t \in Seq(S) /\ Len(t) = Len(s) + 1 /\ t[Len(s) + 1] = x /\ \A i \in 1..Len(s) : t[i] = s[i]
    BY <1>1, AppendProperties
  <1>3. Len(s) \in Nat /\ DOMAIN s = 1..Len(s) /\ DOMAIN t = 1..(Len(s) + 1)
    BY <1>2, SeqFacts, LenProperties
  <1>4. t \in Seq(Range(t))
    BY <1>2, <1>3 DEF Range
  <1> QED BY <1>2, <1>3, <1>4 DEF IsSeq

\* A host block of a list has the type the assumption gives it.
LEMMA BlockType ==
    ASSUME NEW sl \in SiteLists, NEW n \in 1..Len(sl)
    PROVE  /\ IsSeq(sl) /\ Len(sl) \in Nat /\ DOMAIN sl = 1..Len(sl)
           /\ sl[n] \in Sites /\ IsSite(sl[n])
           /\ Port(sl[n]) \in Ports
           /\ sl[n].host \in Hosts \cup {None}
  <1>1. IsSeq(sl)
    BY TlsAssumption DEF IsSeq
  <1>2. Len(sl) \in Nat /\ DOMAIN sl = 1..Len(sl)
    BY <1>1, SeqFacts
  <1>3. sl[n] \in Range(sl)
    BY <1>2 DEF Range
  <1>4. sl[n] \in Sites /\ IsSite(sl[n])
    BY <1>3, TlsAssumption DEF Sites
  <1>5. Port(sl[n]) \in Ports /\ sl[n].host \in Hosts \cup {None}
    BY <1>4 DEF Port, Ports, Hosts
  <1> QED BY <1>1, <1>2, <1>4, <1>5

\* What comes from the first blocks comes from more of them too.
LEMMA FromMore ==
    ASSUME NEW sl, NEW n \in Nat, NEW x, NEW b, FromBlock(sl, n - 1, x, b)
    PROVE  FromBlock(sl, n, x, b)
  BY DEF FromBlock

\* What is set up is on a port of the blocks.
LEMMA FromPorts ==
    ASSUME NEW sl \in SiteLists, NEW n \in Nat, n <= Len(sl), NEW x, Made(sl, n, x)
    PROVE  x.port \in Ports /\ x.host \in Hosts \cup {None} /\ x.chal \in Challenges
  <1>1. PICK j \in 1..n : For(sl[j], x)
    BY DEF Made
  <1>2. IsSeq(sl)
    BY TlsAssumption DEF IsSeq
  <1>3. j \in 1..Len(sl)
    BY <1>2, SeqFacts
  <1> QED BY <1>1, <1>3, BlockType DEF For, IsSite

\* Before the first block nothing is set up.
LEMMA SetUpFirst == ASSUME NEW sl PROVE SetUpInv(sl, 0, NothingSetUp)
  <1> DEFINE st == NothingSetUp
  <1>1. /\ DOMAIN st = SetUpFields /\ st.configs = <<>> /\ st.onDemand = <<>>
        /\ st.lists = <<{}>> /\ st.alpn = [p \in Ports |-> 0]
    BY DEF NothingSetUp, SetUpFields
  <1> HIDE DEF st
  <1>2. IsSeq(<<>>)
    BY DEF IsSeq, Range
  <1>3. ConfigsFrom(sl, 0, st) /\ OnDemandFrom(sl, 0, st) /\ Distinct(st.configs) /\ Distinct(st.onDemand)
    BY <1>1, <1>2 DEF ConfigsFrom, OnDemandFrom, Distinct
  <1>4. ListsOk(st.lists, st.alpn)
    BY <1>1 DEF ListsOk
  <1>5. ListsInv(st.lists, st.alpn, st.configs, st.onDemand)
    BY <1>1, <1>4 DEF ListsInv, ListsMembers, HttpListed, AlpnListed
  <1>6. SetUpInv(sl, 0, st)
    BY <1>1, <1>3, <1>5 DEF SetUpInv
  <1> QED BY <1>6 DEF st

\* A block that sets up nothing new.
LEMMA SetUpSkips ==
    ASSUME NEW sl, NEW n \in Nat, NEW st, SetUpInv(sl, n - 1, st),
           NEW t, DOMAIN t = SetUpFields, t.configs = st.configs, t.onDemand = st.onDemand,
           t.auto = st.auto, t.lists = st.lists, t.alpn = st.alpn
    PROVE  SetUpInv(sl, n, t)
  <1>1. ConfigsFrom(sl, n, t)
    BY FromMore DEF SetUpInv, ConfigsFrom
  <1>2. OnDemandFrom(sl, n, t)
    BY FromMore DEF SetUpInv, OnDemandFrom
  <1> QED BY <1>1, <1>2 DEF SetUpInv

\* A certificate of the block's own leaves configurations and lists alone.
LEMMA SetUpManualStep ==
    ASSUME NEW sl, NEW n \in Nat, NEW st, SetUpInv(sl, n - 1, st), NEW s
    PROVE  SetUpInv(sl, n, SetUpManual(st, s))
  <1> DEFINE t == SetUpManual(st, s)
  <1>1. DOMAIN st = SetUpFields
    BY DEF SetUpInv
  <1>2. /\ DOMAIN t = SetUpFields /\ t.configs = st.configs /\ t.onDemand = st.onDemand
        /\ t.auto = st.auto /\ t.lists = st.lists /\ t.alpn = st.alpn
    BY <1>1 DEF SetUpManual, SetUpFields
  <1> HIDE DEF t
  <1>3. SetUpInv(sl, n, t)
    BY <1>2, SetUpSkips
  <1> QED BY <1>3 DEF t

\* A list that was just made is no port's but the one it was made for.
LEMMA NewListFacts ==
    ASSUME NEW st, DOMAIN st = SetUpFields, NEW p \in Ports
    PROVE  LET t == NewList(st, p) IN
           /\ DOMAIN t = SetUpFields
           /\ t.lists = Append(st.lists, {})
           /\ t.alpn = [st.alpn EXCEPT ![p] = Len(st.lists) + 1]
           /\ t.configs = st.configs /\ t.onDemand = st.onDemand /\ t.auto = st.auto
           /\ t.senders = st.senders /\ t.resolvers = st.resolvers
  BY DEF NewList, SetUpFields

Renewed(lists, alpn, p, l, a) ==
    /\ l = Append(lists, {}) /\ a \in [Ports -> Nat] /\ a[p] = Len(lists) + 1
    /\ \A q \in Ports \ {p} : a[q] = alpn[q]

KeptElsewhere(lists, alpn, p, l, a) ==
    /\ a[p] # 0
    /\ \A q \in Ports \ {p} :
          a[q] = alpn[q] /\ (a[q] # 0 => \A j \in lists[alpn[q]] : j \in l[a[q]])

\* A new list for a port keeps the lists of all others.
LEMMA NewListOk ==
    ASSUME NEW lists, NEW alpn, NEW configs, NEW p \in Ports, NEW l, NEW a,
           ListsOk(lists, alpn), ListsMembers(lists, alpn, configs), HttpListed(lists, configs),
           Renewed(lists, alpn, p, l, a)
    PROVE  /\ ListsOk(l, a) /\ ListsMembers(l, a, configs) /\ HttpListed(l, configs)
           /\ KeptElsewhere(lists, alpn, p, l, a)
  <1>1. lists \in Seq(SUBSET Nat) /\ Len(lists) \in Nat /\ Len(lists) > 0 /\ alpn \in [Ports -> Nat]
    BY LenProperties DEF ListsOk
  <1>2. /\ l \in Seq(SUBSET Nat) /\ Len(l) = Len(lists) + 1 /\ l[Len(lists) + 1] = {}
        /\ \A i \in 1..Len(lists) : l[i] = lists[i]
    BY <1>1, AppendProperties DEF Renewed
  <1>3. a \in [Ports -> Nat] /\ a[p] = Len(lists) + 1 /\ \A q \in Ports \ {p} : a[q] = alpn[q]
    BY <1>1 DEF Renewed
  <1>4. \A q \in Ports \ {p} : a[q] # 0 => a[q] \in 2..Len(lists)
    BY <1>3 DEF ListsOk
  <1>5. \A q \in Ports \ {p} : a[q] # 0 => l[a[q]] = lists[alpn[q]]
    BY <1>1, <1>2, <1>3, <1>4
  <1>6. \A q, r \in Ports : a[q] # 0 /\ a[q] = a[r] => q = r
    <2> SUFFICES ASSUME NEW q \in Ports, NEW r \in Ports, a[q] # 0, a[q] = a[r] PROVE q = r
      OBVIOUS
    <2>1. CASE q = p \/ r = p
      BY <1>1, <1>3, <1>4, <2>1
    <2>2. CASE q # p /\ r # p
      BY <1>3, <2>2 DEF ListsOk
    <2> QED BY <2>1, <2>2
  <1>7. ListsOk(l, a)
    BY <1>1, <1>2, <1>3, <1>4, <1>6 DEF ListsOk
  <1>8. ListsMembers(l, a, configs)
    BY <1>2, <1>3, <1>5 DEF ListsMembers
  <1>9. l[1] = lists[1]
    BY <1>1, <1>2
  <1>10. HttpListed(l, configs)
    BY <1>9 DEF HttpListed
  <1>11. a[p] # 0
    BY <1>1, <1>3
  <1> QED BY <1>2, <1>3, <1>5, <1>7, <1>8, <1>10, <1>11 DEF KeptElsewhere

\* ... and is in use for no other port than before.
LEMMA NewListFor ==
    ASSUME NEW lists, NEW alpn, NEW p \in Ports, NEW l, NEW a, ListsOk(lists, alpn),
           Renewed(lists, alpn, p, l, a)
    PROVE  /\ ListFor(l, a, p, a[p])
           /\ \A q \in Ports : \A m : ListFor(lists, alpn, q, m) => ListFor(l, a, q, m)
  <1>1. lists \in Seq(SUBSET Nat) /\ Len(lists) \in Nat /\ Len(lists) > 0
    BY LenProperties DEF ListsOk
  <1>2. Len(l) = Len(lists) + 1
    BY <1>1, AppendProperties DEF Renewed
  <1>3. a[p] = Len(lists) + 1 /\ \A q \in Ports \ {p} : a[q] = alpn[q]
    BY DEF Renewed
  <1>4. \A q \in Ports \ {p} : a[q] # 0 => a[q] \in 2..Len(lists)
    BY <1>3 DEF ListsOk
  <1>5. ListFor(l, a, p, a[p])
    <2>1. a[p] \in 2..Len(l)
      BY <1>1, <1>2, <1>3
    <2>2. ASSUME NEW q \in Ports, a[q] = a[p] PROVE q = p
      BY <1>1, <1>3, <1>4, <2>2
    <2> QED BY <2>1, <2>2 DEF ListFor
  <1>6. ASSUME NEW q \in Ports, NEW m, ListFor(lists, alpn, q, m) PROVE ListFor(l, a, q, m)
    <2>1. m \in 2..Len(lists) /\ \A o \in Ports : alpn[o] = m => o = q
      BY <1>6 DEF ListFor
    <2>2. m \in 2..Len(l)
      BY <1>1, <1>2, <2>1
    <2>3. ASSUME NEW o \in Ports, a[o] = m PROVE o = q
      <3>1. o # p
        BY <1>1, <1>3, <2>1, <2>3
      <3> QED BY <1>3, <2>1, <2>3, <3>1
    <2> QED BY <2>2, <2>3 DEF ListFor
  <1> QED BY <1>5, <1>6

\* Configurations are added for a port and a challenge ...
Extended(configs, more, new, p, chal) ==
    /\ \A i \in DOMAIN configs : /\ i \in DOMAIN more /\ configs[i].port \in Ports
                                 /\ more[i].port = configs[i].port /\ more[i].chal = configs[i].chal
                                 /\ more[i].od = configs[i].od
    /\ \A i \in DOMAIN more : i \in DOMAIN configs \/ i \in new
    /\ \A i \in new : i \in Nat /\ i \in DOMAIN more /\ more[i].port = p /\ more[i].chal = chal

\* ... that uses the list l ...
Uses(lists, alpn, p, chal, l) ==
    /\ chal = "http-01" => l = 1
    /\ chal = "tls-alpn-01" => ListFor(lists, alpn, p, l)
    /\ chal = "dns-01" => l = 0

\* ... which is the one in use, unless they are all overtaken ...
InUse(alpn, p, chal, l, onDemand, more, new) ==
    chal = "tls-alpn-01" /\ l # alpn[p] => \A i \in new : Overtaken(onDemand, more[i], i)

\* ... and entered in it.
LEMMA RegisterOk ==
    ASSUME NEW lists, NEW alpn, NEW configs, NEW more, NEW p \in Ports, NEW chal \in Challenges,
           NEW l, NEW new, NEW ls, NEW onDemand,
           ListsOk(lists, alpn), ListsMembers(lists, alpn, configs), HttpListed(lists, configs),
           AlpnListed(lists, alpn, configs, onDemand),
           Extended(configs, more, new, p, chal), Uses(lists, alpn, p, chal, l),
           InUse(alpn, p, chal, l, onDemand, more, new),
           ls = Register(lists, l, new)
    PROVE  /\ ListsOk(ls, alpn) /\ ListsMembers(ls, alpn, more)
           /\ HttpListed(ls, more) /\ AlpnListed(ls, alpn, more, onDemand)
  <1>1. lists \in Seq(SUBSET Nat) /\ Len(lists) \in Nat /\ Len(lists) > 0 /\ DOMAIN lists = 1..Len(lists)
    BY LenProperties DEF ListsOk
  <1>2. \A q \in Ports : alpn[q] # 0 => alpn[q] \in 2..Len(lists)
    BY DEF ListsOk
  <1>3. l = 0 \/ l \in 1..Len(lists)
    BY <1>1, <1>2 DEF Challenges, Uses, ListFor
  <1>4. /\ ls \in Seq(SUBSET Nat) /\ Len(ls) = Len(lists)
        /\ \A k \in 1..Len(lists) : ls[k] = IF k = l THEN lists[k] \cup new ELSE lists[k]
    <2>1. CASE l = 0
      BY <1>1, <2>1 DEF Register
    <2>2. CASE l \in 1..Len(lists)
      <3>1. l # 0
        BY <1>1, <2>2
      <3>2. ls = [lists EXCEPT ![l] = lists[l] \cup new]
        BY <3>1 DEF Register
      <3>3. lists[l] \cup new \in SUBSET Nat
        BY <1>1, <2>2, ElementOfSeq DEF Extended
      <3>4. ls \in Seq(SUBSET Nat) /\ Len(ls) = Len(lists) /\ ls[l] = lists[l] \cup new
        BY <1>1, <2>2, <3>2, <3>3, ExceptSeq
      <3>5. \A k \in 1..Len(lists) : ls[k] = IF k = l THEN lists[k] \cup new ELSE lists[k]
        BY <1>1, <2>2, <3>2
      <3> QED BY <3>4, <3>5
    <2> QED BY <1>3, <2>1, <2>2
  <1>5. ListsOk(ls, alpn)
    BY <1>4 DEF ListsOk
  <1>6. ListsMembers(ls, alpn, more)
    <2> SUFFICES ASSUME NEW q \in Ports, alpn[q] # 0, NEW j \in ls[alpn[q]]
                 PROVE  j \in DOMAIN more /\ more[j].port = q /\ more[j].chal = "tls-alpn-01"
      BY DEF ListsMembers
    <2>1. alpn[q] \in 2..Len(lists)
      BY <1>2
    <2> DEFINE k == alpn[q]
    <2>0. k \in 1..Len(lists)
      BY <1>1, <2>1
    <2> HIDE DEF k
    <2>2. ls[k] = IF k = l THEN lists[k] \cup new ELSE lists[k]
      BY <1>4, <2>0
    <2>3. CASE j \in lists[alpn[q]]
      <3>1. j \in DOMAIN configs /\ configs[j].port = q /\ configs[j].chal = "tls-alpn-01"
        BY <2>3 DEF ListsMembers, k
      <3> QED BY <3>1 DEF Extended
    <2>4. CASE alpn[q] = l /\ j \in new
      <3>1. chal = "tls-alpn-01"
        BY <2>1, <2>4, <1>1 DEF Challenges, Uses
      <3>2. p = q
        BY <2>4, <3>1 DEF Uses, ListFor
      <3> QED BY <2>4, <3>1, <3>2 DEF Extended
    <2> QED BY <2>2, <2>3, <2>4 DEF k
  <1>7. HttpListed(ls, more)
    <2> SUFFICES ASSUME NEW i \in DOMAIN more, more[i].chal = "http-01" PROVE i \in ls[1]
      BY DEF HttpListed
    <2>1. ls[1] = IF 1 = l THEN lists[1] \cup new ELSE lists[1]
      <3>1. 1 \in 1..Len(lists)
        BY <1>1
      <3> QED BY <1>4, <3>1
    <2>2. CASE i \in DOMAIN configs
      BY <2>1, <2>2 DEF HttpListed, Extended
    <2>3. CASE i \in new
      BY <2>1, <2>3 DEF Extended, Uses
    <2> QED BY <2>2, <2>3 DEF Extended
  <1>8. AlpnListed(ls, alpn, more, onDemand)
    <2> SUFFICES ASSUME NEW i \in DOMAIN more, more[i].chal = "tls-alpn-01",
                        ~Overtaken(onDemand, more[i], i)
                 PROVE  alpn[more[i].port] # 0 /\ i \in ls[alpn[more[i].port]]
      BY DEF AlpnListed
    <2>1. \A q \in Ports : alpn[q] # 0 =>
              ls[alpn[q]] = IF alpn[q] = l THEN lists[alpn[q]] \cup new ELSE lists[alpn[q]]
      <3> SUFFICES ASSUME NEW q \in Ports, alpn[q] # 0
                   PROVE  ls[alpn[q]] = IF alpn[q] = l THEN lists[alpn[q]] \cup new ELSE lists[alpn[q]]
        OBVIOUS
      <3> DEFINE k == alpn[q]
      <3>1. k \in 1..Len(lists)
        BY <1>1, <1>2
      <3> HIDE DEF k
      <3>2. ls[k] = IF k = l THEN lists[k] \cup new ELSE lists[k]
        BY <1>4, <3>1
      <3> QED BY <3>2 DEF k
    <2>2. CASE i \in DOMAIN configs
      <3>0. configs[i].chal = "tls-alpn-01" /\ ~Overtaken(onDemand, configs[i], i)
        BY <2>2 DEF Extended, Overtaken
      <3>1. alpn[configs[i].port] # 0 /\ i \in lists[alpn[configs[i].port]]
        BY <2>2, <3>0 DEF AlpnListed
      <3> QED BY <2>1, <2>2, <3>1 DEF Extended
    <2>3. CASE i \in new
      <3>1. more[i].port = p /\ chal = "tls-alpn-01"
        BY <2>3 DEF Extended
      <3>2. l = alpn[p] /\ l \in 2..Len(lists)
        BY <2>3, <3>1 DEF Uses, ListFor, InUse
      <3>3. alpn[p] # 0
        BY <1>1, <3>2
      <3> QED BY <2>1, <2>3, <3>1, <3>2, <3>3
    <2> QED BY <2>2, <2>3 DEF Extended
  <1> QED BY <1>5, <1>6, <1>7, <1>8

\* No list is made or dropped.
LEMMA RegisterLen ==
    ASSUME NEW lists \in Seq(SUBSET Nat), NEW l, NEW new
    PROVE  Len(Register(lists, l, new)) = Len(lists)
  <1>1. DOMAIN lists = 1..Len(lists) /\ Len(lists) \in Nat
    BY LenProperties
  <1>2. DOMAIN Register(lists, l, new) = DOMAIN lists
    BY DEF Register
  <1>3. CASE l \in DOMAIN lists \/ l = 0
    BY <1>1, <1>3, ExceptSeq DEF Register
  <1> QED BY <1>1, <1>2, <1>3 DEF Register

\* A block with TLS on demand gets an entry, and a new list with TLS-ALPN-01.
LEMMA SetUpOnDemandStep ==
    ASSUME NEW sl \in SiteLists, NEW n \in 1..Len(sl), NEW st, SetUpInv(sl, n - 1, st),
           Automatic(sl[n]), sl[n].onDemand, <<Port(sl[n]), sl[n].host>> \notin st.auto
    PROVE  SetUpInv(sl, n, SetUpOnDemand(st, sl[n]))
  <1> DEFINE s == sl[n]
             p == Port(s)
             t == SetUpOnDemand(st, s)
             st1 == IF s.chal = "tls-alpn-01" THEN NewList(st, p) ELSE st
             od == [host |-> s.host, port |-> p, chal |-> s.chal, cache |-> s.cache,
                    after |-> Len(st.configs), list |-> ListOf(st1, s.chal, p)]
  <1>1. p \in Ports /\ s.host \in Hosts \cup {None} /\ IsSite(s) /\ n \in Nat
    BY BlockType
  <1>2. DOMAIN st = SetUpFields
    BY DEF SetUpInv
  <1>3. /\ DOMAIN st1 = SetUpFields /\ st1.configs = st.configs /\ st1.onDemand = st.onDemand
        /\ st1.auto = st.auto
    BY <1>1, <1>2, NewListFacts
  <1>4. t = [st1 EXCEPT !.senders = @ \cup {p}, !.auto = @ \cup {<<p, s.host>>},
                        !.onDemand = Append(@, od)]
    BY DEF SetUpOnDemand
  <1>5. /\ od.host = s.host /\ od.port = p /\ od.chal = s.chal /\ od.cache = s.cache
        /\ od.list = ListOf(st1, s.chal, p) /\ od.after = Len(st.configs)
    OBVIOUS
  <1> HIDE DEF t, st1, p
  <1>6. /\ DOMAIN t = SetUpFields /\ t.configs = st.configs /\ t.onDemand = Append(st.onDemand, od)
        /\ t.auto = st.auto \cup {<<p, s.host>>} /\ t.lists = st1.lists /\ t.alpn = st1.alpn
    BY <1>3, <1>4 DEF SetUpFields
  <1>7. ConfigsFrom(sl, n, t)
    BY <1>1, <1>6, FromMore DEF SetUpInv, ConfigsFrom
  <1>8. For(s, od) /\ FromBlock(sl, n, od, TRUE)
    <2>1. For(s, od)
      BY <1>5 DEF For, p
    <2>2. s.onDemand = TRUE
      BY <1>1 DEF IsSite
    <2> QED BY <1>1, <2>1, <2>2 DEF FromBlock
  <1> HIDE DEF od
  <1>9. IsSeq(st.onDemand) /\ IsSeq(t.onDemand) /\ DOMAIN t.onDemand = DOMAIN st.onDemand \cup {Len(st.onDemand) + 1}
        /\ (\A k \in DOMAIN st.onDemand : t.onDemand[k] = st.onDemand[k])
        /\ t.onDemand[Len(st.onDemand) + 1] = od
    <2>1. IsSeq(st.onDemand)
      BY DEF SetUpInv, OnDemandFrom
    <2> QED BY <2>1, <1>6, AppendFacts, SeqFacts
  <1>10. OnDemandFrom(sl, n, t)
    <2> SUFFICES ASSUME NEW k \in DOMAIN t.onDemand
                 PROVE  /\ FromBlock(sl, n, t.onDemand[k], TRUE)
                        /\ <<t.onDemand[k].port, t.onDemand[k].host>> \in t.auto
      BY <1>9 DEF OnDemandFrom
    <2>1. CASE k \in DOMAIN st.onDemand
      <3>1. /\ FromBlock(sl, n - 1, st.onDemand[k], TRUE)
            /\ <<st.onDemand[k].port, st.onDemand[k].host>> \in st.auto
        BY <2>1 DEF SetUpInv, OnDemandFrom
      <3> QED BY <1>1, <1>6, <1>9, <2>1, <3>1, FromMore
    <2>2. CASE k = Len(st.onDemand) + 1
      BY <1>5, <1>6, <1>8, <1>9, <2>2
    <2> QED BY <1>9, <2>1, <2>2
  <1>11. \A k \in DOMAIN st.onDemand : ~(st.onDemand[k].port = p /\ st.onDemand[k].host = s.host)
    BY DEF SetUpInv, OnDemandFrom, p
  <1>12. Distinct(t.onDemand)
    <2>1. Distinct(st.onDemand)
      BY DEF SetUpInv
    <2> QED BY <1>5, <1>9, <1>11, <2>1 DEF Distinct
  <1>0. /\ \A k \in DOMAIN st.configs : Made(sl, n - 1, st.configs[k])
        /\ \A k \in DOMAIN st.onDemand : Made(sl, n - 1, st.onDemand[k])
    BY DEF SetUpInv, ConfigsFrom, OnDemandFrom, FromBlock, Made
  <1>01. n - 1 \in Nat /\ n - 1 <= Len(sl)
    BY BlockType
  <1>02. /\ \A k \in DOMAIN st.configs : st.configs[k].port \in Ports
         /\ \A k \in DOMAIN st.onDemand : st.onDemand[k].port \in Ports
    BY <1>0, <1>01, FromPorts
  <1>03. /\ Len(st.onDemand) \in Nat /\ DOMAIN st.onDemand = 1..Len(st.onDemand)
         /\ Len(st.configs) \in Nat /\ DOMAIN st.configs = 1..Len(st.configs)
         /\ \A i \in DOMAIN st.configs : st.configs[i].od = 0
    BY <1>9, SeqFacts DEF SetUpInv, ConfigsFrom
  <1>04. \A i \in DOMAIN st.configs : Overtaken(st.onDemand, st.configs[i], i) =>
             Overtaken(t.onDemand, st.configs[i], i)
    BY <1>9 DEF Overtaken
  <1>05. \A k \in DOMAIN st.onDemand : Latest(t.onDemand, k) => Latest(st.onDemand, k)
    BY <1>9 DEF Latest
  <1>13. ListsInv(t.lists, t.alpn, t.configs, t.onDemand)
    <2>1. /\ ListsOk(st.lists, st.alpn) /\ ListsMembers(st.lists, st.alpn, st.configs)
          /\ HttpListed(st.lists, st.configs)
          /\ AlpnListed(st.lists, st.alpn, st.configs, st.onDemand)
          /\ \A k \in DOMAIN st.onDemand : ListRight(st.lists, st.alpn, st.onDemand, k)
      BY DEF SetUpInv, ListsInv
    <2>2. CASE s.chal = "tls-alpn-01"
      <3>1. t.lists = Append(st.lists, {}) /\ t.alpn = [st.alpn EXCEPT ![p] = Len(st.lists) + 1]
        <4>1. st1.lists = Append(st.lists, {}) /\ st1.alpn = [st.alpn EXCEPT ![p] = Len(st.lists) + 1]
          BY <1>1, <1>2, <2>2, NewListFacts DEF st1
        <4> QED BY <1>6, <4>1
      <3>2. Renewed(st.lists, st.alpn, p, t.lists, t.alpn)
        <4>1. Len(st.lists) \in Nat /\ st.alpn \in [Ports -> Nat]
          BY <2>1, LenProperties DEF ListsOk
        <4>2. /\ t.alpn \in [Ports -> Nat] /\ t.alpn[p] = Len(st.lists) + 1
              /\ \A q \in Ports \ {p} : t.alpn[q] = st.alpn[q]
          BY <1>1, <3>1, <4>1
        <4> QED BY <3>1, <4>2 DEF Renewed
      <3>3. /\ ListsOk(t.lists, t.alpn) /\ ListsMembers(t.lists, t.alpn, st.configs)
            /\ HttpListed(t.lists, st.configs)
            /\ KeptElsewhere(st.lists, st.alpn, p, t.lists, t.alpn)
        BY <1>1, <2>1, <3>2, NewListOk
      <3>4. /\ ListFor(t.lists, t.alpn, p, t.alpn[p])
            /\ \A q \in Ports : \A m : ListFor(st.lists, st.alpn, q, m) => ListFor(t.lists, t.alpn, q, m)
        BY <1>1, <2>1, <3>2, NewListFor
      <3>5. AlpnListed(t.lists, t.alpn, st.configs, t.onDemand)
        <4> SUFFICES ASSUME NEW i \in DOMAIN st.configs, st.configs[i].chal = "tls-alpn-01",
                            ~Overtaken(t.onDemand, st.configs[i], i)
                     PROVE  t.alpn[st.configs[i].port] # 0 /\ i \in t.lists[t.alpn[st.configs[i].port]]
          BY DEF AlpnListed
        <4>1. st.alpn[st.configs[i].port] # 0 /\ i \in st.lists[st.alpn[st.configs[i].port]]
          BY <1>04, <2>1 DEF AlpnListed
        <4>2. st.configs[i].port # p
          <5>1. i <= od.after /\ st.configs[i].od = 0
            BY <1>03, <1>5
          <5> QED BY <1>5, <1>9, <2>2, <5>1 DEF Overtaken
        <4>3. st.configs[i].port \in Ports \ {p}
          BY <1>02, <4>2
        <4> QED BY <3>3, <4>1, <4>3 DEF KeptElsewhere
      <3>6. ASSUME NEW k \in DOMAIN t.onDemand PROVE ListRight(t.lists, t.alpn, t.onDemand, k)
        <4>1. CASE k \in DOMAIN st.onDemand
          <5> DEFINE o == st.onDemand[k]
          <5>1. ListRight(st.lists, st.alpn, st.onDemand, k) /\ o.port \in Ports /\ t.onDemand[k] = o
            BY <1>02, <1>9, <2>1, <4>1
          <5>2. CASE o.chal = "tls-alpn-01"
            <6>1. ListFor(t.lists, t.alpn, o.port, o.list)
              BY <3>4, <5>1, <5>2 DEF ListRight
            <6>2. ASSUME Latest(t.onDemand, k) PROVE o.list = t.alpn[o.port]
              <7>1. o.port # p
                <8>1. k < Len(st.onDemand) + 1 /\ Len(st.onDemand) + 1 \in DOMAIN t.onDemand
                  BY <1>03, <1>9, <4>1
                <8> QED BY <1>5, <1>9, <2>2, <5>1, <6>2, <8>1 DEF Latest
              <7>2. o.list = st.alpn[o.port]
                BY <1>05, <4>1, <5>1, <5>2, <6>2 DEF ListRight
              <7> QED BY <3>3, <5>1, <7>1, <7>2 DEF KeptElsewhere
            <6> QED BY <5>1, <5>2, <6>1, <6>2 DEF ListRight
          <5>3. CASE o.chal # "tls-alpn-01"
            BY <5>1, <5>3 DEF ListRight
          <5> QED BY <5>2, <5>3
        <4>2. CASE k = Len(st.onDemand) + 1
          <5>1. od.list = t.alpn[p]
            BY <1>5, <1>6, <2>2 DEF ListOf
          <5> QED BY <1>5, <1>9, <2>2, <3>4, <4>2, <5>1 DEF ListRight
        <4> QED BY <1>9, <4>1, <4>2
      <3> QED BY <1>6, <3>3, <3>5, <3>6 DEF ListsInv
    <2>3. CASE s.chal # "tls-alpn-01"
      <3>1. t.lists = st.lists /\ t.alpn = st.alpn
        BY <1>6, <2>3 DEF st1
      <3>2. AlpnListed(t.lists, t.alpn, st.configs, t.onDemand)
        BY <1>04, <2>1, <3>1 DEF AlpnListed
      <3>3. ASSUME NEW k \in DOMAIN t.onDemand PROVE ListRight(t.lists, t.alpn, t.onDemand, k)
        <4>1. CASE k \in DOMAIN st.onDemand
          BY <1>05, <1>9, <2>1, <3>1, <4>1 DEF ListRight
        <4>2. CASE k = Len(st.onDemand) + 1
          <5>1. od.list = IF s.chal = "http-01" THEN 1 ELSE 0
            BY <1>5, <2>3 DEF ListOf
          <5> QED BY <1>5, <1>9, <2>3, <4>2, <5>1 DEF ListRight
        <4> QED BY <1>9, <4>1, <4>2
      <3> QED BY <1>6, <2>1, <3>1, <3>2, <3>3 DEF ListsInv
    <2> QED BY <2>2, <2>3
  <1>14. Distinct(t.configs)
    BY <1>6 DEF SetUpInv
  <1>15. SetUpInv(sl, n, t)
    BY <1>6, <1>7, <1>10, <1>12, <1>13, <1>14 DEF SetUpInv
  <1> QED BY <1>15 DEF t

\* A block with automatic TLS gets a configuration, entered in its list.
LEMMA SetUpHostStep ==
    ASSUME NEW sl \in SiteLists, NEW n \in 1..Len(sl), NEW st, SetUpInv(sl, n - 1, st),
           Automatic(sl[n]), ~sl[n].onDemand, <<Port(sl[n]), sl[n].host>> \notin st.auto
    PROVE  SetUpInv(sl, n, SetUpHost(st, sl[n]))
  <1> DEFINE s == sl[n]
             p == Port(s)
             t == SetUpHost(st, s)
             i == Len(st.configs) + 1
             fresh == s.chal = "tls-alpn-01" /\ st.alpn[p] = 0
             st1 == IF fresh THEN NewList(st, p) ELSE st
             c == NewConfig(s.host, p, s.chal, s.cache, 0)
  <1>1. p \in Ports /\ s.host \in Hosts \cup {None} /\ IsSite(s) /\ n \in Nat
    BY BlockType
  <1>2. DOMAIN st = SetUpFields
    BY DEF SetUpInv
  <1>3. /\ DOMAIN st1 = SetUpFields /\ st1.configs = st.configs /\ st1.onDemand = st.onDemand
        /\ st1.auto = st.auto
    BY <1>1, <1>2, NewListFacts
  <1>4. t = [st1 EXCEPT !.configs = Append(@, c),
                        !.lists = Register(@, ListOf(st1, s.chal, p), {i}),
                        !.resolvers = load_host_resolver(@, s.host, p, i),
                        !.auto = @ \cup {<<p, s.host>>}]
    BY DEF SetUpHost
  <1>5. /\ DOMAIN c = Fields /\ c.host = s.host /\ c.port = p /\ c.chal = s.chal /\ c.cache = s.cache
        /\ c.od = 0
    BY DEF NewConfig, Fields
  <1> HIDE DEF t, st1, p, c
  <1>6. /\ DOMAIN t = SetUpFields /\ t.configs = Append(st.configs, c) /\ t.onDemand = st.onDemand
        /\ t.auto = st.auto \cup {<<p, s.host>>} /\ t.alpn = st1.alpn
        /\ t.lists = Register(st1.lists, ListOf(st1, s.chal, p), {i})
    BY <1>3, <1>4 DEF SetUpFields
  <1>7. OnDemandFrom(sl, n, t)
    BY <1>1, <1>6, FromMore DEF SetUpInv, OnDemandFrom
  <1>8. FromBlock(sl, n, c, FALSE)
    <2>1. For(s, c)
      BY <1>5 DEF For, p
    <2>2. s.onDemand = FALSE
      BY <1>1 DEF IsSite
    <2> QED BY <1>1, <2>1, <2>2 DEF FromBlock
  <1>9. /\ IsSeq(t.configs) /\ Len(st.configs) \in Nat /\ DOMAIN st.configs = 1..Len(st.configs)
        /\ DOMAIN t.configs = DOMAIN st.configs \cup {i}
        /\ (\A k \in DOMAIN st.configs : t.configs[k] = st.configs[k])
        /\ t.configs[i] = c
    <2>1. IsSeq(st.configs)
      BY DEF SetUpInv, ConfigsFrom
    <2> QED BY <2>1, <1>6, AppendFacts, SeqFacts
  <1> HIDE DEF i
  <1>10. ConfigsFrom(sl, n, t)
    <2> SUFFICES ASSUME NEW k \in DOMAIN t.configs
                 PROVE  /\ DOMAIN t.configs[k] = Fields /\ t.configs[k].od = 0
                        /\ FromBlock(sl, n, t.configs[k], FALSE)
                        /\ <<t.configs[k].port, t.configs[k].host>> \in t.auto
      BY <1>9 DEF ConfigsFrom
    <2>1. CASE k \in DOMAIN st.configs
      <3>1. /\ DOMAIN st.configs[k] = Fields /\ st.configs[k].od = 0
            /\ FromBlock(sl, n - 1, st.configs[k], FALSE)
            /\ <<st.configs[k].port, st.configs[k].host>> \in st.auto
        BY <2>1 DEF SetUpInv, ConfigsFrom
      <3> QED BY <1>1, <1>6, <1>9, <2>1, <3>1, FromMore
    <2>2. CASE k = i
      BY <1>5, <1>6, <1>8, <1>9, <2>2
    <2> QED BY <1>9, <2>1, <2>2
  <1>11. \A k \in DOMAIN st.configs : ~(st.configs[k].port = p /\ st.configs[k].host = s.host)
    BY DEF SetUpInv, ConfigsFrom, p
  <1>12. Distinct(t.configs)
    <2>1. Distinct(st.configs)
      BY DEF SetUpInv
    <2> QED BY <1>5, <1>9, <1>11, <2>1 DEF Distinct
  <1>13. \A k \in DOMAIN st.configs : st.configs[k].port \in Ports
    <2>1. \A k \in DOMAIN st.configs : Made(sl, n - 1, st.configs[k])
      BY DEF SetUpInv, ConfigsFrom, FromBlock, Made
    <2>2. n - 1 \in Nat /\ n - 1 <= Len(sl)
      BY BlockType
    <2> QED BY <2>1, <2>2, FromPorts
  <1>14. ListsInv(t.lists, t.alpn, t.configs, t.onDemand)
    <2>1. /\ ListsOk(st.lists, st.alpn) /\ ListsMembers(st.lists, st.alpn, st.configs)
          /\ HttpListed(st.lists, st.configs)
          /\ AlpnListed(st.lists, st.alpn, st.configs, st.onDemand)
          /\ \A k \in DOMAIN st.onDemand : ListRight(st.lists, st.alpn, st.onDemand, k)
      BY DEF SetUpInv, ListsInv
    <2>2. /\ ListsOk(st1.lists, st1.alpn) /\ ListsMembers(st1.lists, st1.alpn, st.configs)
          /\ HttpListed(st1.lists, st.configs)
          /\ AlpnListed(st1.lists, st1.alpn, st.configs, st.onDemand)
          /\ \A k \in DOMAIN st.onDemand : ListRight(st1.lists, st1.alpn, st.onDemand, k)
          /\ s.chal = "tls-alpn-01" => st1.alpn[p] # 0
      <3>1. CASE ~fresh
        BY <2>1, <3>1 DEF st1
      <3>2. CASE fresh
        <4>1. st1.lists = Append(st.lists, {}) /\ st1.alpn = [st.alpn EXCEPT ![p] = Len(st.lists) + 1]
          BY <1>1, <1>2, <3>2, NewListFacts DEF st1
        <4>2. Len(st.lists) \in Nat /\ st.alpn \in [Ports -> Nat]
          BY <2>1, LenProperties DEF ListsOk
        <4>3. /\ st1.alpn \in [Ports -> Nat] /\ st1.alpn[p] = Len(st.lists) + 1
              /\ \A q \in Ports \ {p} : st1.alpn[q] = st.alpn[q]
          BY <1>1, <4>1, <4>2
        <4>4. Renewed(st.lists, st.alpn, p, st1.lists, st1.alpn)
          BY <4>1, <4>3 DEF Renewed
        <4>5. /\ ListsOk(st1.lists, st1.alpn) /\ ListsMembers(st1.lists, st1.alpn, st.configs)
              /\ HttpListed(st1.lists, st.configs)
              /\ KeptElsewhere(st.lists, st.alpn, p, st1.lists, st1.alpn)
          BY <1>1, <2>1, <4>4, NewListOk
        <4>6. \A q \in Ports : \A m : ListFor(st.lists, st.alpn, q, m) => ListFor(st1.lists, st1.alpn, q, m)
          BY <1>1, <2>1, <4>4, NewListFor
        <4>7. AlpnListed(st1.lists, st1.alpn, st.configs, st.onDemand)
          BY <1>13, <2>1, <3>2, <4>5 DEF AlpnListed, KeptElsewhere
        <4>8. ASSUME NEW k \in DOMAIN st.onDemand
              PROVE  ListRight(st1.lists, st1.alpn, st.onDemand, k)
          <5> DEFINE o == st.onDemand[k]
          <5>1. ListRight(st.lists, st.alpn, st.onDemand, k)
            BY <2>1
          <5>2. FromBlock(sl, n - 1, o, TRUE)
            BY DEF SetUpInv, OnDemandFrom
          <5>3. Made(sl, n - 1, o)
            BY <5>2 DEF FromBlock, Made
          <5>4. o.port \in Ports
            BY <5>3, BlockType, FromPorts
          <5>5. CASE o.chal = "tls-alpn-01"
            <6>1. ListFor(st.lists, st.alpn, o.port, o.list)
              BY <5>1, <5>5 DEF ListRight
            <6>2. ASSUME Latest(st.onDemand, k) PROVE o.list = st1.alpn[o.port]
              <7>1. o.list = st.alpn[o.port] /\ o.list # 0
                BY <5>1, <5>5, <6>1, <6>2 DEF ListRight, ListFor
              <7>2. o.port # p
                BY <3>2, <7>1
              <7> QED BY <4>5, <5>4, <7>1, <7>2 DEF KeptElsewhere
            <6> QED BY <4>6, <5>4, <5>5, <6>1, <6>2 DEF ListRight
          <5>6. CASE o.chal # "tls-alpn-01"
            BY <5>1, <5>6 DEF ListRight
          <5> QED BY <5>5, <5>6
        <4> QED BY <4>5, <4>7, <4>8 DEF KeptElsewhere
      <3> QED BY <3>1, <3>2
    <2> DEFINE l == ListOf(st1, s.chal, p)
    <2>3. /\ Uses(st1.lists, st1.alpn, p, s.chal, l)
          /\ InUse(st1.alpn, p, s.chal, l, st.onDemand, t.configs, {i})
      <3>1. s.chal = "tls-alpn-01" => ListFor(st1.lists, st1.alpn, p, st1.alpn[p])
        BY <1>1, <2>2 DEF ListsOk, ListFor
      <3> QED BY <3>1 DEF ListOf, Uses, InUse
    <2>4. s.chal \in Challenges /\ {i} \in SUBSET Nat
      BY <1>1, <1>9 DEF IsSite, i
    <2> HIDE DEF l
    <2> DEFINE new == {i}
    <2>5. Extended(st.configs, t.configs, new, p, s.chal)
      <3>1. st.configs = st1.configs /\ \A k \in DOMAIN st.configs : t.configs[k].od = st.configs[k].od
        BY <1>3, <1>9
      <3> QED BY <1>5, <1>9, <1>13, <2>4, <3>1 DEF Extended
    <2>6. t.lists = Register(st1.lists, l, new)
      BY <1>6 DEF l
    <2>06. InUse(st1.alpn, p, s.chal, l, st.onDemand, t.configs, new)
      BY <2>3
    <2> HIDE DEF new
    <2>7. /\ ListsOk(t.lists, t.alpn) /\ ListsMembers(t.lists, t.alpn, t.configs)
          /\ HttpListed(t.lists, t.configs)
          /\ AlpnListed(t.lists, t.alpn, t.configs, st.onDemand)
      BY <1>1, <1>6, <2>2, <2>3, <2>4, <2>5, <2>6, <2>06, RegisterOk
    <2>8. Len(t.lists) = Len(st1.lists)
      <3>1. st1.lists \in Seq(SUBSET Nat)
        BY <2>2 DEF ListsOk
      <3> QED BY <2>6, <3>1, RegisterLen
    <2>9. \A k \in DOMAIN st.onDemand : ListRight(t.lists, t.alpn, st.onDemand, k)
      BY <1>6, <2>2, <2>8 DEF ListRight, ListFor
    <2> QED BY <1>6, <2>7, <2>9 DEF ListsInv
  <1>15. Distinct(t.onDemand)
    BY <1>6 DEF SetUpInv
  <1>16. SetUpInv(sl, n, t)
    BY <1>6, <1>7, <1>10, <1>12, <1>14, <1>15 DEF SetUpInv
  <1> QED BY <1>16 DEF t

\* One turn of the set-up loop.
LEMMA SetUpNext ==
    ASSUME NEW sl \in SiteLists, NEW n \in 1..Len(sl), NEW st, SetUpInv(sl, n - 1, st)
    PROVE  SetUpInv(sl, n, SetUpSite(st, sl[n]))
  <1> DEFINE s == sl[n]
             other == s.manual /\ s.auto # "on"
             skip == ~AutoTls(s) \/ <<Port(s), s.host>> \in st.auto \/ Unsupported(s)
  <1>1. n \in Nat
    BY BlockType
  <1>2. CASE other
    <2>1. SetUpSite(st, s) = SetUpManual(st, s)
      BY <1>2 DEF SetUpSite
    <2> QED BY <1>1, <2>1, SetUpManualStep
  <1>3. CASE ~other /\ skip
    <2>1. SetUpSite(st, s) = st
      BY <1>3 DEF SetUpSite
    <2>2. DOMAIN st = SetUpFields
      BY DEF SetUpInv
    <2> QED BY <1>1, <2>1, <2>2, SetUpSkips
  <1>4. CASE ~other /\ ~skip
    <2>1. Automatic(s) /\ <<Port(s), s.host>> \notin st.auto
      BY <1>4 DEF Automatic
    <2>2. SetUpSite(st, s) = IF s.onDemand THEN SetUpOnDemand(st, s) ELSE SetUpHost(st, s)
      BY <1>4 DEF SetUpSite
    <2> QED BY <2>1, <2>2, SetUpOnDemandStep, SetUpHostStep
  <1> QED BY <1>2, <1>3, <1>4

\* The loop over the host blocks.
LEMMA SetUpDone ==
    ASSUME NEW sl \in SiteLists
    PROVE  SetUpInv(sl, Len(sl), SetUp(sl))
  <1> DEFINE N == Len(sl)
             Rec(m, f) == f = [i \in 0..m |-> IF i = 0 THEN NothingSetUp ELSE SetUpSite(f[i - 1], sl[i])]
  <1>1. N \in Nat
    BY TlsAssumption, SeqFacts DEF IsSeq
  <1>2. \E f : Rec(N, f)
    <2> DEFINE T == {m \in 0..N : ~\E f : Rec(m, f)}
    <2> SUFFICES T = {}
      BY <1>1
    <2> SUFFICES ASSUME T # {} PROVE FALSE
      OBVIOUS
    <2>1. PICK m \in T : \A k \in T : m <= k
      <3>1. T \subseteq Nat
        BY <1>1
      <3> HIDE DEF T
      <3> QED BY <3>1, LeastOf
    <2>2. m \in Nat /\ m <= N /\ ~\E f : Rec(m, f)
      BY <1>1, <2>1
    <2>3. CASE m = 0
      <3> DEFINE f == [i \in 0..0 |-> NothingSetUp]
      <3>1. Rec(0, f)
        OBVIOUS
      <3> QED BY <2>2, <2>3, <3>1
    <2>4. CASE m # 0
      <3>1. m - 1 \in 0..N /\ m - 1 \notin T
        <4> HIDE DEF T
        <4>1. m - 1 \in 0..N /\ ~(m <= m - 1)
          BY <1>1, <2>2, <2>4
        <4> QED BY <2>1, <4>1
      <3>2. PICK f : Rec(m - 1, f)
        BY <3>1
      <3>3. \A i \in 0..(m - 1) : f[i] = IF i = 0 THEN NothingSetUp ELSE SetUpSite(f[i - 1], sl[i])
        BY <3>2
      <3> DEFINE g == [i \in 0..m |-> IF i = m THEN SetUpSite(f[m - 1], sl[m]) ELSE f[i]]
      <3>4. \A i \in 0..m : g[i] = IF i = 0 THEN NothingSetUp ELSE SetUpSite(g[i - 1], sl[i])
        <4> SUFFICES ASSUME NEW i \in 0..m
                     PROVE  g[i] = IF i = 0 THEN NothingSetUp ELSE SetUpSite(g[i - 1], sl[i])
          OBVIOUS
        <4>1. CASE i = m
          <5>1. g[m] = SetUpSite(f[m - 1], sl[m]) /\ g[m - 1] = f[m - 1]
            BY <2>2, <2>4
          <5> QED BY <2>4, <4>1, <5>1
        <4>2. CASE i = 0
          <5>1. 0 \in 0..(m - 1) /\ 0 \in 0..m
            BY <2>2, <2>4
          <5>2. g[0] = f[0] /\ f[0] = NothingSetUp
            BY <2>4, <3>3, <5>1
          <5> QED BY <4>2, <5>2
        <4>3. CASE i # m /\ i # 0
          <5>1. i \in 0..(m - 1) /\ i - 1 \in 0..m /\ i - 1 # m
            BY <2>2, <4>3
          <5>2. g[i] = f[i] /\ g[i - 1] = f[i - 1]
            BY <4>3, <5>1
          <5>3. f[i] = SetUpSite(f[i - 1], sl[i])
            BY <3>3, <4>3, <5>1
          <5> QED BY <4>3, <5>2, <5>3
        <4> QED BY <4>1, <4>2, <4>3
      <3>5. Rec(m, g)
        <4>1. g = [i \in 0..m |-> g[i]]
          OBVIOUS
        <4> HIDE DEF g
        <4> QED BY <3>4, <4>1
      <3> QED BY <2>2, <3>5
    <2> QED BY <2>3, <2>4
  <1>3. SetUp(sl) = (CHOOSE f : Rec(N, f))[N]
    BY DEF SetUp
  <1>4. PICK f : Rec(N, f) /\ SetUp(sl) = f[N]
    BY <1>2, <1>3
  <1>5. \A i \in 0..N : f[i] = IF i = 0 THEN NothingSetUp ELSE SetUpSite(f[i - 1], sl[i])
    BY <1>4
  <1> DEFINE B == {i \in 0..N : ~SetUpInv(sl, i, f[i])}
  <1>6. B = {}
    <2> SUFFICES ASSUME B # {} PROVE FALSE
      OBVIOUS
    <2>1. PICK m \in B : \A k \in B : m <= k
      <3>1. B \subseteq Nat
        BY <1>1
      <3> HIDE DEF B
      <3> QED BY <3>1, LeastOf
    <2>2. m \in 0..N /\ ~SetUpInv(sl, m, f[m])
      BY <2>1
    <2>3. CASE m = 0
      <3>1. f[0] = NothingSetUp
        BY <1>5, <2>2, <2>3
      <3> QED BY <2>2, <2>3, <3>1, SetUpFirst
    <2>4. CASE m # 0
      <3>1. m - 1 \in 0..N /\ ~(m <= m - 1) /\ m \in 1..N
        BY <1>1, <2>2, <2>4
      <3>2. SetUpInv(sl, m - 1, f[m - 1])
        BY <2>1, <3>1
      <3>3. f[m] = SetUpSite(f[m - 1], sl[m])
        BY <1>5, <2>2, <2>4
      <3>4. SetUpInv(sl, m, SetUpSite(f[m - 1], sl[m]))
        BY <3>1, <3>2, SetUpNext
      <3> QED BY <2>2, <3>3, <3>4
    <2> QED BY <2>3, <2>4
  <1>7. N \in 0..N
    BY <1>1
  <1> QED BY <1>4, <1>6, <1>7

-----------------------------------------------------------------------------
(***************************************************************************)
(* The inductive invariant, for any host blocks.                           *)
(***************************************************************************)
HostType == [labels : Seq(STRING), wild : BOOLEAN]

\* The entries for TLS on demand.
TlsInv ==
    /\ DOMAIN tls = SetUpFields
    /\ IsSeq(tls.onDemand)
    /\ \A k \in DOMAIN tls.onDemand :
          /\ tls.onDemand[k].port \in Ports /\ tls.onDemand[k].host \in Hosts \cup {None}
          /\ tls.onDemand[k].chal \in Challenges

FileOf(k) == NameFileOf(tls.onDemand[k])

\* A configuration made on demand: from which entry, and that its host is in the
\* file if it has one.
OnDemandConfig(c) ==
    /\ c.od \in DOMAIN tls.onDemand
    /\ c.port = tls.onDemand[c.od].port /\ c.chal = tls.onDemand[c.od].chal
    /\ c.cache = tls.onDemand[c.od].cache
    /\ \E l \in ClientHosts :
          /\ c.host = Exact(l) /\ match_hostname(tls.onDemand[c.od].host, l)
          /\ c.cache => l \in Range(nameFile[FileOf(c.od)])

ConfigInv(c) ==
    /\ HasFields(c)
    /\ c.host \in Hosts /\ c.host \in HostType /\ c.port \in Ports /\ c.chal \in Challenges
    /\ c.od = 0 \/ OnDemandConfig(c)

AcmeInv == IsSeq(acme) /\ \A i \in DOMAIN acme : ConfigInv(acme[i])

FileInv ==
    /\ nameFile \in [OnDemandNames -> Seq(ClientHosts)]
    /\ \A f \in OnDemandNames : \A l \in Range(nameFile[f]) : match_hostname(f[2], l)

\* An adder that writes has read what is still in the file; one that pushes has
\* written.
AdderInv(a) ==
    /\ DOMAIN a = {"host", "od", "pc", "names"}
    /\ a.host \in ClientHosts /\ a.od \in DOMAIN tls.onDemand
    /\ match_hostname(tls.onDemand[a.od].host, a.host)
    /\ a.pc \in {"lock", "write", "push"}
    /\ a.pc = "write" => a.names = nameFile[FileOf(a.od)]
    /\ a.pc = "push" /\ tls.onDemand[a.od].cache => a.host \in Range(nameFile[FileOf(a.od)])

\* One adder at a time has the mutex.
LockInv ==
    /\ lock = None => \A a \in adders : a.pc # "write"
    /\ \A a, b \in adders : a.pc = "write" /\ b.pc = "write" => a = b

Asked == {<<cl.host, cl.port>> : cl \in Clients}

TurnInv == turn \in Nat /\ (pc # "idle" => turn \in DOMAIN acme)

IInv ==
    /\ TlsInv /\ AcmeInv /\ FileInv
    /\ \A a \in adders : AdderInv(a)
    /\ LockInv /\ TurnInv
    /\ queue \in Seq(Asked)

(***************************************************************************)
(* What is added where OnDemandApart holds.                                *)
(***************************************************************************)
\* A host has one entry on demand, and no configuration of its own beside it.
Apart ==
    \A k \in DOMAIN tls.onDemand : \A l \in ClientHosts :
        match_hostname(tls.onDemand[k].host, l) =>
            /\ \A m \in DOMAIN tls.onDemand :
                  tls.onDemand[m].port = tls.onDemand[k].port /\ match_hostname(tls.onDemand[m].host, l) => m = k
            /\ \A i \in DOMAIN acme :
                  acme[i].od = 0 /\ acme[i].port = tls.onDemand[k].port => acme[i].host # Exact(l)

\* What was loaded, and what is being added, is in existing_combinations.
Loaded ==
    /\ boot \in Nat
    /\ \A i \in DOMAIN acme : acme[i].od # 0 =>
          <<acme[i].host.labels, acme[i].port>> \in existing /\ (Booted \/ acme[i].od < boot)
    /\ \A k \in DOMAIN tls.onDemand : k < boot /\ tls.onDemand[k].cache =>
          \A l \in Range(nameFile[FileOf(k)]) : <<l, tls.onDemand[k].port>> \in existing
    /\ ~Booted => adders = {}

\* An adder is the only one for its host, which has no configuration yet and is
\* not in the file before the adder has written it.
Adding(a) ==
    LET od == tls.onDemand[a.od] IN
    /\ <<a.host, od.port>> \in existing
    /\ \A i \in DOMAIN acme : ~(acme[i].port = od.port /\ acme[i].host = Exact(a.host))
    /\ \A b \in adders : b.host = a.host /\ tls.onDemand[b.od].port = od.port => b = a
    /\ a.pc # "push" /\ od.cache => a.host \notin Range(nameFile[FileOf(a.od)])

FilesDistinct ==
    \A f \in OnDemandNames : \A i, j \in DOMAIN nameFile[f] : nameFile[f][i] = nameFile[f][j] => i = j

UInv ==
    /\ Apart /\ Loaded /\ FilesDistinct /\ OneConfigPerHost
    /\ \A a \in adders : Adding(a)

(***************************************************************************)
(* What is added about challenges.                                         *)
(***************************************************************************)
\* The challenge of an order is prepared.
Prepared ==
    pc = "validate" =>
        /\ acme[turn].data \in Nat \X Nat
        /\ acme[turn].chal = "dns-01" => txt[acme[turn].host.labels] = acme[turn].data

RecordNames == DOMAIN txt = {h.labels : h \in Hosts}

VInv ==
    /\ ListsInv(tls.lists, tls.alpn, acme, tls.onDemand)
    /\ \A i \in DOMAIN acme : acme[i].chal = "tls-alpn-01" => ~acme[i].host.wild
    /\ RecordNames
    /\ Prepared

-----------------------------------------------------------------------------
(***************************************************************************)
(* The start of a generation.                                              *)
(***************************************************************************)
\* What the start of a generation has in common with a restart.
Fresh(sl, t, configs) == sl \in SiteLists /\ t = SetUp(sl) /\ configs = SetUp(sl).configs

\* What is known of the entries and configurations a generation starts with.
LEMMA FreshFacts ==
    ASSUME NEW sl, NEW t, NEW configs, Fresh(sl, t, configs)
    PROVE  /\ DOMAIN t = SetUpFields /\ IsSeq(t.onDemand) /\ IsSeq(configs)
           /\ \A k \in DOMAIN t.onDemand :
                 /\ t.onDemand[k].port \in Ports /\ t.onDemand[k].host \in Hosts \cup {None}
                 /\ t.onDemand[k].chal \in Challenges
                 /\ FromBlock(sl, Len(sl), t.onDemand[k], TRUE)
           /\ \A i \in DOMAIN configs :
                 /\ HasFields(configs[i]) /\ configs[i].od = 0
                 /\ configs[i].host \in Hosts /\ configs[i].host \in HostType
                 /\ configs[i].port \in Ports /\ configs[i].chal \in Challenges
                 /\ configs[i].chal = "tls-alpn-01" => ~configs[i].host.wild
                 /\ FromBlock(sl, Len(sl), configs[i], FALSE)
           /\ Distinct(configs) /\ Distinct(t.onDemand)
           /\ ListsInv(t.lists, t.alpn, configs, t.onDemand)
  <1>1. sl \in SiteLists /\ SetUpInv(sl, Len(sl), t) /\ configs = t.configs
    BY SetUpDone DEF Fresh
  <1>2. Len(sl) \in Nat /\ Len(sl) <= Len(sl)
    BY <1>1, TlsAssumption, SeqFacts DEF IsSeq
  <1>3. ASSUME NEW k \in DOMAIN t.onDemand
        PROVE  /\ t.onDemand[k].port \in Ports /\ t.onDemand[k].host \in Hosts \cup {None}
               /\ t.onDemand[k].chal \in Challenges
               /\ FromBlock(sl, Len(sl), t.onDemand[k], TRUE)
    <2>1. FromBlock(sl, Len(sl), t.onDemand[k], TRUE)
      BY <1>1 DEF SetUpInv, OnDemandFrom
    <2>2. Made(sl, Len(sl), t.onDemand[k])
      BY <2>1 DEF FromBlock, Made
    <2> QED BY <1>1, <1>2, <2>1, <2>2, FromPorts
  <1>4. ASSUME NEW i \in DOMAIN configs
        PROVE  /\ HasFields(configs[i]) /\ configs[i].od = 0
               /\ configs[i].host \in Hosts /\ configs[i].host \in HostType
               /\ configs[i].port \in Ports /\ configs[i].chal \in Challenges
               /\ configs[i].chal = "tls-alpn-01" => ~configs[i].host.wild
               /\ FromBlock(sl, Len(sl), configs[i], FALSE)
    <2> DEFINE c == configs[i]
    <2>1. DOMAIN c = Fields /\ c.od = 0 /\ FromBlock(sl, Len(sl), c, FALSE)
      BY <1>1 DEF SetUpInv, ConfigsFrom
    <2> HIDE DEF c
    <2>2. Made(sl, Len(sl), c)
      BY <2>1 DEF FromBlock, Made
    <2>3. c.port \in Ports /\ c.host \in Hosts \cup {None} /\ c.chal \in Challenges
      BY <1>1, <1>2, <2>2, FromPorts
    <2>4. PICK j \in 1..Len(sl) : For(sl[j], c) /\ sl[j].onDemand = FALSE
      BY <2>1 DEF FromBlock
    <2>5. IsSite(sl[j]) /\ c.host = sl[j].host /\ c.chal = sl[j].chal /\ ~Unsupported(sl[j])
      BY <1>1, <2>4, BlockType DEF For, Automatic
    <2>6. c.host # None /\ (c.chal = "tls-alpn-01" => ~c.host.wild)
      BY <2>4, <2>5 DEF Unsupported
    <2>7. c.host \in HostType
      BY <2>5, <2>6 DEF IsSite, HostType
    <2> QED BY <2>1, <2>3, <2>6, <2>7 DEF c, HasFields
  <1> QED BY <1>1, <1>3, <1>4 DEF SetUpInv, ConfigsFrom, OnDemandFrom

FreshState ==
    /\ \E sl : Fresh(sl, tls, acme)
    /\ boot = 0 /\ turn = 0 /\ pc = "idle" /\ queue = <<>> /\ adders = {} /\ lock = None
    /\ FileInv

\* A generation starts with the invariant ...
LEMMA FreshInv == FreshState => IInv
  <1> SUFFICES ASSUME FreshState PROVE IInv
    OBVIOUS
  <1>0. PICK sl : Fresh(sl, tls, acme)
    BY DEF FreshState
  <1>1. TlsInv
    BY <1>0, FreshFacts DEF TlsInv
  <1>2. AcmeInv
    <2>1. IsSeq(acme)
      BY <1>0, FreshFacts
    <2>2. ASSUME NEW i \in DOMAIN acme PROVE ConfigInv(acme[i])
      <3>1. HasFields(acme[i])
        BY <1>0, FreshFacts
      <3>2. acme[i].od = 0 /\ acme[i].host \in Hosts /\ acme[i].host \in HostType
        BY <1>0, FreshFacts
      <3>3. acme[i].port \in Ports /\ acme[i].chal \in Challenges
        BY <1>0, FreshFacts
      <3> QED BY <3>1, <3>2, <3>3 DEF ConfigInv
    <2> QED BY <2>1, <2>2 DEF AcmeInv
  <1>3. LockInv /\ TurnInv
    BY DEF LockInv, TurnInv, FreshState
  <1>4. queue \in Seq(Asked)
    BY DEF FreshState
  <1>5. FileInv /\ \A a \in adders : AdderInv(a)
    BY DEF FreshState
  <1> QED BY <1>1, <1>2, <1>3, <1>4, <1>5 DEF IInv

\* ... with what OnDemandApart adds to it ...
LEMMA FreshApart == FreshState /\ FilesDistinct /\ OnDemandApart => UInv
  <1> SUFFICES ASSUME FreshState, FilesDistinct, OnDemandApart PROVE UInv
    OBVIOUS
  <1>0. PICK sl : Fresh(sl, tls, acme)
    BY DEF FreshState
  <1>00. \A i \in DOMAIN acme : FromBlock(sl, Len(sl), acme[i], FALSE)
    <2> SUFFICES ASSUME NEW i \in DOMAIN acme PROVE FromBlock(sl, Len(sl), acme[i], FALSE)
      OBVIOUS
    <2> QED BY <1>0, FreshFacts, Zenon
  <1>1. Apart
    <2> SUFFICES ASSUME NEW k \in DOMAIN tls.onDemand, NEW l \in ClientHosts,
                        match_hostname(tls.onDemand[k].host, l)
                 PROVE  /\ \A m \in DOMAIN tls.onDemand :
                              tls.onDemand[m].port = tls.onDemand[k].port
                                  /\ match_hostname(tls.onDemand[m].host, l) => m = k
                        /\ \A i \in DOMAIN acme :
                              acme[i].od = 0 /\ acme[i].port = tls.onDemand[k].port => acme[i].host # Exact(l)
      BY DEF Apart
    <2>1. PICK cl \in Clients : l = cl.host
      BY DEF ClientHosts
    <2>2. sl \in SiteLists
      BY <1>0 DEF Fresh
    <2>3. DOMAIN sl = 1..Len(sl)
      BY <2>2, TlsAssumption, SeqFacts DEF IsSeq
    <2>4. PICK a \in DOMAIN sl : For(sl[a], tls.onDemand[k]) /\ sl[a].onDemand = TRUE
      BY <1>0, <2>3, FreshFacts DEF FromBlock
    <2>5. ASSUME NEW m \in DOMAIN tls.onDemand, tls.onDemand[m].port = tls.onDemand[k].port,
                 match_hostname(tls.onDemand[m].host, l)
          PROVE  m = k
      <3>1. PICK b \in DOMAIN sl : For(sl[b], tls.onDemand[m]) /\ sl[b].onDemand = TRUE
        BY <1>0, <2>3, <2>5, FreshFacts DEF FromBlock
      <3>2. sl[b].host = sl[a].host
        BY <2>1, <2>2, <2>4, <2>5, <3>1 DEF OnDemandApart, For
      <3>3. Distinct(tls.onDemand)
        BY <1>0, FreshFacts
      <3> QED BY <2>4, <2>5, <3>1, <3>2, <3>3 DEF Distinct, For
    <2>6. ASSUME NEW i \in DOMAIN acme, acme[i].od = 0, acme[i].port = tls.onDemand[k].port
          PROVE  acme[i].host # Exact(l)
      <3>1. PICK b \in DOMAIN sl : For(sl[b], acme[i]) /\ sl[b].onDemand = FALSE
        BY <1>00, <2>3, <2>6 DEF FromBlock
      <3>2. sl[b].host # Exact(cl.host)
        BY <2>1, <2>2, <2>4, <2>6, <3>1 DEF OnDemandApart, For
      <3> QED BY <2>1, <3>1, <3>2 DEF For
    <2> QED BY <2>5, <2>6
  <1>2. Loaded
    <2>1. \A i \in DOMAIN acme : acme[i].od = 0
      BY <1>0, FreshFacts
    <2>2. \A k \in DOMAIN tls.onDemand : ~(k < 0)
      BY <1>0, FreshFacts, SeqFacts
    <2> QED BY <2>1, <2>2 DEF Loaded, FreshState
  <1>3. OneConfigPerHost
    BY <1>0, FreshFacts DEF OneConfigPerHost, Distinct
  <1> QED BY <1>1, <1>2, <1>3 DEF UInv, FreshState

\* ... and with what is added about challenges.
LEMMA FreshLists == FreshState /\ RecordNames => VInv
  <1> SUFFICES ASSUME FreshState, RecordNames PROVE VInv
    OBVIOUS
  <1>0. PICK sl : Fresh(sl, tls, acme)
    BY DEF FreshState
  <1>1. ListsInv(tls.lists, tls.alpn, acme, tls.onDemand)
    BY <1>0, FreshFacts
  <1>2. \A i \in DOMAIN acme : acme[i].chal = "tls-alpn-01" => ~acme[i].host.wild
    BY <1>0, FreshFacts
  <1> QED BY <1>1, <1>2 DEF VInv, Prepared, FreshState

\* The files are empty at first.
LEMMA FilesFirst ==
    ASSUME nameFile = [n \in OnDemandNames |-> <<>>]
    PROVE  FileInv /\ FilesDistinct
  BY DEF FileInv, FilesDistinct, Range

\* The initial states.
LEMMA InitInv ==
    ASSUME Init
    PROVE  IInv /\ (OnDemandApart => UInv) /\ VInv
  <1>1. FileInv /\ FilesDistinct
    BY FilesFirst DEF Init
  <1>2. FreshState /\ RecordNames
    BY <1>1 DEF Init, Fresh, FreshState, RecordNames
  <1> QED BY <1>1, <1>2, FreshInv, FreshApart, FreshLists

\* The same of the state after a step.
LEMMA FreshNext ==
    /\ FreshState' => IInv'
    /\ FreshState' /\ FilesDistinct' /\ OnDemandApart => UInv'
    /\ FreshState' /\ RecordNames' => VInv'
  <1>1. FreshState' => IInv'
    BY FreshInv, PTL
  <1>2. FreshState' /\ FilesDistinct' /\ OnDemandApart' => UInv'
    BY FreshApart, PTL
  <1>3. FreshState' /\ RecordNames' => VInv'
    BY FreshLists, PTL
  <1> QED BY <1>1, <1>2, <1>3

\* A reload or a crash: a fresh generation with the files of the one before.
LEMMA RestartStep ==
    ASSUME IInv, Restart
    PROVE  IInv' /\ (OnDemandApart /\ UInv => UInv') /\ (VInv => VInv')
  <1>1. \E sl : Fresh(sl, tls', acme')
    BY DEF Restart, Fresh
  <1>2. nameFile' = nameFile /\ txt' = txt
    BY DEF Restart, disk
  <1>3. FileInv' /\ (UInv => FilesDistinct')
    BY <1>2 DEF IInv, UInv, FileInv, FilesDistinct
  <1>4. adders' = {} /\ lock' = None /\ queue' = <<>> /\ boot' = 0 /\ turn' = 0 /\ pc' = "idle"
    BY DEF Restart
  <1>5. FreshState'
    BY <1>1, <1>3, <1>4 DEF FreshState
  <1>6. VInv => RecordNames'
    BY <1>2 DEF VInv, RecordNames
  <1> QED BY <1>3, <1>5, <1>6, FreshNext

-----------------------------------------------------------------------------
(***************************************************************************)
(* Steps that make no configuration and touch no adder.                    *)
(***************************************************************************)
\* What no step changes in a configuration.
Same(c, d) ==
    /\ HasFields(d) /\ d.host = c.host /\ d.port = c.port /\ d.chal = c.chal
    /\ d.cache = c.cache /\ d.od = c.od

KeptConfigs(s, t) == IsSeq(t) /\ DOMAIN t = DOMAIN s /\ \A i \in DOMAIN s : Same(s[i], t[i])

Quiet ==
    /\ UNCHANGED <<tls, existing, adders, lock, nameFile>>
    /\ KeptConfigs(acme, acme')
    /\ queue' \in Seq(Asked) /\ TurnInv'
    /\ \/ boot' = boot
       \/ boot = 0 /\ boot' = 1
    /\ DOMAIN txt' = DOMAIN txt
    /\ (RecordNames /\ Prepared) => Prepared'

\* One configuration takes the place of another.
Replaced(s, i, d, t) == t = [s EXCEPT ![i] = d]

\* Changing every configuration in what may change keeps them.
LEMMA MappedConfigs ==
    ASSUME NEW s, NEW t, IsSeq(s), DOMAIN t = DOMAIN s, t = [i \in DOMAIN t |-> t[i]],
           \A i \in DOMAIN s : Same(s[i], t[i])
    PROVE  KeptConfigs(s, t)
  <1>1. Len(s) \in Nat /\ DOMAIN t = 1..Len(s)
    BY SeqFacts
  <1>2. IsSeq(t)
    <2>1. t \in [1..Len(s) -> Range(t)]
      BY <1>1 DEF Range
    <2> QED BY <1>1, <2>1 DEF IsSeq
  <1> QED BY <1>2 DEF KeptConfigs

\* So does changing one of them.
LEMMA ReplacedConfigs ==
    ASSUME NEW s, NEW i \in DOMAIN s, NEW d, NEW t, IsSeq(s),
           \A j \in DOMAIN s : HasFields(s[j]), Replaced(s, i, d, t), Same(s[i], d)
    PROVE  KeptConfigs(s, t) /\ t[i] = d
  <1>1. DOMAIN t = DOMAIN s /\ t = [j \in DOMAIN t |-> t[j]]
    BY DEF Replaced
  <1>2. t[i] = d /\ \A j \in DOMAIN s : j # i => t[j] = s[j]
    BY DEF Replaced
  <1>3. \A j \in DOMAIN s : Same(s[j], t[j])
    BY <1>2 DEF Same
  <1> QED BY <1>1, <1>2, <1>3, MappedConfigs

\* Installing a cached certificate changes neither a configuration's settings nor its challenge data.
LEMMA InstalledSame ==
    ASSUME NEW c, HasFields(c)
    PROVE  Same(c, Installed(c)) /\ Installed(c).data = c.data
  BY DEF Installed, HasFields, Fields, Same

\* Nor does checking the certificate change the settings.
LEMMA CheckedSame ==
    ASSUME NEW c, HasFields(c), NEW r \in Checked(c)
    PROVE  Same(c, r.c)
  <1>1. \A q \in CheckedLive(c) : Same(c, q.c)
    BY DEF CheckedLive, HasFields, Fields, Same
  <1>2. ASSUME NEW d, Same(c, d) PROVE \A q \in CheckedCached(d) : Same(c, q.c)
    <2> SUFFICES ASSUME NEW q \in CheckedCached(d) PROVE Same(c, q.c)
      OBVIOUS
    <2>1. CASE CachedCert(d) = None
      BY <1>2, <2>1 DEF CheckedCached
    <2>2. CASE CachedCert(d) # None
      <3> DEFINE Got(a) == LET ok == check_certificate_validity(CachedCert(d), a)
                           IN [ok |-> ok, c |-> [d EXCEPT !.ari = a, !.key = IF ok THEN CachedCert(d) ELSE @]]
      <3>0. \E a : q = Got(a)
        <4> HIDE DEF Got
        <4>1. CheckedCached(d) = {Got(a) : a \in AriOutcomes(d.ari, CachedCert(d), clock - RetryAfter)}
          BY <2>2 DEF CheckedCached, Got
        <4> QED BY <4>1
      <3>1. PICK a : q = Got(a)
        BY <3>0
      <3> DEFINE k == IF check_certificate_validity(CachedCert(d), a) THEN CachedCert(d) ELSE d.key
      <3>2. q.c = [d EXCEPT !.ari = a, !.key = k]
        BY <3>1
      <3> HIDE DEF k, Got
      <3> QED BY <1>2, <3>2 DEF HasFields, Fields, Same
    <2> QED BY <2>1, <2>2
  <1> QED BY <1>1, <1>2 DEF Checked

\* The configurations are a sequence of records.
LEMMA AcmeFields == ASSUME AcmeInv PROVE IsSeq(acme) /\ \A i \in DOMAIN acme : HasFields(acme[i])
  BY DEF AcmeInv, ConfigInv

\* Leaving all configurations alone keeps them.
LEMMA UnchangedConfigs == ASSUME AcmeInv PROVE KeptConfigs(acme, acme)
  BY AcmeFields DEF KeptConfigs, Same

\* The next turn is that of a configuration, and prepares nothing.
LEMMA NextConfigTurn ==
    ASSUME IInv, NextConfig, DOMAIN acme' = DOMAIN acme
    PROVE  TurnInv' /\ Prepared'
  <1>1. Len(acme) \in Nat /\ DOMAIN acme = 1..Len(acme) /\ turn \in Nat
    BY SeqFacts DEF IInv, AcmeInv, TurnInv
  <1>2. CASE turn < Len(acme)
    BY <1>1, <1>2 DEF NextConfig, TurnInv, Prepared
  <1>3. CASE ~(turn < Len(acme))
    BY <1>1, <1>3 DEF NextConfig, TurnInv, Prepared
  <1> QED BY <1>2, <1>3

\* The installation of cached certificates is quiet.
LEMMA BootInstallQuiet == ASSUME IInv, BootInstall PROVE Quiet
  <1>1. IsSeq(acme) /\ \A i \in DOMAIN acme : HasFields(acme[i])
    BY AcmeFields DEF IInv
  <1>2. /\ acme' = [i \in DOMAIN acme |-> Installed(acme[i])] /\ boot = 0 /\ boot' = 1
        /\ UNCHANGED <<tls, existing, adders, lock, nameFile, queue, turn, pc, txt>>
    BY DEF BootInstall, task, demand, disk
  <1>3. \A i \in DOMAIN acme : Same(acme[i], acme'[i]) /\ acme'[i].data = acme[i].data
    BY <1>1, <1>2, InstalledSame
  <1>4. KeptConfigs(acme, acme')
    BY <1>1, <1>2, <1>3, MappedConfigs
  <1>5. queue' \in Seq(Asked) /\ TurnInv'
    BY <1>2 DEF IInv, TurnInv
  <1>6. Prepared => Prepared'
    BY <1>2, <1>3 DEF IInv, TurnInv, Prepared, Same
  <1> QED BY <1>2, <1>4, <1>5, <1>6 DEF Quiet

\* The steps that leave all configurations as they are.
LEMMA IdleQuiet ==
    ASSUME IInv, acme' = acme, UNCHANGED <<tls, existing, adders, lock, nameFile, boot>>,
           queue' \in Seq(Asked), TurnInv', DOMAIN txt' = DOMAIN txt,
           pc' # "validate" \/ UNCHANGED <<pc, turn, txt>>
    PROVE  Quiet
  <1>1. KeptConfigs(acme, acme')
    BY UnchangedConfigs DEF IInv
  <1>2. Prepared => Prepared'
    BY DEF Prepared
  <1> QED BY <1>1, <1>2 DEF Quiet

\* So are the steps of the ACME task that change no configuration ...
LEMMA TaskQuiet ==
    ASSUME IInv, \/ RoundStart \/ Order \/ OrderRefused \/ AlreadyAuthorized \/ Validate
                 \/ Finalize \/ Store \/ ProvisionFails
    PROVE  Quiet
  <1> DEFINE Still == acme' = acme /\ UNCHANGED <<tls, existing, adders, lock, nameFile, boot, queue>>
  <1>1. queue \in Seq(Asked)
    BY DEF IInv
  <1>2. CASE RoundStart
    <2>1. Still /\ pc' = "account" /\ turn' = 1 /\ txt' = txt /\ acme # <<>>
      BY <1>2 DEF RoundStart, demand, disk
    <2>2. Len(acme) \in Nat /\ DOMAIN acme = 1..Len(acme) /\ IsSeq(acme)
      BY SeqFacts DEF IInv, AcmeInv
    <2>3. Len(acme) # 0
      BY <2>1, <2>2, EmptySeq DEF IsSeq
    <2>4. TurnInv'
      BY <2>1, <2>2, <2>3 DEF TurnInv
    <2> QED BY <1>1, <2>1, <2>4, IdleQuiet
  <1>3. CASE Order \/ AlreadyAuthorized \/ Finalize \/ Store
    <2>1. Still /\ pc # "idle" /\ pc' # "validate" /\ turn' = turn /\ txt' = txt
      BY <1>3 DEF Order, AlreadyAuthorized, Finalize, Store, demand, disk
    <2>2. TurnInv'
      BY <2>1 DEF IInv, TurnInv
    <2> QED BY <1>1, <2>1, <2>2, IdleQuiet
  <1>4. CASE NextConfig /\ (OrderRefused \/ Validate \/ ProvisionFails)
    <2>1. Still /\ DOMAIN txt' = DOMAIN txt
      BY <1>4 DEF OrderRefused, Validate, ProvisionFails, demand, disk, Cleaned
    <2>2. TurnInv' /\ pc' # "validate"
      BY <1>4, <2>1, NextConfigTurn DEF NextConfig
    <2> QED BY <1>1, <2>1, <2>2, IdleQuiet
  <1>5. CASE Validate /\ ~NextConfig
    <2>1. Still /\ pc = "validate" /\ pc' = "finalize" /\ turn' = turn /\ txt' = txt
      BY <1>5 DEF Validate, demand, disk
    <2>2. TurnInv'
      BY <2>1 DEF IInv, TurnInv
    <2> QED BY <1>1, <2>1, <2>2, IdleQuiet
  <1>6. OrderRefused \/ ProvisionFails => NextConfig
    BY DEF OrderRefused, ProvisionFails
  <1> QED BY <1>2, <1>3, <1>4, <1>5, <1>6

\* ... the arrival and the refusal of a host ...
LEMMA DemandQuiet ==
    ASSUME IInv, (\E cl \in Clients : Handshake(cl)) \/ AskRefused \/ Tick \/ UNCHANGED vars
    PROVE  Quiet
  <1>1. /\ acme' = acme /\ UNCHANGED <<tls, existing, adders, lock, nameFile, boot>>
        /\ UNCHANGED <<pc, turn, txt>>
    BY DEF Handshake, AskRefused, Tick, vars, task, demand, disk
  <1>2. TurnInv'
    BY <1>1 DEF IInv, TurnInv
  <1>3. queue' \in Seq(Asked)
    <2>1. CASE \E cl \in Clients : Handshake(cl)
      BY <2>1, AppendProperties DEF Handshake, IInv, Asked
    <2>2. CASE AskRefused
      BY <2>2, HeadTailProperties DEF AskRefused, IInv
    <2>3. CASE Tick \/ UNCHANGED vars
      BY <2>3 DEF Tick, vars, demand, IInv
    <2> QED BY <2>1, <2>2, <2>3
  <1> QED BY <1>1, <1>2, <1>3, IdleQuiet

\* The steps that change the configuration whose turn it is.
LEMMA TurnQuiet ==
    ASSUME IInv, NEW d, Replaced(acme, turn, d, acme'), Same(acme[turn], d),
           turn \in DOMAIN acme, TurnInv', DOMAIN txt' = DOMAIN txt,
           UNCHANGED <<tls, existing, adders, lock, nameFile, boot, queue>>,
           RecordNames => Prepared'
    PROVE  Quiet
  <1>1. KeptConfigs(acme, acme')
    BY AcmeFields, ReplacedConfigs DEF IInv
  <1>2. queue' \in Seq(Asked)
    BY DEF IInv
  <1> QED BY <1>1, <1>2 DEF Quiet

\* ... the steps of the task that change the configuration of the turn ...
LEMMA ProvisionQuiet ==
    ASSUME IInv, GetAccount \/ Check \/ Authorize \/ Install
    PROVE  Quiet
  <1> DEFINE c == acme[turn]
             Still == UNCHANGED <<tls, existing, adders, lock, nameFile, boot, queue>>
  <1>1. turn \in DOMAIN acme /\ turn \in Nat
    BY DEF IInv, TurnInv, GetAccount, Check, Authorize, Install
  <1>2. HasFields(c) /\ c.host \in Hosts
    BY <1>1 DEF IInv, AcmeInv, ConfigInv
  <1>3. CASE GetAccount
    <2> DEFINE d == [c EXCEPT !.account = None]
    <2>1. Replaced(acme, turn, d, acme') /\ Still /\ turn' = turn /\ txt' = txt /\ pc' = "check"
      BY <1>3 DEF GetAccount, Replaced, demand, disk
    <2>2. Same(c, d)
      BY <1>2 DEF HasFields, Fields, Same
    <2>3. DOMAIN acme' = DOMAIN acme
      BY <2>1 DEF Replaced
    <2>4. TurnInv' /\ Prepared'
      BY <1>1, <2>1, <2>3 DEF TurnInv, Prepared
    <2> HIDE DEF d
    <2> QED BY <1>1, <2>1, <2>2, <2>4, TurnQuiet
  <1>4. CASE Check
    <2>1. PICK r \in Checked(c) :
              IF r.ok
              THEN /\ acme' = [acme EXCEPT ![turn] = [r.c EXCEPT !.account = held.account]]
                   /\ NextConfig
              ELSE /\ acme' = [acme EXCEPT ![turn] = r.c]
                   /\ pc' = "order"
                   /\ UNCHANGED <<turn, held>>
      BY <1>4 DEF Check
    <2>2. Still /\ txt' = txt
      BY <1>4 DEF Check, demand, disk
    <2>3. Same(c, r.c)
      BY <1>2, CheckedSame
    <2>4. CASE r.ok
      <3> DEFINE d == [r.c EXCEPT !.account = held.account]
      <3>1. Replaced(acme, turn, d, acme') /\ NextConfig
        BY <2>1, <2>4 DEF Replaced
      <3>2. Same(c, d)
        BY <2>3 DEF HasFields, Fields, Same
      <3>3. DOMAIN acme' = DOMAIN acme
        BY <3>1 DEF Replaced
      <3>4. TurnInv' /\ Prepared'
        BY <3>1, <3>3, NextConfigTurn
      <3> HIDE DEF d
      <3> QED BY <1>1, <2>2, <3>1, <3>2, <3>4, TurnQuiet
    <2>5. CASE ~r.ok
      <3>1. Replaced(acme, turn, r.c, acme') /\ pc' = "order" /\ turn' = turn
        BY <2>1, <2>5 DEF Replaced
      <3>2. DOMAIN acme' = DOMAIN acme
        BY <3>1 DEF Replaced
      <3>3. TurnInv' /\ Prepared'
        BY <1>1, <3>1, <3>2 DEF TurnInv, Prepared
      <3> QED BY <1>1, <2>2, <2>3, <3>1, <3>3, TurnQuiet
    <2> QED BY <2>4, <2>5
  <1>5. CASE Authorize
    <2> DEFINE d == [c EXCEPT !.data = Token(c)]
    <2>1. /\ Replaced(acme, turn, d, acme') /\ Still /\ turn' = turn /\ pc' = "validate"
          /\ txt' = IF c.chal = "dns-01" THEN [txt EXCEPT ![c.host.labels] = Token(c)] ELSE txt
      BY <1>5 DEF Authorize, Replaced, demand
    <2>2. Same(c, d) /\ d.data = Token(c)
      BY <1>2 DEF HasFields, Fields, Same
    <2>3. DOMAIN acme' = DOMAIN acme /\ acme'[turn] = d
      BY <1>1, <2>1 DEF Replaced
    <2>4. TurnInv' /\ DOMAIN txt' = DOMAIN txt
      BY <1>1, <2>1, <2>3 DEF TurnInv
    <2>5. Token(c) \in Nat \X Nat
      BY <1>1 DEF Token
    <2>6. RecordNames => c.host.labels \in DOMAIN txt
      BY <1>2 DEF RecordNames
    <2> HIDE DEF d
    <2>7. RecordNames => Prepared'
      BY <2>1, <2>2, <2>3, <2>5, <2>6 DEF Prepared, Same
    <2> QED BY <1>1, <2>1, <2>2, <2>4, <2>7, TurnQuiet
  <1>6. CASE Install
    <2> DEFINE d == [c EXCEPT !.key = held.cert, !.account = held.account]
    <2>1. acme' = [acme EXCEPT ![turn].key = held.cert, ![turn].account = held.account]
      BY <1>6 DEF Install
    <2>2. Replaced(acme, turn, d, acme')
      BY <1>1, <1>2, <2>1 DEF Replaced, HasFields, Fields
    <2>3. Still /\ NextConfig /\ DOMAIN txt' = DOMAIN txt
      BY <1>6 DEF Install, demand, Cleaned
    <2>4. Same(c, d)
      BY <1>2 DEF HasFields, Fields, Same
    <2>5. DOMAIN acme' = DOMAIN acme
      BY <2>2 DEF Replaced
    <2>6. TurnInv' /\ Prepared'
      BY <2>3, <2>5, NextConfigTurn
    <2> HIDE DEF d
    <2> QED BY <1>1, <2>2, <2>3, <2>4, <2>6, TurnQuiet
  <1> QED BY <1>3, <1>4, <1>5, <1>6

\* ... and the loss of the account.
LEMMA ForgetQuiet == ASSUME IInv, Forget PROVE Quiet
  <1> DEFINE F(a) == IF a = None THEN None ELSE "forgotten"
             D(c) == [c EXCEPT !.account = F(@)]
  <1>1. IsSeq(acme) /\ \A i \in DOMAIN acme : HasFields(acme[i])
    BY AcmeFields DEF IInv
  <1>2. /\ acme' = [i \in DOMAIN acme |-> D(acme[i])]
        /\ UNCHANGED <<tls, existing, adders, lock, nameFile, boot, queue, turn, pc, txt>>
    BY DEF Forget, task, demand, disk
  <1>3. ASSUME NEW c, HasFields(c) PROVE Same(c, D(c)) /\ D(c).data = c.data
    BY <1>3 DEF HasFields, Fields, Same
  <1> HIDE DEF D
  <1>4. \A i \in DOMAIN acme : Same(acme[i], acme'[i]) /\ acme'[i].data = acme[i].data
    BY <1>1, <1>2, <1>3
  <1>5. KeptConfigs(acme, acme')
    BY <1>1, <1>2, <1>4, MappedConfigs
  <1>6. queue' \in Seq(Asked) /\ TurnInv'
    BY <1>2 DEF IInv, TurnInv
  <1>7. Prepared => Prepared'
    BY <1>2, <1>4 DEF IInv, TurnInv, Prepared, Same
  <1> QED BY <1>2, <1>5, <1>6, <1>7 DEF Quiet

\* The lists fit configurations that are kept.
LEMMA KeptLists ==
    ASSUME NEW lists, NEW alpn, NEW s, NEW t, NEW onDemand,
           KeptConfigs(s, t), ListsInv(lists, alpn, s, onDemand)
    PROVE  ListsInv(lists, alpn, t, onDemand)
  <1>1. /\ DOMAIN t = DOMAIN s
        /\ \A i \in DOMAIN s : /\ t[i].port = s[i].port /\ t[i].chal = s[i].chal
                               /\ t[i].od = s[i].od
    BY DEF KeptConfigs, Same
  <1>2. ListsMembers(lists, alpn, t)
    BY <1>1 DEF ListsInv, ListsMembers
  <1>3. HttpListed(lists, t) /\ AlpnListed(lists, alpn, t, onDemand)
    BY <1>1 DEF ListsInv, HttpListed, AlpnListed, Overtaken
  <1> QED BY <1>2, <1>3 DEF ListsInv

\* A quiet step keeps all that is said.
LEMMA QuietStep ==
    ASSUME IInv, Quiet
    PROVE  IInv' /\ (UInv => UInv') /\ (VInv => VInv')
  <1>1. tls' = tls /\ existing' = existing /\ adders' = adders /\ lock' = lock /\ nameFile' = nameFile
    BY DEF Quiet
  <1>2. IsSeq(acme') /\ DOMAIN acme' = DOMAIN acme /\ \A i \in DOMAIN acme : Same(acme[i], acme'[i])
    BY DEF Quiet, KeptConfigs
  <1>3. AcmeInv'
    <2> SUFFICES ASSUME NEW i \in DOMAIN acme PROVE ConfigInv(acme[i])'
      BY <1>2 DEF AcmeInv
    <2>1. ConfigInv(acme[i]) /\ Same(acme[i], acme'[i])
      BY <1>2 DEF IInv, AcmeInv
    <2>2. CASE acme[i].od = 0
      BY <2>1, <2>2 DEF ConfigInv, Same
    <2>3. CASE acme[i].od # 0
      <3>1. OnDemandConfig(acme[i])
        BY <2>1, <2>3 DEF ConfigInv
      <3>2. OnDemandConfig(acme[i])'
        BY <1>1, <2>1, <3>1 DEF OnDemandConfig, FileOf, Same
      <3> QED BY <2>1, <3>2 DEF ConfigInv, Same
    <2> QED BY <2>2, <2>3
  <1>4. \A a \in adders' : AdderInv(a)'
    BY <1>1 DEF IInv, AdderInv, FileOf
  <1>5. IInv'
    BY <1>1, <1>3, <1>4 DEF IInv, Quiet, TlsInv, FileInv, LockInv
  <1>6. ASSUME UInv PROVE UInv'
    <2>1. \A i \in DOMAIN acme : /\ acme'[i].host = acme[i].host /\ acme'[i].port = acme[i].port
                                 /\ acme'[i].od = acme[i].od
      BY <1>2 DEF Same
    <2>2. OneConfigPerHost' /\ FilesDistinct'
      BY <1>1, <1>2, <1>6, <2>1 DEF UInv, OneConfigPerHost, FilesDistinct
    <2>3. Apart'
      BY <1>1, <1>2, <1>6, <2>1 DEF UInv, Apart
    <2>4. Loaded'
      <3>1. boot \in Nat /\ boot' \in Nat
        BY <1>6 DEF UInv, Loaded, Quiet
      <3>2. Len(tls.onDemand) \in Nat /\ DOMAIN tls.onDemand = 1..Len(tls.onDemand)
        BY SeqFacts DEF IInv, TlsInv
      <3>3. CASE boot' = boot
        BY <1>1, <1>2, <1>6, <2>1, <3>3 DEF UInv, Loaded, Booted, FileOf
      <3>4. CASE boot = 0 /\ boot' = 1
        <4>1. ~Booted
          BY <3>2, <3>4 DEF Booted
        <4>2. ASSUME NEW i \in DOMAIN acme, acme[i].od # 0 PROVE FALSE
          <5>1. acme[i].od \in DOMAIN tls.onDemand
            BY <4>2 DEF IInv, AcmeInv, ConfigInv, OnDemandConfig
          <5>2. acme[i].od < boot
            BY <1>6, <4>1, <4>2 DEF UInv, Loaded
          <5> QED BY <3>2, <3>4, <5>1, <5>2
        <4>3. adders = {}
          BY <1>6, <4>1 DEF UInv, Loaded
        <4>4. \A k \in DOMAIN tls.onDemand : ~(k < boot')
          BY <3>2, <3>4
        <4> QED BY <1>1, <1>2, <2>1, <3>1, <4>2, <4>3, <4>4 DEF Loaded
      <3> QED BY <3>3, <3>4 DEF Quiet
    <2>5. \A a \in adders' : Adding(a)'
      BY <1>1, <1>2, <1>6, <2>1 DEF UInv, Adding, FileOf
    <2> QED BY <2>2, <2>3, <2>4, <2>5 DEF UInv
  <1>7. ASSUME VInv PROVE VInv'
    <2>1. ListsInv(tls'.lists, tls'.alpn, acme', tls'.onDemand)
      BY <1>1, <1>7, KeptLists DEF VInv, Quiet
    <2>2. \A i \in DOMAIN acme' : acme'[i].chal = "tls-alpn-01" => ~acme'[i].host.wild
      BY <1>2, <1>7 DEF VInv, Same
    <2>3. RecordNames' /\ Prepared'
      BY <1>7 DEF VInv, Quiet, RecordNames
    <2> QED BY <2>1, <2>2, <2>3 DEF VInv
  <1> QED BY <1>5, <1>6, <1>7

-----------------------------------------------------------------------------
(***************************************************************************)
(* The receiver and the adders.                                            *)
(***************************************************************************)
\* OnDemandFor finds an entry for the host and port.
LEMMA OnDemandForFacts ==
    ASSUME TlsInv, NEW labels, NEW port, NEW k, k = OnDemandFor(labels, port), k # 0
    PROVE  /\ k \in DOMAIN tls.onDemand /\ match_hostname(tls.onDemand[k].host, labels)
           /\ tls.onDemand[k].port = port
  <1> DEFINE ks == {m \in DOMAIN tls.onDemand : /\ match_hostname(tls.onDemand[m].host, labels)
                                                /\ tls.onDemand[m].port = port}
  <1>1. ks \subseteq Nat
    BY SeqFacts DEF TlsInv
  <1>2. ks # {} /\ k = Min(ks)
    BY DEF OnDemandFor
  <1>3. Min(ks) \in ks
    <2> HIDE DEF ks
    <2>1. \E m \in ks : \A n \in ks : m <= n
      BY <1>1, <1>2, LeastOf
    <2> QED BY <2>1 DEF Min
  <1> QED BY <1>2, <1>3

\* The steps of the receiver and the adders that push nothing keep what is said
\* of the lists.
LEMMA ListsUntouched ==
    ASSUME VInv, UNCHANGED <<tls, acme, pc, turn, txt>> PROVE VInv'
  BY DEF VInv, RecordNames, Prepared

\* The receiver: a host that is new to it has no configuration and is in no file.
LEMMA ReceiveStep ==
    ASSUME IInv, Receive
    PROVE  IInv' /\ (UInv => UInv') /\ (VInv => VInv')
  <1> DEFINE labels == Head(queue)[1]
             port == Head(queue)[2]
             k == OnDemandFor(labels, port)
             b == [host |-> labels, od |-> k, pc |-> "lock", names |-> <<>>]
             new == Head(queue) \notin existing /\ k # 0
  <1>1. /\ UNCHANGED <<tls, acme, boot, lock, nameFile, pc, turn, txt>> /\ Booted
        /\ existing' = existing \cup {Head(queue)} /\ queue' = Tail(queue)
        /\ adders' = IF new THEN adders \cup {b} ELSE adders
    BY DEF Receive, task, disk
  <1>2. queue' \in Seq(Asked) /\ Head(queue) \in Asked
    BY HeadTailProperties DEF Receive, IInv
  <1>3. labels \in ClientHosts /\ Head(queue) = <<labels, port>>
    BY <1>2 DEF Asked, ClientHosts
  <1>4. k # 0 => /\ k \in DOMAIN tls.onDemand /\ match_hostname(tls.onDemand[k].host, labels)
                 /\ tls.onDemand[k].port = port
    BY OnDemandForFacts DEF IInv
  <1>5. /\ DOMAIN b = {"host", "od", "pc", "names"} /\ b.host = labels /\ b.od = k /\ b.pc = "lock"
    OBVIOUS
  <1> HIDE DEF labels, port, k, b
  <1>6. \A a \in adders' : AdderInv(a)'
    <2> SUFFICES ASSUME NEW a \in adders' PROVE AdderInv(a)'
      OBVIOUS
    <2>1. CASE a \in adders
      BY <1>1, <2>1 DEF IInv, AdderInv, FileOf
    <2>2. CASE new /\ a = b
      BY <1>1, <1>3, <1>4, <1>5, <2>2 DEF AdderInv
    <2> QED BY <1>1, <2>1, <2>2
  <1>7. LockInv'
    BY <1>1, <1>5 DEF IInv, LockInv
  <1>8. IInv'
    BY <1>1, <1>2, <1>6, <1>7 DEF IInv, TlsInv, AcmeInv, ConfigInv, OnDemandConfig, FileOf, FileInv,
                                  TurnInv
  <1>9. ASSUME UInv PROVE UInv'
    <2>1. Apart' /\ OneConfigPerHost' /\ FilesDistinct'
      BY <1>1, <1>9 DEF UInv, Apart, OneConfigPerHost, FilesDistinct
    <2>2. Loaded'
      BY <1>1, <1>9 DEF UInv, Loaded, Booted, FileOf
    <2>3. ASSUME NEW a \in adders, new PROVE ~(a.host = b.host /\ tls.onDemand[a.od].port = port)
      BY <1>3, <1>5, <1>9, <2>3 DEF UInv, Adding
    <2>4. ASSUME NEW a \in adders PROVE Adding(a)'
      BY <1>1, <1>4, <1>5, <1>9, <2>3, <2>4 DEF UInv, Adding, FileOf
    <2>5. ASSUME new, NEW x, x = b PROVE Adding(x)'
      <3>1. <<b.host, tls.onDemand[b.od].port>> \in existing'
        BY <1>1, <1>3, <1>4, <1>5, <2>5
      <3>2. ASSUME NEW i \in DOMAIN acme, acme[i].port = port, acme[i].host = Exact(labels)
            PROVE  FALSE
        <4>1. acme[i].od # 0
          BY <1>3, <1>4, <1>9, <2>5, <3>2 DEF UInv, Apart
        <4>2. <<acme[i].host.labels, acme[i].port>> \in existing
          BY <1>9, <3>2, <4>1 DEF UInv, Loaded
        <4> QED BY <1>3, <2>5, <3>2, <4>2 DEF Exact
      <3>3. \A a \in adders' : a.host = b.host /\ tls.onDemand[a.od].port = port => a = b
        BY <1>1, <2>3, <2>5
      <3>4. ASSUME tls.onDemand[k].cache, labels \in Range(nameFile[FileOf(k)]) PROVE FALSE
        <4>1. k < boot
          <5>1. Len(tls.onDemand) \in Nat /\ DOMAIN tls.onDemand = 1..Len(tls.onDemand)
            BY SeqFacts DEF IInv, TlsInv
          <5> QED BY <1>1, <1>4, <1>9, <2>5, <5>1 DEF Booted, UInv, Loaded
        <4>2. <<labels, tls.onDemand[k].port>> \in existing
          BY <1>4, <1>9, <2>5, <3>4, <4>1 DEF UInv, Loaded
        <4> QED BY <1>3, <1>4, <2>5, <4>2
      <3> QED BY <1>1, <1>4, <1>5, <2>5, <3>1, <3>2, <3>3, <3>4 DEF Adding, FileOf
    <2>6. ASSUME NEW a \in adders' PROVE Adding(a)'
      BY <1>1, <2>4, <2>5
    <2> QED BY <2>1, <2>2, <2>6 DEF UInv
  <1>10. VInv => VInv'
    BY <1>1, ListsUntouched
  <1> QED BY <1>8, <1>9, <1>10

\* An adder takes the place of itself in an earlier state.
LEMMA AddLockStep ==
    ASSUME IInv, NEW a \in adders, AddLock(a)
    PROVE  IInv' /\ (UInv => UInv') /\ (VInv => VInv')
  <1> DEFINE b == [a EXCEPT !.pc = "write", !.names = nameFile[FileOf(a.od)]]
  <1>1. /\ UNCHANGED <<tls, acme, boot, existing, queue, nameFile, pc, turn, txt>>
        /\ a.pc = "lock" /\ lock = None /\ lock' = a.host /\ adders' = (adders \ {a}) \cup {b}
    BY DEF AddLock, FileOf, task, disk
  <1>2. AdderInv(a)
    BY DEF IInv
  <1>3. /\ DOMAIN b = {"host", "od", "pc", "names"} /\ b.host = a.host /\ b.od = a.od
        /\ b.pc = "write" /\ b.names = nameFile[FileOf(a.od)]
    BY <1>2 DEF AdderInv
  <1> HIDE DEF b
  <1>4. \A c \in adders' : AdderInv(c)'
    <2> SUFFICES ASSUME NEW c \in adders' PROVE AdderInv(c)'
      OBVIOUS
    <2>1. CASE c \in adders
      BY <1>1, <2>1 DEF IInv, AdderInv, FileOf
    <2>2. CASE c = b
      BY <1>1, <1>2, <1>3, <2>2 DEF AdderInv, FileOf
    <2> QED BY <1>1, <2>1, <2>2
  <1>5. LockInv'
    <2>1. a.host # None
      BY <1>2, TlsAssumption DEF AdderInv, ClientHosts
    <2> QED BY <1>1, <1>3, <2>1 DEF IInv, LockInv
  <1>6. IInv'
    BY <1>1, <1>4, <1>5 DEF IInv, TlsInv, AcmeInv, ConfigInv, OnDemandConfig, FileOf, FileInv, TurnInv
  <1>7. ASSUME UInv PROVE UInv'
    <2>1. Apart' /\ OneConfigPerHost' /\ FilesDistinct'
      BY <1>1, <1>7 DEF UInv, Apart, OneConfigPerHost, FilesDistinct
    <2>2. Loaded'
      BY <1>1, <1>7 DEF UInv, Loaded, Booted, FileOf
    <2>3. Adding(a) /\ \A c \in adders : Adding(c)
      BY <1>7 DEF UInv
    <2>4. ASSUME NEW c \in adders \ {a} PROVE Adding(c)'
      BY <1>1, <1>3, <2>3 DEF Adding, FileOf
    <2>5. ASSUME NEW c, c = b PROVE Adding(c)'
      BY <1>1, <1>3, <2>3, <2>5 DEF Adding, FileOf
    <2>6. ASSUME NEW c \in adders' PROVE Adding(c)'
      BY <1>1, <2>4, <2>5
    <2> QED BY <2>1, <2>2, <2>6 DEF UInv
  <1>8. VInv => VInv'
    BY <1>1, ListsUntouched
  <1> QED BY <1>6, <1>7, <1>8

\* What AddWrite makes of the file of cached domains.
LEMMA WrittenFile ==
    ASSUME IInv, NEW a \in adders, AddWrite(a)
    PROVE  /\ FileInv'
           /\ \A f \in OnDemandNames : \A l \in Range(nameFile[f]) : l \in Range(nameFile'[f])
           /\ \A f \in OnDemandNames : \A l \in Range(nameFile'[f]) :
                 \/ l \in Range(nameFile[f])
                 \/ f = FileOf(a.od) /\ l = a.host
           /\ tls.onDemand[a.od].cache => a.host \in Range(nameFile'[FileOf(a.od)])
           /\ (FilesDistinct /\ (tls.onDemand[a.od].cache => a.host \notin Range(nameFile[FileOf(a.od)])))
                 => FilesDistinct'
  <1> DEFINE F == FileOf(a.od)
             od == tls.onDemand[a.od]
             t == Append(nameFile[F], a.host)
  <1>1. /\ AdderInv(a) /\ a.names = nameFile[F]
        /\ nameFile' = IF od.cache THEN [nameFile EXCEPT ![F] = Append(a.names, a.host)] ELSE nameFile
    BY DEF IInv, AdderInv, AddWrite, FileOf
  <1>2. F \in OnDemandNames /\ F[2] = od.host
    BY <1>1 DEF IInv, TlsInv, AdderInv, FileOf, NameFileOf, OnDemandNames
  <1>3. nameFile \in [OnDemandNames -> Seq(ClientHosts)] /\ nameFile[F] \in Seq(ClientHosts)
    BY <1>2 DEF IInv, FileInv
  <1>4. a.host \in ClientHosts /\ match_hostname(F[2], a.host)
    BY <1>1, <1>2 DEF AdderInv
  <1>5. CASE ~od.cache
    <2>1. nameFile' = nameFile
      BY <1>1, <1>5
    <2> QED BY <1>5, <2>1 DEF IInv, FileInv, FilesDistinct
  <1>6. CASE od.cache
    <2>1. nameFile' = [nameFile EXCEPT ![F] = t]
      BY <1>1, <1>6
    <2>2. /\ t \in Seq(ClientHosts) /\ Len(nameFile[F]) \in Nat
          /\ DOMAIN nameFile[F] = 1..Len(nameFile[F]) /\ DOMAIN t = 1..(Len(nameFile[F]) + 1)
          /\ (\A j \in 1..Len(nameFile[F]) : t[j] = nameFile[F][j])
          /\ t[Len(nameFile[F]) + 1] = a.host
      BY <1>3, <1>4, AppendProperties, LenProperties
    <2>3. /\ \A l \in Range(nameFile[F]) : l \in Range(t)
          /\ \A l \in Range(t) : l \in Range(nameFile[F]) \/ l = a.host
          /\ a.host \in Range(t)
      BY <2>2 DEF Range
    <2>4. ASSUME FilesDistinct, a.host \notin Range(nameFile[F])
          PROVE  \A i, j \in DOMAIN t : t[i] = t[j] => i = j
      <3>1. \A i, j \in DOMAIN nameFile[F] : nameFile[F][i] = nameFile[F][j] => i = j
        BY <1>2, <2>4 DEF FilesDistinct
      <3>2. \A i \in DOMAIN nameFile[F] : nameFile[F][i] # a.host
        BY <2>4 DEF Range
      <3> QED BY <2>2, <3>1, <3>2
    <2> HIDE DEF t, F, od
    <2>5. nameFile'[F] = t /\ \A f \in OnDemandNames : f # F => nameFile'[f] = nameFile[f]
      BY <1>2, <1>3, <2>1
    <2>6. nameFile' \in [OnDemandNames -> Seq(ClientHosts)]
      BY <1>2, <1>3, <2>1, <2>2
    <2>7. FileInv'
      BY <1>2, <1>4, <2>3, <2>5, <2>6 DEF IInv, FileInv
    <2>8. /\ \A f \in OnDemandNames : \A l \in Range(nameFile[f]) : l \in Range(nameFile'[f])
          /\ \A f \in OnDemandNames : \A l \in Range(nameFile'[f]) :
                l \in Range(nameFile[f]) \/ (f = F /\ l = a.host)
          /\ a.host \in Range(nameFile'[F])
      BY <2>3, <2>5
    <2>9. FilesDistinct /\ a.host \notin Range(nameFile[F]) => FilesDistinct'
      <3> SUFFICES ASSUME FilesDistinct, a.host \notin Range(nameFile[F]), NEW f \in OnDemandNames
                   PROVE  \A i, j \in DOMAIN nameFile'[f] : nameFile'[f][i] = nameFile'[f][j] => i = j
        BY DEF FilesDistinct
      <3>1. CASE f = F
        BY <2>4, <2>5, <3>1
      <3>2. CASE f # F
        BY <2>5, <3>2 DEF FilesDistinct
      <3> QED BY <3>1, <3>2
    <2> QED BY <1>6, <2>7, <2>8, <2>9 DEF F, od
  <1> QED BY <1>5, <1>6

\* An adder writes: the list it read is still the one in the file.
LEMMA AddWriteStep ==
    ASSUME IInv, NEW a \in adders, AddWrite(a)
    PROVE  IInv' /\ (UInv => UInv') /\ (VInv => VInv')
  <1> DEFINE b == [a EXCEPT !.pc = "push", !.names = <<>>]
  <1>1. /\ UNCHANGED <<tls, acme, boot, existing, queue, pc, turn, txt>>
        /\ a.pc = "write" /\ adders' = (adders \ {a}) \cup {b}
    BY DEF AddWrite, task
  <1>2. AdderInv(a)
    BY DEF IInv
  <1>3. /\ DOMAIN b = {"host", "od", "pc", "names"} /\ b.host = a.host /\ b.od = a.od /\ b.pc = "push"
    BY <1>2 DEF AdderInv
  <1> HIDE DEF b
  <1>4. \A k \in DOMAIN tls.onDemand : FileOf(k) \in OnDemandNames
    BY DEF IInv, TlsInv, FileOf, NameFileOf, OnDemandNames
  <1>5. \A c \in adders \ {a} : c.pc # "write"
    BY <1>1 DEF IInv, LockInv
  <1>6. /\ FileInv'
        /\ \A f \in OnDemandNames : \A l \in Range(nameFile[f]) : l \in Range(nameFile'[f])
        /\ \A f \in OnDemandNames : \A l \in Range(nameFile'[f]) :
              l \in Range(nameFile[f]) \/ (f = FileOf(a.od) /\ l = a.host)
        /\ tls.onDemand[a.od].cache => a.host \in Range(nameFile'[FileOf(a.od)])
    BY WrittenFile
  <1>7. \A c \in adders' : AdderInv(c)'
    <2> SUFFICES ASSUME NEW c \in adders' PROVE AdderInv(c)'
      OBVIOUS
    <2>1. CASE c \in adders \ {a}
      <3>1. AdderInv(c) /\ c.pc # "write"
        BY <1>5, <2>1 DEF IInv
      <3>2. c.od \in DOMAIN tls.onDemand /\ FileOf(c.od) \in OnDemandNames
        BY <1>4, <3>1 DEF AdderInv
      <3> QED BY <1>1, <1>6, <3>1, <3>2 DEF AdderInv, FileOf
    <2>2. CASE c = b
      BY <1>1, <1>2, <1>3, <1>6, <2>2 DEF AdderInv, FileOf
    <2> QED BY <1>1, <2>1, <2>2
  <1>8. LockInv'
    BY <1>1, <1>3, <1>5 DEF LockInv
  <1>9. AcmeInv'
    <2> SUFFICES ASSUME NEW i \in DOMAIN acme PROVE ConfigInv(acme[i])'
      BY <1>1 DEF IInv, AcmeInv
    <2>1. ConfigInv(acme[i])
      BY DEF IInv, AcmeInv
    <2>2. CASE acme[i].od = 0
      BY <1>1, <2>1, <2>2 DEF ConfigInv
    <2>3. CASE acme[i].od # 0
      <3>1. OnDemandConfig(acme[i])
        BY <2>1, <2>3 DEF ConfigInv
      <3>2. FileOf(acme[i].od) \in OnDemandNames
        BY <1>4, <3>1 DEF OnDemandConfig
      <3>3. PICK l \in ClientHosts :
                /\ acme[i].host = Exact(l) /\ match_hostname(tls.onDemand[acme[i].od].host, l)
                /\ acme[i].cache => l \in Range(nameFile[FileOf(acme[i].od)])
        BY <3>1 DEF OnDemandConfig
      <3>4. acme[i].cache => l \in Range(nameFile'[FileOf(acme[i].od)])
        BY <1>6, <3>2, <3>3
      <3>5. OnDemandConfig(acme[i])'
        BY <1>1, <3>1, <3>3, <3>4 DEF OnDemandConfig, FileOf
      <3> QED BY <1>1, <2>1, <3>5 DEF ConfigInv
    <2> QED BY <2>2, <2>3
  <1>10. IInv'
    BY <1>1, <1>6, <1>7, <1>8, <1>9 DEF IInv, TlsInv, TurnInv
  <1>11. ASSUME UInv PROVE UInv'
    <2>1. Adding(a) /\ \A c \in adders : Adding(c)
      BY <1>11 DEF UInv
    <2>2. FilesDistinct'
      BY <1>1, <1>11, <2>1, WrittenFile DEF UInv, Adding
    <2>3. Apart' /\ OneConfigPerHost'
      BY <1>1, <1>11 DEF UInv, Apart, OneConfigPerHost
    <2>4. Loaded'
      <3>1. \A k \in DOMAIN tls.onDemand : k < boot /\ tls.onDemand[k].cache =>
               \A l \in Range(nameFile'[FileOf(k)]) : <<l, tls.onDemand[k].port>> \in existing
        <4> SUFFICES ASSUME NEW k \in DOMAIN tls.onDemand, k < boot, tls.onDemand[k].cache,
                            NEW l \in Range(nameFile'[FileOf(k)])
                     PROVE  <<l, tls.onDemand[k].port>> \in existing
          OBVIOUS
        <4>1. CASE l \in Range(nameFile[FileOf(k)])
          BY <1>11, <4>1 DEF UInv, Loaded
        <4>2. CASE FileOf(k) = FileOf(a.od) /\ l = a.host
          <5>1. tls.onDemand[k].port = tls.onDemand[a.od].port
            BY <4>2 DEF FileOf, NameFileOf
          <5> QED BY <2>1, <4>2, <5>1 DEF Adding
        <4> QED BY <1>4, <1>6, <4>1, <4>2
      <3> QED BY <1>1, <1>11, <3>1 DEF UInv, Loaded, Booted, FileOf
    <2>5. ASSUME NEW c \in adders \ {a} PROVE Adding(c)'
      <3>1. Adding(c) /\ AdderInv(c)
        BY <2>1 DEF IInv
      <3>2. FileOf(c.od) \in OnDemandNames
        BY <1>4, <3>1 DEF AdderInv
      <3>3. ASSUME c.pc # "push", tls.onDemand[c.od].cache, c.host \in Range(nameFile'[FileOf(c.od)])
            PROVE  FALSE
        <4>1. c.host \notin Range(nameFile[FileOf(c.od)])
          BY <3>1, <3>3 DEF Adding
        <4>2. FileOf(c.od) = FileOf(a.od) /\ c.host = a.host
          BY <1>6, <3>2, <3>3, <4>1
        <4>3. tls.onDemand[c.od].port = tls.onDemand[a.od].port
          BY <4>2 DEF FileOf, NameFileOf
        <4> QED BY <2>1, <4>2, <4>3 DEF Adding
      <3>4. \A d \in adders' : d.host = c.host /\ tls.onDemand[d.od].port = tls.onDemand[c.od].port => d = c
        <4> SUFFICES ASSUME NEW d \in adders', d.host = c.host,
                            tls.onDemand[d.od].port = tls.onDemand[c.od].port
                     PROVE  d = c
          OBVIOUS
        <4>1. CASE d \in adders
          BY <3>1, <4>1 DEF Adding
        <4>2. CASE d = b
          BY <1>3, <3>1, <4>2 DEF Adding
        <4> QED BY <1>1, <4>1, <4>2
      <3> QED BY <1>1, <3>1, <3>3, <3>4 DEF Adding, FileOf
    <2>6. ASSUME NEW c, c = b PROVE Adding(c)'
      BY <1>1, <1>3, <2>1, <2>6 DEF Adding, FileOf
    <2>7. ASSUME NEW c \in adders' PROVE Adding(c)'
      BY <1>1, <2>5, <2>6
    <2> QED BY <2>2, <2>3, <2>4, <2>7 DEF UInv
  <1>12. VInv => VInv'
    BY <1>1, ListsUntouched
  <1> QED BY <1>10, <1>11, <1>12

-----------------------------------------------------------------------------
(***************************************************************************)
(* Configurations made on demand are pushed.                               *)
(***************************************************************************)
\* c is the configuration of the entry k for the host l.
NewFor(c, k, l) ==
    /\ HasFields(c) /\ c.host = Exact(l) /\ c.od = k
    /\ c.port = tls.onDemand[k].port /\ c.chal = tls.onDemand[k].chal
    /\ c.cache = tls.onDemand[k].cache

\* new has configurations of the entry k for some hosts, which are in its file.
Batch(k, hosts, new) ==
    /\ k \in DOMAIN tls.onDemand /\ hosts \in Seq(ClientHosts)
    /\ IsSeq(new) /\ Len(new) = Len(hosts)
    /\ \A j \in DOMAIN new :
          /\ NewFor(new[j], k, hosts[j]) /\ match_hostname(tls.onDemand[k].host, hosts[j])
          /\ tls.onDemand[k].cache => hosts[j] \in Range(nameFile[FileOf(k)])

\* None of the hosts has a configuration, and none is there twice.
Unmet(k, hosts) ==
    /\ \A i, j \in DOMAIN hosts : hosts[i] = hosts[j] => i = j
    /\ \A i \in DOMAIN acme : \A j \in DOMAIN hosts :
          ~(acme[i].port = tls.onDemand[k].port /\ acme[i].host = Exact(hosts[j]))

\* u is s with t appended.
Appended(s, t, u) ==
    /\ IsSeq(u) /\ Len(s) \in Nat /\ DOMAIN s = 1..Len(s)
    /\ DOMAIN t = 1..Len(t) /\ Len(t) \in Nat
    /\ \A i \in DOMAIN s : i \in DOMAIN u /\ u[i] = s[i]
    /\ \A j \in DOMAIN t : Len(s) + j \in DOMAIN u /\ u[Len(s) + j] = t[j]
    /\ \A i \in DOMAIN u : i \in DOMAIN s \/ \E j \in DOMAIN t : i = Len(s) + j

\* What concatenation makes of two sequences.
LEMMA ConcatFacts ==
    ASSUME NEW s, NEW t, IsSeq(s), IsSeq(t)
    PROVE  Appended(s, t, s \o t)
  <1> DEFINE S == Range(s) \cup Range(t)
  <1>1. s \in Seq(S) /\ t \in Seq(S)
    BY SeqFacts DEF IsSeq, Range
  <1> HIDE DEF S
  <1>2. s \o t \in Seq(S) /\ Len(s \o t) = Len(s) + Len(t)
    BY <1>1, ConcatProperties
  <1>3. Len(s) \in Nat /\ DOMAIN s = 1..Len(s) /\ DOMAIN t = 1..Len(t) /\ Len(t) \in Nat
    BY SeqFacts
  <1>4. DOMAIN (s \o t) = 1..(Len(s) + Len(t))
    BY <1>2, LenProperties
  <1>5. \A i \in 1..(Len(s) + Len(t)) : (s \o t)[i] = IF i <= Len(s) THEN s[i] ELSE t[i - Len(s)]
    BY <1>1, ConcatProperties
  <1>6. \A i \in DOMAIN s : (s \o t)[i] = s[i]
    BY <1>3, <1>5
  <1>7. \A j \in DOMAIN t : (s \o t)[Len(s) + j] = t[j]
    <2> SUFFICES ASSUME NEW j \in DOMAIN t PROVE (s \o t)[Len(s) + j] = t[j]
      OBVIOUS
    <2>1. Len(s) + j \in 1..(Len(s) + Len(t)) /\ ~(Len(s) + j <= Len(s)) /\ (Len(s) + j) - Len(s) = j
      BY <1>3
    <2> QED BY <1>5, <2>1
  <1>8. ASSUME NEW i \in DOMAIN (s \o t), i \notin DOMAIN s PROVE \E j \in DOMAIN t : i = Len(s) + j
    <2>1. i - Len(s) \in DOMAIN t /\ i = Len(s) + (i - Len(s))
      BY <1>3, <1>4, <1>8
    <2> QED BY <2>1
  <1>9. IsSeq(s \o t)
    <2> DEFINE u == s \o t
    <2>1. u \in Seq(S)
      BY <1>2
    <2> HIDE DEF u
    <2>2. u \in Seq(Range(u))
      BY <2>1, LenProperties DEF Range
    <2> QED BY <2>2 DEF IsSeq, u
  <1>10. \A i \in DOMAIN s : i \in DOMAIN (s \o t)
    BY <1>3, <1>4
  <1>11. \A j \in DOMAIN t : Len(s) + j \in DOMAIN (s \o t)
    BY <1>3, <1>4
  <1> QED BY <1>3, <1>6, <1>7, <1>8, <1>9, <1>10, <1>11 DEF Appended

\* What a push makes of the configurations and of tls.
LEMMA PushedFacts ==
    ASSUME IInv, NEW k, NEW hosts, NEW new, Batch(k, hosts, new), Pushed(k, new)
    PROVE  /\ Appended(acme, new, acme') /\ DOMAIN hosts = DOMAIN new
           /\ DOMAIN tls' = SetUpFields /\ tls'.onDemand = tls.onDemand /\ tls'.alpn = tls.alpn
           /\ tls'.lists = Register(tls.lists, tls.onDemand[k].list,
                                    {Len(acme) + j : j \in DOMAIN new})
  <1>1. acme' = acme \o new /\ IsSeq(acme) /\ IsSeq(new)
    BY DEF Pushed, IInv, AcmeInv, Batch
  <1>2. Appended(acme, new, acme')
    BY <1>1, ConcatFacts
  <1>3. DOMAIN hosts = DOMAIN new
    BY <1>1, SeqFacts, LenProperties DEF Batch
  <1>4. DOMAIN tls = SetUpFields
    BY DEF IInv, TlsInv
  <1>5. \E rs : tls' = [tls EXCEPT !.resolvers = rs,
             !.lists = Register(@, tls.onDemand[k].list, {Len(acme) + j : j \in DOMAIN new})]
    BY DEF Pushed
  <1> QED BY <1>2, <1>3, <1>4, <1>5 DEF SetUpFields

\* A push keeps the invariant, and the lists fit the new configurations.
LEMMA PushStep ==
    ASSUME IInv, NEW k, NEW hosts, NEW new, Batch(k, hosts, new), Pushed(k, new),
           UNCHANGED <<nameFile, queue, lock, pc, turn, txt>>, adders' \subseteq adders
    PROVE  IInv' /\ (VInv => VInv')
  <1>1. Appended(acme, new, acme') /\ DOMAIN hosts = DOMAIN new
    BY PushedFacts
  <1>2. DOMAIN tls' = SetUpFields /\ tls'.onDemand = tls.onDemand /\ tls'.alpn = tls.alpn
    BY PushedFacts
  <1>3. /\ k \in DOMAIN tls.onDemand /\ tls.onDemand[k].port \in Ports
        /\ tls.onDemand[k].chal \in Challenges
    BY DEF Batch, IInv, TlsInv
  <1>4. \A j \in DOMAIN new : hosts[j] \in ClientHosts
    BY <1>1, LenProperties, ElementOfSeq DEF Batch
  <1>5. ASSUME NEW i \in DOMAIN acme' PROVE ConfigInv(acme[i])'
    <2>1. CASE i \in DOMAIN acme
      <3>1. ConfigInv(acme[i]) /\ acme'[i] = acme[i]
        BY <1>1, <2>1 DEF IInv, AcmeInv, Appended
      <3> QED BY <1>2, <3>1 DEF ConfigInv, OnDemandConfig, FileOf
    <2>2. CASE \E j \in DOMAIN new : i = Len(acme) + j
      <3>1. PICK j \in DOMAIN new : i = Len(acme) + j
        BY <2>2
      <3>2. acme'[i] = new[j] /\ hosts[j] \in ClientHosts
        BY <1>1, <1>4, <3>1 DEF Appended
      <3>3. /\ NewFor(new[j], k, hosts[j]) /\ match_hostname(tls.onDemand[k].host, hosts[j])
            /\ tls.onDemand[k].cache => hosts[j] \in Range(nameFile[FileOf(k)])
        BY DEF Batch
      <3>4. OnDemandConfig(acme[i])'
        BY <1>2, <1>3, <3>2, <3>3 DEF OnDemandConfig, NewFor, FileOf
      <3>5. Exact(hosts[j]) \in Hosts /\ Exact(hosts[j]) \in HostType
        BY <3>2, TlsAssumption DEF ClientHosts, Hosts, Exact, HostType
      <3> QED BY <1>3, <3>2, <3>3, <3>4, <3>5 DEF ConfigInv, NewFor
    <2> QED BY <1>1, <2>1, <2>2 DEF Appended
  <1>6. AcmeInv'
    BY <1>1, <1>5 DEF AcmeInv, Appended
  <1>7. TlsInv' /\ FileInv' /\ LockInv' /\ TurnInv'
    <2>1. TlsInv' /\ FileInv'
      BY <1>2 DEF IInv, TlsInv, FileInv
    <2>2. LockInv'
      BY DEF IInv, LockInv
    <2>3. TurnInv'
      BY <1>1 DEF IInv, TurnInv, Appended
    <2> QED BY <2>1, <2>2, <2>3
  <1>8. \A a \in adders' : AdderInv(a)'
    BY <1>2 DEF IInv, AdderInv, FileOf
  <1>9. IInv'
    BY <1>6, <1>7, <1>8 DEF IInv
  <1>10. ASSUME VInv PROVE VInv'
    <2> DEFINE N == {Len(acme) + j : j \in DOMAIN new}
               od == tls.onDemand[k]
    <2>1. /\ Extended(acme, acme', N, od.port, od.chal)
          /\ \A i \in N : /\ acme'[i].od = k /\ acme'[i].port = od.port
                           /\ acme'[i].chal = od.chal
      <3>1. \A i \in DOMAIN acme : /\ i \in DOMAIN acme' /\ acme[i].port \in Ports
                                   /\ acme'[i].port = acme[i].port /\ acme'[i].chal = acme[i].chal
                                   /\ acme'[i].od = acme[i].od
        BY <1>1 DEF Appended, IInv, AcmeInv, ConfigInv
      <3>2. \A i \in DOMAIN acme' : i \in DOMAIN acme \/ i \in N
        BY <1>1 DEF Appended
      <3>3. ASSUME NEW i \in N
            PROVE  /\ i \in Nat /\ i \in DOMAIN acme' /\ acme'[i].od = k
                   /\ acme'[i].port = od.port /\ acme'[i].chal = od.chal
        <4>1. PICK j \in DOMAIN new : i = Len(acme) + j
          OBVIOUS
        <4>2. acme'[i] = new[j] /\ i \in DOMAIN acme' /\ i \in Nat
          BY <1>1, <4>1 DEF Appended
        <4>3. NewFor(new[j], k, hosts[j])
          BY DEF Batch
        <4> QED BY <4>2, <4>3 DEF NewFor
      <3> HIDE DEF N, od
      <3> QED BY <3>1, <3>2, <3>3 DEF Extended
    <2>2. ListsInv(tls.lists, tls.alpn, acme, tls.onDemand)
      BY <1>10 DEF VInv
    <2>3. /\ ListsOk(tls.lists, tls.alpn) /\ ListsMembers(tls.lists, tls.alpn, acme)
          /\ HttpListed(tls.lists, acme) /\ AlpnListed(tls.lists, tls.alpn, acme, tls.onDemand)
          /\ ListRight(tls.lists, tls.alpn, tls.onDemand, k)
      BY <1>3, <2>2 DEF ListsInv
    <2>4. Uses(tls.lists, tls.alpn, od.port, od.chal, od.list)
      BY <2>3 DEF Uses, ListRight
    <2>04. InUse(tls.alpn, od.port, od.chal, od.list, tls.onDemand, acme', N)
      <3>1. k # 0
        BY <1>3, SeqFacts DEF IInv, TlsInv
      <3>2. od.chal = "tls-alpn-01" /\ od.list # tls.alpn[od.port] => ~Latest(tls.onDemand, k)
        BY <2>3 DEF ListRight
      <3> QED BY <2>1, <3>1, <3>2 DEF Overtaken, Latest, InUse
    <2>5. tls'.lists = Register(tls.lists, od.list, N)
      BY PushedFacts
    <2>6. od.port \in Ports /\ od.chal \in Challenges
      BY <1>3
    <2> HIDE DEF N, od
    <2>7. /\ ListsOk(tls'.lists, tls.alpn) /\ ListsMembers(tls'.lists, tls.alpn, acme')
          /\ HttpListed(tls'.lists, acme') /\ AlpnListed(tls'.lists, tls.alpn, acme', tls.onDemand)
      BY <2>1, <2>3, <2>4, <2>04, <2>5, <2>6, RegisterOk
    <2>8. ListsInv(tls'.lists, tls'.alpn, acme', tls'.onDemand)
      <3>1. Len(tls'.lists) = Len(tls.lists)
        BY <2>3, <2>5, RegisterLen DEF ListsOk
      <3>2. \A m \in DOMAIN tls.onDemand : ListRight(tls'.lists, tls.alpn, tls.onDemand, m)
        BY <2>2, <3>1 DEF ListsInv, ListRight, ListFor
      <3> QED BY <1>2, <2>7, <3>2 DEF ListsInv
    <2>9. ASSUME NEW i \in DOMAIN acme', acme'[i].chal = "tls-alpn-01" PROVE ~acme'[i].host.wild
      <3>1. CASE i \in DOMAIN acme
        BY <1>1, <1>10, <2>9, <3>1 DEF VInv, Appended
      <3>2. CASE \E j \in DOMAIN new : i = Len(acme) + j
        <4>1. PICK j \in DOMAIN new : i = Len(acme) + j
          BY <3>2
        <4>2. acme'[i] = new[j] /\ NewFor(new[j], k, hosts[j])
          BY <1>1, <4>1 DEF Appended, Batch
        <4> QED BY <4>2 DEF NewFor, Exact
      <3> QED BY <1>1, <3>1, <3>2 DEF Appended
    <2>10. RecordNames' /\ Prepared'
      <3>1. pc = "validate" => acme'[turn] = acme[turn]
        BY <1>1 DEF IInv, TurnInv, Appended
      <3> QED BY <1>10, <3>1 DEF VInv, RecordNames, Prepared
    <2> QED BY <2>8, <2>9, <2>10 DEF VInv
  <1> QED BY <1>9, <1>10

\* Pushing configurations for hosts that have none leaves one for each host.
LEMMA PushUnique ==
    ASSUME IInv, NEW k, NEW hosts, NEW new, Batch(k, hosts, new), Pushed(k, new),
           Unmet(k, hosts), Apart, OneConfigPerHost
    PROVE  Apart' /\ OneConfigPerHost'
  <1>1. Appended(acme, new, acme') /\ DOMAIN hosts = DOMAIN new /\ tls'.onDemand = tls.onDemand
    BY PushedFacts
  <1>2. \A j \in DOMAIN new : NewFor(new[j], k, hosts[j])
    BY DEF Batch
  <1>3. k # 0
    BY SeqFacts DEF Batch, IInv, TlsInv
  <1>4. Apart'
    <2> SUFFICES ASSUME NEW m \in DOMAIN tls.onDemand, NEW l \in ClientHosts,
                        match_hostname(tls.onDemand[m].host, l)
                 PROVE  /\ \A n \in DOMAIN tls.onDemand :
                              tls.onDemand[n].port = tls.onDemand[m].port
                                  /\ match_hostname(tls.onDemand[n].host, l) => n = m
                        /\ \A i \in DOMAIN acme' :
                              acme'[i].od = 0 /\ acme'[i].port = tls.onDemand[m].port => acme'[i].host # Exact(l)
      BY <1>1 DEF Apart
    <2>1. ASSUME NEW i \in DOMAIN acme', acme'[i].od = 0 PROVE i \in DOMAIN acme /\ acme'[i] = acme[i]
      <3>1. ASSUME NEW j \in DOMAIN new, i = Len(acme) + j PROVE FALSE
        BY <1>1, <1>2, <1>3, <2>1, <3>1 DEF Appended, NewFor
      <3> QED BY <1>1, <3>1 DEF Appended
    <2> QED BY <2>1 DEF Apart
  <1>5. OneConfigPerHost'
    <2> SUFFICES ASSUME NEW i \in DOMAIN acme', NEW j \in DOMAIN acme',
                        acme'[i].port = acme'[j].port, acme'[i].host = acme'[j].host
                 PROVE  i = j
      BY DEF OneConfigPerHost
    <2>1. \A n \in DOMAIN acme' :
             \/ n \in DOMAIN acme /\ acme'[n] = acme[n]
             \/ \E m \in DOMAIN hosts : n = Len(acme) + m /\ acme'[n].port = tls.onDemand[k].port
                                        /\ acme'[n].host = Exact(hosts[m])
      BY <1>1, <1>2 DEF Appended, NewFor
    <2>2. CASE i \in DOMAIN acme /\ j \in DOMAIN acme
      BY <1>1, <2>2 DEF OneConfigPerHost, Appended
    <2>3. CASE i \in DOMAIN acme /\ j \notin DOMAIN acme
      <3>1. acme'[i] = acme[i]
        BY <1>1, <2>3 DEF Appended
      <3> QED BY <2>1, <2>3, <3>1 DEF Unmet
    <2>4. CASE i \notin DOMAIN acme /\ j \in DOMAIN acme
      <3>1. acme'[j] = acme[j]
        BY <1>1, <2>4 DEF Appended
      <3> QED BY <2>1, <2>4, <3>1 DEF Unmet
    <2>5. CASE i \notin DOMAIN acme /\ j \notin DOMAIN acme
      <3>1. PICK m \in DOMAIN hosts : i = Len(acme) + m /\ acme'[i].host = Exact(hosts[m])
        BY <2>1, <2>5
      <3>2. PICK n \in DOMAIN hosts : j = Len(acme) + n /\ acme'[j].host = Exact(hosts[n])
        BY <2>1, <2>5
      <3>3. hosts[m] = hosts[n]
        BY <3>1, <3>2 DEF Exact
      <3> QED BY <3>1, <3>2, <3>3 DEF Unmet
    <2> QED BY <2>2, <2>3, <2>4, <2>5
  <1> QED BY <1>4, <1>5

\* convert_on_demand_config makes configurations of the entry ...
LEMMA ConvertedFor ==
    ASSUME NEW k \in DOMAIN tls.onDemand, NEW hosts, NEW j \in DOMAIN hosts
    PROVE  NewFor(Converted(k, hosts)[j], k, hosts[j])
  BY DEF Converted, NewConfig, NewFor, HasFields, Fields

\* ... which they stay when a cached certificate is installed.
LEMMA InstalledFor ==
    ASSUME NEW c, NEW k, NEW l, NewFor(c, k, l) PROVE NewFor(Installed(c), k, l)
  BY InstalledSame DEF NewFor, Same

\* The cached domains of an entry are pushed once, before any adder runs.
LEMMA BootDomainsStep ==
    ASSUME IInv, BootDomains
    PROVE  IInv' /\ (UInv => UInv') /\ (VInv => VInv')
  <1> DEFINE od == tls.onDemand[boot]
             hosts == IF od.cache THEN nameFile[FileOf(boot)] ELSE <<>>
             conv == Converted(boot, hosts)
             new == [j \in DOMAIN conv |-> Installed(conv[j])]
  <1>1. /\ boot \in DOMAIN tls.onDemand /\ Pushed(boot, new) /\ boot' = boot + 1
        /\ existing' = IF od.cache THEN existing \cup Known(od) ELSE existing
        /\ UNCHANGED <<nameFile, queue, lock, pc, turn, txt, adders>>
    BY DEF BootDomains, FileOf, task, disk
  <1>2. FileOf(boot) \in OnDemandNames /\ FileOf(boot)[2] = od.host /\ FileOf(boot)[1] = od.port
    BY <1>1 DEF IInv, TlsInv, FileOf, NameFileOf, OnDemandNames
  <1>3. hosts \in Seq(ClientHosts)
    BY <1>2 DEF IInv, FileInv
  <1>4. \A j \in DOMAIN hosts : /\ od.cache /\ hosts[j] \in Range(nameFile[FileOf(boot)])
                                /\ match_hostname(od.host, hosts[j])
    <2>1. CASE od.cache
      <3>1. \A j \in DOMAIN hosts : hosts[j] \in Range(nameFile[FileOf(boot)])
        BY <2>1 DEF Range
      <3> QED BY <1>2, <2>1, <3>1 DEF IInv, FileInv
    <2>2. CASE ~od.cache
      BY <2>2
    <2> QED BY <2>1, <2>2
  <1>5. DOMAIN new = DOMAIN hosts
    BY DEF Converted
  <1>6. \A j \in DOMAIN hosts : NewFor(new[j], boot, hosts[j])
    <2> SUFFICES ASSUME NEW j \in DOMAIN hosts PROVE NewFor(new[j], boot, hosts[j])
      OBVIOUS
    <2>1. new[j] = Installed(conv[j])
      BY DEF Converted
    <2>2. NewFor(conv[j], boot, hosts[j])
      <3> HIDE DEF hosts
      <3> QED BY <1>1, ConvertedFor
    <2> HIDE DEF new, conv, hosts
    <2> QED BY <2>1, <2>2, InstalledFor
  <1>7. IsSeq(new) /\ Len(new) = Len(hosts)
    <2>1. Len(hosts) \in Nat /\ DOMAIN hosts = 1..Len(hosts)
      BY <1>3, LenProperties
    <2>2. new = [j \in DOMAIN new |-> new[j]]
      OBVIOUS
    <2> HIDE DEF new, hosts
    <2>3. new \in [1..Len(hosts) -> Range(new)]
      BY <1>5, <2>1, <2>2 DEF Range
    <2>4. new \in Seq(Range(new))
      BY <2>1, <2>3
    <2> QED BY <1>5, <2>1, <2>4, LenProperties DEF IsSeq
  <1> HIDE DEF new, hosts, od
  <1>8. Batch(boot, hosts, new)
    BY <1>1, <1>3, <1>4, <1>5, <1>6, <1>7 DEF Batch, od
  <1>9. IInv' /\ (VInv => VInv')
    BY <1>1, <1>8, PushStep
  <1>10. ASSUME UInv PROVE UInv'
    <2>1. /\ Len(tls.onDemand) \in Nat /\ DOMAIN tls.onDemand = 1..Len(tls.onDemand)
          /\ boot \in Nat /\ ~Booted
      BY <1>1, SeqFacts DEF IInv, TlsInv, Booted
    <2>2. adders = {}
      BY <1>10, <2>1 DEF UInv, Loaded
    <2>3. \A i, j \in DOMAIN hosts : hosts[i] = hosts[j] => i = j
      BY <1>2, <1>4, <1>10 DEF UInv, FilesDistinct, hosts
    <2>4. \A j \in DOMAIN hosts : hosts[j] \in ClientHosts
      BY <1>3, LenProperties, ElementOfSeq
    <2>5. ASSUME NEW i \in DOMAIN acme, NEW j \in DOMAIN hosts,
                 acme[i].port = od.port, acme[i].host = Exact(hosts[j])
          PROVE  FALSE
      <3>1. acme[i].od # 0
        BY <1>1, <1>4, <1>10, <2>4, <2>5 DEF UInv, Apart, od
      <3>2. OnDemandConfig(acme[i]) /\ acme[i].od < boot
        BY <1>10, <2>1, <3>1 DEF IInv, AcmeInv, ConfigInv, UInv, Loaded
      <3>3. PICK l \in ClientHosts : acme[i].host = Exact(l) /\ match_hostname(tls.onDemand[acme[i].od].host, l)
        BY <3>2 DEF OnDemandConfig
      <3>4. l = hosts[j]
        BY <2>5, <3>3 DEF Exact
      <3>5. acme[i].od \in DOMAIN tls.onDemand /\ tls.onDemand[acme[i].od].port = od.port
        BY <2>5, <3>2 DEF OnDemandConfig
      <3>6. acme[i].od = boot
        BY <1>1, <1>4, <1>10, <3>3, <3>4, <3>5 DEF UInv, Apart, od
      <3> QED BY <2>1, <3>2, <3>6
    <2>6. Unmet(boot, hosts)
      BY <2>3, <2>5 DEF Unmet, od
    <2>7. Apart' /\ OneConfigPerHost'
      BY <1>1, <1>8, <1>10, <2>6, PushUnique DEF UInv
    <2>8. /\ Appended(acme, new, acme') /\ tls'.onDemand = tls.onDemand
      BY <1>1, <1>8, PushedFacts
    <2>9. \A l \in Range(nameFile[FileOf(boot)]) : od.cache => <<l, od.port>> \in existing'
      BY <1>1 DEF Known, FileOf, od
    <2>10. existing \subseteq existing'
      BY <1>1
    <2>11. ASSUME NEW i \in DOMAIN acme', acme'[i].od # 0
           PROVE  <<acme'[i].host.labels, acme'[i].port>> \in existing' /\ acme'[i].od < boot'
      <3>1. CASE i \in DOMAIN acme
        <4>1. acme'[i] = acme[i]
          BY <2>8, <3>1 DEF Appended
        <4>2. <<acme[i].host.labels, acme[i].port>> \in existing /\ acme[i].od < boot
          BY <1>10, <2>1, <2>11, <3>1, <4>1 DEF UInv, Loaded
        <4>3. acme[i].od \in DOMAIN tls.onDemand
          BY <2>11, <3>1, <4>1 DEF IInv, AcmeInv, ConfigInv, OnDemandConfig
        <4> QED BY <1>1, <2>1, <2>10, <4>1, <4>2, <4>3
      <3>2. CASE \E j \in DOMAIN new : i = Len(acme) + j
        <4>1. PICK j \in DOMAIN new : i = Len(acme) + j
          BY <3>2
        <4>2. acme'[i] = new[j] /\ NewFor(new[j], boot, hosts[j])
          BY <1>5, <1>6, <2>8, <4>1 DEF Appended
        <4>3. hosts[j] \in Range(nameFile[FileOf(boot)]) /\ od.cache
          BY <1>4, <1>5
        <4>4. acme'[i].host.labels = hosts[j] /\ acme'[i].port = od.port /\ acme'[i].od = boot
          BY <4>2 DEF NewFor, Exact, od
        <4> QED BY <1>1, <2>1, <2>9, <4>3, <4>4
      <3> QED BY <2>8, <3>1, <3>2 DEF Appended
    <2>12. ASSUME NEW m \in DOMAIN tls.onDemand, m < boot', tls.onDemand[m].cache,
                  NEW l \in Range(nameFile[FileOf(m)])
           PROVE  <<l, tls.onDemand[m].port>> \in existing'
      <3>1. CASE m = boot
        BY <2>9, <2>12, <3>1 DEF od
      <3>2. CASE m # boot
        <4>1. m < boot
          BY <1>1, <2>1, <2>12, <3>2
        <4> QED BY <1>10, <2>10, <2>12, <4>1 DEF UInv, Loaded
      <3> QED BY <3>1, <3>2
    <2>13. Loaded'
      BY <1>1, <2>1, <2>2, <2>8, <2>11, <2>12 DEF Loaded, FileOf
    <2>14. FilesDistinct' /\ \A a \in adders' : Adding(a)'
      BY <1>1, <1>10, <2>2 DEF UInv, FilesDistinct
    <2> QED BY <2>7, <2>13, <2>14 DEF UInv
  <1> QED BY <1>9, <1>10

\* An adder pushes its host.
LEMMA AddPushStep ==
    ASSUME IInv, NEW a \in adders, AddPush(a)
    PROVE  IInv' /\ (UInv => UInv') /\ (VInv => VInv')
  <1> DEFINE k == a.od
             od == tls.onDemand[k]
             hosts == <<a.host>>
             new == Converted(k, hosts)
  <1>1. /\ Pushed(k, new) /\ adders' = adders \ {a} /\ a.pc = "push"
        /\ UNCHANGED <<nameFile, existing, boot, queue, lock, pc, turn, txt>>
    BY DEF AddPush, task, disk
  <1>2. /\ k \in DOMAIN tls.onDemand /\ a.host \in ClientHosts /\ match_hostname(od.host, a.host)
        /\ od.cache => a.host \in Range(nameFile[FileOf(k)])
    BY <1>1 DEF IInv, AdderInv
  <1>3. hosts \in Seq(ClientHosts) /\ Len(hosts) = 1 /\ DOMAIN hosts = {1} /\ hosts[1] = a.host
    BY <1>2
  <1>4. DOMAIN new = {1} /\ NewFor(new[1], k, a.host) /\ new = [j \in DOMAIN new |-> new[j]]
    <2>1. DOMAIN new = {1} /\ new = [j \in DOMAIN new |-> new[j]]
      BY <1>3 DEF Converted
    <2> QED BY <1>2, <1>3, <2>1, ConvertedFor
  <1> HIDE DEF new, hosts, od, k
  <1>5. IsSeq(new) /\ Len(new) = 1
    <2>1. new \in [1..1 -> Range(new)]
      BY <1>4 DEF Range
    <2>2. new \in Seq(Range(new))
      BY <2>1
    <2> QED BY <1>4, <2>2, LenProperties DEF IsSeq
  <1>6. Batch(k, hosts, new)
    BY <1>2, <1>3, <1>4, <1>5 DEF Batch, od
  <1>7. IInv' /\ (VInv => VInv')
    <2>1. adders' \subseteq adders
      BY <1>1
    <2> QED BY <1>1, <1>6, <2>1, PushStep
  <1>8. ASSUME UInv PROVE UInv'
    <2>1. Adding(a) /\ \A b \in adders : Adding(b)
      BY <1>8 DEF UInv
    <2>2. Unmet(k, hosts)
      BY <1>3, <2>1 DEF Unmet, Adding, k
    <2>3. Apart' /\ OneConfigPerHost'
      BY <1>1, <1>6, <1>8, <2>2, PushUnique DEF UInv
    <2>4. Appended(acme, new, acme') /\ tls'.onDemand = tls.onDemand
      BY <1>1, <1>6, PushedFacts
    <2>5. Booted /\ Booted'
      BY <1>1, <1>8, <2>4 DEF UInv, Loaded, Booted
    <2>6. \A i \in DOMAIN acme' : \/ i \in DOMAIN acme /\ acme'[i] = acme[i]
                                  \/ acme'[i].host = Exact(a.host) /\ acme'[i].port = od.port
      <3>1. ASSUME NEW i \in DOMAIN acme', i \notin DOMAIN acme
            PROVE  acme'[i].host = Exact(a.host) /\ acme'[i].port = od.port
        <4>1. acme'[i] = new[1]
          BY <1>4, <2>4, <3>1 DEF Appended
        <4> QED BY <1>4, <4>1 DEF NewFor, od
      <3> QED BY <2>4, <3>1 DEF Appended
    <2>7. <<a.host, od.port>> \in existing
      BY <2>1 DEF Adding, od, k
    <2>8. ASSUME NEW i \in DOMAIN acme', acme'[i].od # 0
          PROVE  <<acme'[i].host.labels, acme'[i].port>> \in existing
      <3>1. CASE i \in DOMAIN acme /\ acme'[i] = acme[i]
        BY <1>8, <2>8, <3>1 DEF UInv, Loaded
      <3>2. CASE acme'[i].host = Exact(a.host) /\ acme'[i].port = od.port
        BY <2>7, <3>2 DEF Exact
      <3> QED BY <2>6, <3>1, <3>2
    <2>9. Loaded'
      BY <1>1, <1>8, <2>4, <2>5, <2>8 DEF UInv, Loaded, FileOf
    <2>10. ASSUME NEW b \in adders' PROVE Adding(b)'
      <3>1. b \in adders /\ b # a /\ Adding(b)
        BY <1>1, <2>1
      <3>2. ASSUME NEW i \in DOMAIN acme', acme'[i].port = tls.onDemand[b.od].port,
                   acme'[i].host = Exact(b.host)
            PROVE  FALSE
        <4>1. CASE i \in DOMAIN acme /\ acme'[i] = acme[i]
          BY <3>1, <3>2, <4>1 DEF Adding
        <4>2. CASE acme'[i].host = Exact(a.host) /\ acme'[i].port = od.port
          <5>1. a.host = b.host /\ tls.onDemand[b.od].port = tls.onDemand[a.od].port
            BY <3>2, <4>2 DEF Exact, od, k
          <5> QED BY <2>1, <3>1, <5>1 DEF Adding
        <4> QED BY <2>6, <4>1, <4>2
      <3> QED BY <1>1, <2>4, <3>1, <3>2 DEF Adding, FileOf
    <2>11. FilesDistinct'
      BY <1>1, <1>8 DEF UInv, FilesDistinct
    <2> QED BY <2>3, <2>9, <2>10, <2>11 DEF UInv
  <1> QED BY <1>7, <1>8

-----------------------------------------------------------------------------
(***************************************************************************)
(* The theorems.                                                           *)
(***************************************************************************)
\* Every step.
LEMMA NextInv ==
    ASSUME IInv, [Next]_vars
    PROVE  IInv' /\ (OnDemandApart /\ UInv => UInv') /\ (VInv => VInv')
  <1>1. CASE BootInstall
    BY <1>1, BootInstallQuiet, QuietStep
  <1>2. CASE BootDomains
    BY <1>2, BootDomainsStep
  <1>3. CASE RoundStart \/ ProvisionFails
    BY <1>3, TaskQuiet, QuietStep
  <1>4. CASE Provision
    BY <1>4, TaskQuiet, ProvisionQuiet, QuietStep DEF Provision
  <1>5. CASE (\E cl \in Clients : Handshake(cl)) \/ AskRefused \/ Tick \/ UNCHANGED vars
    BY <1>5, DemandQuiet, QuietStep
  <1>6. CASE Receive
    BY <1>6, ReceiveStep
  <1>7. CASE \E a \in adders : AddLock(a) \/ AddWrite(a) \/ AddPush(a)
    BY <1>7, AddLockStep, AddWriteStep, AddPushStep
  <1>8. CASE Forget
    BY <1>8, ForgetQuiet, QuietStep
  <1>9. CASE Restart
    BY <1>9, RestartStep
  <1> QED BY <1>1, <1>2, <1>3, <1>4, <1>5, <1>6, <1>7, <1>8, <1>9 DEF Next

\* The invariant for any host blocks.
THEOREM InvAlways == Spec => []IInv
  <1>1. Init => IInv
    BY InitInv
  <1>2. IInv /\ [Next]_vars => IInv'
    BY NextInv
  <1> QED BY <1>1, <1>2, PTL DEF Spec

\* No host that was given a configuration on demand is lost from the file of cached
\* domains, whatever the host blocks are and however adders, rounds and restarts
\* interleave.
THEOREM DomainsKeptAlways == Spec => []DomainsKept
  <1>1. ASSUME IInv PROVE DomainsKept
    <2> SUFFICES ASSUME NEW i \in DOMAIN acme, acme[i].od # 0, acme[i].cache
                 PROVE  acme[i].host.labels \in Range(nameFile[NameFileOf(tls.onDemand[acme[i].od])])
      BY DEF DomainsKept
    <2>1. OnDemandConfig(acme[i])
      BY <1>1 DEF IInv, AcmeInv, ConfigInv
    <2> QED BY <2>1 DEF OnDemandConfig, FileOf, Exact
  <1> QED BY <1>1, InvAlways, PTL

\* No host has two ACME configurations on a port, if no client can be served both
\* on demand and by a block for its host, nor on demand from two blocks.
THEOREM OneConfigPerHostAlways ==
    ASSUME OnDemandApart PROVE Spec => []OneConfigPerHost
  <1>1. Init => IInv /\ UInv
    BY InitInv
  <1>2. IInv /\ UInv /\ [Next]_vars => IInv' /\ UInv'
    BY NextInv
  <1>3. UInv => OneConfigPerHost
    BY DEF UInv
  <1> QED BY <1>1, <1>2, <1>3, PTL DEF Spec

\* A prepared challenge in the right list is answered.
LEMMA AnswersNow ==
    ASSUME IInv, OneConfigPerHost, VInv, pc = "validate",
           ~Overtaken(tls.onDemand, acme[turn], turn)
    PROVE  Answers(turn)
  <1> DEFINE c == acme[turn]
             l == tls.alpn[c.port]
             found == {j \in tls.lists[l] : /\ acme[j].data # None
                                            /\ acme[j].host.labels = c.host.labels}
  <1>1. turn \in DOMAIN acme /\ turn \in Nat
    BY DEF IInv, TurnInv
  <1>2. c.data \in Nat \X Nat /\ (c.chal = "dns-01" => txt[c.host.labels] = c.data)
    BY DEF VInv, Prepared
  <1>3. c.data # None
    BY <1>2, TlsAssumption
  <1>4. c.port \in Ports /\ c.chal \in Challenges /\ c.host \in HostType
    BY <1>1 DEF IInv, AcmeInv, ConfigInv
  <1>5. /\ ListsMembers(tls.lists, tls.alpn, acme) /\ HttpListed(tls.lists, acme)
        /\ AlpnListed(tls.lists, tls.alpn, acme, tls.onDemand)
    BY DEF VInv, ListsInv
  <1>6. CASE c.chal = "tls-alpn-01"
    <2>1. l # 0 /\ turn \in tls.lists[l]
      BY <1>1, <1>5, <1>6 DEF AlpnListed
    <2>2. turn \in found
      BY <1>3, <2>1
    <2>3. ASSUME NEW j \in found PROVE turn = j
      <3>1. j \in DOMAIN acme /\ acme[j].port = c.port /\ acme[j].chal = "tls-alpn-01"
        BY <1>4, <1>5, <2>1 DEF ListsMembers
      <3>2. ~acme[j].host.wild /\ ~c.host.wild /\ acme[j].host.labels = c.host.labels
        BY <1>1, <1>6, <3>1 DEF VInv
      <3>3. acme[j].host \in HostType
        BY <3>1 DEF IInv, AcmeInv, ConfigInv
      <3>4. acme[j].host = c.host
        BY <1>4, <3>2, <3>3 DEF HostType
      <3> QED BY <1>1, <3>1, <3>4 DEF OneConfigPerHost
    <2>4. \A j \in found : turn <= j
      BY <1>1, <2>3
    <2> QED BY <1>6, <2>1, <2>2, <2>4 DEF Answers
  <1>7. CASE c.chal = "http-01"
    <2>1. turn \in tls.lists[1]
      BY <1>1, <1>5, <1>7 DEF HttpListed
    <2> QED BY <1>7, <2>1 DEF Answers
  <1>8. CASE c.chal = "dns-01"
    BY <1>2, <1>8 DEF Answers
  <1> QED BY <1>4, <1>6, <1>7, <1>8 DEF Challenges

\* While the authority may look at the challenge of an order it finds the data of
\* this order, for host blocks as above: also those that share ports, in any order and
\* with any challenges, but for configurations that a later block has overtaken.
THEOREM ChallengeAnswerableAlways ==
    ASSUME OnDemandApart PROVE Spec => []ChallengeAnswerable
  <1>1. Init => IInv /\ UInv /\ VInv
    BY InitInv
  <1>2. IInv /\ UInv /\ VInv /\ [Next]_vars => IInv' /\ UInv' /\ VInv'
    BY NextInv
  <1>3. IInv /\ UInv /\ VInv => ChallengeAnswerable
    BY AnswersNow DEF ChallengeAnswerable, UInv
  <1> QED BY <1>1, <1>2, <1>3, PTL DEF Spec
====
