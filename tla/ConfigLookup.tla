---------------------------- MODULE ConfigLookup ----------------------------
(***************************************************************************)
(* From the configuration file to the configuration of a request.          *)
(*                                                                         *)
(* Loading: the KDL adapter (config/adapters/kdl.rs) turns every block of  *)
(* the file into a configuration with filters; merge_duplicates,           *)
(* remove_and_add_global_configuration and premerge_configuration          *)
(* (config/processing.rs) merge, prune and complete them; finally          *)
(* ServerConfigurations::new (config/mod.rs) sorts them.                   *)
(* Serving: find_configuration and find_error_configuration search the     *)
(* sorted list.                                                            *)
(*                                                                         *)
(* Strings are abstract: hostnames, locations and conditions are records   *)
(* with their place in the string order (rank) and what matching and       *)
(* ordering look at.  An optional value is a set of at most one element.   *)
(***************************************************************************)
EXTENDS Naturals, SequencesExt

CONSTANTS Blocks,     \* the blocks a file may hold, see Block
          Props,      \* directive names
          MaxBlocks,  \* bound: the directives of a file
          Requests,   \* the requests to serve, see Request
          Statuses    \* status codes of error responses

IsOption(s) == IsFiniteSet(s) /\ Cardinality(s) <= 1
The(s) == CHOOSE x \in s : TRUE
AnyStatus == 0   \* ErrorHandlerStatus::Any; Status(n) is n

IsBlock(b) ==
    /\ b.is_host \in BOOLEAN
    /\ \A o \in {b.ip, b.port, b.error} : IsOption(o) /\ o \subseteq Nat
    /\ IsOption(b.hostname) /\ IsOption(b.location)
    /\ \A h \in b.hostname : h.rank \in Nat \ {0} /\ h.wild \in BOOLEAN /\ h.labels # <<>>
    /\ \A l \in b.location : l.rank \in Nat \ {0}
    /\ \A i \in DOMAIN b.conditionals : b.conditionals[i].rank \in Nat \ {0}

ASSUME ConfigAssumption ==
    /\ \A b \in Blocks : IsBlock(b)
    /\ MaxBlocks \in Nat
    /\ Statuses \subseteq Nat \ {0}

VARIABLES
    file,    \* the directives of the file, in order: [block, prop]
    phase,   \* what is done next
    read,    \* how many of them the adapter has read
    confs,   \* the configurations: Seq([filters, entries])
    out,     \* the list a pass is building
    trie     \* the filters the trie was built from, in order of their index

vars == <<file, phase, read, confs, out, trie>>

-----------------------------------------------------------------------------
(***************************************************************************)
(* Filters and their two orders.                                           *)
(***************************************************************************)

\* Lexicographic order of sequences of numbers of the same length.
Before(a, b) == \E i \in DOMAIN a : a[i] < b[i] /\ \A j \in 1..(i - 1) : a[j] = b[j]

\* Vec::sort_by: a stable sort.
StableSort(s, Key(_)) ==
    LET Place(i) == Cardinality({j \in DOMAIN s : \/ Before(Key(s[j]), Key(s[i]))
                                                  \/ Key(s[j]) = Key(s[i]) /\ j <= i})
    IN [k \in DOMAIN s |-> s[CHOOSE i \in DOMAIN s : Place(i) = k]]

Bit(p) == IF p THEN 1 ELSE 0
Rank(o) == IF o = {} THEN 0 ELSE The(o).rank
Number(o) == IF o = {} THEN 0 ELSE The(o) + 1

\* Place of the i-th conditional of a condition in the order of ConditionalData,
\* in which all is_language subconditions are equal, whatever the language.
ConditionalRank(condition, i) ==
    IF condition = {} \/ Len(The(condition).conditionals) < i THEN 0
    ELSE The(condition).conditionals[i].rank

\* The vector of filters the trie is keyed with; the derived order compares
\* strings, and the conditionals (at most two here) one after the other.
FilterVec(f) ==
    LET c == f.condition
    IN <<<<Bit(f.is_host)>>, <<Number(f.port)>>, <<Number(f.ip)>>, <<Rank(f.hostname)>>,
         <<IF c = {} THEN 0 ELSE The(c).location.rank, ConditionalRank(c, 1), ConditionalRank(c, 2)>>,
         <<Number(f.error_handler_status)>>>>

\* The order merge_duplicates sorts by.
FullKey(conf) ==
    LET v == FilterVec(conf.filters) IN v[1] \o v[2] \o v[3] \o v[4] \o v[5] \o v[6]

\* Dots of a hostname, those of the wildcard label included.
Dots(h) == Len(h.labels) - 1 + Bit(h.wild)

\* count_logical_slashes of the location, one more than without a condition.
Depth(condition) == IF condition = {} THEN 0 ELSE 1 + Len(The(condition).location.segments)

\* The second part of Conditions::cmp.
Conditionals(condition) == IF condition = {} THEN 0 ELSE Len(The(condition).conditionals)

\* Mutant: the domain level of a hostname does not count.
SpecificityFlat(conf) ==
    LET f == conf.filters IN
    <<Bit(f.is_host), Bit(f.port # {}), Bit(f.ip # {}),
      IF f.hostname = {} THEN 0 ELSE 2 - Bit(The(f.hostname).wild),
      0,
      Depth(f.condition), Conditionals(f.condition),
      Bit(f.error_handler_status # {})>>

\* ServerConfigurationFilters::cmp: the specificity.
Specificity(conf) ==
    LET f == conf.filters IN
    <<Bit(f.is_host), Bit(f.port # {}), Bit(f.ip # {}),
      IF f.hostname = {} THEN 0 ELSE 2 - Bit(The(f.hostname).wild),
      IF f.hostname = {} THEN 0 ELSE Dots(The(f.hostname)),
      Depth(f.condition), Conditionals(f.condition),
      Bit(f.error_handler_status # {})>>

-----------------------------------------------------------------------------
(***************************************************************************)
(* Loading.                                                                *)
(***************************************************************************)

\* The location of a conditional outside of locations.
RootLocation == [rank |-> 1, segments |-> <<>>]

HasCondition(b) == b.location # {} \/ b.conditionals # <<>>

\* The filters kdl_iterate_fn gives to a block; those of an error_config have
\* no condition, wherever it is written.
Filters(b) ==
    [is_host |-> b.is_host, hostname |-> b.hostname, ip |-> b.ip, port |-> b.port,
     condition |-> IF b.error # {} \/ ~HasCondition(b) THEN {}
                   ELSE {[location |-> IF b.location = {} THEN RootLocation ELSE The(b.location),
                          conditionals |-> b.conditionals]},
     error_handler_status |-> b.error]

\* The block a block is written in; a top-level block is its own.
Enclosing(b) ==
    IF b.error # {} THEN [b EXCEPT !.error = {}]
    ELSE IF b.conditionals # <<>> THEN [b EXCEPT !.conditionals = Front(@)]
    ELSE [b EXCEPT !.location = {}]

NoEntries == [p \in Props |-> <<>>]

Empty(b) == [filters |-> Filters(b), entries |-> NoEntries]

Init ==
    /\ file \in UNION {[1..n -> [block: Blocks, prop: Props]] : n \in 0..MaxBlocks}
    /\ phase = "read"
    /\ read = 0
    /\ confs = <<>>
    /\ out = <<>>
    /\ trie = <<>>

\* A directive in its block: a configuration is pushed for the block and,
\* after it, for the blocks it is written in (up to three here), each with the
\* directives of its own.
Pushed(i) ==
    LET b == file[i].block
        own == [filters |-> Filters(b), entries |-> [NoEntries EXCEPT ![file[i].prop] = <<i>>]]
        b1 == Enclosing(b)
        b2 == Enclosing(b1)
        b3 == Enclosing(b2)
    IN <<own>> \o (IF b1 = b THEN <<>> ELSE <<Empty(b1)>>)
               \o (IF b2 = b1 THEN <<>> ELSE <<Empty(b2)>>)
               \o (IF b3 = b2 THEN <<>> ELSE <<Empty(b3)>>)

ReadBlock ==
    /\ phase = "read" /\ read < Len(file)
    /\ read' = read + 1
    /\ confs' = confs \o Pushed(read + 1)
    /\ UNCHANGED <<file, phase, out, trie>>

\* Mutant: the configurations are not sorted before they are merged.
StartMergeUnsorted ==
    /\ phase = "read" /\ read = Len(file)
    /\ phase' = "merge"
    /\ UNCHANGED <<file, read, confs, out, trie>>

\* merge_duplicates: sort, ...
StartMerge ==
    /\ phase = "read" /\ read = Len(file)
    /\ confs' = StableSort(confs, FullKey)
    /\ phase' = "merge"
    /\ UNCHANGED <<file, read, out, trie>>

Extended(conf, other) ==
    [conf EXCEPT !.entries = [p \in Props |-> @[p] \o other.entries[p]]]

\* ... and merge a configuration into the one before it if the filters agree.
MergeNext ==
    /\ phase = "merge" /\ confs # <<>>
    /\ confs' = Tail(confs)
    /\ out' = IF out # <<>> /\ Last(out).filters = Head(confs).filters
              THEN [out EXCEPT ![Len(out)] = Extended(@, Head(confs))]
              ELSE Append(out, Head(confs))
    /\ UNCHANGED <<file, phase, read, trie>>

Globals == [is_host |-> FALSE, hostname |-> {}, ip |-> {}, port |-> {}, condition |-> {},
            error_handler_status |-> {}]
Default == [filters |-> Globals, entries |-> NoEntries]

\* Empty configurations are dropped.
Kept(s) == SelectSeq(s, LAMBDA c : c.entries # NoEntries)

\* remove_and_add_global_configuration.
AddGlobal ==
    /\ phase = "merge" /\ confs = <<>>
    /\ confs' = IF \E i \in DOMAIN Kept(out) : ~Kept(out)[i].filters.is_host
                THEN Kept(out) ELSE <<Default>> \o Kept(out)
    /\ out' = <<>>
    /\ phase' = "sort"
    /\ UNCHANGED <<file, read, trie>>

\* premerge_configuration sorts and puts every configuration into the trie.
SortAndIndex ==
    /\ phase = "sort"
    /\ confs' = StableSort(confs, Specificity)
    /\ trie' = [i \in DOMAIN confs |-> confs'[i].filters]
    /\ phase' = "premerge"
    /\ UNCHANGED <<file, read, out>>

\* The filters f and g are the same up to the k-th.
SamePath(f, g, k) == \A j \in 1..k : FilterVec(f)[j] = FilterVec(g)[j]

\* Mutant: an error handler counts as the block it is written in.
EndsAtError(g, k) == \A j \in (k + 1)..5 : FilterVec(g)[j] = FilterVec(Globals)[j]

\* g has no filter after the k-th.
EndsAt(g, k) == \A j \in (k + 1)..6 : FilterVec(g)[j] = FilterVec(Globals)[j]

\* The indexes at the node that the first k filters of f lead to: the first
\* configuration that ends there.
Node(f, k) == {i \in DOMAIN trie :
                  /\ SamePath(f, trie[i], k) /\ EndsAt(trie[i], k)
                  /\ \A j \in 1..(i - 1) : ~(SamePath(f, trie[j], k) /\ EndsAt(trie[j], k))}

\* premerge_configuration: the most specific configuration left is popped; each
\* layer find_indices returns, deepest first, provides the properties that are
\* still missing; a layer that has been popped already is skipped.
PremergeNext ==
    /\ phase = "premerge" /\ confs # <<>>
    /\ LET c == Last(confs)
           left == Front(confs)
           Layers(p) == {k \in 0..5 : \E i \in Node(c.filters, k) :
                                          i <= Len(left) /\ left[i].entries[p] # <<>>}
           Deepest(p) == CHOOSE k \in Layers(p) : \A l \in Layers(p) : l <= k
           Value(p) == IF c.entries[p] # <<>> \/ Layers(p) = {} THEN c.entries[p]
                       ELSE left[The(Node(c.filters, Deepest(p)))].entries[p]
       IN /\ confs' = left
          /\ out' = <<[c EXCEPT !.entries = [p \in Props |-> Value(p)]]>> \o out
    /\ UNCHANGED <<file, phase, read, trie>>

\* ServerConfigurations::new: reverse, then sort by specificity.
Finalize ==
    /\ phase = "premerge" /\ confs = <<>>
    /\ confs' = StableSort(Reverse(out), Specificity)
    /\ out' = <<>>
    /\ phase' = "ready"
    /\ UNCHANGED <<file, read, trie>>

Next == ReadBlock \/ StartMerge \/ MergeNext \/ AddGlobal \/ SortAndIndex \/ PremergeNext
        \/ Finalize

Spec == Init /\ [][Next]_vars

-----------------------------------------------------------------------------
(***************************************************************************)
(* Serving.  A request has the labels of its hostname (top level first,    *)
(* none: no hostname), the local address and port of its connection, the   *)
(* segments of its path, whether two slashes follow each other in it, the  *)
(* conditions that hold for it, and those whose evaluation fails (a policy *)
(* or a regular expression that returns an error).                         *)
(***************************************************************************)
Loopback == 127

\* A wildcard matches the domain and its subdomains.
match_hostname(hostname, labels) ==
    \A h \in hostname : IF h.wild THEN IsPrefix(h.labels, labels) ELSE h.labels = labels

is_localhost(hostname) == \E h \in hostname : h.labels[1] = "localhost"

\* Segments of the location lead the path; a path with `//` is replaced by the
\* location it is compared with, so it matches every location.
match_location(location, r) == r.double \/ IsPrefix(location.segments, r.segments)

Holds(conditional, r) == (conditional.name \in r.holds) # conditional.not

\* Each `if` holds, no `if_not` does; the first that fails to evaluate ends it.
match_conditions(c, r) ==
    /\ match_location(c.location, r)
    /\ \A i \in DOMAIN c.conditionals :
          Holds(c.conditionals[i], r) /\ c.conditionals[i].name \notin r.fails

conditions_error(c, r) ==
    /\ match_location(c.location, r)
    /\ \E i \in DOMAIN c.conditionals :
          /\ c.conditionals[i].name \in r.fails
          /\ \A j \in 1..(i - 1) : Holds(c.conditionals[j], r) /\ c.conditionals[j].name \notin r.fails

\* What find_configuration compares before the conditions.
MatchesHost(f, r) ==
    /\ match_hostname(f.hostname, r.labels)
    /\ \/ f.ip = {} /\ (is_localhost(f.hostname) => r.ip = Loopback)
       \/ f.ip = {r.ip}
    /\ f.port = {} \/ f.port = {r.port}

Matches(f, r) ==
    /\ MatchesHost(f, r)
    /\ \A c \in f.condition : match_conditions(c, r)
    /\ f.error_handler_status = {}

EvaluationFails(f, r) == MatchesHost(f, r) /\ \E c \in f.condition : conditions_error(c, r)

\* The last of the indexes in S, if any.
LastOf(S) == {i \in S : \A j \in S : j <= i}
FirstOf(S) == {i \in S : \A j \in S : i <= j}

\* Where the search from the most specific configuration on stops.
Stop(r) == LastOf({i \in DOMAIN confs : \/ Matches(confs[i].filters, r)
                                        \/ EvaluationFails(confs[i].filters, r)})

\* No configuration: an error, or nothing found.
find_configuration(r) == {i \in Stop(r) : ~EvaluationFails(confs[i].filters, r)}

SameHost(f, g) == f.hostname = g.hostname /\ f.ip = g.ip /\ f.port = g.port

\* Mutant: the configurations of other hosts are searched as well.
find_error_configuration_anywhere(f, status) ==
    LastOf({i \in DOMAIN confs :
              LET g == confs[i].filters IN
              /\ g.is_host
              /\ g.condition = {} \/ g.condition = f.condition
              /\ g.error_handler_status \in {{AnyStatus}, {status}}})

find_error_configuration(f, status) ==
    LastOf({i \in DOMAIN confs :
              LET g == confs[i].filters IN
              /\ g.is_host /\ SameHost(f, g)
              /\ g.condition = {} \/ g.condition = f.condition
              /\ g.error_handler_status \in {{AnyStatus}, {status}}})

-----------------------------------------------------------------------------
(***************************************************************************)
(* Properties.                                                             *)
(***************************************************************************)
InFile == {Filters(file[i].block) : i \in DOMAIN file}

\* The order takes f and g for the same, equality does not.
Ties(f, g) == f # g /\ FilterVec(f) = FilterVec(g)

\* Loading ends with one configuration for each block with directives of the
\* file, however often and in whichever order it is written, and the globals:
\* merging duplicates and dropping empty configurations loses none.  Blocks
\* for different languages are the exception: the sort leaves them between
\* each other, and merge_duplicates, whose comment promises one configuration
\* for identical filters, then keeps such a block in several pieces.
OneConfigurationPerBlock ==
    phase = "ready" =>
        /\ \A i, j \in DOMAIN confs :
              confs[i].filters = confs[j].filters =>
                  i = j \/ \E g \in InFile : Ties(confs[i].filters, g)
        /\ {confs[i].filters : i \in DOMAIN confs} =
              InFile \cup {g \in {Globals} : \A f \in InFile : f.is_host}

\* Where p is written for the filters f, in the order of the file.
Written(f, p) ==
    SelectSeq([i \in 1..Len(file) |-> i],
              LAMBDA i : Filters(file[i].block) = f /\ file[i].prop = p)

\* The filters of the host block f is written in.
HostOf(f) == [f EXCEPT !.condition = {}, !.error_handler_status = {}]

\* The filters of the blocks between f and its host, innermost first: a
\* condition loses its conditionals one by one, then the location.
Between(f) ==
    IF f.condition = {} THEN <<>>
    ELSE LET c == The(f.condition)
             n == Len(c.conditionals)
         IN [k \in 1..n |-> [f EXCEPT !.condition = {[c EXCEPT !.conditionals = SubSeq(@, 1, n - k)]}]]

\* f and the filters it inherits from according to the documentation, nearest
\* first: the blocks it is written in, then less specific hosts, the globals.
Lineage(f) ==
    LET h == HostOf(f)
        n == [h EXCEPT !.hostname = {}]
        i == [n EXCEPT !.ip = {}]
    IN <<f>> \o Between(f) \o <<h, n, i, [i EXCEPT !.port = {}], Globals>>

\* The directives called p that are in effect for f: of the nearest block that
\* has some, all of them and in the order of the file.
InEffect(f, p) ==
    LET set == {k \in DOMAIN Lineage(f) : Written(Lineage(f)[k], p) # <<>>}
    IN IF set = {} THEN <<>> ELSE Written(Lineage(f)[The(FirstOf(set))], p)

\* The directives of every configuration are those in effect, which the
\* documentation defines by the blocks it is written in.  The code departs from
\* it twice.  A block that is nested in a location or a conditional and does
\* not have the directive may get what is in effect for the host instead of
\* its parent block: the trie knows no blocks between them.  Blocks for
\* different languages share a node of the trie and may get each other's.
Inherited ==
    phase = "ready" =>
        \A i \in DOMAIN confs : \A p \in Props :
            LET f == confs[i].filters IN
            \/ confs[i].entries[p] = InEffect(f, p)
            \/ Between(f) # <<>> /\ Written(f, p) = <<>> /\ confs[i].entries[p] = InEffect(HostOf(f), p)
            \/ \E g \in InFile : Ties(f, g)

\* g only matches requests that f matches, and differs from it.
Narrower(g, f) ==
    /\ g # f
    /\ f.is_host => g.is_host
    /\ f.port \in {{}, g.port} /\ f.ip \in {{}, g.ip}
    /\ \/ f.hostname \in {{}, g.hostname}
       \/ \E h \in f.hostname, k \in g.hostname : h.wild /\ IsPrefix(h.labels, k.labels)
    /\ \A c \in f.condition : \E d \in g.condition :
           /\ IsPrefix(c.location.segments, d.location.segments)
           /\ IsPrefix(c.conditionals, d.conditionals)

\* Serving takes the most specific block: the configuration found for a
\* request matches it, and no narrower configuration does; the globals, which
\* are always there, match when nothing else does.  A request gets no
\* configuration only if a condition fails to evaluate, and then no narrower
\* configuration matched.
FoundNarrowest ==
    phase = "ready" =>
        \A r \in Requests :
            LET found == find_configuration(r)
                NoneNarrower(i) == \A j \in DOMAIN confs :
                    Matches(confs[j].filters, r) => ~Narrower(confs[j].filters, confs[i].filters)
            IN /\ \A i \in found : Matches(confs[i].filters, r) /\ NoneNarrower(i)
               /\ found = {} => \E i \in DOMAIN confs :
                                   EvaluationFails(confs[i].filters, r) /\ NoneNarrower(i)

\* An error status is handled by an error configuration of the very host it
\* occurs in whenever the file has one that fits, and which one it is does not
\* depend on the order of the file: one for any status is taken before the
\* one for the status.  The location it is written in is lost, so that in the
\* documentation's example, `error_config` in a location next to
\* `error_config 404` in the host, the former answers every 404 of the host.
ErrorConfigurationFits ==
    phase = "ready" =>
        \A i \in DOMAIN confs, s \in Statuses :
            LET f == confs[i].filters
                Fits(g, status) == g.is_host /\ SameHost(f, g) /\ g.error_handler_status = {status}
                Has(status) == \E g \in InFile : Fits(g, status)
                found == find_error_configuration(f, s)
            IN /\ \A j \in found : Fits(confs[j].filters, IF Has(AnyStatus) THEN AnyStatus ELSE s)
               /\ found = {} => ~Has(AnyStatus) /\ ~Has(s)
=============================================================================
