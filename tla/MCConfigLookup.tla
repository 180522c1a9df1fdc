--------------------------- MODULE MCConfigLookup ---------------------------
EXTENDS ConfigLookup, TLC

Host(is_host, hostname, ip, port) ==
    [is_host |-> is_host, hostname |-> hostname, ip |-> ip, port |-> port,
     location |-> {}, conditionals |-> <<>>, error |-> {}]

WildCom == [rank |-> 1, wild |-> TRUE, labels |-> <<"com">>]
WildA == [rank |-> 2, wild |-> TRUE, labels |-> <<"com", "a">>]
A == [rank |-> 3, wild |-> FALSE, labels |-> <<"com", "a">>]
Local == [rank |-> 4, wild |-> FALSE, labels |-> <<"localhost">>]

X == [rank |-> 2, segments |-> <<"x">>]
XY == [rank |-> 3, segments |-> <<"x", "y">>]

If == [rank |-> 1, not |-> FALSE, name |-> "c"]
IfNot == [rank |-> 2, not |-> TRUE, name |-> "c"]

\* Two languages: one place in the order, and not equal.
IfGerman == [rank |-> 3, not |-> FALSE, name |-> "de"]
IfFrench == [rank |-> 3, not |-> FALSE, name |-> "fr"]

BlockA == Host(TRUE, {A}, {}, {})

\* Hosts of every kind, and what can be written in one of them.
HostBlocks ==
    {Host(FALSE, {}, {}, {}), Host(TRUE, {}, {}, {}), Host(TRUE, {}, {}, {80}),
     Host(TRUE, {}, {10}, {}), Host(TRUE, {}, {10}, {80}),
     Host(TRUE, {WildCom}, {}, {}), Host(TRUE, {WildA}, {}, {}), BlockA,
     Host(TRUE, {A}, {}, {80}), Host(TRUE, {Local}, {}, {})}

NestedBlocks ==
    {[BlockA EXCEPT !.location = {X}], [BlockA EXCEPT !.location = {XY}],
     [BlockA EXCEPT !.conditionals = <<If>>],
     [BlockA EXCEPT !.location = {X}, !.conditionals = <<If>>],
     [BlockA EXCEPT !.location = {X}, !.conditionals = <<If, IfNot>>],
     [BlockA EXCEPT !.error = {AnyStatus}], [BlockA EXCEPT !.location = {X}, !.error = {404}]}

LanguageBlocks == {[BlockA EXCEPT !.conditionals = <<IfGerman>>], [BlockA EXCEPT !.conditionals = <<IfFrench>>]}

AllBlocks == HostBlocks \cup NestedBlocks \cup LanguageBlocks

AllRequests ==
    [labels: {<<>>, <<"com", "a">>, <<"com", "a", "b">>, <<"localhost">>},
     ip: {10, Loopback}, port: {80}, segments: {<<"x", "y">>}, double: BOOLEAN,
     holds: {{}, {"c"}}, fails: {{}}]
    \cup [labels: {<<"com", "a">>}, ip: {10}, port: {81}, segments: {<<>>, <<"x">>},
          double: {FALSE}, holds: {{}, {"c"}, {"de"}}, fails: {{}, {"c"}}]

Sym == Permutations(Props)
=============================================================================
