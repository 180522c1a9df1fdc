---------------------------- MODULE MCFileServing ----------------------------
EXTENDS FileServing

Site(module, host, root) ==
    [module |-> module, host |-> host, root |-> root, check |-> FALSE, listing |-> FALSE,
     precompressed |-> FALSE]

Plain == Site("static", "h", "a")
Static == [Site("static", "k", "a") EXCEPT !.check = TRUE]
Listed == [Site("static", "g", "b") EXCEPT !.listing = TRUE, !.precompressed = TRUE]
Cgi == [Site("cgi", "h", "a") EXCEPT !.check = TRUE]
Fcgi == Site("fcgi", "h", "a")
Scgi == [Site("scgi", "h", "a") EXCEPT !.check = TRUE]
Pass == Site("pass", "h", "a")

Get(site, path) == [site |-> site, path |-> path, method |-> "GET", cond |-> "none", range |-> None]
By(q, method) == [q EXCEPT !.method = method]
If(q, cond) == [q EXCEPT !.cond = cond]
Bytes(q, from, to) == [q EXCEPT !.range = <<from, to>>]

MCSites == {Plain, Static, Listed, Cgi, Fcgi, Scgi, Pass}

Dir == Node("dir", 0, 0, 0, FALSE, 0)
File(size) == Node("file", 0, size, 0, FALSE, 0)
Link == Node("file", 0, 1, 0, TRUE, 0)
Tree(size) ==
    (<<"a">> :> Dir) @@ (<<"b">> :> Dir) @@ (<<"a", "d">> :> Dir) @@ (<<"a", "cgi-bin">> :> Dir)
    @@ (<<"a", "f">> :> File(size)) @@ (<<"a", "s.php">> :> File(1)) @@ (<<"a", "link">> :> Link)
    @@ (<<"a", "dev">> :> Node("other", 0, 0, 0, FALSE, 0)) @@ (<<"a", "no">> :> Node("denied", 0, 0, 0, FALSE, 0))
    @@ (<<"a", "d", "index.html">> :> File(1)) @@ (<<"a", "cgi-bin", "c">> :> File(1))
    @@ (<<"b", "p">> :> File(1)) @@ (<<"b", "p.br">> :> File(1))

Scene(requests, most, size, editable) ==
    [requests |-> requests, requestsAtMost |-> most, tree |-> Tree(size), editable |-> editable,
     links |-> {FALSE}]
Linked(x) == [x EXCEPT !.links = BOOLEAN]

TheFile == Get(Plain, <<"f">>)
Index == {<<"a", "d", "index.php">>, <<"a", "d", "index.html">>}

\* Requests that share no cached path and no file need not be in one scene.
MCScenes ==
    {Scene({TheFile, If(TheFile, "If-None-Match")}, 3, 1, {<<"a", "f">>}),
     Scene({TheFile, If(TheFile, "If-Match")}, 2, 1, {<<"a", "f">>}),
     Scene({Get(Plain, <<"d">>)}, 2, 1, {<<"a", "d", "index.php">>}),
     Scene({Get(Static, <<"d">>), Get(Listed, <<>>)}, 2, 1, {<<"a", "d", "index.html">>}),
     Scene({Get(Listed, <<"p">>), If(Get(Listed, <<"p">>), "If-None-Match")}, 2, 1,
           {<<"b", "p">>, <<"b", "p.br">>}),
     Linked(Scene({Get(Static, <<"link">>)}, 2, 1, {<<"a", "link">>})),
     Scene({Get(Static, <<"link">>), Get(Static, <<"dev">>), Get(Static, <<"f", "x">>),
            Get(Static, <<"no">>), Get(Cgi, <<"link">>), Get(Scgi, <<"s.php", "x">>),
            Get(Pass, <<"s.php", "x">>), By(Get(Fcgi, <<"f">>), "malformed"),
            By(TheFile, "OPTIONS"), By(TheFile, "PUT"), By(TheFile, "HEAD")}, 1, 1, {})}
    \cup {Scene({Bytes(TheFile, None, n) : n \in 0..4}
                \cup {Bytes(TheFile, 1, None), Bytes(TheFile, 0, 0), Bytes(TheFile, 1, 3)}, 1, size, {<<"a", "f">>})
             : size \in {0, 1, 3}}
    \cup UNION {
       {Scene({Get(s, <<"d">>)}, 2, 1, Index),
        Scene({Get(s, <<"s.php">>), Get(s, <<"s.php", "x", "y">>)}, 2, 1, {<<"a", "s.php">>}),
        Scene({Get(s, <<"f", "x">>), Get(s, <<"cgi-bin", "c">>), Get(s, <<"cgi-bin", "c", "x">>)}, 2, 1, {})}
       : s \in {Cgi, Fcgi}}

\* The hypothesis of ResolvedRightAlways holds here.
ASSUME RunSites == OneRoot

MCPacked == [p |-> "p.br"]
MCIndexes == <<"index.php", "index.html">>
AnyOrder == Permutations(Slots)
=============================================================================
