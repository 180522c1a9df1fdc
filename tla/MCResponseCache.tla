-------------------------- MODULE MCResponseCache --------------------------
EXTENDS ResponseCache, TLC

CONSTANTS k1, k2, h, v1, v2

Input(key, lines, auth, mode) == [key |-> key, head |-> [x \in Headers |-> lines], auth |-> auth, mode |-> mode]

\* Two variants of a page, an authorized request, one with a header of two field
\* lines, and requests that skip the lookup or the cache.
AllInputs ==
    {Input(k1, <<v1>>, FALSE, "normal"), Input(k1, <<v2>>, TRUE, "normal"),
     Input(k1, <<v2, v1>>, FALSE, "no_cache"), Input(k2, <<v1>>, FALSE, "no_store")}

AllConfigs == {[vary |-> {}, max_size |-> {}], [vary |-> {h}, max_size |-> {1}]}

Response(vary, cc, s_max_age, max_age, frames, broken) ==
    [vary |-> vary, cc |-> cc, s_max_age |-> s_max_age, max_age |-> max_age, frames |-> frames,
     broken |-> broken]

AllResponses ==
    {Response({}, "public", {}, {}, <<1, 1>>, FALSE), Response({h}, "other", {0}, {1}, <<1>>, FALSE),
     Response({}, "private", {}, {1}, <<1>>, FALSE), Response({Star}, "public", {}, {}, <<>>, FALSE),
     Response({}, "public", {}, {}, <<>>, TRUE)}

Sym == Permutations(Tasks)
=============================================================================
