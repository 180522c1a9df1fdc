------------------------------ MODULE MCGateway ------------------------------
EXTENDS Gateway

Step(type) == [type |-> type]
Write(type, text) == [type |-> type, text |-> text]
End(st) == [type |-> "end", status |-> st]
App(todo, headers) ==
    [steps |-> todo, headers |-> headers, hangs |-> FALSE, success |-> TRUE, wellFormed |-> TRUE]

\* Errors before, between and after the parts of a head, which are cut within
\* the separator; an exit code; and output after the end.
Split == <<Write("out", <<"x", "r", "n">>), Write("err", <<"x">>), Write("out", <<"r", "n", "x">>),
           Write("err", <<"n">>)>>

AllApps ==
    {App(Split \o <<End("failed"), Write("out", <<"x">>)>>, <<Location>>),
     App(Split \o <<Step("read"), Write("out", <<"x">>)>>, <<404, Location, OtherHeader>>),
     App(<<Write("err", <<"x">>), Write("out", <<"x", "n", "n">>), Write("out", <<>>),
           End("refused")>>, <<>>),
     App(<<Write("err", <<>>), Write("out", <<"x", "n">>), End("ok")>>, <<>>),
     App(<<Write("out", <<"x", "n">>), End("cut")>>, <<>>),
     App(<<Write("err", <<"x">>), Write("out", <<"n", "n", "x">>), Write("out", <<"x">>), End("cut")>>, <<>>),
     App(<<Step("read"), Step("read"), Write("out", <<"x", "n">>), Write("out", <<"n", "x">>)>>,
         <<Location, 200>>),
     App(<<Write("out", <<"x", "r", "n">>), Write("out", <<"x", "x", "x", "x", "x", "n">>)>>, <<>>),
     App(<<Write("err", <<"x">>), Write("err", <<"x">>), Write("err", <<"x">>), Write("out", <<"n", "n">>)>>, <<>>),
     [App(<<Write("err", <<"x">>), Write("out", <<"n", "n">>)>>, <<>>) EXCEPT !.success = FALSE],
     [App(<<Write("out", <<"x", "r", "r">>), Write("out", <<"x">>)>>, <<>>) EXCEPT !.hangs = TRUE],
     [App(<<Write("out", <<"x", "n", "n">>)>>, <<>>) EXCEPT !.wellFormed = FALSE]}
=============================================================================
