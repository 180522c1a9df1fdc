--------------------------- MODULE MCAutomaticTls ---------------------------
EXTENDS AutomaticTls

Host(labels, wild) == [labels |-> labels, wild |-> wild]
Site(host, auto, onDemand, chal, cache) ==
    [host |-> host, port |-> None, auto |-> auto, manual |-> FALSE,
     onDemand |-> onDemand, chal |-> chal, cache |-> cache]

Wild == Host(<<"d">>, TRUE)
Alpha == Host(<<"a">>, FALSE)
Local == Host(<<"localhost">>, FALSE)
Address == Host(<<"192.0.2.1">>, FALSE)
Client(labels) == [host |-> labels, port |-> DefaultPort]

\* Blocks that get no certificate: one without a name, a wildcard without DNS-01,
\* the local machine, an address; and blocks with certificates of their own, the
\* second for a name that has one already (they differ in their addresses).
Manual(host, port) ==
    [Site(host, "off", FALSE, "http-01", FALSE) EXCEPT !.manual = TRUE, !.port = port]
Unnamed == Site(None, "on", FALSE, "http-01", FALSE)
Plain(host) == Site(host, "unset", FALSE, "http-01", FALSE)

\* A wildcard host with TLS on demand; the same host with one certificate; and
\* two blocks on demand that share a port, where the second replaces the list of
\* the first.
OnDemand(host) == Site(host, "unset", TRUE, "tls-alpn-01", TRUE)
AllSites ==
    {<<Unnamed, Plain(Wild), Plain(Local), Manual(Alpha, None), Plain(Address), OnDemand(Wild),
       Manual(Alpha, None), Manual(None, 8443)>>,
     <<Site(Wild, "unset", FALSE, "dns-01", FALSE), Site(Wild, "on", FALSE, "dns-01", FALSE)>>,
     <<OnDemand(Host(<<"d", "x">>, FALSE)), OnDemand(Host(<<"e">>, TRUE))>>}
TwoHosts == {Client(<<"d", "x">>), Client(<<"d", "y">>)}

OneSite == {<<Site(Alpha, "unset", FALSE, "http-01", TRUE)>>}
OneHost == {Client(<<"a">>)}
Addresses == {Address}
Locals == {Local}

\* The host blocks are among those the theorems of AutomaticTlsProofs are about.
ASSUME RunBlocks == OnDemandApart
=============================================================================
