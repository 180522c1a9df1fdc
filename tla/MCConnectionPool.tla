-------------------------- MODULE MCConnectionPool --------------------------
EXTENDS ConnectionPool, TLC

\* HTTP/1, where a connection can be busy, with a tracking load balancer; and
\* HTTP/2, whose connections are shared.
AllConfigs ==
    [h2: {FALSE}, keepalive: BOOLEAN, tracked: {TRUE}]
    \cup [h2: {TRUE}, keepalive: {TRUE}, tracked: {FALSE}]
=============================================================================
