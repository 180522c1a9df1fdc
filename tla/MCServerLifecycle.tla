------------------------- MODULE MCServerLifecycle -------------------------
EXTENDS ServerLifecycle, TLC

\* Addresses come and go and the io_uring setting changes; one configuration
\* has TLS settings that QUIC cannot use.
ChangingFiles ==
    {[addrs |-> TcpAddrs \cup QuicAddrs, uring |-> TRUE, quic |-> TRUE, valid |-> TRUE],
     [addrs |-> TcpAddrs, uring |-> FALSE, quic |-> TRUE, valid |-> TRUE],
     [addrs |-> QuicAddrs, uring |-> TRUE, quic |-> FALSE, valid |-> TRUE]}

\* With QUIC, with TLS settings that it cannot use, and a broken file.
ReloadFiles ==
    {[addrs |-> TcpAddrs \cup QuicAddrs, uring |-> TRUE, quic |-> TRUE, valid |-> TRUE],
     [addrs |-> TcpAddrs \cup QuicAddrs, uring |-> TRUE, quic |-> FALSE, valid |-> TRUE],
     [addrs |-> {}, uring |-> TRUE, quic |-> TRUE, valid |-> FALSE]}

Sym == Permutations(Workers)
=============================================================================
