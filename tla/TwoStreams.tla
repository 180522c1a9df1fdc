----------------------------- MODULE TwoStreams -----------------------------
(***************************************************************************)
(* What a gateway promises of an application's output: standard output and *)
(* standard error are two independent streams.  Each is read in the order  *)
(* it was written, nothing is lost or made up, and a reader sees the end   *)
(* of its stream only when the writer has ended and all of it was read.    *)
(***************************************************************************)
EXTENDS Integers, Sequences, SequencesExt

CONSTANT Streams

VARIABLES
    written,  \* what was written to each stream, character by character
    read,     \* what was read from it
    closed,   \* the writer has ended
    ended     \* the streams whose reader has seen the end

vars == <<written, read, closed, ended>>

Init ==
    /\ written = [s \in Streams |-> <<>>]
    /\ read = [s \in Streams |-> <<>>]
    /\ closed = FALSE
    /\ ended = {}

\* Something more is written to a stream, possibly the last.
Write(s) ==
    /\ ~closed
    /\ IsStrictPrefix(written[s], written'[s])
    /\ written' = [written EXCEPT ![s] = written'[s]]
    /\ closed' \in BOOLEAN
    /\ UNCHANGED <<read, ended>>

\* The reader gets more of what was written.
Read(s) ==
    /\ s \notin ended
    /\ IsStrictPrefix(read[s], read'[s]) /\ IsPrefix(read'[s], written[s])
    /\ read' = [read EXCEPT ![s] = read'[s]]
    /\ UNCHANGED <<written, closed, ended>>

Close == ~closed /\ closed' = TRUE /\ UNCHANGED <<written, read, ended>>

End(s) ==
    /\ closed /\ read[s] = written[s]
    /\ ended' = ended \cup {s}
    /\ UNCHANGED <<written, read, closed>>

Next == Close \/ \E s \in Streams : Write(s) \/ Read(s) \/ End(s)

Spec == Init /\ [][Next]_vars
=============================================================================
