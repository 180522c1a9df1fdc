------------------------------- MODULE Gateway -------------------------------
(***************************************************************************)
(* One exchange with an application through FastCGI (fcgi.rs and           *)
(* util/fcgi), SCGI (scgi.rs) or CGI (cgi.rs): the request is sent, the    *)
(* application's standard output becomes the response, its standard error  *)
(* is logged.                                                              *)
(*                                                                         *)
(* Three tasks run on the one thread of a worker: "req" runs the handler   *)
(* and then the response's body, "err" reads standard error once there is  *)
(* a response, "copier" feeds standard input.  A task runs until all that  *)
(* it waits for is pending, and again when it has been woken.  With        *)
(* FastCGI both streams come from one socket: util/split_stream_by_map.rs  *)
(* gives each reader its own items, keeps at most one item per stream, and *)
(* the socket itself wakes only the task that polled it last.              *)
(*                                                                         *)
(* External: the application, the client, sockets and pipes.  Text is a    *)
(* sequence of characters: "r" and "n" for CR and LF, and others.          *)
(***************************************************************************)
EXTENDS Integers, Sequences, FiniteSets, SequencesExt

CONSTANTS
    Kinds,     \* "fcgi", "scgi", "cgi"
    Apps,      \* what applications do, see IsApp
    Chunks,    \* the chunks of the request's body
    HeadCap,   \* RESPONSE_BUFFER_CAPACITY
    PipeCap,   \* what a socket or a pipe holds
    None

Streams == {"out", "err"}
Tasks == {"req", "err"}
Other(s) == IF s = "out" THEN "err" ELSE "out"

\* A step of an application: it reads a chunk of its input, or writes a record.
\* A record that ends a FastCGI request has a status; "cut" is one that the
\* application dies in: its content stands for the end of the connection, with
\* bytes of the record before it.
AppSteps ==
    [type : {"read"}]
    \cup [type : Streams, text : Seq({"x", "r", "n"})]
    \cup [type : {"end"}, status : {"ok", "failed", "refused", "cut"}]

\* Its steps, the headers its output has (a status by its number), whether it
\* ends, and how.
Location == 0
OtherHeader == 1

IsApp(a) ==
    /\ a.steps \in Seq(AppSteps)
    /\ a.headers \in Seq({Location, OtherHeader} \cup (100..599))
    /\ \A i \in DOMAIN a.steps :
          a.steps[i] = [type |-> "end", status |-> "cut"] => i = Len(a.steps) /\ ~a.hangs
    /\ a.hangs \in BOOLEAN /\ a.success \in BOOLEAN /\ a.wellFormed \in BOOLEAN

ASSUME GatewayAssumption ==
    /\ Kinds \subseteq {"fcgi", "scgi", "cgi"}
    /\ \A a \in Apps : IsApp(a)
    /\ {Chunks, HeadCap, PipeCap} \subseteq Nat
    /\ None \notin Streams \cup Tasks \cup {"decode out", "decode err"}
    /\ None \notin Seq({"x", "r", "n", "ok", "failed", "refused", "cut"})

VARIABLES
    kind, app,
    steps,    \* what the application has still to do
    half,     \* the header of a FastCGI record is written, its content not yet
    input,    \* chunks it can read
    copier,   \* chunks the copier has still to write, None once it has ended
    closed,   \* the application has closed its side
    wire,     \* what is in the socket or the pipes, for each stream (FastCGI uses "out")
    dec,      \* FramedRead and FcgiDecoder: its buffer, state, record, whether it failed
    buf,      \* buf_left and buf_right of the split, None or an item
    waker,    \* waker_left and waker_right
    sock,     \* the task the socket or pipe of a stream wakes
    woken,    \* the tasks that will run
    run,      \* the task that is running
    at,       \* what it polls: a stream, or the decoder for a stream
    pc,       \* the state of the request
    stalled,  \* the client's connection takes no more for now
    stderr,   \* the state of the task that reads standard error
    head,     \* response_buf, and response_head_length (None while it is read); whether some was lost
    sent,     \* the text of the response's body
    status,
    written, read, ended   \* history: per stream, see TwoStreams

appVars == <<kind, app, steps, half, input, copier, closed, written>>
chan == <<wire, dec, buf, waker, sock>>
sched == <<woken, run, at>>
resp == <<pc, stalled, stderr, head, sent, status>>
hist == <<read, ended>>
vars == <<appVars, chan, sched, resp, hist>>

Ends == {"done", "failed", "unavailable", "broken", "dropped"}

Init ==
    /\ kind \in Kinds /\ app \in Apps
    /\ kind = "fcgi" \/ \A i \in DOMAIN app.steps : app.steps[i].type # "end"
    /\ kind # "scgi" \/ \A i \in DOMAIN app.steps : app.steps[i].type # "err"
    /\ steps = app.steps
    /\ half = FALSE /\ closed = FALSE
    /\ input = 0 /\ copier = None
    /\ wire = [s \in Streams |-> <<>>]
    /\ dec = [buf |-> <<>>, state |-> "head", rec |-> None, error |-> FALSE]
    /\ buf = [s \in Streams |-> None]
    /\ waker = [s \in Streams |-> None]
    /\ sock = [s \in Streams |-> None]
    /\ woken = {} /\ run = None /\ at = None
    /\ pc = "connect" /\ stalled = FALSE
    /\ stderr = "none"
    /\ head = [text |-> <<>>, length |-> None, lost |-> FALSE]
    /\ sent = <<>> /\ status = None
    /\ written = [s \in Streams |-> <<>>]
    /\ read = [s \in Streams |-> <<>>]
    /\ ended = {}

(***************************************************************************)
(* The request is sent.                                                    *)
(***************************************************************************)
\* The environment is written; the copier is spawned, and the head of the
\* response is waited for.
Begin ==
    /\ pc = "connect"
    /\ pc' = "head"
    /\ copier' = Chunks
    /\ woken' = {"req"}
    /\ UNCHANGED <<kind, app, steps, half, input, closed, written, chan, run, at, stalled, stderr,
                   head, sent, status, hist>>

\* Refused, not found and unreachable are reported as unavailable; any other
\* error, also one of writing the environment, is a failure.
Refused ==
    /\ pc = "connect"
    /\ \/ pc' = "failed" /\ status' = 500
       \/ kind # "cgi" /\ pc' = "unavailable" /\ status' = 503
    /\ UNCHANGED <<appVars, chan, sched, stalled, stderr, head, sent, hist>>

\* execute_fastcgi, execute_scgi: a connection is made for each request.
\* execute_cgi: a process is started, through its interpreter if it is not
\* executable.
FcgiConnect == kind = "fcgi" /\ Begin
ScgiConnect == kind = "scgi" /\ Begin
CgiSpawn == kind = "cgi" /\ Begin

FcgiUnavailable == kind = "fcgi" /\ Refused
ScgiUnavailable == kind = "scgi" /\ Refused
CgiSpawnFails == kind = "cgi" /\ Refused

Execute ==
    \/ FcgiConnect \/ ScgiConnect \/ CgiSpawn
    \/ FcgiUnavailable \/ ScgiUnavailable \/ CgiSpawnFails

\* Copier: a chunk of the request's body is written to the application.
Copy ==
    /\ copier # None /\ copier > 0
    /\ ~closed /\ input < PipeCap
    /\ copier' = copier - 1 /\ input' = input + 1
    /\ UNCHANGED <<kind, app, steps, half, closed, written, chan, sched, resp, hist>>

\* The end of the body (for FastCGI, an empty STDIN record), or a write fails.
CopyEnds ==
    /\ copier # None /\ (copier = 0 \/ closed \/ pc = "dropped")
    /\ copier' = None
    /\ UNCHANGED <<kind, app, steps, half, input, closed, written, chan, sched, resp, hist>>

(***************************************************************************)
(* The application.                                                        *)
(***************************************************************************)
Wake(t) == {x \in {t} : x \in Tasks}

\* It blocks while there is no input; the end of the input is no obstacle.
AppReads ==
    /\ pc # "connect" /\ ~closed /\ steps # <<>> /\ Head(steps).type = "read"
    /\ \/ input > 0 /\ input' = input - 1
       \/ input = 0 /\ copier = None /\ UNCHANGED input
    /\ steps' = Tail(steps)
    /\ UNCHANGED <<kind, app, half, copier, closed, written, chan, sched, resp, hist>>

Pipe(x) == IF kind = "fcgi" THEN "out" ELSE x.type
Unit(u, x) == [unit |-> u, rec |-> x]

\* What a record adds to the streams: the decoder reports an exit code on
\* standard error; a refusal and bytes of a record that is never complete are
\* errors of standard output.
StreamOf(x) ==
    IF x.type # "end" THEN x.type ELSE IF x.status \in {"refused", "cut"} THEN "out" ELSE "err"
TextOf(x) == IF x.type # "end" THEN x.text ELSE <<x.status>>
IsError(text) == text \in {<<"refused">>, <<"cut">>}
Silent(x) == (x.type = "end" /\ x.status = "ok") \/ (x.type = "err" /\ x.text = <<>>)

\* END_REQUEST was written, or the application died in a record: both streams
\* have ended.
Over == \E i \in 1..(Len(app.steps) - Len(steps)) : app.steps[i].type = "end"

\* A FastCGI record is a header and a content, which may arrive apart; the
\* content of an empty record is there with its header.
AppWrites ==
    /\ pc # "connect" /\ ~closed /\ steps # <<>> /\ Head(steps).type # "read"
    /\ LET x == Head(steps)
           p == Pipe(x)
           empty == x.type # "end" /\ x.text = <<>>
           units == IF kind # "fcgi" \/ half THEN <<Unit("content", x)>>
                    ELSE IF empty THEN <<Unit("header", x), Unit("content", x)>>
                    ELSE <<Unit("header", x)>>
           whole == units[Len(units)].unit = "content"
       IN /\ Len(wire[p]) < PipeCap
          /\ wire' = [wire EXCEPT ![p] = @ \o units]
          /\ half' = ~whole
          /\ steps' = IF whole THEN Tail(steps) ELSE steps
          /\ written' = IF whole /\ ~Silent(x) /\ ~Over
                        THEN [written EXCEPT ![StreamOf(x)] = @ \o TextOf(x)] ELSE written
          /\ woken' = woken \cup Wake(sock[p])
          /\ sock' = [sock EXCEPT ![p] = None]
    /\ UNCHANGED <<kind, app, input, copier, closed, dec, buf, waker, run, at, resp, hist>>

\* It has done all, or nobody listens any more, or it dies after a header.
AppCloses ==
    /\ pc # "connect" /\ ~closed
    /\ \/ steps = <<>> /\ ~app.hangs
       \/ steps # <<>> /\ (half \/ pc \in Ends)
    /\ closed' = TRUE
    /\ woken' = woken \cup Wake(sock["out"]) \cup Wake(sock["err"])
    /\ sock' = [s \in Streams |-> None]
    /\ UNCHANGED <<kind, app, steps, half, input, copier, written, wire, dec, buf, waker, run, at,
                   resp, hist>>

(***************************************************************************)
(* The response.                                                           *)
(***************************************************************************)
\* search_header_body_separator: where the first separator ends, 0 if there is
\* none.  A CR or LF ends one if it repeats the character before, or if it is
\* the fourth of a run of CR and LF.
Separator(text) ==
    LET Run4(i) == i > 3 /\ \A j \in (i - 3)..i : text[j] \in {"r", "n"}
        EndsAt(i) == text[i] \in {"r", "n"} /\ ((i > 1 /\ text[i - 1] = text[i]) \/ Run4(i))
        found == {i \in DOMAIN text : EndsAt(i)}
    IN IF found = {} THEN 0 ELSE Min(found)

\* Mutant: only what was just read is searched.
SearchFromNew(old, text) == Len(old)

\* The search starts again three characters before what was just read.
SearchFrom(old, text) == IF Len(old) > 3 THEN Len(old) - 3 ELSE 0

\* Location makes the status 302, unless it is a redirect already; Status sets it.
StatusOf(headers) ==
    LET Apply(st, x) ==
          IF x \in 100..599 THEN x
          ELSE IF x = Location /\ st \notin 300..399 THEN 302 ELSE st
    IN FoldLeft(Apply, 200, headers)

Fails == pc' = "failed" /\ status' = 500

Sleep == run' = None /\ at' = None

\* A head of n characters was parsed: the body begins; w are the woken tasks.
BodyBegins(n, w) ==
    /\ pc' = "body"
    /\ status' = StatusOf(IF n > 0 THEN app.headers ELSE <<>>)
    /\ woken' = w \cup {"req", "err"}
    /\ Sleep

\* With FastCGI a task goes on reading standard error; SCGI has none.
FcgiRespond(n, w) == kind = "fcgi" /\ BodyBegins(n, w) /\ stderr' = "reading"
ScgiRespond(n, w) == kind = "scgi" /\ BodyBegins(n, w) /\ UNCHANGED stderr

\* A CGI process that is seen to have failed by now has its standard error read,
\* and the request fails; otherwise a task is spawned to read it.
CgiRespond(n, w) ==
    /\ kind = "cgi"
    /\ \/ /\ closed /\ ~app.success
          /\ pc' = "exit" /\ at' = "err" /\ woken' = w
          /\ UNCHANGED <<run, stderr, status>>
       \/ BodyBegins(n, w) /\ stderr' = "reading"

Respond(text, n, lost, w) ==
    /\ head' = [text |-> text, length |-> n, lost |-> lost]
    /\ IF n > 0 /\ ~app.wellFormed
       THEN Fails /\ Sleep /\ woken' = w /\ UNCHANGED stderr
       ELSE FcgiRespond(n, w) \/ ScgiRespond(n, w) \/ CgiRespond(n, w)
    /\ UNCHANGED <<stalled, sent>>

\* get_head has read text.  What does not fit is lost, and there is no head.
HeadGets(text, w) ==
    LET old == head.text
        from == SearchFrom(old, text)
        end == Separator(SubSeq(old \o text, from + 1, Len(old \o text)))
    IN IF Len(old) + Len(text) > HeadCap THEN Respond(old, 0, TRUE, w)
       ELSE IF end > 0 THEN Respond(old \o text, from + end, FALSE, w)
       ELSE /\ head' = [head EXCEPT !.text = old \o text]
            /\ at' = "out" /\ woken' = w
            /\ UNCHANGED <<run, pc, stalled, stderr, sent, status>>

\* The body has got text: the connection takes more, or not yet.
BodyGets(text) ==
    /\ sent' = sent \o text
    /\ stalled' \in BOOLEAN
    /\ IF stalled' THEN Sleep ELSE at' = "out" /\ UNCHANGED run
    /\ UNCHANGED <<pc, stderr, status>>

\* Dropping the body of a FastCGI response cancels the reader of standard
\* error, which then looks at its stream once more.
StopStderr(w) ==
    IF kind = "fcgi" /\ stderr = "reading"
    THEN stderr' = "cancelled" /\ woken' = w \cup {"err"}
    ELSE woken' = w /\ UNCHANGED stderr

BodyEnds(p, w) ==
    /\ pc' = p
    /\ Sleep
    /\ StopStderr(w)
    /\ UNCHANGED <<stalled, head, sent, status>>

\* A stream has text for its reader, or an error.
Ready(s, text) ==
    /\ read' = [read EXCEPT ![s] = @ \o text]
    /\ UNCHANGED ended
    /\ IF s = "err" THEN at' = s /\ UNCHANGED <<woken, run, resp>>
       ELSE IF IsError(text)
       THEN IF pc = "head" THEN Fails /\ Sleep /\ UNCHANGED <<woken, stalled, stderr, head, sent>>
                           ELSE BodyEnds("broken", woken)
       ELSE IF pc = "head" THEN HeadGets(text, woken)
       ELSE BodyGets(text) /\ UNCHANGED <<woken, head>>

\* A stream has ended; w are the woken tasks.  A FastCGI request whose standard
\* error is seen to end while it has no head fails.
Finished(s, w) ==
    /\ ended' = ended \cup {s}
    /\ UNCHANGED read
    /\ IF s = "out"
       THEN IF pc = "head" THEN Respond(head.text, 0, FALSE, w) ELSE BodyEnds("done", w)
       ELSE /\ Sleep
            /\ woken' = w
            /\ IF run = "err" THEN stderr' = "logged" /\ UNCHANGED <<pc, status>>
                              ELSE Fails /\ UNCHANGED stderr
            /\ UNCHANGED <<stalled, head, sent>>

\* A stream has nothing now: the handler looks at standard error too (FastCGI);
\* a task that has nothing else waits, and ends if it was cancelled.
Pending(s) ==
    /\ IF run = "req" /\ s = "out" /\ pc = "head" /\ kind = "fcgi"
       THEN at' = "err" /\ UNCHANGED <<run, stderr>>
       ELSE /\ Sleep
            /\ stderr' = IF run = "err" /\ stderr = "cancelled" THEN "stopped" ELSE stderr
    /\ UNCHANGED <<pc, stalled, head, sent, status, hist>>

(***************************************************************************)
(* The tasks.                                                              *)
(***************************************************************************)
Live(t) ==
    IF t = "req" THEN pc \in {"head", "body"} /\ ~stalled ELSE stderr \in {"reading", "cancelled"}

\* A woken task is polled.
Poll(t) ==
    /\ run = None /\ t \in woken
    /\ woken' = woken \ {t}
    /\ IF Live(t) THEN run' = t /\ at' = (IF t = "req" THEN "out" ELSE "err")
       ELSE UNCHANGED <<run, at>>
    /\ UNCHANGED <<appVars, chan, resp, hist>>

\* What was read past the head comes first.
Leftover == pc = "body" /\ at = "out" /\ Len(head.text) > head.length

BodyLeftover ==
    /\ Leftover
    /\ head' = [head EXCEPT !.length = Len(head.text)]
    /\ BodyGets(SubSeq(head.text, head.length + 1, Len(head.text)))
    /\ UNCHANGED <<appVars, chan, woken, hist>>

Polling(s) == run # None /\ at = s /\ ~Leftover

\* SCGI and CGI: the stream is a socket or a pipe of its own; all that is there
\* is read at once.
Texts(units) == FlattenSeq([i \in DOMAIN units |-> units[i].rec.text])

PipeRead(s) ==
    /\ kind # "fcgi" /\ Polling(s) /\ wire[s] # <<>>
    /\ wire' = [wire EXCEPT ![s] = <<>>]
    /\ Ready(s, Texts(wire[s]))
    /\ UNCHANGED <<appVars, dec, buf, waker, sock>>

PipeEnds(s) ==
    /\ kind # "fcgi" /\ Polling(s) /\ wire[s] = <<>> /\ closed
    /\ Finished(s, woken)
    /\ UNCHANGED <<appVars, chan>>

PipePending(s) ==
    /\ kind # "fcgi" /\ Polling(s) /\ wire[s] = <<>> /\ ~closed
    /\ sock' = [sock EXCEPT ![s] = run]
    /\ Pending(s)
    /\ UNCHANGED <<appVars, wire, dec, buf, waker, woken>>

\* Mutant: a stream remembers the first task that polled it.
RememberFirst(s) == [waker EXCEPT ![s] = IF @ = None THEN run ELSE @]

\* "Assign the waker multiple times".
Remember(s) == [waker EXCEPT ![s] = run]

\* poll_next_left, poll_next_right: an item kept for this stream ...
SplitTake(s) ==
    /\ kind = "fcgi" /\ Polling(s) /\ buf[s] # None
    /\ waker' = Remember(s)
    /\ buf' = [buf EXCEPT ![s] = None]
    /\ Ready(s, buf[s])
    /\ UNCHANGED <<appVars, wire, dec, sock>>

\* ... one for the other stream, which has to take it first ...
SplitWait(s) ==
    /\ kind = "fcgi" /\ Polling(s) /\ buf[s] = None /\ buf[Other(s)] # None
    /\ waker' = Remember(s)
    /\ woken' = woken \cup Wake(waker[Other(s)])
    /\ Pending(s)
    /\ UNCHANGED <<appVars, wire, dec, buf, sock>>

\* ... or none: the decoder is polled.
Decoding(s) == IF s = "out" THEN "decode out" ELSE "decode err"

\* Mutant: the decoder is polled although an item waits for the other stream.
SplitDecodeAnyway(s) ==
    /\ kind = "fcgi" /\ Polling(s) /\ buf[s] = None
    /\ waker' = Remember(s)
    /\ at' = Decoding(s)
    /\ UNCHANGED <<appVars, wire, dec, buf, sock, woken, run, resp, hist>>

SplitDecode(s) ==
    /\ kind = "fcgi" /\ Polling(s) /\ buf = [q \in Streams |-> None]
    /\ waker' = Remember(s)
    /\ at' = Decoding(s)
    /\ UNCHANGED <<appVars, wire, dec, buf, sock, woken, run, resp, hist>>

\* FcgiDecoder::decode: a header; a record that adds nothing to a stream; the
\* rest after END_REQUEST, which is cleared.
DecodeMore(s) ==
    /\ at = Decoding(s) /\ dec.buf # <<>> /\ ~dec.error
    /\ LET x == Head(dec.buf).rec IN
          \/ /\ dec.state = "head"
             /\ dec' = [dec EXCEPT !.buf = Tail(@), !.state = "content", !.rec = x]
          \/ /\ dec.state = "content" /\ Silent(x)
             /\ dec' = [dec EXCEPT !.buf = Tail(@), !.rec = None,
                                   !.state = IF x.type = "end" THEN "finished" ELSE "head"]
          \/ /\ dec.state = "finished"
             /\ dec' = [dec EXCEPT !.buf = <<>>]
    /\ UNCHANGED <<appVars, wire, buf, waker, sock, sched, resp, hist>>

\* A record for this stream is returned; one for the other is kept, and its
\* reader woken.
DecodeItem(s) ==
    /\ at = Decoding(s) /\ dec.buf # <<>> /\ ~dec.error
    /\ dec.state = "content" /\ ~Silent(dec.rec)
    /\ dec' = [dec EXCEPT !.buf = Tail(@), !.rec = None, !.error = IsError(TextOf(dec.rec)),
                          !.state = IF dec.rec.type = "end" THEN "finished" ELSE "head"]
    /\ LET text == TextOf(dec.rec) IN
          IF StreamOf(dec.rec) = s
          THEN Ready(s, text) /\ UNCHANGED buf
          ELSE /\ buf' = [buf EXCEPT ![Other(s)] = text]
               /\ woken' = woken \cup Wake(waker[Other(s)])
               /\ Pending(s)
    /\ UNCHANGED <<appVars, wire, waker, sock>>

\* FramedRead: the decoder needs more, and there is more ...
DecodeRead(s) ==
    /\ at = Decoding(s) /\ dec.buf = <<>> /\ ~dec.error /\ wire["out"] # <<>>
    /\ dec' = [dec EXCEPT !.buf = wire["out"]]
    /\ wire' = [wire EXCEPT !["out"] = <<>>]
    /\ UNCHANGED <<appVars, buf, waker, sock, sched, resp, hist>>

\* ... or not yet: the socket remembers the task that polled it last ...
DecodePending(s) ==
    /\ at = Decoding(s) /\ dec.buf = <<>> /\ ~dec.error /\ wire["out"] = <<>> /\ ~closed
    /\ sock' = [sock EXCEPT !["out"] = run]
    /\ Pending(s)
    /\ UNCHANGED <<appVars, wire, dec, buf, waker, woken>>

\* ... or there is no more, or an error was returned: the stream has ended, and
\* the other one's reader is woken to find out.  (An end that leaves bytes of a
\* record in the buffer is an error first: the record "cut".)
DecodeEnds(s) ==
    /\ at = Decoding(s)
    /\ dec.error \/ (dec.buf = <<>> /\ wire["out"] = <<>> /\ closed)
    /\ Finished(s, woken \cup Wake(waker[Other(s)]))
    /\ UNCHANGED <<appVars, chan>>

Run ==
    \/ BodyLeftover
    \/ \E s \in Streams :
          \/ PipeRead(s) \/ PipeEnds(s) \/ PipePending(s)
          \/ SplitTake(s) \/ SplitWait(s) \/ SplitDecode(s)
          \/ DecodeMore(s) \/ DecodeItem(s) \/ DecodeRead(s) \/ DecodePending(s) \/ DecodeEnds(s)

(***************************************************************************)
(* The client.                                                             *)
(***************************************************************************)
ClientReads ==
    /\ stalled
    /\ stalled' = FALSE
    /\ woken' = woken \cup {"req"}
    /\ UNCHANGED <<appVars, chan, run, at, pc, stderr, head, sent, status, hist>>

\* The client goes away, or the request times out: the handler or the body is
\* dropped.
ClientLeaves ==
    /\ run = None /\ pc \in {"head", "body"}
    /\ pc' = "dropped"
    /\ StopStderr(woken)
    /\ UNCHANGED <<appVars, chan, run, at, stalled, head, sent, status, hist>>

AppStep == AppReads \/ AppWrites \/ AppCloses

Next ==
    \/ Execute \/ Copy \/ CopyEnds
    \/ AppStep
    \/ Run \/ \E t \in Tasks : Poll(t)
    \/ ClientReads \/ ClientLeaves

Spec == Init /\ [][Next]_vars

\* The executor runs every woken task in turn; an application that does not
\* hang goes on, and a client that stays goes on reading.
FairSpec ==
    /\ Spec
    /\ WF_vars(Execute) /\ WF_vars(Copy \/ CopyEnds)
    /\ WF_vars(AppStep) /\ WF_vars(Run) /\ WF_vars(ClientReads)
    /\ \A t \in Tasks : SF_vars(Poll(t))

-----------------------------------------------------------------------------
Promise == INSTANCE TwoStreams WITH closed <- closed \/ Over

\* Standard output and standard error reach their readers as two streams of
\* their own, in order and complete, although with FastCGI they share a socket,
\* one decoder and a buffer of one item, whichever task reads it.
ImplementsTwoStreams == Promise!Spec

\* Where the first separator of the head ends: the shortest beginning that ends
\* with one.
HeadEnd(text) ==
    LET Separators == {<<"n", "n">>, <<"r", "r">>, <<"r", "n", "r", "n">>, <<"n", "r", "n", "r">>}
        ends == {k \in 1..Len(text) : \E x \in Separators : IsSuffix(x, SubSeq(text, 1, k))}
    IN IF ends = {} THEN 0 ELSE CHOOSE k \in ends : \A j \in ends : k <= j

\* A response that came to its end has as its body all that the application
\* wrote after the head, however the output was cut into pieces, even within
\* the separator; without a separator that is all of it.  (Unless something was
\* lost because what was read with the head did not fit.)  All that the
\* application wrote to standard error by then has been logged, once its reader
\* is through.
ResponseIntact ==
    pc = "done" /\ ~head.lost =>
        /\ sent = SubSeq(written["out"], HeadEnd(written["out"]) + 1, Len(written["out"]))
        /\ stderr \notin {"reading", "cancelled", "none"} => read["err"] = written["err"]

\* A CGI process that fills the pipe of its standard error before its head is
\* complete: nobody reads that pipe yet, only the request's timeout helps.
CgiBlocked ==
    /\ kind = "cgi" /\ pc = "head"
    /\ steps # <<>> /\ Head(steps).type = "err" /\ Len(wire["err"]) = PipeCap

\* An exchange with an application that does not hang ends, and so does the
\* reader of standard error: no task waits for a wake-up that went to another,
\* and input, output and errors do not block each other.  With FastCGI the
\* reader also ends after a client that leaves an application that hangs.
ExchangeEnds ==
    (~app.hangs \/ (pc = "dropped" /\ kind = "fcgi"))
        ~> (CgiBlocked \/ (pc \in Ends /\ stderr \notin {"reading", "cancelled"}))
=============================================================================
