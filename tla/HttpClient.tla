------------------------------ MODULE HttpClient ------------------------------
(***************************************************************************)
(* One request of an HTTP client: the listeners that                       *)
(* src/src/js/http_client.js puts on its socket and its parser, and the    *)
(* response (src/src/js/http_incoming.js, a Readable) that the parser of   *)
(* http_common.js fills.  http_parser is here as far as it is used.  The   *)
(* server's answer is a sequence of units: the headers, pieces of the body *)
(* (half: ends inside a character of several bytes) and what no parser     *)
(* takes; the piece that completes the message is marked last.             *)
(***************************************************************************)
EXTENDS Integers, Sequences, SequencesExt, HttpOutgoing

CONSTANT MaxClientCalls   \* bound: calls of the script

ASSUME ClientAssumption == MaxClientCalls \in Nat

VARIABLE hc

Arrival(what, n, half, last) == [what |-> what, n |-> n, half |-> half, last |-> last]
Header(last) == Arrival("head", 0, FALSE, last)
Body(n, half, last) == Arrival("body", n, half, last)
Junk == Arrival("junk", 0, FALSE, FALSE)

\* The answers: without a body, of two pieces with a length, or up to the end of the
\* connection; two answers; and answers that no parser takes
Answers ==
    {<<Header(TRUE)>>, <<Junk>>, <<Header(FALSE), Junk>>,
     <<Header(FALSE), Body(1, FALSE, TRUE), Header(FALSE), Body(2, FALSE, TRUE)>>}
    \cup {<<Header(FALSE), Body(1, half, FALSE), Body(2, end, last)>> :
              half \in BOOLEAN, end \in BOOLEAN, last \in BOOLEAN}

NoResponse ==
    [there |-> FALSE, buffer |-> << >>, flowing |-> FALSE, ended |-> FALSE,
     complete |-> FALSE, dumped |-> FALSE, listening |-> FALSE]

\* ClientRequest.setupConnection
ClientInit ==
    \E answer \in Answers :
        hc = [sock     |-> NewSocket(TRUE),
              coming   |-> answer,       \* the server's data on their way
              held     |-> << >>,        \* _buffer
              exec     |-> << >>,        \* what parser.execute was given and has not parsed
              parser   |-> TRUE,         \* socket.parser is not null
              at       |-> "start",      \* http_parser: start, body, bodyToEof, error
              second   |-> FALSE,        \* incoming is a second response
              res      |-> NoResponse,
              aborted  |-> FALSE,
              calls    |-> 0,
              answer   |-> answer,
              thrown   |-> FALSE,
              got      |-> << >>,        \* 'data' of the response, as the script saw them
              told     |-> [e \in {"response", "end", "aborted", "close", "resClose",
                                   "error", "abort"} |-> 0],
              heard    |-> FALSE,        \* history: 'data' had a listener at 'end'
              failed   |-> FALSE,        \* history: the connection failed
              early    |-> FALSE]        \* history: the parser went before the request had

Tell(c, e) == [c EXCEPT !.told[e] = @ + 1]

-----------------------------------------------------------------------------
(* The response *)

\* emitData: to the listener of 'data', if there is one
EmitBody(c, pieces) == IF c.res.listening THEN [c EXCEPT !.got = @ \o pieces] ELSE c

\* Readable.resume
ResumeResponse(c) ==
    IF c.res.flowing THEN c
    ELSE [EmitBody(c, c.res.buffer) EXCEPT !.res.flowing = TRUE, !.res.buffer = << >>]

\* Readable.push of a piece of the body
PushBody(c, n) ==
    IF c.res.ended THEN [c EXCEPT !.thrown = TRUE]
    ELSE IF c.res.flowing THEN EmitBody(c, <<n>>)
    ELSE [c EXCEPT !.res.buffer = Append(@, n)]

\* responseOnEnd, and the listener of 'end' that socketOnClose adds (closed)
ResponseOnEnd(c, closed) ==
    LET t == [Tell(c, "end") EXCEPT !.heard = c.res.listening,
                                    !.sock = IF @.writable THEN DestroySoon(@) ELSE @]
    IN  IF closed THEN Tell(t, "resClose") ELSE t

\* Readable.push(null): emits what is buffered, then 'end', once
PushEnd(c, closed) ==
    LET r == IF c.res.buffer # << >> THEN ResumeResponse(c) ELSE c
    IN  IF c.res.ended THEN c
        ELSE ResponseOnEnd([r EXCEPT !.res.ended = TRUE], closed)

\* IncomingMessage._dump
Dump(c) ==
    IF c.res.dumped THEN c
    ELSE ResumeResponse([c EXCEPT !.res.dumped = TRUE, !.res.listening = FALSE])

-----------------------------------------------------------------------------
(* The parser *)

\* parserOnMessageComplete
MessageCompleted(c) ==
    LET p == [c EXCEPT !.at = "start"]
    IN  IF c.second \/ ~c.res.there THEN p
        ELSE PushEnd([p EXCEPT !.res.complete = TRUE], FALSE)

\* Mutant: the parser is dropped without finish()
CleanUpSocket_NoFinish(c) ==
    [c EXCEPT !.parser = FALSE, !.sock = DestroySocket(@),
              !.early = @ \/ (c.parser /\ c.sock.unflushed)]

\* cleanUpSocket: finish() completes a body that lasts to the end of the connection
CleanUpSocket(c) ==
    LET f == IF c.parser /\ c.at = "bodyToEof" THEN MessageCompleted(c) ELSE c
    IN  [f EXCEPT !.parser = FALSE, !.sock = DestroySocket(@),
                  !.early = @ \/ (c.parser /\ c.sock.unflushed)]

\* parserOnIncomingClient: a second response destroys the socket; one that comes
\* after abort() is dumped by the listener that abort() left
OnIncomingClient(c, toEof, last) ==
    LET r == IF c.res.there
             THEN [c EXCEPT !.sock = DestroySocket(@), !.second = TRUE]
             ELSE Tell([c EXCEPT !.res.there = TRUE], "response")
        d == IF c.aborted /\ ~c.res.there THEN Dump(r) ELSE r
    IN  IF last THEN MessageCompleted(d)
        ELSE [d EXCEPT !.at = IF toEof THEN "bodyToEof" ELSE "body"]

\* Whether the body that begins here lasts to the end of the connection
ToEof(c) == ~\E i \in DOMAIN c.answer : c.answer[i].last \/ c.answer[i] = Junk

\* One callback of http_parser in execute(), or its error
ParseUnit ==
    /\ hc.exec # << >> /\ ~hc.thrown
    /\ LET u == Head(hc.exec)
           c == [hc EXCEPT !.exec = Tail(@)]
           body == IF hc.second THEN c ELSE PushBody(c, u.n)
       IN  hc' = CASE u.what = "junk" -> Tell(CleanUpSocket([c EXCEPT !.exec = << >>,
                                                                      !.at = "error"]), "error")
                   [] u.what = "head" -> OnIncomingClient(c, ToEof(c), u.last)
                   [] u.what = "body" -> IF u.last THEN MessageCompleted(body) ELSE body

-----------------------------------------------------------------------------
(* The socket *)

Quiet_hc == hc.exec = << >> /\ ~hc.thrown
\* uv reads on until a read fails
Reads == Quiet_hc /\ Receives(hc.sock) /\ ~hc.failed

\* socketOnData: data that end inside a character wait for more; the parser is gone
\* after cleanUpSocket
SocketOnData ==
    /\ Reads
    /\ \E n \in 1 .. Len(hc.coming) :
          LET data == hc.held \o SubSeq(hc.coming, 1, n)
              c == [hc EXCEPT !.coming = SubSeq(@, n + 1, Len(@))]
          IN  hc' = IF Last(data).half THEN [c EXCEPT !.held = data]
                    ELSE IF ~hc.parser THEN [c EXCEPT !.thrown = TRUE]
                    ELSE [c EXCEPT !.held = << >>, !.exec = data]

\* The server has closed, perhaps before the end of an answer whose length it gave:
\* onSocketEnd of net.js, then socketOnEnd
SocketOnEnd ==
    /\ Reads /\ (hc.coming = << >> \/ ~ToEof(hc))
    /\ hc' = CleanUpSocket([hc EXCEPT !.sock = DestroySoon([@ EXCEPT !.eof = TRUE])])

\* The name is not found, the connection refused, or a read fails: socketOnError,
\* then net.js destroys the socket
SocketOnError ==
    /\ Reads
    /\ \E writing \in BOOLEAN :
          hc' = Tell(CleanUpSocket([hc EXCEPT !.failed = TRUE,
                                              !.sock.unflushed = @ /\ writing]), "error")

\* socketOnClose
SocketOnClose ==
    /\ Quiet_hc /\ hc.sock.closing /\ ~hc.sock.closed
    /\ LET c == Tell([hc EXCEPT !.sock.closed = TRUE], "close")
           a == IF c.res.complete THEN c ELSE Tell(c, "aborted")
       IN  hc' = CleanUpSocket(IF c.res.there THEN PushEnd(a, TRUE) ELSE c)

\* The request has been written
RequestFlushed ==
    /\ Quiet_hc /\ hc.sock.unflushed
    /\ hc' = [hc EXCEPT !.sock.unflushed = FALSE]

ClientFinish ==
    /\ Quiet_hc /\ CanFinish(hc.sock)
    /\ hc' = [hc EXCEPT !.sock = FinishSocket(@)]

-----------------------------------------------------------------------------
(* The script, in a listener or between events *)

ScriptMay == hc.calls < MaxClientCalls /\ ~hc.thrown

\* abort(): what waits to be written is dropped, and 'finish' destroys the socket
Abort ==
    /\ ScriptMay
    /\ LET c == [IF hc.aborted THEN hc ELSE Tell(hc, "abort") EXCEPT
                    !.aborted = TRUE, !.calls = @ + 1]
           d == IF c.res.there THEN Dump(c) ELSE c
       IN  \E writing \in BOOLEAN :
             hc' = IF hc.sock.ending THEN [d EXCEPT !.sock.unflushed = @ /\ writing]
                   ELSE [d EXCEPT !.sock.ending = TRUE, !.sock.destroyOnFinish = TRUE,
                                  !.sock.unflushed = @ /\ writing]

\* res.on('data'), res.pause() and res.resume()
OnResponseData ==
    /\ ScriptMay /\ hc.res.there /\ ~hc.res.listening /\ ~hc.res.dumped
    /\ hc' = ResumeResponse([hc EXCEPT !.res.listening = TRUE, !.calls = @ + 1])
PauseResponse ==
    /\ ScriptMay /\ hc.res.listening /\ hc.res.flowing
    /\ hc' = [hc EXCEPT !.res.flowing = FALSE, !.calls = @ + 1]

ClientNext ==
    \/ ParseUnit \/ SocketOnData \/ SocketOnEnd \/ SocketOnError \/ SocketOnClose
    \/ RequestFlushed \/ ClientFinish \/ Abort \/ OnResponseData \/ PauseResponse

-----------------------------------------------------------------------------

\* The body of the first response
BodyOf(c) ==
    LET ends == {i \in DOMAIN c.answer : c.answer[i].last}
        n == IF ends = {} THEN Len(c.answer) ELSE CHOOSE i \in ends : \A j \in ends : i <= j
        b == SelectSeq(SubSeq(c.answer, 1, n), LAMBDA u : u.what = "body")
    IN  [i \in 1 .. Len(b) |-> b[i].n]
\* The parser was given all of an answer that it takes
WholeAnswer(c) == c.coming = << >> /\ c.held = << >> /\ ~Contains(c.answer, Junk)
Told(e) == hc.told[e]

\* A request ends well or badly, but ends.  When its socket is closed, 'close' has
\* been emitted once and a response has got one 'end', with 'aborted' before it if it
\* was not complete, and not if the server sent it whole; one that was aborted has got
\* 'close' once.  (docs/api/HTTP.md:310 promises 'close' to every response; nothing is
\* claimed of one that was not aborted.)  The body comes in order,
\* and a response that ends without 'aborted' was read whole if it had a listener,
\* the connection did not fail (cleanUpSocket then completes a body that lasts to
\* its end) and nothing is held back in _buffer.  The socket is closed in the end once
\* the response has ended, the server has closed, something failed or the script has
\* aborted.  Data that follow a parse error before the request is written throw.
ClientSettles ==
    /\ hc.thrown => hc.early
    /\ Told("response") <= 1 /\ Told("end") <= 1 /\ Told("abort") <= 1
    /\ IsPrefix(hc.got, BodyOf(hc))
    /\ hc.sock.closed /\ ~hc.thrown =>
          /\ Told("close") = 1
          /\ Told("end") = Told("response")
          /\ Told("aborted") <= Told("resClose") /\ Told("resClose") <= 1
          /\ hc.res.there => hc.res.complete \/ Told("aborted") = 1
          /\ hc.sock.eof /\ WholeAnswer(hc) => Told("aborted") = 0
    /\ Told("end") = 1 /\ Told("aborted") = 0 /\ hc.heard /\ ~hc.failed /\ hc.held = << >>
          => hc.got = BodyOf(hc)
    /\ Quiet_hc /\ ~hc.sock.unflushed /\ ~CanFinish(hc.sock) /\ ~hc.sock.closing
       /\ (Told("end") = 1 \/ hc.sock.eof \/ hc.aborted \/ Told("error") > 0)
          => hc.sock.closed
=============================================================================
