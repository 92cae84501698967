------------------------------ MODULE HttpServer ------------------------------
(***************************************************************************)
(* One connection of an HTTP server: the listeners that                    *)
(* src/src/js/http_server.js puts on its socket and its parser, and the    *)
(* responses it hands to the script.  Of a message only its end is kept;   *)
(* HttpOutgoing has what a response writes.                                *)
(***************************************************************************)
EXTENDS Integers, Sequences, SequencesExt, HttpOutgoing

CONSTANTS MaxRequests,   \* bound: requests of the client on the connection
          MaxServerCalls \* bound: calls of the script and timeouts

ASSUME ServerAssumption == MaxRequests \in Nat /\ MaxServerCalls \in Nat

VARIABLE hs

NoResponseYet == 0

\* connectionListener
ServerInit ==
    hs = [sock    |-> NewSocket(FALSE),
          server  |-> TRUE,        \* socket._server is not null: close() has not run
          parser  |-> "ready",     \* of socket.parser: ready, body, error, null
          message |-> NoResponseYet,   \* socket._httpMessage, a response
          res     |-> << >>,       \* the responses
          reading |-> TRUE,        \* uv reads
          calls   |-> 0,
          thrown  |-> FALSE,
          gone    |-> FALSE]       \* history: the server was made to give the connection up

\* close() of net.js forgets the server
Settle(s) == [s EXCEPT !.server = @ /\ ~s.sock.closing]
\* The connection is given up, as the server's listener of 'clientError' does
Lost(s) == [s EXCEPT !.sock = DestroySocket(@), !.gone = TRUE]

-----------------------------------------------------------------------------
(* The socket *)

\* A response of the script; closes counts its 'close' events
NewResponse == [finished |-> FALSE, closes |-> 0]

\* assignSocket: the response becomes that of the socket, in the place of one that is
\* not finished
AssignSocket(s) == [s EXCEPT !.res = Append(@, NewResponse), !.message = Len(s.res) + 1]

\* parserOnIncoming; whole: the request has no body
OnIncoming ==
    /\ ~hs.thrown /\ hs.reading /\ Receives(hs.sock)
    /\ hs.parser = "ready" /\ Len(hs.res) < MaxRequests
    /\ \E whole \in BOOLEAN :
          hs' = [AssignSocket(hs) EXCEPT !.parser = IF whole THEN "ready" ELSE "body"]

\* parserOnMessageComplete: the body of the request has come
RequestComplete ==
    /\ ~hs.thrown /\ hs.reading /\ Receives(hs.sock) /\ hs.parser = "body"
    /\ hs' = [hs EXCEPT !.parser = "ready"]

\* socketOnData, of data the parser does not take; it takes none after that
ServerBadData ==
    /\ ~hs.thrown /\ hs.reading /\ Receives(hs.sock)
    /\ hs' = Settle(Lost([hs EXCEPT !.parser = "error"]))

\* The client has closed its side: onSocketEnd of net.js (allowHalfOpen), socketOnEnd,
\* then maybeDestroy.  finish() fails inside a message (cut) unless the parser has
\* failed before.
ServerOnEnd ==
    /\ ~hs.thrown /\ hs.reading /\ Receives(hs.sock)
    /\ \E cut \in BOOLEAN :
          /\ hs.parser = "body" => cut
          /\ hs.parser = "error" => ~cut
          /\ LET e == [hs EXCEPT !.sock.eof = TRUE, !.reading = FALSE]
                 f == IF cut THEN [e EXCEPT !.sock = DestroySocket(@)]
                      ELSE [e EXCEPT !.parser = "null",
                                     !.sock = IF @.writable THEN EndSocket(@) ELSE @]
             IN  hs' = Settle(Lost(f))

\* A read fails: socketOnError, whose 'clientError' destroys the socket as net.js does
ServerReadError ==
    /\ ~hs.thrown /\ hs.reading /\ Receives(hs.sock)
    /\ hs' = Settle(Lost([hs EXCEPT !.reading = FALSE]))

\* socketOnTimeout: unless some listener of 'timeout' was there (handled), the socket
\* is destroyed.  The timer is stopped when it is destroyed at last.
ServerOnTimeout ==
    /\ ~hs.thrown /\ hs.calls < MaxServerCalls
    /\ ~hs.sock.closing /\ ~CanFinish(hs.sock)
    /\ \E handled \in BOOLEAN :
          LET c == [hs EXCEPT !.calls = @ + 1]
          IN  hs' = IF ~hs.server THEN [c EXCEPT !.thrown = TRUE]
                    ELSE IF handled THEN c ELSE Settle(Lost(c))

\* What was written is on the wire
ServerFlushed ==
    /\ ~hs.thrown /\ hs.sock.unflushed
    /\ hs' = [hs EXCEPT !.sock.unflushed = FALSE]

ServerFinish ==
    /\ ~hs.thrown /\ CanFinish(hs.sock)
    /\ hs' = Settle([hs EXCEPT !.sock = FinishSocket(@)])

\* onServerResponseClose, a listener for every response that was assigned to the socket
ResponseClose(s) ==
    IF s.message = NoResponseYet THEN s
    ELSE [s EXCEPT !.res[s.message].closes = @ + Len(s.res)]

\* 'close' of the socket: socketOnClose, then the responses' listeners
ServerOnClose ==
    /\ ~hs.thrown /\ hs.sock.closing /\ ~hs.sock.closed
    /\ hs' = ResponseClose([hs EXCEPT !.sock.closed = TRUE, !.parser = "null"])

-----------------------------------------------------------------------------
(* The script, between events or in a listener of 'request' *)

\* A write of a response: a socket that has finished emits 'error', and socketOnError
\* asks a server that close() has forgotten
WriteTo(s) ==
    IF ~s.sock.finished THEN [s EXCEPT !.sock.unflushed = TRUE]
    ELSE IF s.server THEN Lost(s) ELSE [s EXCEPT !.thrown = TRUE]

ResponseWrite ==
    /\ ~hs.thrown /\ hs.calls < MaxServerCalls /\ ~CanFinish(hs.sock)
    /\ \E i \in DOMAIN hs.res :
          /\ ~hs.res[i].finished
          /\ hs' = WriteTo([hs EXCEPT !.calls = @ + 1])

\* detachSocket: the socket forgets its response, even if that is another one's
DetachSocket(s) == [s EXCEPT !.message = NoResponseYet]

\* resOnFinish, in end() of the response
ResOnFinish(s, i) ==
    [DetachSocket(s) EXCEPT !.res[i].finished = TRUE, !.sock = DestroySoon(@)]

ResponseEnd ==
    /\ ~hs.thrown /\ hs.calls < MaxServerCalls /\ ~CanFinish(hs.sock)
    /\ \E i \in DOMAIN hs.res :
          /\ ~hs.res[i].finished
          /\ LET w == WriteTo([hs EXCEPT !.calls = @ + 1])
             IN  hs' = IF w.thrown THEN w ELSE ResOnFinish(w, i)

ServerNext ==
    \/ OnIncoming \/ RequestComplete \/ ServerBadData \/ ServerOnEnd \/ ServerReadError
    \/ ServerOnTimeout \/ ServerFlushed \/ ServerFinish \/ ServerOnClose
    \/ ResponseWrite \/ ResponseEnd

-----------------------------------------------------------------------------

Answered == \E i \in DOMAIN hs.res : hs.res[i].finished

\* A connection is kept until a request on it is answered, the client ends it, it
\* fails or it times out, and is closed then, when what was written is flushed.  Only
\* a script that writes to a response after that gets an exception (from
\* socketOnError).  When the connection has closed, the response to a single request
\* has got 'close' at most once, and once if it was not finished.  (docs/api/HTTP.md:190
\* promises 'close' to a finished response too, which onServerResponseClose no longer finds;
\* nothing is claimed of that one.)
ServerSettles ==
    /\ hs.thrown => hs.gone \/ Answered
    /\ hs.sock.ending => hs.gone \/ Answered
    /\ hs.gone \/ Answered =>
          \/ hs.sock.unflushed \/ CanFinish(hs.sock) \/ hs.sock.closing \/ hs.thrown
    /\ hs.sock.closed /\ Len(hs.res) = 1 =>
          hs.res[1].closes <= 1 /\ (hs.res[1].finished \/ hs.res[1].closes = 1)
=============================================================================
