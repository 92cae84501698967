---------------------------- MODULE HttpOutgoing ----------------------------
(***************************************************************************)
(* Outgoing HTTP messages: src/src/js/http_outgoing.js, with the headers   *)
(* that ClientRequest (http_client.js) and ServerResponse (http_server.js) *)
(* render.  What is written to the connection is a sequence of pieces; of  *)
(* the headers only those are kept that tell the peer where the body ends. *)
(* A byte of the body is its number.  The script gives a chunk of the body *)
(* as a string or as a Buffer, which _send turns into a string.            *)
(***************************************************************************)
EXTENDS Integers, Sequences, SequencesExt

CONSTANT MaxOutgoing   \* bound: calls of the script on a message

ASSUME OutgoingAssumption == MaxOutgoing \in Nat

VARIABLE om

Unset == -1
NoFraming == [length |-> Unset, chunked |-> FALSE]
NotRendered == [framing |-> NoFraming, body |-> FALSE, asked |-> FALSE, set |-> FALSE]
\* A piece of what is written: "head", the "size" of a chunk, "crlf" or "data"
Piece(kind, n, bytes) == [kind |-> kind, n |-> n, bytes |-> bytes]
\* What the script gives as a chunk: a string, or a Buffer of UTF-8 text ("text"), a
\* Buffer with a zero byte at its end ("zero"), one that is not UTF-8 ("binary")
BodyChunk(bytes, content) == [bytes |-> bytes, content |-> content]

\* OutgoingMessage
NewMessage(kind) ==
    [kind       |-> kind,
     hasBody    |-> TRUE,
     useChunked |-> TRUE,           \* useChunkedEncodingByDefault
     contentLength |-> Unset,
     chunkedEncoding |-> FALSE,
     finished   |-> FALSE,
     header     |-> NotRendered,    \* _header
     sentHeader |-> FALSE,
     headers    |-> NoFraming,      \* _headers
     removed    |-> {},             \* _removedContentLength, _removedTransferEncoding
     attached   |-> TRUE,           \* connection is not null
     wire       |-> << >>,          \* what the connection was given
     calls      |-> 0,
     thrown     |-> FALSE,
     body       |-> << >>,          \* history: what the script wrote as the body
     gap        |-> FALSE,          \* history: it wrote an empty chunk
     contents   |-> {"text"},       \* history: what its chunks were
     late       |-> FALSE,          \* history: it wrote after end()
     rendered   |-> 0]              \* history: headers rendered so often

\* ClientRequest: a GET, and the like, has no chunked encoding unless it is asked for
NewRequest(method) == [NewMessage(method) EXCEPT !.useChunked = method # "get"]

\* ServerResponse: the answer to a HEAD has no body
NewAnswer(kind) == [NewMessage(kind) EXCEPT !.hasBody = kind # "headResponse"]

OutgoingInit ==
    om \in {NewRequest("get"), NewRequest("post"), NewAnswer("response"),
            NewAnswer("headResponse")}

IsRequest(o) == o.kind \in {"get", "post"}

-----------------------------------------------------------------------------
(* Headers *)

\* matchHeader, for the headers the script has set
MatchHeaders(o) ==
    [o EXCEPT !.chunkedEncoding = @ \/ o.headers.chunked,
              !.removed = @ \ ((IF o.headers.length # Unset THEN {"length"} ELSE {})
                               \cup (IF o.headers.chunked THEN {"chunked"} ELSE {}))]

\* _storeHeader
StoreHeader(o) ==
    LET m == MatchHeaders(o)
        known == "length" \notin m.removed /\ m.contentLength # Unset
        chunk == ~known /\ "chunked" \notin m.removed /\ m.useChunked
        framing == IF o.headers # NoFraming THEN o.headers
                   ELSE IF ~m.hasBody THEN NoFraming
                   ELSE [length |-> IF known THEN m.contentLength ELSE Unset, chunked |-> chunk]
    IN  [m EXCEPT !.header = [framing |-> framing, body |-> m.hasBody,
                               asked |-> o.headers.length # Unset, set |-> TRUE],
                  !.chunkedEncoding =
                      IF o.headers # NoFraming THEN @
                      ELSE IF ~m.hasBody THEN FALSE ELSE @ \/ chunk,
                  !.rendered = @ + 1]

\* ServerResponse.writeHead: a status like 204 has no body
WriteHeadOf(o, bodiless) == StoreHeader([o EXCEPT !.hasBody = @ /\ ~bodiless])

\* _implicitHeader of a request and of a response, whose statusCode is 200
ImplicitHeader(o) == IF IsRequest(o) THEN StoreHeader(o) ELSE WriteHeadOf(o, FALSE)

-----------------------------------------------------------------------------
(* Body *)

\* _send of a piece that is text: the header goes first; a response that was ended has
\* no connection
SendPiece(o, piece) ==
    IF o.thrown THEN o
    ELSE IF ~o.attached THEN [o EXCEPT !.thrown = TRUE, !.sentHeader = TRUE]
    ELSE [o EXCEPT !.wire = IF o.sentHeader THEN Append(@, piece)
                            ELSE @ \o <<Piece("head", 0, << >>), piece>>,
                   !.sentHeader = TRUE]

\* Buffer.toString, external to this module (Buffers has it): up to the first zero byte
TextOf(chunk) ==
    IF chunk.content = "zero" THEN SubSeq(chunk.bytes, 1, Len(chunk.bytes) - 1) ELSE chunk.bytes

\* _send of a chunk of the body: toString throws before anything else is done
SendChunk(o, chunk) ==
    IF chunk.content = "binary" THEN [o EXCEPT !.thrown = TRUE]
    ELSE SendPiece(o, Piece("data", 0, TextOf(chunk)))

\* write: four pieces for a chunk, whose size is that of the Buffer
WritePieces(o, chunk) ==
    LET h == IF o.header.set THEN o ELSE ImplicitHeader(o)
        size == SendPiece(h, Piece("size", Len(chunk.bytes), << >>))
        crlf == SendPiece(size, Piece("crlf", 0, << >>))
    IN  IF ~h.hasBody THEN h
        ELSE IF h.chunkedEncoding THEN SendPiece(SendChunk(crlf, chunk), Piece("crlf", 0, << >>))
        ELSE SendChunk(h, chunk)

\* resOnFinish, on 'prefinish': a response lets go of its connection
PreFinish(o) == [o EXCEPT !.attached = IsRequest(o)]

NoChunk == BodyChunk(<< >>, "text")

\* The rest of end: the empty write flushes a header not yet sent
EndsWith(o) ==
    IF o.thrown THEN o
    ELSE PreFinish([SendPiece(o, Piece("data", 0, << >>)) EXCEPT !.finished = TRUE])

\* Mutant: the last chunk is only sent when end() is given no data
EndPieces_NoLastChunk(o, chunk) ==
    LET h == IF o.header.set THEN o ELSE [o EXCEPT !.contentLength = Len(chunk.bytes)]
        w == IF chunk.bytes # << >> THEN WritePieces(h, chunk)
             ELSE IF ~h.header.set THEN ImplicitHeader(h) ELSE h
    IN  EndsWith(IF w.chunkedEncoding /\ chunk.bytes = << >> THEN WritePieces(w, NoChunk) ELSE w)

\* end: the length is known when nothing was rendered before; a chunked body is
\* closed by an empty chunk
EndPieces(o, chunk) ==
    LET h == IF o.header.set THEN o ELSE [o EXCEPT !.contentLength = Len(chunk.bytes)]
        w == IF chunk.bytes # << >> THEN WritePieces(h, chunk)
             ELSE IF ~h.header.set THEN ImplicitHeader(h) ELSE h
    IN  EndsWith(IF w.chunkedEncoding /\ ~w.thrown THEN WritePieces(w, NoChunk) ELSE w)

-----------------------------------------------------------------------------
(* The script *)

Calls_om == om.calls < MaxOutgoing /\ ~om.thrown
Called(o) == [o EXCEPT !.calls = @ + 1]
\* n further bytes of the body, if the message has one
Fresh(n) == [i \in 1 .. n |-> Len(om.body) + i]
BodyChunks == {NoChunk} \cup {BodyChunk(Fresh(n), content) : n \in 1 .. 2,
                                                     content \in {"text", "zero", "binary"}}
Counted(o, chunk) ==
    IF o.hasBody THEN [o EXCEPT !.body = @ \o chunk.bytes, !.contents = @ \cup {chunk.content}]
    ELSE o

\* setHeader, of Content-Length or Transfer-Encoding: chunked
SetHeader ==
    /\ Calls_om
    /\ \E h \in {[om.headers EXCEPT !.length = 1], [om.headers EXCEPT !.length = 2],
                 [om.headers EXCEPT !.chunked = TRUE]} :
          om' = Called([om EXCEPT !.headers = h])

\* removeHeader: a name that is not in lower case is not found in _headers
RemoveHeader ==
    /\ Calls_om
    /\ \E name \in {"length", "chunked"}, lower \in BOOLEAN :
          LET o == Called([om EXCEPT !.removed = @ \cup {name}])
          IN  om' = IF ~lower THEN o
                    ELSE IF name = "length" THEN [o EXCEPT !.headers.length = Unset]
                    ELSE [o EXCEPT !.headers.chunked = FALSE]

\* writeHead
WriteHead ==
    /\ Calls_om /\ ~IsRequest(om)
    /\ \E bodiless \in BOOLEAN : om' = Called(WriteHeadOf(om, bodiless))

\* write
WriteBody ==
    /\ Calls_om
    /\ \E chunk \in BodyChunks :
          LET o == Called(WritePieces(om, chunk))
          IN  om' = [Counted(o, chunk) EXCEPT
                        !.late = @ \/ om.finished,
                        !.gap = @ \/ (chunk = NoChunk /\ o.chunkedEncoding)]

\* end; a second one does nothing
EndMessage ==
    /\ Calls_om
    /\ \E chunk \in BodyChunks :
          om' = Called(IF om.finished THEN om ELSE Counted(EndPieces(om, chunk), chunk))

OutgoingNext == SetHeader \/ RemoveHeader \/ WriteHead \/ WriteBody \/ EndMessage

-----------------------------------------------------------------------------
(* What the peer makes of it *)

BytesOf(pieces) == FlattenSeq([i \in DOMAIN pieces |-> pieces[i].bytes])
IsSize(piece) == piece.kind = "size"

\* A chunked body: every chunk with its own size, closed by the first empty one
ReadsChunks(pieces, body) ==
    \E z \in DOMAIN pieces :
        /\ IsSize(pieces[z]) /\ pieces[z].n = 0
        /\ \A i \in 1 .. z - 1 : IsSize(pieces[i]) =>
              pieces[i].n > 0 /\ i + 3 < z /\ Len(pieces[i + 2].bytes) = pieces[i].n
        /\ BytesOf(SubSeq(pieces, 1, z)) = body
        /\ \A i \in z + 1 .. Len(pieces) : ~IsSize(pieces[i]) /\ pieces[i].bytes = << >>

ReadsBody(o) ==
    LET pieces == Tail(o.wire)
        f == o.header.framing
    IN  IF f.chunked /\ o.header.body THEN ReadsChunks(pieces, o.body)
        ELSE /\ ~\E i \in DOMAIN pieces : IsSize(pieces[i])
             /\ BytesOf(pieces) = o.body
             /\ f.length # Unset /\ o.header.body => Len(o.body) = f.length
             /\ ~o.header.body => o.body = << >>

\* The body the script meant can be told: it did not write after end() or an empty
\* chunk, did not render the headers twice, kept to the Content-Length that it set,
\* and gave a request with a body a length or a chunked encoding
WellUsed(o) ==
    LET f == o.header.framing
    IN  /\ ~o.late /\ ~o.gap /\ o.rendered = 1
        /\ o.header.asked => f.chunked \/ Len(o.body) = f.length
        /\ IsRequest(o) /\ f = NoFraming => o.body = << >>

\* A peer that reads a message as its headers say gets the body that the script
\* wrote, whole, and finds nothing after it, whether the length was known, set,
\* removed or left to chunks, and whichever call rendered the headers, as long as the
\* script wrote strings or Buffers of UTF-8 text without a zero byte.  A Buffer with a
\* zero byte is cut off there, while its chunk size or the Content-Length counts all of
\* it, and nothing is said of that message (docs/api/HTTP.md:200 and :232 allow any
\* Buffer).  An exception escapes only from a response that is written to after end()
\* and from a Buffer that is not UTF-8.
BodyFramed ==
    /\ om.thrown => om.late \/ "binary" \in om.contents
    /\ om.finished /\ ~om.thrown /\ WellUsed(om) /\ om.contents = {"text"} => ReadsBody(om)

-----------------------------------------------------------------------------
(* The socket that messages are written to, as far as http_client.js and   *)
(* http_server.js see it: what net.js, which Net models in full, makes of  *)
(* end(), destroy() and destroySoon(), with the ticks and the callbacks of *)
(* a call taken together.                                                  *)

\* A socket; unflushed: data wait to be written, or a connection to write them to
NewSocket(unflushed) ==
    [writable        |-> TRUE,    \* _socketState.writable
     ending          |-> FALSE,   \* _writableState.ending
     unflushed       |-> unflushed,
     finished        |-> FALSE,   \* 'finish' was emitted
     destroyOnFinish |-> FALSE,   \* a listener of 'finish' destroys it
     eof             |-> FALSE,   \* 'end' was emitted
     closing         |-> FALSE,   \* the handle is being closed
     closed          |-> FALSE]   \* 'close' was emitted

\* Socket.end
EndSocket(s) == [s EXCEPT !.writable = FALSE, !.ending = TRUE]

\* Socket.destroy: closes once 'finish' was emitted, and otherwise waits for it
DestroySocket(s) ==
    LET e == IF s.writable THEN EndSocket(s) ELSE s
    IN  IF e.finished THEN [e EXCEPT !.closing = TRUE]
        ELSE [e EXCEPT !.destroyOnFinish = TRUE]

\* Socket.destroySoon: _writableState.finished is never set, so it always waits
DestroySoon(s) ==
    [IF s.writable THEN EndSocket(s) ELSE s EXCEPT !.destroyOnFinish = TRUE]

\* 'finish': onSocketFinish closes the socket if its input has ended, and otherwise
\* shuts it down; then the listeners that destroy it
CanFinish(s) == s.ending /\ ~s.unflushed /\ ~s.finished
FinishSocket(s) == [s EXCEPT !.finished = TRUE, !.closing = s.eof \/ s.destroyOnFinish]

\* uv calls a socket that is open, when the ticks ('finish' among them) have run
Receives(s) == ~s.closing /\ ~s.closed /\ ~s.eof /\ ~CanFinish(s)
=============================================================================
