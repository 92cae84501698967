------------------------------ MODULE WebSocket ------------------------------
(***************************************************************************)
(* A WebSocket client's connection: src/src/js/websocket.js and the frames *)
(* of src/src/modules/iotjs_module_websocket.c.  The server's bytes arrive *)
(* in chunks cut anywhere; frames are put together from chunks and         *)
(* messages from frames.  A byte is a record of what the parser reads in   *)
(* it: the first one the final bit and the type, the second one the mask   *)
(* bit and the length, LongFrom for one in two further bytes.              *)
(***************************************************************************)
EXTENDS Integers, Sequences, SequencesExt

CONSTANTS LongFrom,      \* payload length from which the length takes more bytes (126)
          MaxTraffic     \* bound: frames of the server and messages sent to it

ASSUME WebSocketAssumption == LongFrom \in Nat \ {0} /\ MaxTraffic \in Nat

VARIABLE ws

FixedBytes == 2          \* WS_FIXED_BYTES
ExtBytes == 2            \* ext_len of a 16-bit length
NoMessage_ws == [type |-> "none", chunks |-> << >>]

WebSocketInit ==
  \E listens \in BOOLEAN :
    ws = [wire        |-> << >>,       \* bytes on their way from the server
          lastChunk   |-> << >>,
          lastMessage |-> NoMessage_ws,
          events      |-> << >>,       \* what the application was told
          listens     |-> listens,      \* the application listens for 'error'
          connected   |-> FALSE,       \* WebSocketClient.connected
          before      |-> << >>,       \* W3CWebSocket._before
          out         |-> << >>,       \* frames written to the socket
          state       |-> "connecting",
          frames      |-> 0,           \* frames the server sent
          parts       |-> NoMessage_ws,   \* the message the server is sending
          told        |-> << >>,       \* history: the events of whole messages sent
          sent        |-> 0]           \* history: messages given to send()

-----------------------------------------------------------------------------
(* Frames of the server *)

\* The bytes of a payload: the last one is of a kind, plain, zero or not UTF-8
TextKinds == {"plain", "zero", "bad"}
Payload(i, n, kind) ==
    [j \in 1 .. n |-> [data |-> <<i, j>>, kind |-> IF j = n THEN kind ELSE "plain"]]
\* The bytes of a frame
FrameBytes(i, fin, type, mask, n, kind) ==
    <<[fin |-> fin, type |-> type], [mask |-> mask, len |-> IF n < LongFrom THEN n ELSE LongFrom]>>
    \o (IF n < LongFrom THEN << >> ELSE <<[high |-> 0], [low |-> n]>>)
    \o Payload(i, n, kind)

\* iotjs_ws_parse_payload_length
HeaderLength(b) == IF b[2].len = LongFrom THEN FixedBytes + ExtBytes ELSE FixedBytes
PayloadLength(b) == IF b[2].len = LongFrom THEN b[4].low ELSE b[2].len

\* iotjs_ws_parse_input and iotjs_ws_parse_payload: too few bytes for the fixed part
\* are an invalid frame, not an incomplete one
ParseInput(b) ==
    CASE Len(b) < FixedBytes -> "INVALID"
      [] Len(b) >= FixedBytes /\ b[1].type = "ERROR" -> "INVALID"
      [] OTHER -> IF Len(b) < HeaderLength(b) THEN "INCOMPLETE"
                  ELSE IF b[2].mask THEN "INVALID"
                  ELSE IF Len(b) < HeaderLength(b) + PayloadLength(b) THEN "INCOMPLETE"
                  ELSE "OK"

\* DecodeFrame
TotalLength(b) == HeaderLength(b) + PayloadLength(b)
Decoded(b) == [fin |-> b[1].fin, type |-> b[1].type,
               buffer |-> SubSeq(b, HeaderLength(b) + 1, TotalLength(b))]

-----------------------------------------------------------------------------
(* WebSocketConnection.prototype.onsocketdata *)

\* iotjs_ws_make_header: no header for an empty payload, nor for one of 126 bytes,
\* and EncodeFrame then works on a null header
Encodes(size) == size \notin {"empty", "126"}

\* The socket is written to as long as the process lives
WriteFrame(w, frame) ==
    CASE w.state = "crashed"   -> w
      [] ~Encodes(frame.size)  -> [w EXCEPT !.state = "crashed"]
      [] OTHER                 -> [w EXCEPT !.out = Append(@, frame)]

Pong == [id |-> 0, size |-> "short"]

\* emit of 'error': without a listener it throws, out of onsocketdata
SocketError(w) == [w EXCEPT !.events = Append(@, [event |-> "error", data |-> << >>]),
                          !.state = IF w.listens THEN @ ELSE "thrown"]

\* Buffer.toString: it throws for what is not UTF-8, and stops at a zero byte
Has(buffer, kind) == \E j \in DOMAIN buffer : buffer[j].kind = kind
Utf8Data(buffer) ==
    IF Has(buffer, "zero")
    THEN SubSeq(buffer, 1, (CHOOSE j \in DOMAIN buffer :
                               /\ buffer[j].kind = "zero"
                               /\ \A k \in 1 .. (j - 1) : buffer[k].kind # "zero") - 1)
    ELSE buffer

\* A whole message or control frame
Emit(w, type, buffer) ==
    LET told(event, data) ==
            [w EXCEPT !.events = Append(@, [event |-> event, data |-> data])]
    IN  CASE type = "PING" -> WriteFrame(told("ping", << >>), Pong)
          [] type = "PONG" -> told("pong", << >>)
          [] type = "TEXT" -> IF Has(buffer, "bad") THEN SocketError(w)
                              ELSE told("message", Utf8Data(buffer))
          [] type = "BINARY" -> told("message", buffer)
          [] OTHER -> SocketError(w)

\* The do block: a part of a message, its last part, or a whole message
Frame(w, d) ==
    LET first == w.lastMessage.type = "none" \/ d.type # "INCOMPLETE"
        parts == IF first THEN [type |-> d.type, chunks |-> d.buffer]
                 ELSE [w.lastMessage EXCEPT !.chunks = @ \o d.buffer]
    IN  IF d.fin = 0 THEN [w EXCEPT !.lastMessage = parts]
        ELSE IF d.type # "INCOMPLETE" THEN Emit(w, d.type, d.buffer)
        ELSE IF w.lastMessage.type = "none" THEN w
        ELSE Emit([w EXCEPT !.lastMessage = NoMessage_ws], parts.type, parts.chunks)

\* Mutant: a frame that begins in the chunk of another is dropped
LeftChunk_Dropped(b) == << >>

\* leftChunk: what follows the first frame of a chunk
LeftChunk(b) == SubSeq(b, TotalLength(b) + 1, Len(b))

\* onsocketdata.  An invalid frame is dropped with what came with it, and an exception
\* drops leftChunk; the model stops there, since the next chunk may begin in the middle
\* of a frame
RECURSIVE OnSocketData(_, _)
OnSocketData(w, new) ==
    LET chunk == w.lastChunk \o new
        v == [w EXCEPT !.lastChunk = << >>]
        r == ParseInput(chunk)
        left == LeftChunk(chunk)
        f == Frame(v, Decoded(chunk))
    IN  CASE r = "INCOMPLETE" -> [v EXCEPT !.lastChunk = chunk]
          [] r = "INVALID"    -> [v EXCEPT !.state = "astray"]
          [] r = "OK"         -> IF left = << >> \/ f.state = "thrown" THEN f
                                 ELSE OnSocketData(f, left)

-----------------------------------------------------------------------------
(* Actions *)

\* handshake: the server answers 101 with the headers asked for.  'connect' is
\* emitted, W3CWebSocket sends what was waiting (_clearBefore), then connected is set
Connect_ws ==
    /\ ws.state = "connecting"
    /\ LET w == FoldLeft(WriteFrame, [ws EXCEPT !.state = "open"], ws.before)
       IN  ws' = [w EXCEPT !.before = << >>, !.connected = TRUE]

\* handshake: another answer, 'connectFailed'
ConnectFailed ==
    /\ ws.state = "connecting"
    /\ ws' = [ws EXCEPT !.state = "failed"]

\* W3CWebSocket.prototype.send
Send(size) ==
    /\ ws.state \in {"connecting", "open"} /\ ws.frames + ws.sent < MaxTraffic
    /\ LET frame == [id |-> ws.sent + 1, size |-> size]
           w == [ws EXCEPT !.sent = @ + 1]
       IN  ws' = IF ~ws.connected THEN [w EXCEPT !.before = Append(@, frame)]
                 ELSE WriteFrame(w, frame)

\* WebSocketConnection.prototype.close
Close_ws ==
    /\ ws.state = "open"
    /\ ws' = [ws EXCEPT !.state = "closed"]

\* The server sends a frame: a message or a part of one, or a control frame.  Bounds:
\* control frames are empty, a byte that is not plain is the only one of its frame, and
\* only the first frame and one that continues a message have such a byte or a long length.
ServerSends(fin, type, n, kind) ==
    LET i == ws.frames + 1
        data == Payload(i, n, kind)
        parts == IF type = "INCOMPLETE" THEN [ws.parts EXCEPT !.chunks = @ \o data]
                 ELSE [type |-> type, chunks |-> data]
        control == type \in {"PING", "PONG", "CLOSING"}
        whole == IF type = "INCOMPLETE" THEN parts ELSE [type |-> type, chunks |-> data]
    IN  /\ ws.state \in {"open", "closed"} /\ ws.frames + ws.sent < MaxTraffic
        /\ control => fin = 1
        /\ control => n = 0
        /\ kind # "plain" => n = 1 /\ type # "BINARY"
        /\ n = LongFrom \/ kind # "plain" => i = 1 \/ type = "INCOMPLETE"
        /\ ~control => (type = "INCOMPLETE" <=> ws.parts.type # "none")
        /\ ws' = [ws EXCEPT !.wire = @ \o FrameBytes(i, fin, type, FALSE, n, kind),
                            !.frames = i,
                            !.parts = IF control THEN @ ELSE IF fin = 1
                                      THEN NoMessage_ws ELSE parts,
                            !.told = IF fin = 0 THEN @
                                     ELSE Append(@, [type |-> whole.type,
                                                     data |-> whole.chunks])]

\* A server that masks its frames, or uses a reserved type
ServerErrs(type, mask) ==
    /\ ws.state = "open" /\ ws.frames + ws.sent < MaxTraffic
    /\ mask \/ type = "ERROR"
    /\ ws' = [ws EXCEPT !.wire = @ \o FrameBytes(ws.frames + 1, 1, type, mask, 1, "plain"),
                        !.frames = @ + 1]

\* The socket's 'data' with the next n bytes
Data(n) ==
    /\ ws.state \in {"open", "closed"} /\ n <= Len(ws.wire)
    /\ ws' = OnSocketData([ws EXCEPT !.wire = SubSeq(@, n + 1, Len(@))],
                          SubSeq(ws.wire, 1, n))

WebSocketNext ==
    \/ Connect_ws
    \/ ConnectFailed
    \/ \E size \in {"empty", "short", "126", "long"} : Send(size)
    \/ Close_ws
    \/ \E fin \in {0, 1}, n \in {0, 1, LongFrom}, kind \in TextKinds,
          type \in {"TEXT", "BINARY", "INCOMPLETE", "PING", "PONG", "CLOSING"} :
             ServerSends(fin, type, n, kind)
    \/ \E type \in {"TEXT", "ERROR"}, mask \in BOOLEAN : ServerErrs(type, mask)
    \/ \E n \in 1 .. Len(ws.wire) : Data(n)

-----------------------------------------------------------------------------
(* Properties *)

\* However the server's bytes are cut into chunks, and with control frames between
\* the parts of a message, the application is told of what the server sent once and in
\* order, of a binary message and of a plain text the whole of it, and of everything once
\* every byte has arrived (onsocketdata); what it sends leaves in order, what it sent
\* before the connection was there first (_clearBefore).  Nothing is said of the event
\* that a CLOSING frame is reported by: the code emits 'error' and not the 'close' of the
\* documentation.  Nor of a text with a zero byte, which is cut there, or one that is not
\* UTF-8, which becomes an 'error'.  And nothing is said after an 'error' that no one
\* listens for, which throws and drops the rest of the chunk, after a frame that the
\* server may not send, and after a chunk that leaves a single byte, which the parser
\* takes for an invalid frame: with it the frame that begins there is lost.
Reports(event, sent) ==
    CASE sent.type = "PING"   -> event.event = "ping"
      [] sent.type = "PONG"   -> event.event = "pong"
      [] sent.type = "BINARY" -> event.event = "message" /\ event.data = sent.data
      [] sent.type = "TEXT" /\ ~Has(sent.data, "zero") /\ ~Has(sent.data, "bad") ->
            event.event = "message" /\ event.data = sent.data
      [] OTHER -> TRUE
MessagesWhole ==
    /\ Len(ws.events) <= Len(ws.told)
    /\ \A i \in DOMAIN ws.events : Reports(ws.events[i], ws.told[i])
    /\ ws.wire = << >> /\ ws.state = "open" => Len(ws.events) = Len(ws.told)
    /\ LET own == SelectSeq(ws.out, LAMBDA f : f.id # 0)
       IN  /\ \A i \in DOMAIN own : own[i].id = i
           /\ ws.state = "open" => Len(own) = ws.sent

=============================================================================
