--------------------------------- MODULE Mqtt ---------------------------------
(***************************************************************************)
(* The MQTT client: src/src/js/mqtt.js, with the packets that              *)
(* src/src/modules/iotjs_module_mqtt.c reads and makes.  Every connection  *)
(* is a new socket (numbered), and the events of an old socket reach the   *)
(* client that already has another.  The stream from the broker is a       *)
(* sequence of units, and a chunk may end after any of them.  A packet is  *)
(* its first byte and the rest; the rest of PUBLISH is two units, up to    *)
(* the length of the topic, which MqttDeserialize needs, and after it.     *)
(***************************************************************************)
EXTENDS Integers, Sequences, FiniteSets, SequencesExt

CONSTANTS MaxSockets,    \* bound: connections that the client makes
          MaxPublished,  \* bound: messages that the broker sends on a connection
          MaxScript,     \* bound: calls of the script
          MaxPings       \* bound: keep-alive rounds of a connection

ASSUME MqttAssumption == /\ MaxSockets \in Nat \ {0} /\ MaxPublished \in Nat
                         /\ MaxScript \in Nat /\ MaxPings \in Nat

VARIABLE mq

Sockets == 1 .. MaxSockets
NoTimer == [held |-> FALSE, stray |-> 0]

\* A timer of the client: held is live and in its field, stray are live timers that
\* the field no longer names
SetTimer(t) == [held |-> TRUE, stray |-> t.stray + (IF t.held THEN 1 ELSE 0)]
ClearTimer(t) == [t EXCEPT !.held = FALSE]
Live(t) == t.held \/ t.stray > 0
Fired(t) == IF t.held THEN ClearTimer(t) ELSE [t EXCEPT !.stray = @ - 1]

\* connect; net.connect makes the next socket
ConnectCall(m) ==
    [m EXCEPT !.disconnected = FALSE,
              !.connectTimer = SetTimer(@),
              !.made = @ + 1,
              !.socket = m.made + 1,
              !.state[m.made + 1] = "connecting",
              !.lastChunk = << >>,
              !.sent = 0, !.messages = << >>, !.pings = 0, !.coalesced = FALSE,
              !.crowded = @ \/ \E s \in Sockets : m.state[s] \in {"open", "ending", "closing"}]

\* MqttClient and MqttConstructor, and the connect() that mqtt.connect makes
MqttInit ==
    mq = ConnectCall(
         [socket       |-> 0,           \* _socket
          socketConn   |-> FALSE,       \* _isSocketConnected
          conn         |-> FALSE,       \* _isConnected
          disconnected |-> FALSE,
          callback     |-> FALSE,       \* _disconnectCb
          connectTimer |-> NoTimer,
          reconnect    |-> NoTimer,
          keepTimer    |-> NoTimer,
          keepTimeout  |-> NoTimer,
          lastChunk    |-> << >>,
          state        |-> [s \in Sockets |-> "none"],
          made         |-> 0,
          acked        |-> "no",        \* the broker's CONNACK: "no", "yes" or "refused"
          asked        |-> FALSE,       \* a ping that the broker has not answered
          pings        |-> 0,
          sent         |-> 0,           \* messages published to this connection
          messages     |-> << >>,       \* emitted for this connection
          coalesced    |-> FALSE,       \* history: a packet that is not PUBLISH was
                                        \* followed by another in its chunk
          garbled      |-> FALSE,       \* history: a packet was read past the end of its
                                        \* chunk, or from its middle, as what it is not
          pending      |-> << >>,       \* broker: what is left of the packet under way
          first        |-> [s \in Sockets |-> "none"],   \* the first packet written on s
          script       |-> 0,
          crowded      |-> FALSE,       \* history: connect() beside an open socket
          thrown       |-> FALSE,       \* an exception that no caller catches
          inWindow     |-> FALSE])      \* history: it came between end() and 'close'

Clear(m, t) == [m EXCEPT ![t] = ClearTimer(@)]

\* An exception that no caller catches; history: a socket was on its way to 'close'
Throws(m) == [m EXCEPT !.thrown = TRUE,
                       !.inWindow = \E s \in Sockets : m.state[s] \in {"ending", "closing"}]

\* _clearKeepAlive
ClearKeepAlive(m) == Clear(Clear(m, "keepTimer"), "keepTimeout")

\* The packets of MqttGetConnect, MqttGetPingReq and MqttGetDisconnect
GetConnect == "connect"
GetPingReq == "pingreq"
GetDisconnect == "disconnect"

\* The first packet that goes out on a socket: CONNECT, or another
FirstIs(old, packet) ==
    IF old # "none" THEN old ELSE IF packet = GetConnect THEN "connect" ELSE "other"

SocketDestroy(m) == [m EXCEPT !.state[m.socket] = IF @ = "closed" THEN @ ELSE "closing",
                              !.socket = 0]

\* Mutant: the reconnect timer is left alone
CloseConnection_Reconnects(m) ==
    LET c == Clear(m, "connectTimer")
    IN  IF ~c.conn THEN (IF c.socket # 0 THEN SocketDestroy(c) ELSE c)
        ELSE IF c.socket = 0 THEN Throws(c)
        ELSE [c EXCEPT !.state[c.socket] = IF @ = "open" THEN "ending" ELSE @,
                        !.first[c.socket] = FirstIs(@, GetDisconnect), !.socket = 0]

\* _closeConnection, with end() of the socket.  Without a socket the try fails, and so
\* does its handler.
CloseConnection(m) ==
    LET c == Clear(Clear(m, "reconnect"), "connectTimer")
    IN  IF ~c.conn THEN (IF c.socket # 0 THEN SocketDestroy(c) ELSE c)
        ELSE IF c.socket = 0 THEN Throws(c)
        ELSE [c EXCEPT !.state[c.socket] = IF @ = "open" THEN "ending" ELSE @,
                        !.first[c.socket] = FirstIs(@, GetDisconnect), !.socket = 0]

\* _write: without a connection the callback is told so, with a null _socket the call
\* throws, and otherwise the socket is written to
WriteThrows(m) == m.socketConn /\ m.socket = 0
WritePacket(m, packet) ==
    IF ~m.socketConn THEN m
    ELSE [m EXCEPT !.first[m.socket] = FirstIs(@, packet)]

\* _keepAlive arms the timer
KeepAlive(m) == [m EXCEPT !.keepTimer = SetTimer(@)]

-----------------------------------------------------------------------------
(* The script *)

\* disconnect and end
Disconnect ==
    /\ ~mq.thrown /\ mq.script < MaxScript
    /\ mq' = [CloseConnection([mq EXCEPT !.disconnected = TRUE, !.script = @ + 1])
                  EXCEPT !.callback = TRUE]

\* reconnect, as a call of the script
ReconnectCall(m) ==
    LET c == CloseConnection(m) IN IF c.thrown THEN c ELSE ConnectCall(c)
Reconnect ==
    /\ ~mq.thrown /\ mq.script < MaxScript /\ mq.made < MaxSockets
    /\ mq' = ReconnectCall([mq EXCEPT !.script = @ + 1])

\* MqttGetPublish, MqttGetSubscribe and MqttGetUnsubscribe: TRUE when the packet fits
\* the buffer that it is made in, FALSE when an exception says that it does not
GetPublish == BOOLEAN
GetSubscribe == BOOLEAN
GetUnsubscribe == BOOLEAN

\* publish and subscribe: an exception of the encoder or of _write goes to the callback
Written(m, made) ==
    IF ~made \/ WriteThrows(m) THEN m ELSE WritePacket(m, "other")
Publish ==
    /\ ~mq.thrown
    /\ \E made \in GetPublish : mq' = Written(mq, made)
Subscribe ==
    /\ ~mq.thrown
    /\ \E made \in GetSubscribe : mq' = Written(mq, made)

\* unsubscribe: nothing catches the exception of _write
Unsubscribe ==
    /\ ~mq.thrown
    /\ \E made \in GetUnsubscribe :
          mq' = IF made /\ WriteThrows(mq) THEN Throws(mq) ELSE Written(mq, made)

-----------------------------------------------------------------------------
(* Events of the sockets *)

\* _onconnect: MqttGetConnect, and the CONNECT packet
OnConnect(s) ==
    /\ ~mq.thrown /\ mq.state[s] = "connecting"
    /\ LET c == [mq EXCEPT !.state[s] = "open", !.socketConn = TRUE, !.acked = "no",
                           !.asked = FALSE, !.pending = << >>]
       IN  mq' = IF WriteThrows(c) THEN Throws(c) ELSE WritePacket(c, GetConnect)

\* _onerror, and the close that net.js makes of an error or of the peer's end
SocketFails(s) ==
    /\ ~mq.thrown /\ mq.state[s] \in {"connecting", "open", "ending"}
    /\ mq' = [mq EXCEPT !.state[s] = "closing"]

\* _onclose
OnClose(s) ==
    /\ ~mq.thrown /\ mq.state[s] = "closing"
    /\ LET c == Clear(ClearKeepAlive(mq), "connectTimer")
           r == IF c.disconnected THEN c ELSE [c EXCEPT !.reconnect = SetTimer(@)]
       IN  mq' = [r EXCEPT !.state[s] = "closed", !.socketConn = FALSE, !.conn = FALSE,
                           !.callback = @ /\ ~r.disconnected]

Unit(type, id) == [type |-> type, id |-> id]
Readings == {"error", "connack", "pingresp", "unhandled", "message",
             "waits", "garbage", "garbageAck"}

\* MqttReadPacket and MqttDeserialize: what a chunk is taken for.  A chunk that ends
\* before what they need is read past its end, and one that begins inside a packet by
\* whatever byte is there: the result is any that the bytes can give.  What follows the
\* first byte of CONNACK and of PINGRESP has no type in its first byte.
TypeOf(chunk) ==
    LET first == Head(chunk).type
        whole == Len(chunk) >= 2
    IN  CASE first = "publish" /\ Len(chunk) >= 3 -> {"message"}
          [] first = "publish" /\ Len(chunk) = 2 -> {"waits"}
          [] first = "publish" /\ Len(chunk) = 1 -> {"waits", "error", "garbage", "garbageAck"}
          [] first = "connack" -> {"connack"} \cup (IF whole THEN {} ELSE {"error"})
          [] first = "refused" -> {"error"} \cup (IF whole THEN {} ELSE {"connack"})
          [] first = "suback" -> {"unhandled"} \cup (IF whole THEN {} ELSE {"error"})
          [] first = "subfail" -> {"error"} \cup (IF whole THEN {} ELSE {"unhandled"})
          [] first = "pingresp" -> {"pingresp"}
          [] first \in {"ack", "zero"} -> {"unhandled"}
          [] OTHER -> Readings \ {"message"}

\* A reading that a longer chunk would not have given
Misread(chunk, reading) ==
    LET first == Head(chunk).type
    IN  CASE first = "publish" -> reading \notin {"message", "waits"}
          [] first \in {"connack", "pingresp"} -> reading # first
          [] first \in {"refused", "subfail"} -> reading # "error"
          [] OTHER -> reading # "unhandled"

\* Acknowledge a message of QoS 1 or 2: MqttGetAck and _write; the handler closes
Ack(m) == IF WriteThrows(m) THEN CloseConnection(m) ELSE WritePacket(m, "other")

\* The messages with an even number have QoS 1
Qos(id) == (id + 1) % 2

\* Mutant: what follows a message in its chunk is dropped
RestOf_Dropped(chunk) == << >>

\* What follows a message in its chunk
RestOf(chunk) == SubSeq(chunk, 4, Len(chunk))

\* Another packet, or a part of it, follows the packet that a chunk begins with
Starts == {"publish", "connack", "refused", "pingresp", "suback", "subfail", "ack"}
Followed(chunk) == \E i \in 2 .. Len(chunk) : chunk[i].type \in Starts

\* What a chunk, or what follows its messages, may be taken for
Guesses(chunk) ==
    LET starts == IF chunk[1].type = "publish" THEN {1, 4, 7} \cap DOMAIN chunk ELSE {1}
    IN  UNION {TypeOf(SubSeq(chunk, i, Len(chunk))) : i \in starts}

\* _ondata; guess is what is read where the chunk leaves it open
RECURSIVE OnData(_, _, _)
OnData(m, chunk, guess) ==
    LET all == m.lastChunk \o chunk
        reading == IF guess \in TypeOf(all) THEN guess ELSE CHOOSE r \in TypeOf(all) : TRUE
        c == [m EXCEPT !.lastChunk = << >>,
                       !.garbled = @ \/ Misread(all, reading),
                       !.coalesced = @ \/ (reading \notin {"message", "waits"} /\ Followed(all))]
    IN  IF m.thrown \/ all = << >> THEN m
        ELSE CASE reading = "error" -> CloseConnection(c)
               [] reading = "connack" -> KeepAlive([Clear(c, "connectTimer") EXCEPT !.conn = TRUE])
               [] reading = "pingresp" -> KeepAlive(Clear(c, "keepTimeout"))
               [] reading = "unhandled" -> c
               [] reading = "waits" -> [c EXCEPT !.lastChunk = all]
               [] reading = "garbage" -> [c EXCEPT !.messages = Append(@, 0)]
               [] reading = "garbageAck" -> Ack([c EXCEPT !.messages = Append(@, 0)])
               [] reading = "message" ->
                    LET told == [c EXCEPT !.messages = Append(@, Head(all).id)]
                        qos == Qos(Head(all).id)
                    IN  IF qos > 0 /\ WriteThrows(told) THEN Ack(told)
                        ELSE OnData(IF qos > 0 THEN Ack(told) ELSE told, RestOf(all), guess)

\* What the broker may send next, on the connection that it knows: the rest of the
\* packet under way, or a packet.  It answers SUBSCRIBE, UNSUBSCRIBE and PUBLISH of the
\* script when it likes ("ack" is UNSUBACK and PUBACK, which nothing tells apart).
Packet(first, rest) == <<Unit(first, 0), Unit(rest, 0)>>
Publishes(id) == <<Unit("publish", id), Unit("topic", id), Unit("payload", id)>>
Packets(m) ==
    IF m.pending # << >> THEN {m.pending}
    ELSE CASE m.acked = "no" -> {Packet("connack", "zero"), Packet("refused", "zero")}
           [] m.acked = "refused" -> {}
           [] m.acked = "yes" ->
                {Packet(ack, "id") : ack \in {"suback", "subfail", "ack"}}
                \cup (IF m.asked THEN {Packet("pingresp", "zero")} ELSE {})
                \cup (IF m.sent < MaxPublished THEN {Publishes(m.sent + 1)} ELSE {})

\* The broker after it sent the first n units of a packet, or of the rest of one
BrokerSent(m, p, n) ==
    LET first == Head(p).type
    IN  [m EXCEPT !.acked = CASE first = "connack" -> "yes"
                              [] first = "refused" -> "refused"
                              [] OTHER -> @,
                  !.asked = @ /\ first # "pingresp",
                  !.pending = SubSeq(p, n + 1, Len(p)),
                  !.sent = IF first = "publish" THEN @ + 1 ELSE @]

\* Bound: how much of packet q comes in the chunk of packet p.  Behind a packet that is
\* not PUBLISH it is dropped, and its first unit stands for it.
Follows(p, q) == IF p[Len(p)].type = "payload" THEN Len(q) ELSE 1

\* A chunk arrives: a part of a packet, a packet, or a packet and a part of the next.
\* Bound: the first chunk that is misread, or of which something is dropped, is the last.
Arrives(s) ==
    /\ ~mq.thrown /\ ~mq.garbled /\ ~mq.coalesced /\ mq.state[s] \in {"open", "ending"}
    /\ s = mq.made
    /\ \E p \in Packets(mq) : \E n \in 1 .. Len(p) :
          LET b == BrokerSent(mq, p, n)
              one == SubSeq(p, 1, n)
          IN  \/ \E guess \in Guesses(mq.lastChunk \o one) : mq' = OnData(b, one, guess)
              \/ /\ n = Len(p)
                 /\ \E q \in Packets(b) : \E k \in 1 .. Follows(p, q) :
                       LET two == p \o SubSeq(q, 1, k)
                       IN  \E guess \in Guesses(mq.lastChunk \o two) :
                              mq' = OnData(BrokerSent(b, q, k), two, guess)

-----------------------------------------------------------------------------
(* Timers *)

\* _onConnectTimeout
ConnectTimeout ==
    /\ ~mq.thrown /\ Live(mq.connectTimer)
    /\ mq' = CloseConnection([mq EXCEPT !.connectTimer = Fired(@)])

\* The reconnect timer of _onclose
ReconnectFires ==
    /\ ~mq.thrown /\ Live(mq.reconnect) /\ mq.made < MaxSockets
    /\ mq' = ReconnectCall([mq EXCEPT !.reconnect = Fired(@)])

\* The timer of _keepAlive: MqttGetPingReq, and the timeout of the answer
KeepAliveFires ==
    /\ ~mq.thrown /\ Live(mq.keepTimer) /\ mq.pings < MaxPings
    /\ LET f == [mq EXCEPT !.keepTimer = Fired(@), !.pings = @ + 1]
       IN  mq' = IF WriteThrows(f) THEN CloseConnection(f)
                 ELSE [WritePacket(f, GetPingReq) EXCEPT !.keepTimeout = SetTimer(@), !.asked = @ \/ f.socketConn]

KeepAliveTimeout ==
    /\ ~mq.thrown /\ Live(mq.keepTimeout)
    /\ mq' = CloseConnection([mq EXCEPT !.keepTimeout = Fired(@)])

MqttNext ==
    \/ Disconnect \/ Reconnect \/ Publish \/ Subscribe \/ Unsubscribe
    \/ \E s \in Sockets : OnConnect(s) \/ SocketFails(s) \/ OnClose(s) \/ Arrives(s)
    \/ ConnectTimeout \/ ReconnectFires \/ KeepAliveFires \/ KeepAliveTimeout

-----------------------------------------------------------------------------

\* disconnect() is final: when the sockets are closed, no timer is left to connect
\* again or to ping.  An exception escapes only between end() of the socket and its
\* 'close', when _socket is already null.  A script that calls reconnect() while the
\* old socket is not closed is promised neither: the 'close' of the old socket then
\* arms a second reconnect timer, and a new socket may connect after disconnect().
\* Neither is a client that took bytes for a CONNACK or a PINGRESP that none was (see
\* MessagesInOrder): it arms a second keep-alive timer, and only the last is cleared.
DisconnectIsFinal ==
    /\ mq.thrown => mq.inWindow \/ mq.crowded
    /\ ~mq.thrown /\ ~mq.crowded /\ ~mq.garbled /\ mq.disconnected
       /\ (\A s \in Sockets : mq.state[s] \in {"none", "closed"}) =>
          /\ ~Live(mq.connectTimer) /\ ~Live(mq.reconnect)
          /\ ~Live(mq.keepTimer) /\ ~Live(mq.keepTimeout)
          /\ ~mq.conn /\ ~mq.socketConn

\* Every connection begins with the CONNECT packet of _onconnect, whatever the script
\* publishes and when.  The messages of a connection are emitted once and in order,
\* wherever the chunks cut a message behind the length of its topic or another packet,
\* and wherever they join messages.  Two cases are left out, and the code gets both wrong:
\* - a packet that is not PUBLISH was followed by another in its chunk: _ondata drops the
\*   rest of such a chunk;
\* - a chunk ended before the length of a topic, or inside a CONNACK or an
\*   acknowledgement, and what MqttReadPacket and MqttDeserialize then read past its end,
\*   or at the head of the next chunk, was taken for something that it is not.
MessagesInOrder ==
  /\ mq.crowded \/ \A s \in Sockets : mq.first[s] \in {"none", "connect"}
  /\ ~mq.coalesced /\ ~mq.garbled /\ ~mq.crowded /\ ~mq.thrown /\ mq.conn =>
        LET underWay == mq.pending # << >> /\ Last(mq.pending).type = "payload"
        IN  mq.messages = [i \in 1 .. (mq.sent - (IF underWay THEN 1 ELSE 0)) |-> i]
=============================================================================
