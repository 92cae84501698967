------------------------------- MODULE Bindings -------------------------------
(***************************************************************************)
(* The bindings of the runtime that hold on to a resource of their own: a  *)
(* device, a datagram socket, the byte ring under a TLS session, a TLS     *)
(* session, a part of the HTTP stack, an MQTT client, a compression        *)
(* stream, a WebSocket, the requests to the file system, a child process,  *)
(* buffers.                                                                *)
(* They share the event loop and the thread pool and no state of their     *)
(* own, so that a behaviour is about one of them; the others stay as they  *)
(* are initially.                                                          *)
(***************************************************************************)
EXTENDS Peripherals, Dgram, Tls, HttpParser, HttpOutgoing, HttpClient, HttpServer, Mqtt, Zlib,
        WebSocket, Fs, ChildProcess, Buffers

VARIABLE which   \* the binding this behaviour is about

-----------------------------------------------------------------------------
(* The parts of the HTTP stack: the parser, a message that is written, the *)
(* client's end of a connection and the server's.  The ends keep of a      *)
(* message what the others leave out, so that a behaviour is about one     *)
(* part.                                                                   *)

httpVars == <<http, om, hc, hs>>

\* The first state of each part, of which one that the behaviour is not about has one
HttpStackInit(part) ==
    /\ HttpInit /\ OutgoingInit /\ ClientInit /\ ServerInit
    /\ part # "parser" => http.type = "request"
    /\ part # "message" => om.kind = "get"
    /\ part # "client" => hc.answer = <<Header(TRUE)>>

Parser   == HttpNext /\ UNCHANGED <<om, hc, hs>>
Message  == OutgoingNext /\ UNCHANGED <<http, hc, hs>>
Requests == ClientNext /\ UNCHANGED <<http, om, hs>>
Serving  == ServerNext /\ UNCHANGED <<http, om, hc>>

-----------------------------------------------------------------------------
bindingVars == <<devVars, udp, bio, tls, httpVars, mq, zl, ws, fs, cp, bu, which>>

HttpParts == {"parser", "message", "client", "server"}
Bindings == {"device", "dgram", "bio", "tls", "mqtt", "zlib", "websocket", "fs", "child",
             "buffer"} \cup HttpParts

\* A binding that the behaviour is not about starts in one of its initial states
Init ==
    /\ which \in Bindings
    /\ DeviceInit  /\ (which # "device" => kind = "gpio")
    /\ ZlibInit    /\ (which # "zlib" => zl.mode = "DEFLATE" /\ zl.ratio = 1)
    /\ BuffersInit /\ (which # "buffer" => bu.mem = <<<< >>, << >>>>)
    /\ WebSocketInit /\ (which # "websocket" => ws.listens)
    /\ DgramInit /\ BioInit /\ TlsInit /\ HttpStackInit(which) /\ MqttInit
    /\ FsInit /\ ChildInit

Device    == which = "device" /\ DeviceNext
             /\ UNCHANGED <<udp, bio, tls, httpVars, mq, zl, ws, fs, cp, bu, which>>
Datagrams == which = "dgram" /\ DgramNext
             /\ UNCHANGED <<devVars, bio, tls, httpVars, mq, zl, ws, fs, cp, bu, which>>
Ring      == which = "bio" /\ BioNext
             /\ UNCHANGED <<devVars, udp, tls, httpVars, mq, zl, ws, fs, cp, bu, which>>
Session   == which = "tls" /\ TlsNext
             /\ UNCHANGED <<devVars, udp, bio, httpVars, mq, zl, ws, fs, cp, bu, which>>
Http      == /\ \/ which = "parser" /\ Parser
                \/ which = "message" /\ Message
                \/ which = "client" /\ Requests
                \/ which = "server" /\ Serving
             /\ UNCHANGED <<devVars, udp, bio, tls, mq, zl, ws, fs, cp, bu, which>>
Client    == which = "mqtt" /\ MqttNext
             /\ UNCHANGED <<devVars, udp, bio, tls, httpVars, zl, ws, fs, cp, bu, which>>
Stream    == which = "zlib" /\ ZlibNext
             /\ UNCHANGED <<devVars, udp, bio, tls, httpVars, mq, ws, fs, cp, bu, which>>
Socket    == which = "websocket" /\ WebSocketNext
             /\ UNCHANGED <<devVars, udp, bio, tls, httpVars, mq, zl, fs, cp, bu, which>>
Files     == which = "fs" /\ FsNext
             /\ UNCHANGED <<devVars, udp, bio, tls, httpVars, mq, zl, ws, cp, bu, which>>
Child     == which = "child" /\ ChildNext
             /\ UNCHANGED <<devVars, udp, bio, tls, httpVars, mq, zl, ws, fs, bu, which>>
Memory    == which = "buffer" /\ BuffersNext
             /\ UNCHANGED <<devVars, udp, bio, tls, httpVars, mq, zl, ws, fs, cp, which>>

Next ==
    \/ Device \/ Datagrams \/ Ring \/ Session \/ Http \/ Client \/ Stream \/ Socket \/ Files
    \/ Child \/ Memory

Spec == Init /\ [][Next]_bindingVars

-----------------------------------------------------------------------------
\* What is parsed and what is written is whole: HeadersWhole and BodyFramed.
HttpWhole == HeadersWhole /\ BodyFramed

\* Both ends of a connection come to an end: ClientSettles and ServerSettles.
HttpSettles == ClientSettles /\ ServerSettles
=============================================================================
