-------------------------------- MODULE Dgram --------------------------------
(***************************************************************************)
(* UDP sockets: src/src/js/dgram.js over                                   *)
(* src/src/modules/iotjs_module_udp.c.  A datagram sent before the socket  *)
(* is bound waits in _queue, and so does a close; the bind itself and      *)
(* every send wait for a name lookup on the pool.  The functions of        *)
(* dgram.js are operators from state to state, as in Net.                  *)
(***************************************************************************)
EXTENDS Integers, Sequences, FiniteSets, SequencesExt

CONSTANT MaxSends   \* bound: calls of send()

ASSUME DgramAssumption == MaxSends \in Nat

VARIABLE udp   \* the Socket, its native handle and what is under way for it

Sends == 1 .. MaxSends
ToClose == 0   \* an entry of _queue that is close(); the others are sends

DgramInit ==
    udp = [handle    |-> TRUE,       \* _handle
           bind      |-> "unbound",  \* _bindState
           hasQueue  |-> FALSE,      \* _queue is an array
           queue     |-> << >>,
           receiving |-> FALSE,
           uv        |-> "open",     \* the native handle
           recv      |-> FALSE,      \* uv_udp_recv_start
           binding   |-> FALSE,      \* the lookup of bind() is under way
           asked     |-> {},         \* sends whose lookup is under way
           onWire    |-> {},         \* sends with a request in uv
           failed    |-> {},         \* sends whose error is a tick
           told      |-> [n \in Sends |-> 0],   \* calls of the callback
           sends     |-> 0,
           closes    |-> 0,          \* calls of close()
           closed    |-> 0,          \* ticks of 'close' queued
           lateSend  |-> FALSE,      \* send() after close()
           thrown    |-> FALSE]      \* an exception that no caller catches

\* UDP: iotjs_udpwrap_create is DgramInit's uv.  Bind: uv_ip4_addr, uv_udp_bind
UdpBind(ok) == ok

\* RecvStart and RecvStop
RecvStart(d) == [d EXCEPT !.recv = TRUE]
RecvStop(d) == [d EXCEPT !.recv = FALSE]

\* iotjs_send_reqwrap_create and iotjs_send_reqwrap_dispatched
SendReq(d, n) == [d EXCEPT !.onWire = @ \cup {n}]
SendReqDispatched(d, n) == [d EXCEPT !.onWire = @ \ {n}]

\* Send: the request is destroyed when uv_udp_send fails
UdpSend(d, n, ok) == IF ok THEN SendReq(d, n) ELSE SendReqDispatched(SendReq(d, n), n)

\* Close: iotjs_handlewrap_close
UdpClose(d) == [d EXCEPT !.uv = "closing", !.recv = FALSE]

\* Socket.prototype.bind of an unbound socket
BindCall(d) == [d EXCEPT !.bind = "binding", !.binding = TRUE]

\* enqueue
Enqueue(d, entry) == [d EXCEPT !.hasQueue = TRUE, !.queue = Append(@, entry)]

\* Socket.prototype.send; _healthCheck throws without a handle
SendCall(d, n) ==
    LET b == IF d.bind = "unbound" THEN BindCall(d) ELSE d
    IN  IF ~d.handle THEN [d EXCEPT !.thrown = TRUE]
        ELSE IF b.bind # "bound" THEN Enqueue(b, n)
        ELSE [b EXCEPT !.asked = @ \cup {n}]

\* Socket.prototype.close, with _stopReceiving
CloseCall(d) ==
    IF d.hasQueue THEN Enqueue(d, ToClose)
    ELSE IF ~d.handle THEN [d EXCEPT !.thrown = TRUE]
    ELSE [UdpClose(IF d.receiving THEN RecvStop(d) ELSE d) EXCEPT
             !.handle = FALSE, !.receiving = FALSE, !.closed = @ + 1]

\* One entry of the queue; an exception ends the loop
FlushEntry(d, entry) ==
    IF d.thrown THEN d
    ELSE IF entry = ToClose THEN CloseCall(d) ELSE SendCall(d, entry)

\* The loop of clearQueue
FlushQueue(d, queue) ==
    LET after[i \in 0 .. Len(queue)] ==
            IF i = 0 THEN d ELSE FlushEntry(after[i - 1], queue[i])
    IN  after[Len(queue)]

\* Mutant: the queue is not forgotten before it is flushed
ClearQueue_Kept(d) == FlushQueue([d EXCEPT !.queue = << >>], d.queue)

\* clearQueue
ClearQueue(d) == FlushQueue([d EXCEPT !.hasQueue = FALSE, !.queue = << >>], d.queue)

\* startListening, with the listener of 'listening' that flushes the queue
StartListening(d) ==
    LET l == [RecvStart(d) EXCEPT !.receiving = TRUE, !.bind = "bound"]
    IN  IF l.hasQueue THEN ClearQueue(l) ELSE l

-----------------------------------------------------------------------------
(* The script, which catches what its own calls throw *)

Caught(d) == [d EXCEPT !.thrown = FALSE]

DgramBind ==
    /\ udp.handle /\ udp.bind = "unbound"
    /\ udp' = BindCall(udp)

DgramSend ==
    /\ udp.sends < MaxSends
    /\ udp' = [Caught(SendCall(udp, udp.sends + 1)) EXCEPT
                  !.sends = @ + 1, !.lateSend = @ \/ (udp.closes > 0 /\ udp.handle)]

MaxCloses == 2       \* bound: calls of close()
DgramClose ==
    /\ udp.closes < MaxCloses
    /\ udp' = [Caught(CloseCall(udp)) EXCEPT !.closes = @ + 1]

-----------------------------------------------------------------------------
(* Callbacks *)

\* The callback of bind's lookup
AfterBindLookup(found, ok) ==
    /\ udp.binding
    /\ LET d == [udp EXCEPT !.binding = FALSE]
       IN  udp' = IF ~found THEN [d EXCEPT !.bind = "unbound"]
                  ELSE IF ~d.handle THEN d
                  ELSE IF ~UdpBind(ok) THEN [d EXCEPT !.bind = "unbound"]
                  ELSE StartListening(d)

\* doSend, the callback of send's lookup
DoSend(n, found, ok) ==
    /\ n \in udp.asked
    /\ LET d == [udp EXCEPT !.asked = @ \ {n}]
       IN  udp' = IF ~found THEN [d EXCEPT !.told[n] = @ + 1]
                  ELSE IF ~d.handle THEN d
                  ELSE IF ok THEN UdpSend(d, n, TRUE)
                  ELSE [UdpSend(d, n, FALSE) EXCEPT !.failed = @ \cup {n}]

\* The tick that gives the error of uv_udp_send to the callback
SendFailedTick(n) ==
    /\ n \in udp.failed
    /\ udp' = [udp EXCEPT !.failed = @ \ {n}, !.told[n] = @ + 1]

\* OnSend
OnSend(n) ==
    /\ n \in udp.onWire
    /\ udp' = [SendReqDispatched(udp, n) EXCEPT !.told[n] = @ + 1]

\* OnRecv: a datagram or an error, for the listeners of the script
OnRecv ==
    /\ udp.recv
    /\ UNCHANGED udp

\* iotjs_handlewrap_on_close, without a handler of udp.c
DgramOnClose ==
    /\ udp.uv = "closing"
    /\ udp.onWire = {}
    /\ udp' = [udp EXCEPT !.uv = "closed"]

DgramNext ==
    \/ DgramBind \/ DgramSend \/ DgramClose
    \/ \E found \in BOOLEAN, ok \in BOOLEAN : AfterBindLookup(found, ok)
    \/ \E n \in Sends :
          \/ \E found \in BOOLEAN, ok \in BOOLEAN : DoSend(n, found, ok)
          \/ SendFailedTick(n)
          \/ OnSend(n)
    \/ OnRecv
    \/ DgramOnClose

-----------------------------------------------------------------------------

DgramSettled ==
    /\ ~udp.binding /\ udp.asked = {} /\ udp.onWire = {} /\ udp.failed = {}
    /\ udp.uv # "closing"

\* The callback of send() is called at most once, and, once all lookups and
\* requests are answered, has been called unless the socket was closed under the
\* datagram or it waits in _queue for a bind that failed.  A flush of _queue throws
\* only when send() was called after close().  close() closes the native handle,
\* unless it waits in _queue for a bind that failed.
DgramSettles ==
    /\ \A n \in Sends : udp.told[n] <= 1
    /\ udp.thrown => udp.lateSend \/ udp.closes > 1
    /\ DgramSettled /\ udp.closes = 0 =>
          \A n \in 1 .. udp.sends :
              \/ udp.told[n] = 1
              \/ udp.bind = "unbound" /\ Contains(udp.queue, n)
    /\ DgramSettled /\ udp.closes > 0 =>
          \/ udp.uv = "closed" /\ udp.closed = 1
          \/ udp.bind = "unbound" /\ Contains(udp.queue, ToClose)
=============================================================================
