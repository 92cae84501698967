--------------------------------- MODULE Net ---------------------------------
(***************************************************************************)
(* Sockets and the server of src/src/js/net.js over the native handles of  *)
(* TCP and pipes and the name lookup of dns.js / iotjs_module_dns.c.       *)
(*                                                                         *)
(* JavaScript runs in callbacks of uv; after each one the queue of ticks   *)
(* is emptied (EventLoop).  A function of net.js that only changes state   *)
(* is an operator from state to state; where it emits an event, the        *)
(* script's listener runs (ctl) and what the function does after the       *)
(* event is the continuation that Return runs.  The stream state is that   *)
(* of Writable and Readable with the chunks counted, not named.  The       *)
(* timer of the socket is left out: it only emits 'timeout', where the     *)
(* script may run as in any other callback (ScriptRuns).                   *)
(***************************************************************************)
EXTENDS Integers, Sequences, FiniteSets

-----------------------------------------------------------------------------
(* The stream handles of src/src/modules/iotjs_module_tcp.c and            *)
(* iotjs_module_pipe.c: what each call from JavaScript leaves in the       *)
(* native handle.  A handle is a record, one for every socket and one for  *)
(* the server.  A request lives from the call to its callback; a call that *)
(* fails destroys it at once.                                              *)

Requests == {"connect", "write", "shutdown"}

Handle == [uv        : {"none", "open", "closing", "closed"},
           conn      : {"no", "pending", "up", "shut"},
           reading   : BOOLEAN,
           listening : BOOLEAN,
           reqs      : SUBSET Requests,
           onclose   : BOOLEAN]     \* the property onclose of the object

NoHandle == [uv |-> "none", conn |-> "no", reading |-> FALSE, listening |-> FALSE,
             reqs |-> {}, onclose |-> FALSE]

\* iotjs_tcpwrap_create: the wrap, its reference to the object, uv_tcp_init
TcpCreate == [NoHandle EXCEPT !.uv = "open"]

\* PipeConstructor, then PipeOpen with the descriptor of a connected pipe
PipeOpen == [NoHandle EXCEPT !.uv = "open", !.conn = "up"]

\* iotjs_connect_reqwrap_create and iotjs_connect_reqwrap_dispatched
ConnectReq(t) == [t EXCEPT !.reqs = @ \cup {"connect"}]
ConnectReqDispatched(t) == [t EXCEPT !.reqs = @ \ {"connect"}]

\* iotjs_write_reqwrap_create and iotjs_write_reqwrap_dispatched
WriteReq(t) == [t EXCEPT !.reqs = @ \cup {"write"}]
WriteReqDispatched(t) == [t EXCEPT !.reqs = @ \ {"write"}]

\* iotjs_shutdown_reqwrap_create and iotjs_shutdown_reqwrap_dispatched
ShutdownReq(t) == [t EXCEPT !.reqs = @ \cup {"shutdown"}]
ShutdownReqDispatched(t) == [t EXCEPT !.reqs = @ \ {"shutdown"}]

\* Connect, with the result of uv_tcp_connect
TcpConnect(t, ok) ==
    IF ok THEN [ConnectReq(t) EXCEPT !.conn = "pending"]
          ELSE ConnectReqDispatched(ConnectReq(t))

\* Write of tcp.c: uv_write fails without a connection
TcpWrite(t) ==
    IF t.conn \in {"up", "shut"} THEN WriteReq(t) ELSE WriteReqDispatched(WriteReq(t))

\* PIPE_DO_WRITE: the write is a copy with a request of its own; the result of
\* uv_write is not looked at
PipeWrite(t) == WriteReq(t)

\* Shutdown: uv_shutdown fails without a connection or the second time
TcpShutdown(t) ==
    IF t.conn = "up" THEN [ShutdownReq(t) EXCEPT !.conn = "shut"]
                     ELSE ShutdownReqDispatched(ShutdownReq(t))

\* ReadStart and PipeReadStart: uv_read_start refuses a closing handle
ReadStart(t) == [t EXCEPT !.reading = (t.uv = "open" /\ t.conn \in {"up", "shut"})]

\* Listen
TcpListen(t) == [t EXCEPT !.listening = TRUE]

\* Close and PipeClose: iotjs_handlewrap_close
TcpClose(t) ==
    IF t.uv = "open"
    THEN [t EXCEPT !.uv = "closing", !.reading = FALSE, !.listening = FALSE]
    ELSE t

-----------------------------------------------------------------------------
(* Sockets and the server *)

CONSTANTS
    Sockets,
    MaxCalls,    \* bound: calls the script makes
    MaxInput     \* bound: chunks read and accept errors

ASSUME NetAssumption == IsFiniteSet(Sockets) /\ MaxCalls \in Nat /\ MaxInput \in Nat

\* The socket of a tick that is not about a socket
Server == "server"

VARIABLES
    sock,      \* the Socket objects: SocketState, WritableState and _handle
    tcp,       \* the native handle of each socket
    server,    \* the Server object and its handle
    ticks,     \* the queue of process.nextTick
    ctl,       \* empty, or the event whose listener runs and what follows it
    crashed,   \* a TypeError or a call on a null handle that the code does not expect
    calls, input,
    closeEvents, serverClosed,   \* 'close' events so far
    doomed,                      \* the sockets that the script destroyed
    late, reused, hasty          \* the script wrote after end(), listened twice,
                                 \* destroyed a socket that is about to connect or read

netVars == <<sock, tcp, server, ticks, ctl, crashed, calls, input, closeEvents,
             serverClosed, doomed, late, reused, hasty>>

NewSocket ==
    [kind |-> "none", half |-> FALSE, lookup |-> FALSE,
     connecting |-> FALSE, connected |-> FALSE, writable |-> TRUE, readable |-> TRUE,
     destroyed |-> FALSE, errored |-> FALSE, handle |-> FALSE, server |-> FALSE,
     ready |-> FALSE, chunks |-> 0, writing |-> FALSE, ending |-> FALSE,
     ended |-> FALSE, destroyOnFinish |-> FALSE, eof |-> FALSE]

TickNames == {"finish", "connect", "readStart", "afterWrite", "listening",
              "serverClose", "script"}

Continuations == {"none", "lookup", "lookupFailed", "eof", "readError"}

NetInit ==
    /\ sock = [s \in Sockets |-> NewSocket]
    /\ tcp = [s \in Sockets |-> NoHandle]
    /\ server = [handle |-> FALSE, count |-> 0, t |-> NoHandle]
    /\ ticks = << >>
    /\ ctl = << >>
    /\ crashed = FALSE
    /\ calls = 0 /\ input = 0
    /\ closeEvents = [s \in Sockets |-> 0]
    /\ serverClosed = 0
    /\ doomed = {}
    /\ late = FALSE /\ reused = FALSE /\ hasty = FALSE

-----------------------------------------------------------------------------
(* State to state.  st holds what the functions of net.js may change. *)

Now == [sock |-> sock, tcp |-> tcp, server |-> server, ticks |-> ticks, crashed |-> crashed]

Becomes(st) ==
    /\ sock' = st.sock
    /\ tcp' = st.tcp
    /\ server' = st.server
    /\ ticks' = st.ticks
    /\ crashed' = st.crashed

QueuedTicks == {ticks[i].name : i \in DOMAIN ticks}

NextTick(st, name, s) == [st EXCEPT !.ticks = Append(@, [name |-> name, s |-> s])]

\* The script runs in a listener; then the rest of the function runs
Emit(then, s) == ctl' = << [then |-> then, s |-> s] >>

\* The script runs in the last thing a function does
EmitLast == ctl' = << [then |-> "none", s |-> Server] >>

\* Socket.prototype._write
SocketWrite(st, s) ==
    IF st.sock[s].errored THEN NextTick(st, "afterWrite", s)
    ELSE IF ~st.sock[s].handle THEN [st EXCEPT !.crashed = TRUE]
    ELSE [st EXCEPT
             !.tcp[s] = IF st.sock[s].kind = "pipe" THEN PipeWrite(@) ELSE TcpWrite(@)]

\* doWrite
DoWrite(st, s) == SocketWrite([st EXCEPT !.sock[s].writing = TRUE], s)

\* Writable.prototype.write of a stream that has not ended
WriteChunk(st, s) ==
    LET k == st.sock[s]
    IN  IF ~k.ready \/ k.writing \/ k.chunks > 0
        THEN [st EXCEPT !.sock[s].chunks = @ + 1]
        ELSE DoWrite(st, s)

\* Writable.prototype.end without a chunk
WritableEnd(st, s) ==
    LET k == st.sock[s]
    IN  IF k.ending THEN st
        ELSE IF ~k.writing /\ k.chunks = 0
        THEN NextTick([st EXCEPT !.sock[s].ending = TRUE], "finish", s)
        ELSE [st EXCEPT !.sock[s].ending = TRUE]

\* Mutant: connections are not waited for
EmitCloseIfDrained_NoCount(st) ==
    IF st.server.handle THEN st ELSE NextTick(st, "serverClose", Server)

\* Server.prototype._emitCloseIfDrained
EmitCloseIfDrained(st) ==
    IF st.server.handle \/ st.server.count > 0 THEN st ELSE NextTick(st, "serverClose", Server)

\* close
CloseSocket(st, s) ==
    LET shut == [st EXCEPT !.tcp[s] = TcpClose([@ EXCEPT !.onclose = TRUE]),
                           !.sock[s].handle = FALSE, !.sock[s].server = FALSE]
    IN  IF st.sock[s].server
        THEN EmitCloseIfDrained([shut EXCEPT !.server.count = @ - 1])
        ELSE shut

\* Mutant: destroy() before 'finish' is forgotten
DestroyNow_Forgets(st, s) ==
    IF st.sock[s].ended /\ st.sock[s].handle
    THEN [CloseSocket(st, s) EXCEPT !.sock[s].destroyed = TRUE]
    ELSE st

\* destroy, once the socket is not writable
DestroyNow(st, s) ==
    IF st.sock[s].ended /\ st.sock[s].handle
    THEN [CloseSocket(st, s) EXCEPT !.sock[s].destroyed = TRUE]
    ELSE [st EXCEPT !.sock[s].destroyOnFinish = TRUE]

\* maybeDestroy
MaybeDestroy(st, s) ==
    LET k == st.sock[s]
    IN  IF k.connecting \/ k.writable \/ k.readable \/ k.destroyed THEN st
        ELSE DestroyNow(st, s)

\* Socket.prototype.end
SocketEnd(st, s) ==
    LET st1 == [WritableEnd(st, s) EXCEPT !.sock[s].writable = FALSE]
    IN  IF st.sock[s].eof THEN MaybeDestroy(st1, s) ELSE st1

\* Socket.prototype.destroy
SocketDestroy(st, s) ==
    IF st.sock[s].destroyed THEN st
    ELSE DestroyNow(IF st.sock[s].writable THEN SocketEnd(st, s) ELSE st, s)

\* Socket.prototype.destroySoon: _writableState has no field finished
DestroySoon(st, s) ==
    [(IF st.sock[s].writable THEN SocketEnd(st, s) ELSE st)
        EXCEPT !.sock[s].destroyOnFinish = TRUE]

\* onSocketFinish.  A pipe has no shutdown.
OnSocketFinish(st, s) ==
    LET k == st.sock[s]
    IN  IF ~k.readable \/ k.eof \/ ~k.handle \/ k.kind = "pipe"
        THEN SocketDestroy(st, s)
        ELSE [st EXCEPT !.tcp[s] = TcpShutdown(@)]

\* emitFinish: onSocketFinish is the first listener; destroy() may be another
EmitFinish(st, s) ==
    IF st.sock[s].ended THEN st
    ELSE LET st1 == OnSocketFinish([st EXCEPT !.sock[s].ended = TRUE], s)
         IN  IF st.sock[s].destroyOnFinish THEN SocketDestroy(st1, s) ELSE st1

\* writeBuffered
WriteBuffered(st, s) ==
    LET k == st.sock[s]
    IN  IF k.writing THEN st
        ELSE IF k.chunks > 0 THEN DoWrite([st EXCEPT !.sock[s].chunks = @ - 1], s)
        ELSE IF k.ending THEN EmitFinish(st, s)
        ELSE st

\* _readyToWrite
ReadyToWrite(st, s) == WriteBuffered([st EXCEPT !.sock[s].ready = TRUE], s)

\* _onwrite
OnWrite(st, s) == WriteBuffered([st EXCEPT !.sock[s].writing = FALSE], s)

\* emitError, up to the event 'error'.  An ended stream refuses the chunk '' and
\* end() has nothing to add to a stream that is ending.
EmitError(st, s) ==
    LET k == st.sock[s]
        e == [st EXCEPT !.sock[s].errored = TRUE]
        w == IF k.ended THEN e ELSE WriteChunk(e, s)
        n == IF k.ending THEN w
             ELSE [WritableEnd(w, s) EXCEPT !.sock[s].destroyOnFinish = TRUE]
    IN  ReadyToWrite(n, s)

\* onSocketConnect
OnSocketConnect(st, s) ==
    NextTick(ReadyToWrite([st EXCEPT !.sock[s].connecting = FALSE,
                                     !.sock[s].connected = TRUE], s),
             "readStart", s)

-----------------------------------------------------------------------------
(* The script *)

AtScript == ctl # << >> /\ ~crashed

Call ==
    /\ AtScript
    /\ calls < MaxCalls
    /\ calls' = calls + 1
    /\ UNCHANGED <<ctl, input, closeEvents, serverClosed>>

\* GetAddrInfo: the request lives until the answer; when uv_getaddrinfo fails it is
\* destroyed, and dns.lookup does not look at the result
GetAddrInfo(st, s, started) == [st EXCEPT !.sock[s].lookup = started]

\* net.connect
Connect(s, half, asked) ==
    /\ Call
    /\ sock[s].kind = "none"
    /\ Becomes(GetAddrInfo(
          [Now EXCEPT !.sock[s].kind = "client", !.sock[s].half = half,
                      !.sock[s].handle = TRUE, !.sock[s].connecting = TRUE,
                      !.tcp[s] = TcpCreate], s, asked))
    /\ UNCHANGED <<doomed, late, reused, hasty>>

\* new Socket over a Pipe: initSocketHandle
OpenPipe(s) ==
    /\ Call
    /\ sock[s].kind = "none"
    /\ Becomes([Now EXCEPT !.sock[s].kind = "pipe", !.sock[s].handle = TRUE,
                           !.tcp[s] = ReadStart(PipeOpen)])
    /\ UNCHANGED <<doomed, late, reused, hasty>>

\* Socket.prototype.write: after the end it only emits 'error'
Write(s) ==
    /\ Call
    /\ sock[s].kind \in {"client", "accepted", "pipe"}
    /\ Becomes(IF sock[s].ended THEN Now ELSE WriteChunk(Now, s))
    /\ late' = (late \/ (sock[s].ending /\ ~sock[s].ended))
    /\ UNCHANGED <<doomed, reused, hasty>>

End(s) ==
    /\ Call
    /\ sock[s].kind \in {"client", "accepted", "pipe"}
    /\ Becomes(SocketEnd(Now, s))
    /\ UNCHANGED <<doomed, late, reused, hasty>>

\* A tick is queued that will use the handle, or will be after this event
AboutToStart(s) ==
    \/ Head(ctl) = [then |-> "lookup", s |-> s]
    \/ \E i \in DOMAIN ticks : ticks[i].s = s /\ ticks[i].name \in {"connect", "readStart"}

Destroy(s) ==
    /\ Call
    /\ sock[s].kind \in {"client", "accepted", "pipe"}
    /\ Becomes(SocketDestroy(Now, s))
    /\ hasty' = (hasty \/ AboutToStart(s))
    /\ doomed' = doomed \cup {s}
    /\ UNCHANGED <<late, reused>>

\* Server.prototype.listen, with the results of bind and listen.  When one of them
\* fails the handle is closed, and kept.
Listen(ok) ==
    /\ Call
    /\ reused' = (reused \/ server.t.uv # "none" \/ "serverClose" \in QueuedTicks)
    /\ UNCHANGED <<doomed, late, hasty>>
    /\ LET t == IF server.handle THEN server.t ELSE TcpCreate
       IN  IF t.uv = "closed"
           THEN Becomes([Now EXCEPT !.crashed = TRUE])   \* the uv handle is NULL
           ELSE IF t.uv = "closing" \/ t.listening \/ ~ok
           THEN Becomes([Now EXCEPT !.server.handle = TRUE, !.server.t = TcpClose(t)])
           ELSE Becomes(NextTick([Now EXCEPT !.server.handle = TRUE,
                                             !.server.t = TcpListen(t)],
                                 "listening", Server))

\* Server.prototype.close
ServerClose ==
    /\ Call
    /\ Becomes(EmitCloseIfDrained(
          [Now EXCEPT !.server.handle = FALSE, !.server.t = TcpClose(@)]))
    /\ UNCHANGED <<doomed, late, reused, hasty>>

\* process.nextTick of the script
Defer ==
    /\ Call
    /\ Becomes(NextTick(Now, "script", Server))
    /\ UNCHANGED <<doomed, late, reused, hasty>>

-----------------------------------------------------------------------------
(* What follows an event *)

Rest == <<calls, input, closeEvents, serverClosed, doomed, late, reused, hasty>>

\* connect's callback of dns.lookup, after 'lookup'
AfterLookup(s) ==
    /\ Head(ctl).then = "lookup"
    /\ Becomes(NextTick(Now, "connect", s))
    /\ ctl' = << >>

AfterLookupFailed(s) ==
    /\ Head(ctl).then = "lookupFailed"
    /\ Becomes(EmitError(Now, s))
    /\ EmitLast

\* onread, after the 'end' of push(null)
AfterEof(s) ==
    /\ Head(ctl).then = "eof"
    /\ Becomes(MaybeDestroy([Now EXCEPT !.sock[s].readable = FALSE], s))
    /\ ctl' = << >>

\* onread, after 'error'
AfterReadError(s) ==
    /\ Head(ctl).then = "readError"
    /\ Becomes(SocketDestroy(Now, s))
    /\ ctl' = << >>

Return ==
    /\ AtScript
    /\ \/ /\ Head(ctl).then = "none"
          /\ ctl' = << >>
          /\ UNCHANGED <<sock, tcp, server, ticks, crashed>>
       \/ AfterLookup(Head(ctl).s)
       \/ AfterLookupFailed(Head(ctl).s)
       \/ AfterEof(Head(ctl).s)
       \/ AfterReadError(Head(ctl).s)
    /\ UNCHANGED Rest

-----------------------------------------------------------------------------
(* Ticks *)

\* The next tick is name, of a socket s
Tick(name, s) ==
    /\ ctl = << >> /\ ~crashed
    /\ ticks # << >>
    /\ Head(ticks) = [name |-> name, s |-> s]

Later == [Now EXCEPT !.ticks = Tail(@)]

\* emitFinish, queued by endWritable
FinishTick(s) ==
    /\ Tick("finish", s)
    /\ Becomes(EmitFinish(Later, s))
    /\ EmitLast
    /\ UNCHANGED Rest

\* connect
ConnectTick(s, ok) ==
    /\ Tick("connect", s)
    /\ IF ~sock[s].handle
       THEN Becomes([Later EXCEPT !.crashed = TRUE]) /\ UNCHANGED ctl
       ELSE LET st == [Later EXCEPT !.tcp[s] = TcpConnect(@, ok)]
            IN  IF ok THEN Becomes(st) /\ UNCHANGED ctl
                      ELSE Becomes(EmitError(st, s)) /\ EmitLast
    /\ UNCHANGED Rest

\* The tick of onSocketConnect
ReadStartTick(s) ==
    /\ Tick("readStart", s)
    /\ Becomes(IF sock[s].handle THEN [Later EXCEPT !.tcp[s] = ReadStart(@)]
                                 ELSE [Later EXCEPT !.crashed = TRUE])
    /\ UNCHANGED <<ctl, Rest>>

\* afterWrite and the callback of a write to an errored socket
AfterWriteTick(s) ==
    /\ Tick("afterWrite", s)
    /\ Becomes(OnWrite(Later, s))
    /\ EmitLast
    /\ UNCHANGED Rest

\* 'listening' and the script's own ticks
ScriptTick ==
    /\ Tick("script", Server) \/ (Tick("listening", Server) /\ server.handle)
    /\ Becomes(Later)
    /\ EmitLast
    /\ UNCHANGED Rest

\* The server was closed before its 'listening'
NotListeningTick ==
    /\ Tick("listening", Server)
    /\ ~server.handle
    /\ Becomes(Later)
    /\ UNCHANGED <<ctl, Rest>>

\* 'close' of the server
ServerCloseTick ==
    /\ Tick("serverClose", Server)
    /\ Becomes(Later)
    /\ EmitLast
    /\ serverClosed' = serverClosed + 1
    /\ UNCHANGED <<calls, input, closeEvents, doomed, late, reused, hasty>>

-----------------------------------------------------------------------------
(* Callbacks of uv *)

Idle == ctl = << >> /\ ticks = << >> /\ ~crashed

\* Any other callback of the script
ScriptRuns ==
    /\ Idle
    /\ calls < MaxCalls
    /\ EmitLast
    /\ UNCHANGED <<sock, tcp, server, ticks, crashed, Rest>>

\* Mutant: state.destroyed is not checked
AfterGetAddrInfo_NotChecked(s, ok) ==
    /\ Idle
    /\ sock[s].lookup
    /\ Becomes([Now EXCEPT !.sock[s].lookup = FALSE])
    /\ Emit(IF ok THEN "lookup" ELSE "lookupFailed", s)
    /\ UNCHANGED Rest

\* AfterGetAddrInfo and the callback of connect
AfterGetAddrInfo(s, ok) ==
    /\ Idle
    /\ sock[s].lookup
    /\ Becomes([Now EXCEPT !.sock[s].lookup = FALSE])
    /\ IF sock[s].destroyed THEN UNCHANGED ctl
       ELSE Emit(IF ok THEN "lookup" ELSE "lookupFailed", s)
    /\ UNCHANGED Rest

\* AfterConnect and afterConnect; a handle that is closing cancels the request
AfterConnect(s, ok) ==
    /\ Idle
    /\ "connect" \in tcp[s].reqs
    /\ ok => tcp[s].uv = "open"
    /\ LET st == [Now EXCEPT !.tcp[s] = [ConnectReqDispatched(@) EXCEPT
                                              !.conn = IF ok THEN "up" ELSE "no"],
                             !.sock[s].connecting = FALSE]
       IN  IF sock[s].destroyed THEN Becomes(st) /\ UNCHANGED ctl
           ELSE /\ Becomes(IF ok THEN OnSocketConnect(st, s)
                                 ELSE EmitError(SocketDestroy(st, s), s))
                /\ EmitLast
    /\ UNCHANGED Rest

\* AfterWrite and iotjs_pipe_after_write: _onwrite does not look at the status
AfterWrite(s) ==
    /\ Idle
    /\ "write" \in tcp[s].reqs
    /\ Becomes(OnWrite([Now EXCEPT !.tcp[s] = WriteReqDispatched(@)], s))
    /\ EmitLast
    /\ UNCHANGED Rest

\* AfterShutdown, once the writes are done
AfterShutdown(s) ==
    /\ Idle
    /\ "shutdown" \in tcp[s].reqs
    /\ "write" \notin tcp[s].reqs
    /\ LET st == [Now EXCEPT !.tcp[s] = ShutdownReqDispatched(@)]
       IN  Becomes(IF sock[s].eof THEN SocketDestroy(st, s) ELSE st)
    /\ UNCHANGED <<ctl, Rest>>

\* OnRead and iotjs_pipe_onread with data: push
OnReadData(s) ==
    /\ Idle
    /\ tcp[s].reading
    /\ ~sock[s].eof
    /\ input < MaxInput
    /\ input' = input + 1
    /\ Becomes(Now)
    /\ EmitLast
    /\ UNCHANGED <<calls, closeEvents, serverClosed, doomed, late, reused, hasty>>

\* OnRead and iotjs_pipe_onread at the end: push(null) emits 'end', which
\* onSocketEnd hears first
OnReadEof(s) ==
    /\ Idle
    /\ tcp[s].reading
    /\ ~sock[s].eof
    /\ LET st1 == [Now EXCEPT !.sock[s].eof = TRUE]
           st2 == MaybeDestroy(st1, s)
       IN  Becomes(IF sock[s].half THEN st2 ELSE DestroySoon(st2, s))
    /\ Emit("eof", s)
    /\ UNCHANGED Rest

\* OnRead and iotjs_pipe_onread with an error
OnReadError(s) ==
    /\ Idle
    /\ tcp[s].reading
    /\ input < MaxInput
    /\ input' = input + 1
    /\ Becomes(Now)
    /\ Emit("readError", s)
    /\ UNCHANGED <<calls, closeEvents, serverClosed, doomed, late, reused, hasty>>

\* AfterClose and iotjs_pipewrap_after_close, after the callbacks of the requests
AfterClose(s) ==
    /\ Idle
    /\ tcp[s].uv = "closing"
    /\ tcp[s].reqs = {}
    /\ Becomes([Now EXCEPT !.tcp[s].uv = "closed"])
    /\ EmitLast
    /\ closeEvents' = [closeEvents EXCEPT ![s] = @ + 1]
    /\ UNCHANGED <<calls, input, serverClosed, doomed, late, reused, hasty>>

\* AfterClose of the server's handle, which has no onclose
AfterServerClose ==
    /\ Idle
    /\ server.t.uv = "closing"
    /\ Becomes([Now EXCEPT !.server.t.uv = "closed"])
    /\ UNCHANGED <<ctl, Rest>>

\* OnConnection and onconnection.  When uv_accept fails the new handle is lost.
OnConnection(s, accepted, half) ==
    /\ Idle
    /\ server.t.listening
    /\ sock[s].kind = "none"
    /\ IF accepted
       THEN /\ LET st == [Now EXCEPT !.sock[s].kind = "accepted", !.sock[s].half = half,
                                     !.sock[s].handle = TRUE, !.sock[s].server = TRUE,
                                     !.tcp[s] = ReadStart([TcpCreate EXCEPT !.conn = "up"])]
               IN  Becomes([OnSocketConnect(st, s) EXCEPT !.server.count = @ + 1])
            /\ EmitLast
       ELSE /\ Becomes([Now EXCEPT !.sock[s].kind = "lost", !.tcp[s] = TcpCreate])
            /\ UNCHANGED ctl
    /\ UNCHANGED Rest

\* OnConnection with an error
OnConnectionError ==
    /\ Idle
    /\ server.t.listening
    /\ input < MaxInput
    /\ input' = input + 1
    /\ EmitLast
    /\ UNCHANGED <<sock, tcp, server, ticks, crashed, calls, closeEvents, serverClosed,
                   doomed, late, reused, hasty>>

-----------------------------------------------------------------------------

ScriptCall ==
    \/ \E s \in Sockets :
          \/ \E half \in BOOLEAN, asked \in BOOLEAN : Connect(s, half, asked)
          \/ OpenPipe(s)
          \/ Write(s)
          \/ End(s)
          \/ Destroy(s)
    \/ \E ok \in BOOLEAN : Listen(ok)
    \/ ServerClose
    \/ Defer

TickRuns ==
    \/ \E s \in Sockets :
          \/ FinishTick(s)
          \/ \E ok \in BOOLEAN : ConnectTick(s, ok)
          \/ ReadStartTick(s)
          \/ AfterWriteTick(s)
    \/ ScriptTick
    \/ NotListeningTick
    \/ ServerCloseTick

\* Answers to what was asked of uv
Completion(s) ==
    \/ \E ok \in BOOLEAN : AfterGetAddrInfo(s, ok)
    \/ \E ok \in BOOLEAN : AfterConnect(s, ok)
    \/ AfterWrite(s)
    \/ AfterShutdown(s)
    \/ AfterClose(s)

NetNext ==
    \/ ScriptCall
    \/ Return
    \/ TickRuns
    \/ ScriptRuns
    \/ \E s \in Sockets :
          \/ Completion(s)
          \/ OnReadData(s)
          \/ OnReadEof(s)
          \/ OnReadError(s)
          \/ \E accepted \in BOOLEAN, half \in BOOLEAN : OnConnection(s, accepted, half)
    \/ OnConnectionError
    \/ AfterServerClose

NetSpec == NetInit /\ [][NetNext]_netVars

-----------------------------------------------------------------------------
(* Properties *)

IsSocket(s) == sock[s].kind \in {"client", "accepted", "pipe"}

\* The script's own mistakes: write() after end(), listen() twice, and destroy()
\* between the answer of the lookup and the ticks that connect and read
Orderly == ~late /\ ~reused /\ ~hasty

\* No function of net.js uses the handle of a socket that was closed, and nothing
\* is called on a handle that uv has closed, though ticks, requests and lookups
\* outlive the call that asked for them.  A socket lets go of its handle exactly
\* when it closes it, no request outlives its handle, and _socketCount is the
\* number of accepted sockets not yet closed.
HandlesAccountedFor ==
    /\ Orderly => ~crashed
    /\ \A s \in Sockets :
          /\ IsSocket(s) => (sock[s].handle <=> tcp[s].uv = "open")
          /\ tcp[s].uv = "closed" => tcp[s].reqs = {} /\ closeEvents[s] = 1
    /\ server.count =
          Cardinality({s \in Sockets : sock[s].kind = "accepted" /\ sock[s].handle})

\* The server's 'close' comes after all its connections are closed
\* (docs/api/Net.md), unless it listens again.
ServerCloseIsLast ==
    [][serverClosed' > serverClosed /\ ~reused
          => ~server.handle /\ \A s \in Sockets : sock[s].kind = "accepted" => ~sock[s].handle]_netVars

\* uv has nothing left to call for s
Settled(s) == Idle /\ ~sock[s].lookup /\ tcp[s].reqs = {} /\ tcp[s].uv # "closing"

\* Chunks wait for a stream that nobody will make ready: the lookup did not
\* start, or the socket is a pipe, for which nobody calls _readyToWrite
NeverReady(s) == ~sock[s].ready /\ sock[s].chunks > 0

\* A destroy() that had to wait for 'finish', from the script, from an error or
\* from the end of the input, is not forgotten: once everything that was asked
\* of uv has been answered, the socket is closed.
DestroyIsDone ==
    \A s \in Sockets :
        IsSocket(s) /\ Settled(s) /\ (s \in doomed \/ sock[s].destroyOnFinish)
            => tcp[s].uv = "closed" \/ NeverReady(s)
=============================================================================
