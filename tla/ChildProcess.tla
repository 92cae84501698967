----------------------------- MODULE ChildProcess -----------------------------
(***************************************************************************)
(* A child process: src/src/js/child_process.js over                       *)
(* src/src/modules/iotjs_module_child_process.c and, for the channel, over *)
(* src/src/modules/iotjs_module_pipe.c.  The child is made by execFile,    *)
(* which collects its output and answers once, or by fork, which talks to  *)
(* it over a channel.  A message on the channel is HeaderUnits units and   *)
(* then its payload; a read brings any number of units.  Callbacks queued  *)
(* with process.nextTick (ticks) run before the next event.                *)
(***************************************************************************)
EXTENDS Integers, Sequences, FiniteSets, SequencesExt

CONSTANTS MaxBuffer,    \* maxBuffer of execFile, in chunks
          MaxOutput,    \* bound: chunks that the child writes
          MaxIpc,       \* bound: messages that the child sends
          MaxChildCalls \* bound: calls of the script

ASSUME ChildAssumption == /\ MaxBuffer \in Nat /\ MaxOutput \in Nat
                          /\ MaxIpc \in Nat /\ MaxChildCalls \in Nat

VARIABLE cp

Outputs == {"stdout", "stderr"}
HeaderUnits == 2

\* The payload of message m: every other one is empty
DataSize(m) == m % 2

\* stdioStringToArray, and the stdio that execFile leaves to its default
Stdio == [exec |-> <<"pipe", "pipe", "pipe">>,
          fork |-> <<"fd", "fd", "fd", "ipc">>]

\* iotjs_processwrap_parse_stdio_opts: the entries for which uv makes a pipe
PipedStdio(kind) == {i \in DOMAIN Stdio[kind] : Stdio[kind][i] \in {"pipe", "ipc"}}

\* uv_spawn starts the program or fails; ProcessSpawn returns 0 either way
ProcessSpawn == {"running", "failed"}

\* ChildProcess, and the part of spawn that counts the streams to close
NewChild(kind, proc) ==
    [kind      |-> kind,
     proc      |-> proc,         \* running, failed, dead (not reported yet), reaped
     status    |-> "none",       \* how it ended: zero, other, signal, negative
     signalled |-> FALSE,
     handle    |-> TRUE,         \* _handle
     uv        |-> "open",       \* the native process handle
     needed    |-> 1 + Cardinality({i \in PipedStdio(kind) : i > 1}),   \* _closesNeeded
     got       |-> 0,            \* _closesGot
     exits     |-> 0,            \* 'exit' emitted
     closes    |-> 0,            \* 'close' emitted
     errors    |-> 0,            \* 'error' emitted
     calls     |-> 0,
     \* execFile
     wrote     |-> [o \in Outputs |-> 0],
     read      |-> [o \in Outputs |-> 0],
     pipe      |-> [o \in Outputs |-> IF kind = "exec" THEN "open" ELSE "none"],
     text      |-> [o \in Outputs |-> << >>],    \* _stdout, _stderr
     unread    |-> FALSE,        \* history: the exit was reported before all output was read
     over      |-> FALSE,        \* history: maxBuffer was exceeded before the answer
     ex        |-> FALSE,
     killed    |-> FALSE,
     timer     |-> FALSE,        \* timeoutId names a live timer
     exited    |-> FALSE,
     answers   |-> << >>,        \* the calls of the callback
     \* fork
     connected |-> kind = "fork",
     channel   |-> kind = "fork",       \* target.channel is not null
     chan      |-> IF kind = "fork" THEN "open" ELSE "none",    \* the native pipe
     onread    |-> kind = "fork",
     wire      |-> << >>,        \* units on their way from the child
     sent      |-> 0,
     eof       |-> FALSE,        \* the child's end of the channel is closed
     pending   |-> << >>,        \* pendingBuffer
     buffering |-> FALSE,
     waiting   |-> FALSE,        \* once('message', finish)
     ticks     |-> << >>,
     messages  |-> << >>,        \* 'message' emitted
     parts     |-> 0,            \* 'disconnect' emitted
     asked     |-> FALSE,        \* history: the script called disconnect()
     refused   |-> 0,            \* history: it did so when already disconnected
     failed    |-> 0,            \* history: kill() that uv refused
     unsent    |-> 0,            \* history: send() without a channel and a callback
     cut       |-> FALSE,        \* history: disconnect() inside a message
     misused   |-> FALSE]        \* a write on a channel that was closed

ChildInit == cp = [NewChild("exec", "running") EXCEPT !.kind = "none", !.proc = "none"]

\* The loop calls nobody while ticks wait
Turn == cp.ticks = << >>

\* execFile and exec
ExecFile ==
    /\ cp.kind = "none"
    /\ \E proc \in ProcessSpawn, timeout \in BOOLEAN :
          cp' = [NewChild("exec", proc) EXCEPT !.timer = timeout]

\* fork, with setupChannel
Fork ==
    /\ cp.kind = "none"
    /\ \E proc \in ProcessSpawn : cp' = [NewChild("fork", proc) EXCEPT !.eof = proc = "failed"]

-----------------------------------------------------------------------------
(* execFile *)


\* exithandler: the first call clears the timer and answers
ExitHandler(c, clean) ==
    IF c.exited THEN c
    ELSE [c EXCEPT !.exited = TRUE, !.timer = FALSE,
                   !.answers = Append(@, [ok |-> ~c.ex /\ clean, text |-> c.text])]

\* destroy() of child.stdout and child.stderr
DestroyOutputs(c) ==
    [c EXCEPT !.pipe = [o \in Outputs |-> IF c.pipe[o] = "open" THEN "closing" ELSE c.pipe[o]]]

\* errorhandler, the listener of 'error'; a script that forks listens too
ExecErrorHandler(c) == ExitHandler(DestroyOutputs([c EXCEPT !.ex = TRUE]), FALSE)
EmitError(c) ==
    LET e == [c EXCEPT !.errors = @ + 1]
    IN  IF c.kind = "exec" THEN ExecErrorHandler(e) ELSE e

\* ProcessKill: what uv_process_kill says; no such process is no error
KillResults(c) == IF c.proc = "running" THEN BOOLEAN ELSE {TRUE}

\* kill
ChildKill(c, delivered) ==
    IF ~c.handle THEN c
    ELSE IF delivered THEN [c EXCEPT !.killed = TRUE, !.signalled = TRUE]
    ELSE EmitError([c EXCEPT !.failed = @ + 1])

\* kill inside execFile
KillExec(c, delivered) == ChildKill([DestroyOutputs(c) EXCEPT !.killed = TRUE], delivered)

\* delayedKill
DelayedKill ==
    /\ Turn /\ cp.timer
    /\ \E d \in KillResults(cp) : cp' = [KillExec(cp, d) EXCEPT !.timer = FALSE]

\* The listener of 'data' of child.stdout and child.stderr
OnChildOutput(o) ==
    /\ Turn /\ cp.kind = "exec"
    /\ cp.pipe[o] = "open" /\ cp.read[o] < cp.wrote[o]
    /\ LET c == [cp EXCEPT !.read[o] = @ + 1]
       IN  IF c.read[o] > MaxBuffer
           THEN \E d \in KillResults(c) :
                   cp' = KillExec([c EXCEPT !.ex = TRUE, !.over = @ \/ ~c.exited], d)
           ELSE cp' = [c EXCEPT !.text[o] = Append(@, c.read[o])]

\* The end of an output: onread pushes null and 'end' closes the socket
OnChildEof(o) ==
    /\ Turn /\ cp.kind = "exec" /\ cp.proc # "running"
    /\ cp.pipe[o] = "open" /\ cp.read[o] = cp.wrote[o]
    /\ cp' = [cp EXCEPT !.pipe[o] = "closing"]

\* maybeClose
MaybeClose(c) ==
    LET g == c.got + 1
    IN  [c EXCEPT !.got = g, !.closes = IF g = c.needed THEN @ + 1 ELSE @]

\* 'close' of an output
OnOutputClose(o) ==
    /\ Turn /\ cp.pipe[o] = "closing"
    /\ cp' = MaybeClose([cp EXCEPT !.pipe[o] = "closed"])

-----------------------------------------------------------------------------
(* The process *)

\* external: what the child does
ChildWrites(o) ==
    /\ Turn /\ cp.kind = "exec" /\ cp.proc = "running" /\ cp.wrote[o] < MaxOutput
    /\ cp' = [cp EXCEPT !.wrote[o] = @ + 1]
IpcFrame(m) == [i \in 1 .. HeaderUnits + DataSize(m) |-> <<m, i>>]
ChildSends ==
    /\ Turn /\ cp.kind = "fork" /\ cp.proc = "running" /\ ~cp.eof /\ cp.sent < MaxIpc
    /\ cp' = [cp EXCEPT !.sent = @ + 1, !.wire = @ \o IpcFrame(cp.sent + 1)]
ChildDisconnects ==
    /\ Turn /\ cp.kind = "fork" /\ cp.proc = "running" /\ ~cp.eof
    /\ cp' = [cp EXCEPT !.eof = TRUE]
ChildExits ==
    /\ Turn /\ cp.proc = "running"
    /\ \E s \in {"zero", "other"} \cup (IF cp.signalled THEN {"signal"} ELSE {}) :
          cp' = [cp EXCEPT !.proc = "dead", !.status = s, !.eof = TRUE]

\* ProcessClose
ProcessClose(c) == [c EXCEPT !.uv = IF @ = "open" THEN "closing" ELSE @]

\* _handle.onexit: an exit code below zero is an error and no exit; 'close' follows at
\* once, for maybeClose never gets to _closesNeeded.  Only onErrorNT hands over such a
\* code, and ProcessSpawn returns 0 whatever uv_spawn says.
HandleOnExit(c) ==
    LET h == [ProcessClose(c) EXCEPT !.handle = FALSE]
        e == IF h.status = "negative" THEN EmitError(h) ELSE [h EXCEPT !.exits = @ + 1]
        d == [e EXCEPT !.closes = @ + 1]
    IN  IF d.kind = "exec" THEN ExitHandler(d, d.status = "zero") ELSE d

\* iotjs_processwrap_onexit
OnExit ==
    /\ Turn /\ cp.proc = "dead"
    /\ cp' = HandleOnExit([cp EXCEPT !.proc = "reaped",
                                     !.unread = \E o \in Outputs : cp.read[o] < cp.wrote[o]])

\* iotjs_processwrap_after_close: nobody sets onclose
AfterProcessClose ==
    /\ Turn /\ cp.uv = "closing"
    /\ cp' = [cp EXCEPT !.uv = "closed"]

\* kill, as a call of the script
Kill ==
    /\ cp.kind # "none" /\ cp.calls < MaxChildCalls
    /\ \E d \in KillResults(cp) : cp' = ChildKill([cp EXCEPT !.calls = @ + 1], d)

-----------------------------------------------------------------------------
(* The channel *)

\* The loop of channel.onread: from offset on, the messages that are whole and the
\* offset behind them
Whole(buf) ==
    LET at[off \in 0 .. Len(buf)] ==
            LET m == buf[off + 1][1]
                end == off + HeaderUnits + DataSize(m)
            IN  IF Len(buf) - off < HeaderUnits \/ Len(buf) < end
                THEN [whole |-> << >>, off |-> off]
                ELSE [at[end] EXCEPT !.whole = <<m>> \o @]
    IN  at[0]

\* What follows the last whole message
Rest(buf, off) == SubSeq(buf, off + 1, Len(buf))

\* handleMessage: a message is emitted in a tick of its own
HandleMessages(c, ms) ==
    IF ~c.channel THEN c
    ELSE [c EXCEPT !.ticks = @ \o [i \in DOMAIN ms |-> [emit |-> "message", m |-> ms[i]]]]

\* iotjs_pipe_onread and channel.onread with data
OnChannelData ==
    /\ Turn /\ cp.chan = "open" /\ cp.onread
    /\ \E n \in 1 .. Len(cp.wire) :
          LET buf == cp.pending \o SubSeq(cp.wire, 1, n)
              w   == Whole(buf)
              c   == HandleMessages(cp, w.whole)
          IN  cp' = [c EXCEPT !.wire = SubSeq(@, n + 1, Len(@)),
                              !.pending = Rest(buf, w.off),
                              !.buffering = w.off # Len(buf)]

\* _disconnect
DisconnectNow(c) ==
    IF c.buffering THEN [c EXCEPT !.channel = FALSE, !.waiting = TRUE, !.cut = TRUE]
    ELSE [c EXCEPT !.channel = FALSE,
                   !.ticks = Append(@, [emit |-> "finish", m |-> 0])]

\* disconnect
DisconnectChild(c) ==
    IF ~c.connected THEN EmitError(c)
    ELSE DisconnectNow([c EXCEPT !.connected = FALSE])

\* PipeClose
ChannelClose(c) == [c EXCEPT !.chan = IF @ = "open" THEN "closing" ELSE @]

\* iotjs_pipe_onread and channel.onread with the end of the stream
OnChannelEof ==
    /\ Turn /\ cp.chan = "open" /\ cp.onread /\ cp.eof /\ cp.wire = << >>
    /\ LET c == DisconnectChild([cp EXCEPT !.buffering = FALSE])
       IN  cp' = MaybeClose([ChannelClose(c) EXCEPT !.onread = FALSE, !.channel = FALSE])

\* finish, which fires once
FinishDisconnect(c) == [ChannelClose(c) EXCEPT !.waiting = FALSE, !.parts = @ + 1]

\* A tick: finish, the 'error' of send, or 'message' with the listener that _disconnect left
RunTick ==
    /\ cp.ticks # << >>
    /\ LET t == Head(cp.ticks)
           c == [cp EXCEPT !.ticks = Tail(@)]
       IN  cp' = IF t.emit = "finish" THEN FinishDisconnect(c)
                 ELSE IF t.emit = "error" THEN EmitError(c)
                 ELSE LET d == [c EXCEPT !.messages = Append(@, t.m)]
                      IN  IF d.waiting THEN FinishDisconnect(d) ELSE d

\* disconnect, as a call of the script
Disconnects ==
    /\ cp.kind = "fork" /\ cp.calls < MaxChildCalls
    /\ cp' = DisconnectChild([cp EXCEPT !.calls = @ + 1, !.asked = TRUE,
                                        !.refused = IF cp.connected THEN @ ELSE @ + 1])

\* send, and PipeWrite that it ends in.  Without a channel a tick tells the callback, or
\* emits 'error' when there is none.
SendMessage ==
    /\ cp.kind = "fork" /\ cp.calls < MaxChildCalls
    /\ \E callback \in BOOLEAN :
          LET c == [cp EXCEPT !.calls = @ + 1]
          IN  cp' = IF cp.connected THEN [c EXCEPT !.misused = @ \/ cp.chan # "open"]
                    ELSE IF callback THEN c
                    ELSE [c EXCEPT !.ticks = Append(@, [emit |-> "error", m |-> 0]),
                                   !.unsent = @ + 1]

\* iotjs_pipewrap_after_close
AfterChannelClose ==
    /\ Turn /\ cp.chan = "closing"
    /\ cp' = [cp EXCEPT !.chan = "closed"]

ChildNext ==
    \/ ExecFile \/ Fork
    \/ DelayedKill \/ Kill \/ OnExit \/ AfterProcessClose
    \/ \E o \in Outputs : OnChildOutput(o) \/ OnChildEof(o) \/ OnOutputClose(o) \/ ChildWrites(o)
    \/ ChildSends \/ ChildDisconnects \/ ChildExits
    \/ OnChannelData \/ OnChannelEof \/ RunTick \/ Disconnects \/ SendMessage \/ AfterChannelClose

-----------------------------------------------------------------------------
(* Properties *)

UpTo(n) == [i \in 1 .. n |-> i]

\* execFile answers at most once, and once the child has exited exactly once and
\* with its timer cleared, whatever the order of the timeout, the output, a kill()
\* that fails and the exit.  It hands over the first chunks of each output, never
\* more than maxBuffer, no success when there were more, and with a success the whole of
\* both outputs when they had been read by the exit.  Output that is still in the pipe
\* at the exit is not promised: the code answers at once, without it and with success,
\* where the documentation says that the answer contains the output of the child.
AnswersOnce ==
    /\ Len(cp.answers) <= 1
    /\ cp.proc = "reaped" => Len(cp.answers) = 1
    /\ cp.answers # << >> =>
          /\ ~cp.timer
          /\ cp.over => ~cp.answers[1].ok
          /\ \A o \in Outputs :
                /\ IsPrefix(cp.answers[1].text[o], UpTo(cp.wrote[o]))
                /\ Len(cp.answers[1].text[o]) <= MaxBuffer
                /\ cp.answers[1].ok /\ ~cp.unread => cp.answers[1].text[o] = UpTo(cp.wrote[o])

\* Messages of the child are emitted once, whole and in its order, however the pipe
\* cuts them; every whole message that came before the end is emitted; the channel
\* is closed and 'disconnect' emitted once, whichever side disconnects; and 'error'
\* tells, once each, of a disconnect() that the script repeats, of a kill() that fails
\* and of a send() without a callback and a channel, and of nothing else.  (disconnect()
\* while half a message has been read is excluded: 'disconnect' is then not emitted.)
ChannelInOrder ==
    ~cp.cut =>
        /\ IsPrefix(cp.messages, UpTo(cp.sent))
        /\ ~cp.misused
        /\ cp.parts <= 1
        /\ (Turn /\ ~cp.connected) => cp.parts = 1 /\ cp.chan # "open"
        /\ (Turn /\ ~cp.onread /\ ~cp.asked) => cp.messages = UpTo(cp.sent)
        /\ cp.errors + Len(SelectSeq(cp.ticks, LAMBDA t : t.emit = "error"))
             = cp.refused + cp.failed + cp.unsent

=============================================================================
