------------------------------ MODULE EventLoop ------------------------------
(***************************************************************************)
(* The event loop of the runtime: iotjs_start (src/src/iotjs.c), the calls *)
(* into JavaScript (iotjs_binding_helper.c), process.nextTick              *)
(* (js/internal/process/next_tick.js), setImmediate, process.exit and the  *)
(* uncaught exception handler (js/iotjs.js).                               *)
(*                                                                         *)
(* What JavaScript does inside a callback is left open: it may queue ticks *)
(* and immediates, start handles, call a native function that calls back   *)
(* at once, exit, return or throw.                                         *)
(***************************************************************************)
EXTENDS Naturals, Sequences, SequencesExt

CONSTANTS
    Handles,        \* uv handles and requests that keep the loop alive
    Codes,          \* exit codes a script uses
    Throwers,       \* kinds of callback that may throw
    Handlers,       \* listeners of 'uncaughtException': none, one that
                    \* returns, or one that throws
    MaxTicks,       \* bound: calls of process.nextTick
    MaxImmediates,  \* bound: calls of setImmediate
    MaxSync         \* bound: synchronous callbacks

JSFrames == {"main", "io", "raw", "sync", "tick", "immediate", "exit", "exitCall"}
NativeFrames == {"drain", "check"}

ASSUME ConstantsAssumption ==
    /\ Codes \subseteq Nat
    /\ Throwers \subseteq JSFrames
    /\ Handlers \subseteq {"none", "returns", "throws"}
    /\ MaxTicks \in Nat /\ MaxImmediates \in Nat /\ MaxSync \in Nat

VARIABLES
    phase,           \* where iotjs_start is
    polled,          \* uv_run has dispatched an event in this turn
    stack,           \* who called whom: the last frame is running
    nextTickQueue,
    tickPos,         \* i of the _onNextTick in progress, counted from 1
    immediateQueue,
    callbacks,       \* what _onUVCheck has left of its list
    checkActive,     \* the check and idle handles are started
    active,          \* handles that are started
    used,            \* handles that were ever started
    exitCode,        \* process.exitCode
    exiting,         \* process._exiting
    handler,         \* the listener of 'uncaughtException'
    exitEvents,      \* number of 'exit' events emitted
    ticks, ranTicks, \* history: ticks queued (a number) and run (in order)
    immediates, ranImmediates,
    syncs            \* number of synchronous callbacks made

vars == <<phase, polled, stack, nextTickQueue, tickPos, immediateQueue, callbacks,
          checkActive, active, used, exitCode, exiting, handler, exitEvents,
          ticks, ranTicks, immediates, ranImmediates, syncs>>

tickVars == <<nextTickQueue, tickPos, ticks, ranTicks>>
immediateVars == <<immediateQueue, callbacks, checkActive, immediates, ranImmediates>>
handleVars == <<active, used, polled>>
exitVars == <<exitCode, exiting, exitEvents>>

\* iotjs_run has begun to evaluate the main script
Init ==
    /\ phase = "main"
    /\ polled = FALSE
    /\ stack = <<"main">>
    /\ nextTickQueue = << >> /\ tickPos = 0
    /\ immediateQueue = << >> /\ callbacks = << >> /\ checkActive = FALSE
    /\ active = {} /\ used = {}
    /\ exitCode = 0 /\ exiting = FALSE /\ exitEvents = 0
    /\ handler \in Handlers
    /\ ticks = 0 /\ ranTicks = << >>
    /\ immediates = 0 /\ ranImmediates = << >>
    /\ syncs = 0

Running == IF stack = << >> THEN "none" ELSE Last(stack)
InJS    == Running \in JSFrames
Pop     == Front(stack)

-----------------------------------------------------------------------------
(* What a callback does *)

\* process.nextTick
NextTick ==
    /\ InJS
    /\ ticks < MaxTicks
    /\ ticks' = ticks + 1
    /\ nextTickQueue' = Append(nextTickQueue, ticks + 1)
    /\ UNCHANGED <<phase, stack, tickPos, ranTicks, immediateVars, handleVars,
                   exitVars, handler, syncs>>

\* process._startUVCheck and process._stopUVCheck: the check and idle handles
StartUVCheck == checkActive' = TRUE
StopUVCheck  == checkActive' = FALSE

\* Mutant: the check handle is not started
SetImmediate_NoStart ==
    /\ InJS
    /\ immediates < MaxImmediates
    /\ immediates' = immediates + 1
    /\ immediateQueue' = Append(immediateQueue, immediates + 1)
    /\ UNCHANGED <<phase, stack, tickVars, checkActive, callbacks, ranImmediates,
                   handleVars, exitVars, handler, syncs>>

\* setImmediate
SetImmediate ==
    /\ InJS
    /\ immediates < MaxImmediates
    /\ immediates' = immediates + 1
    /\ IF immediateQueue = << >> THEN StartUVCheck ELSE UNCHANGED checkActive
    /\ immediateQueue' = Append(immediateQueue, immediates + 1)
    /\ UNCHANGED <<phase, stack, tickVars, callbacks, ranImmediates, handleVars,
                   exitVars, handler, syncs>>

\* A timer, socket or request is started
StartHandle(h) ==
    /\ InJS
    /\ h \notin used
    /\ active' = active \cup {h}
    /\ used' = used \cup {h}
    /\ UNCHANGED <<phase, polled, stack, tickVars, immediateVars, exitVars, handler, syncs>>

\* ... and stopped before its event
StopHandle(h) ==
    /\ InJS
    /\ h \in active
    /\ active' = active \ {h}
    /\ UNCHANGED <<phase, polled, used, stack, tickVars, immediateVars, exitVars,
                   handler, syncs>>

\* process.exitCode = code
SetExitCode(code) ==
    /\ InJS
    /\ exitCode # code
    /\ exitCode' = code
    /\ UNCHANGED <<phase, stack, tickVars, immediateVars, handleVars, exiting,
                   exitEvents, handler, syncs>>

\* The process ends: process.doExit, or after the natural end iotjs_start returns
DoExit == phase' = "dead" /\ stack' = << >>

\* Mutant: process._exiting is not looked at
ExitWith_Again(code) ==
    /\ exiting' = TRUE
    /\ exitCode' = code
    /\ exitEvents' = exitEvents + 1
    /\ stack' = Append(stack, "exitCall")
    /\ UNCHANGED phase

\* process.exit: emitExit calls the listeners unless they were called already,
\* then doExit ends the process
ExitWith(code) ==
    IF exiting
    THEN /\ DoExit
         /\ UNCHANGED exitVars
    ELSE /\ exiting' = TRUE
         /\ exitCode' = code
         /\ exitEvents' = exitEvents + 1
         /\ stack' = Append(stack, "exitCall")
         /\ UNCHANGED phase

\* process.exit with and without an argument
Exit(code) ==
    /\ InJS
    /\ ExitWith(code)
    /\ UNCHANGED <<tickVars, immediateVars, handleVars, handler, syncs>>

\* A native function that calls back before it returns: napi_make_callback, the
\* callbacks of the HTTP parser and of the TLS wrapper
CallSync ==
    /\ InJS
    /\ syncs < MaxSync
    /\ syncs' = syncs + 1
    /\ stack' = Append(stack, "sync")
    /\ UNCHANGED <<phase, tickVars, immediateVars, handleVars, exitVars, handler>>

-----------------------------------------------------------------------------
(* How a callback ends *)

\* The frame that follows a callback: iotjs_process_next_tick.  An _onNextTick
\* inside another meets the hole at index 0 that the outer one deleted, throws
\* a TypeError that iotjs_jhelper_call_ok ignores (a debug build asserts), and
\* runs nothing.
ThenNextTick(rest) ==
    IF Contains(rest, "drain") THEN rest ELSE Append(rest, "drain")

Return ==
    /\ InJS
    /\ \/ /\ Running \in {"main", "io", "sync"}   \* runMain, iotjs_make_callback
          /\ stack' = ThenNextTick(Pop)
          /\ UNCHANGED phase
       \/ /\ Running \in {"tick", "immediate"}
          /\ stack' = Pop
          /\ UNCHANGED phase
       \/ /\ Running = "raw"                      \* tsfn_async_callback
          /\ stack' = Pop
          /\ UNCHANGED phase
       \/ /\ Running \in {"exit", "exitCall"}
          /\ DoExit
    /\ UNCHANGED <<tickVars, immediateVars, handleVars, exitVars, handler, syncs>>

\* _onUncaughtException, called from the frame under rest
Uncaught(rest) ==
    \/ /\ handler = "returns"
       /\ stack' = rest
       /\ UNCHANGED <<phase, exitVars>>
    \/ /\ handler # "returns"
       /\ ExitWith(1)

Throw ==
    /\ InJS
    /\ Running \in Throwers
    /\ \/ /\ Running \in {"main", "tick", "immediate", "raw"}
          /\ Uncaught(Pop)
       \/ /\ Running \in {"io", "sync"}           \* iotjs_make_callback
          /\ Uncaught(ThenNextTick(Pop))
       \/ /\ Running = "sync"                     \* napi_make_callback
          /\ stack' = Pop
          /\ UNCHANGED <<phase, exitVars>>
       \/ /\ Running \in {"exit", "exitCall"}     \* the process ends all the same
          /\ exitCode' = IF Running = "exit" THEN 2 ELSE 1
          /\ DoExit
          /\ UNCHANGED <<exiting, exitEvents>>
    /\ UNCHANGED <<tickVars, immediateVars, handleVars, handler, syncs>>

-----------------------------------------------------------------------------
(* The queues *)

\* One iteration of _onNextTick, or its end
DrainTicks ==
    /\ Running = "drain"
    /\ IF tickPos < Len(nextTickQueue)
       THEN /\ tickPos' = tickPos + 1
            /\ ranTicks' = Append(ranTicks, nextTickQueue[tickPos + 1])
            /\ stack' = Append(stack, "tick")
            /\ UNCHANGED nextTickQueue
       ELSE /\ tickPos' = 0
            /\ nextTickQueue' = << >>
            /\ stack' = Pop
            /\ UNCHANGED ranTicks
    /\ UNCHANGED <<phase, ticks, immediateVars, handleVars, exitVars, handler, syncs>>

\* One iteration of _onUVCheck, or its end
RunImmediates ==
    /\ Running = "check"
    /\ IF callbacks # << >>
       THEN /\ callbacks' = Tail(callbacks)
            /\ ranImmediates' = Append(ranImmediates, Head(callbacks))
            /\ stack' = Append(stack, "immediate")
            /\ UNCHANGED checkActive
       ELSE /\ IF immediateQueue = << >> THEN StopUVCheck ELSE UNCHANGED checkActive
            /\ stack' = ThenNextTick(Pop)
            /\ UNCHANGED <<callbacks, ranImmediates>>
    /\ UNCHANGED <<phase, tickVars, immediateQueue, immediates, handleVars, exitVars,
                   handler, syncs>>

-----------------------------------------------------------------------------
(* The loop of iotjs_start *)

\* Mutant: queued immediates do not keep the loop alive
Alive_HandlesOnly == active # {}

\* uv_loop_alive.  What uv_run and _onNextTick return before it can only add a
\* turn in which nothing runs.
Alive == active # {} \/ checkActive

\* iotjs_run has returned, or the loop goes round: uv_run begins
BeginTurn ==
    /\ stack = << >>
    /\ phase = "main" \/ (phase = "decide" /\ Alive)
    /\ phase' = "poll"
    /\ polled' = FALSE
    /\ UNCHANGED <<stack, tickVars, immediateVars, active, used, exitVars, handler, syncs>>

\* uv_run calls the callback of a handle, which then is done.  The callback of
\* a thread-safe function does not go through iotjs_make_callback.
Dispatch(h, frame) ==
    /\ stack = << >>
    /\ phase = "poll"
    /\ h \in active
    /\ active' = active \ {h}
    /\ polled' = TRUE
    /\ stack' = <<frame>>
    /\ UNCHANGED <<phase, used, tickVars, immediateVars, exitVars, handler, syncs>>

\* UV_RUN_ONCE blocks for an event unless the idle handle is started
EndPoll ==
    /\ stack = << >>
    /\ phase = "poll"
    /\ polled \/ checkActive \/ active = {}
    /\ phase' = "check"
    /\ UNCHANGED <<stack, tickVars, immediateVars, handleVars, exitVars, handler, syncs>>

\* Mutant: the queue is run where it is, not moved aside
Check_KeepsQueue ==
    /\ stack = << >>
    /\ phase = "check"
    /\ phase' = "endTurn"
    /\ IF checkActive
       THEN /\ callbacks' = immediateQueue
            /\ stack' = <<"check">>
       ELSE UNCHANGED <<callbacks, stack>>
    /\ UNCHANGED <<tickVars, immediateQueue, checkActive, immediates, ranImmediates,
                   handleVars, exitVars, handler, syncs>>

\* ImmediateCheckCallback
Check ==
    /\ stack = << >>
    /\ phase = "check"
    /\ phase' = "endTurn"
    /\ IF checkActive
       THEN /\ callbacks' = immediateQueue
            /\ immediateQueue' = << >>
            /\ stack' = <<"check">>
       ELSE UNCHANGED <<callbacks, immediateQueue, stack>>
    /\ UNCHANGED <<tickVars, checkActive, immediates, ranImmediates, handleVars,
                   exitVars, handler, syncs>>

\* Mutant: no ticks after uv_run
EndTurn_NoTicks ==
    /\ stack = << >>
    /\ phase = "endTurn"
    /\ phase' = "decide"
    /\ UNCHANGED <<stack, tickVars, immediateVars, handleVars, exitVars, handler, syncs>>

\* iotjs_process_next_tick after uv_run
EndTurn ==
    /\ stack = << >>
    /\ phase = "endTurn"
    /\ phase' = "decide"
    /\ stack' = <<"drain">>
    /\ UNCHANGED <<tickVars, immediateVars, handleVars, exitVars, handler, syncs>>

\* The loop is over: iotjs_process_emit_exit
EmitExit ==
    /\ stack = << >>
    /\ phase = "decide"
    /\ ~Alive
    /\ phase' = "exit"
    /\ exiting' = TRUE
    /\ exitEvents' = exitEvents + 1
    /\ stack' = <<"exit">>
    /\ UNCHANGED <<tickVars, immediateVars, handleVars, exitCode, handler, syncs>>

Done == phase = "dead" /\ UNCHANGED vars

Script ==
    \/ NextTick
    \/ SetImmediate
    \/ \E h \in Handles : StartHandle(h) \/ StopHandle(h)
    \/ \E c \in Codes : SetExitCode(c)
    \/ \E c \in Codes \cup {exitCode} : Exit(c)
    \/ CallSync
    \/ Throw

Runtime ==
    \/ Return
    \/ DrainTicks
    \/ RunImmediates
    \/ BeginTurn
    \/ EndPoll
    \/ Check
    \/ EndTurn
    \/ EmitExit

Next ==
    \/ Script
    \/ Runtime
    \/ \E h \in Handles, frame \in {"io", "raw"} : Dispatch(h, frame)
    \/ Done

\* Callbacks return and the runtime goes on; events need not come
Spec == Init /\ [][Next]_vars /\ WF_vars(Runtime)

-----------------------------------------------------------------------------
(* Properties *)

Upto(n) == [i \in 1..n |-> i]

\* Ticks and immediates run once each and in the order they were queued, though
\* callbacks nest and queue more of both while a queue is being run.
CallbacksInOrder ==
    /\ ranTicks = Upto(Len(ranTicks))
    /\ ranImmediates = Upto(Len(ranImmediates))
    /\ SubSeq(nextTickQueue, tickPos + 1, Len(nextTickQueue))
         = [i \in 1..(ticks - Len(ranTicks)) |-> Len(ranTicks) + i]

\* Nothing queued waits while uv_run may block.  No tick is left when a turn begins,
\* and the check and idle handles are started exactly while immediates are queued,
\* so that uv_run neither blocks on nor ends with an immediate, nor spins without
\* one.
NothingWaits ==
    /\ phase = "poll" /\ ~polled /\ stack = << >> => nextTickQueue = << >>
    /\ phase # "dead" /\ ~Contains(stack, "check")
           => (checkActive <=> immediateQueue # << >>)

\* docs/api/Process.md: "The IoT.js will exit on its own if there is no
\* additional work pending in the event loop."
ExitsOnlyWhenIdle ==
    [][phase' = "exit" /\ phase # "exit"
         => active = {} /\ immediateQueue = << >> /\ nextTickQueue = << >>]_vars

\* The process never ends without its one 'exit' event, whichever of a natural
\* end, process.exit, an uncaught exception and an exception in a listener of
\* 'exit' or 'uncaughtException' comes first.
OneExitEvent ==
    /\ exitEvents <= 1
    /\ phase = "dead" => exitEvents = 1

\* Every queued tick and every queued immediate runs, or the process ends
CallbacksRun ==
    /\ \A n \in 1..MaxTicks : (ticks >= n) ~> (Contains(ranTicks, n) \/ phase = "dead")
    /\ \A n \in 1..MaxImmediates :
          (immediates >= n) ~> (Contains(ranImmediates, n) \/ phase = "dead")

\* docs/api/Process.md on process.nextTick: "It runs before any additional I/O
\* events."
TicksBeforeIO ==
    [][phase = "poll" /\ stack = << >> /\ stack' # << >> => nextTickQueue = << >>]_vars
=============================================================================
