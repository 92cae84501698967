-------------------------------- MODULE Timers --------------------------------
(***************************************************************************)
(* setTimeout, setInterval and the Timeout object (src/src/js/timers.js)   *)
(* over the native timer (src/src/modules/iotjs_module_timer.c), its       *)
(* handle wrap and the clean-up at exit (src/src/iotjs.c).  JavaScript may *)
(* set, clear and re-ref timers from inside a timer callback and outside;  *)
(* callbacks may throw; the garbage collector runs at any time.            *)
(***************************************************************************)
EXTENDS HandleWrap, Naturals

CONSTANTS
    Timeouts,   \* Timeout objects
    MaxFires,   \* bound: callbacks of one Timeout
    MaxRefs,    \* bound: calls of timeout.ref() by the script
    None

ASSUME TimersAssumption ==
    /\ None \notin Handles \cup Timeouts
    /\ MaxFires \in Nat /\ MaxRefs \in Nat

VARIABLES
    callback,    \* timeout.callback
    isrepeat,    \* timeout.isrepeat
    handler,     \* timeout.handler
    timeoutObj,  \* handler.timeoutObj
    uvActive,    \* the uv timer is started
    running,     \* the Timeout whose callback runs, None if none does
    phase,       \* the loop runs, 'exit' is emitted, handles are cleaned up
    fired, cleared, threw, refs, \* history of each Timeout
    owner        \* history: the Timeout a native timer was created for

timerVars == <<callback, isrepeat, handler, timeoutObj, uvActive>>
historyVars == <<fired, cleared, threw, refs, owner>>
vars == <<wrapVars, timerVars, running, phase, historyVars>>

Init ==
    /\ WrapInit
    /\ callback = [t \in Timeouts |-> "null"]
    /\ isrepeat = [t \in Timeouts |-> FALSE]
    /\ handler = [t \in Timeouts |-> None]
    /\ timeoutObj = [h \in Handles |-> None]
    /\ uvActive = [h \in Handles |-> FALSE]
    /\ running = None
    /\ phase = "run"
    /\ fired = [t \in Timeouts |-> 0]
    /\ cleared = [t \in Timeouts |-> FALSE]
    /\ threw = [t \in Timeouts |-> FALSE]
    /\ refs = [t \in Timeouts |-> 0]
    /\ owner = [h \in Handles |-> None]

\* JavaScript runs while the loop does and in the listeners of 'exit'
InJS == phase \in {"run", "exit"}

-----------------------------------------------------------------------------
(* timers.js and the native functions it calls *)

\* new native(): iotjs_timerwrap_create
NewTimer(t, h) ==
    /\ Initialize(h)
    /\ owner' = [owner EXCEPT ![h] = t]

\* iotjs_timerwrap_start
StartTimer(h) == uvActive' = [uvActive EXCEPT ![h] = TRUE]

\* iotjs_timerwrap_stop; uv_close stops the uv timer
StopTimer(h) ==
    /\ Close(h, "release")
    /\ uvActive' = [uvActive EXCEPT ![h] = FALSE]

\* Timeout.prototype.ref
DoRef(t, h) ==
    /\ NewTimer(t, h)
    /\ timeoutObj' = [timeoutObj EXCEPT ![h] = t]
    /\ handler' = [handler EXCEPT ![t] = h]
    /\ StartTimer(h)

\* Mutant: the callback is kept
DoUnref_KeepsCallback(t) ==
    IF handler[t] = None
    THEN UNCHANGED <<wrapVars, timerVars>>
    ELSE /\ timeoutObj' = [timeoutObj EXCEPT ![handler[t]] = None]
         /\ StopTimer(handler[t])
         /\ handler' = [handler EXCEPT ![t] = None]
         /\ UNCHANGED <<callback, isrepeat>>

\* Timeout.prototype.unref
DoUnref(t) ==
    /\ callback' = [callback EXCEPT ![t] = "undefined"]
    /\ UNCHANGED isrepeat
    /\ IF handler[t] = None
       THEN UNCHANGED <<wrapVars, handler, timeoutObj, uvActive>>
       ELSE /\ timeoutObj' = [timeoutObj EXCEPT ![handler[t]] = None]
            /\ StopTimer(handler[t])
            /\ handler' = [handler EXCEPT ![t] = None]

\* setTimeout and setInterval (timeoutConfigurator)
SetTimer(t, repeat, h) ==
    /\ InJS
    /\ callback[t] = "null"
    /\ callback' = [callback EXCEPT ![t] = "set"]
    /\ isrepeat' = [isrepeat EXCEPT ![t] = repeat]
    /\ DoRef(t, h)
    /\ UNCHANGED <<running, phase, fired, cleared, threw, refs>>

\* timeout.ref() by the script
Ref(t, h) ==
    /\ InJS
    /\ callback[t] # "null"
    /\ refs[t] < MaxRefs
    /\ refs' = [refs EXCEPT ![t] = @ + 1]
    /\ DoRef(t, h)
    /\ UNCHANGED <<callback, isrepeat, running, phase, fired, cleared, threw>>

\* clearTimeout and clearInterval
Clear(t) ==
    /\ InJS
    /\ callback[t] # "null"
    /\ cleared' = [cleared EXCEPT ![t] = TRUE]
    /\ DoUnref(t)
    /\ UNCHANGED <<running, phase, fired, threw, refs, owner>>

\* timeout.unref() by the script.  It takes the callback away for good, where
\* docs/api/Timers.md says that it only lets the loop end: nothing is claimed of it.
Unref(t) ==
    /\ InJS
    /\ callback[t] # "null"
    /\ DoUnref(t)
    /\ UNCHANGED <<running, phase, historyVars>>

-----------------------------------------------------------------------------
(* The loop *)

\* uv__run_timers: uv_timer_again restarts only a timer that repeats
AfterFire(t) == t # None /\ isrepeat[t]

\* TimeoutHandler, iotjs_timerwrap_on_timeout and handleTimeout up to the call
\* of the callback
Fire(h) ==
    /\ phase = "run"
    /\ running = None
    /\ uvActive[h]
    /\ uvActive' = [uvActive EXCEPT ![h] = AfterFire(owner[h])]
    /\ LET t == timeoutObj[h]
       IN  IF t # None /\ callback[t] = "set"
           THEN /\ fired[t] < MaxFires
                /\ fired' = [fired EXCEPT ![t] = @ + 1]
                /\ running' = t
           ELSE UNCHANGED <<fired, running>>
    /\ UNCHANGED <<wrapVars, callback, isrepeat, handler, timeoutObj, phase,
                   cleared, threw, refs, owner>>

\* Mutant: a one-shot Timeout is not unref'ed
Return_NeverUnrefs ==
    /\ running # None
    /\ running' = None
    /\ UNCHANGED <<wrapVars, timerVars, phase, historyVars>>

\* The callback returns: the rest of handleTimeout
Return ==
    /\ running # None
    /\ running' = None
    /\ IF isrepeat[running] THEN UNCHANGED <<wrapVars, timerVars>> ELSE DoUnref(running)
    /\ UNCHANGED <<phase, historyVars>>

\* The callback throws and 'uncaughtException' has a listener: handleTimeout
\* ends there
Throw ==
    /\ running # None
    /\ running' = None
    /\ threw' = [threw EXCEPT ![running] = TRUE]
    /\ UNCHANGED <<wrapVars, timerVars, phase, fired, cleared, refs, owner>>

\* uv__finish_close
CloseDone(h) ==
    /\ phase \in {"run", "cleanup"}
    /\ running = None
    /\ OnClose(h)
    /\ UNCHANGED <<timerVars, running, phase, historyVars>>

\* The garbage collector, on a native timer that no Timeout refers to
Collect(h) ==
    /\ InJS
    /\ \A t \in Timeouts : handler[t] # h
    /\ Destroy(h)
    /\ UNCHANGED <<timerVars, running, phase, historyVars>>

-----------------------------------------------------------------------------
(* The end of the process *)

\* The loop ends when no timer is started and none is closing
EmitExit ==
    /\ phase = "run"
    /\ running = None
    /\ \A h \in Handles : ~uvActive[h] /\ handle[h] # "closing"
    /\ phase' = "exit"
    /\ UNCHANGED <<wrapVars, timerVars, running, historyVars>>

\* iotjs_environment_cleanup_handlewrap and uv_walk
CleanUp ==
    /\ phase = "exit"
    /\ phase' = "cleanup"
    /\ CloseQueue
    /\ uvActive' = [h \in Handles |-> FALSE]
    /\ UNCHANGED <<callback, isrepeat, handler, timeoutObj, running, historyVars>>

\* Mutant: uv_run is not called before jerry_cleanup
JerryCleanup_NoRun ==
    /\ phase = "cleanup"
    /\ phase' = "done"
    /\ DestroyLeft
    /\ UNCHANGED <<timerVars, running, historyVars>>

\* uv_run has run the close callbacks: jerry_cleanup frees every object
JerryCleanup ==
    /\ phase = "cleanup"
    /\ \A h \in Handles : handle[h] # "closing"
    /\ phase' = "done"
    /\ DestroyLeft
    /\ UNCHANGED <<timerVars, running, historyVars>>

Done == phase = "done" /\ UNCHANGED vars

Next ==
    \/ \E t \in Timeouts, h \in Handles :
          \/ \E repeat \in BOOLEAN : SetTimer(t, repeat, h)
          \/ Ref(t, h)
    \/ \E t \in Timeouts : Clear(t) \/ Unref(t)
    \/ \E h \in Handles : Fire(h) \/ CloseDone(h) \/ Collect(h)
    \/ Return \/ Throw
    \/ EmitExit \/ CleanUp \/ JerryCleanup
    \/ Done

\* Callbacks return or throw and uv finishes what is closing
Fairness ==
    /\ WF_vars(Return \/ Throw)
    /\ WF_vars(CleanUp)
    /\ \A h \in Handles : WF_vars(CloseDone(h))

Spec == Init /\ [][Next]_vars /\ Fairness

-----------------------------------------------------------------------------
(* Properties *)

\* A callback never runs after clearTimeout or clearInterval, and a one-shot
\* callback that returned never runs again, not even through a second native
\* timer that ref() left behind.  (One that threw may: handleTimeout skips the
\* unref.)  Nothing is said of timeout.unref() by the script.
FiresOnlyWhenDue ==
    [][\A t \in Timeouts :
          fired'[t] > fired[t] => ~cleared[t] /\ (isrepeat[t] \/ threw[t] \/ fired[t] = 0)]_vars

\* The wraps of the timers are safe (WrapSafe of HandleWrap), and the handler of a
\* Timeout is open while JavaScript runs: iotjs_timerwrap_stop asks uv_is_closing of
\* the handle of the wrap without looking whether it is NULL.
TimersSafe ==
    /\ WrapSafe
    /\ InJS => \A t \in Timeouts : handler[t] # None => handle[handler[t]] = "open"

\* The native timers of a Timeout that was cleared, or that has fired once and
\* does not repeat, are closed.
FinishedIsReleased ==
    \A h \in Handles, t \in Timeouts :
        (/\ owner[h] = t
         /\ refs[t] = 0
         /\ cleared[t] \/ (~isrepeat[t] /\ fired[t] > 0))
        ~> (handle[h] = "null" \/ (threw[t] /\ ~cleared[t]) \/ refs[t] > 0)
=============================================================================
