----------------------------- MODULE TimersProofs -----------------------------
(***************************************************************************)
(* The safety of the timers and of their handle wraps, their refinement of *)
(* HandleLife, and that callbacks run only when due, for any number of     *)
(* Timeouts, native timers, callbacks and calls of ref().                  *)
(***************************************************************************)
EXTENDS Timers, TLAPS

WrapTypes ==
    /\ handle \in [Handles -> {"unset", "open", "closing", "null"}]
    /\ onCloseCb \in [Handles -> {"null", "release"}]
    /\ jref \in [Handles -> BOOLEAN]
    /\ wrap \in [Handles -> {"none", "live", "destroyed"}]
    /\ uvMem \in [Handles -> {"none", "allocated", "released"}]
    /\ queue \in SUBSET Handles

TimerTypes ==
    /\ handler \in [Timeouts -> Handles \cup {None}]
    /\ timeoutObj \in [Handles -> Timeouts \cup {None}]
    /\ uvActive \in [Handles -> BOOLEAN]
    /\ owner \in [Handles -> Timeouts \cup {None}]

CallbackTypes ==
    /\ callback \in [Timeouts -> {"null", "set", "undefined"}]
    /\ isrepeat \in [Timeouts -> BOOLEAN]
    /\ running \in Timeouts \cup {None}
    /\ fired \in [Timeouts -> Nat]
    /\ cleared \in [Timeouts -> BOOLEAN]
    /\ threw \in [Timeouts -> BOOLEAN]

PhaseType == phase \in {"run", "exit", "cleanup", "done"}

\* A wrap that was not made has no handle yet, a destroyed one has none any more
WrapLife ==
    \A h \in Handles :
        /\ wrap[h] = "none" <=> handle[h] = "unset"
        /\ wrap[h] = "destroyed" => handle[h] = "null"

\* Two Timeouts never share a native timer, and none has one that was not made
OwnTimer ==
    \A t \in Timeouts :
        handler[t] # None => owner[handler[t]] = t /\ ~Fresh(handler[t])

\* The handler of a Timeout is open while JavaScript runs
HandlersOpen ==
    InJS => \A t \in Timeouts : handler[t] # None => handle[handler[t]] = "open"

\* The callback of a Timeout is gone once it is cleared, and once it has returned
\* from its only call
CallbackState ==
    \A t \in Timeouts :
        /\ cleared[t] => callback[t] = "undefined"
        /\ fired[t] > 0 =>
              /\ callback[t] # "null"
              /\ isrepeat[t] \/ threw[t] \/ callback[t] = "undefined" \/ running = t

\* Once the exit has walked the queue no handle is open
ClosedAtExit == ~InJS => \A h \in Handles : handle[h] # "open"

\* The inductive invariant: the wraps, the Timeouts that hold them, the callbacks
\* and the exit
WrapInv == WrapTypes /\ WrapSafe /\ WrapLife
TimerInv == TimerTypes /\ OwnTimer /\ HandlersOpen
CallbackInv == CallbackTypes /\ CallbackState
IInv == WrapInv /\ TimerInv /\ CallbackInv /\ PhaseType /\ ClosedAtExit

-----------------------------------------------------------------------------
(* What each function of iotjs_handlewrap.c keeps *)

\* iotjs_handlewrap_initialize
LEMMA InitializeKeeps ==
    ASSUME WrapInv, NEW h \in Handles, Initialize(h) PROVE WrapInv'
  <1> USE DEF Initialize, Fresh, WrapInv, WrapTypes
  <1>1. WrapTypes' OBVIOUS
  <1>2. WrapSafe' BY DEF WrapSafe
  <1>3. WrapLife' BY DEF WrapLife
  <1> QED BY <1>1, <1>2, <1>3

\* iotjs_handlewrap_close, which does nothing to a handle that is not open
LEMMA CloseKeeps ==
    ASSUME WrapInv, NEW h \in Handles, Close(h, "release") PROVE WrapInv'
  <1> USE DEF Close, WrapInv, WrapTypes
  <1>1. WrapTypes' OBVIOUS
  <1>2. WrapSafe' BY DEF WrapSafe
  <1>3. WrapLife' BY DEF WrapLife
  <1> QED BY <1>1, <1>2, <1>3

\* iotjs_handlewrap_on_close
LEMMA OnCloseKeeps ==
    ASSUME WrapInv, NEW h \in Handles, OnClose(h) PROVE WrapInv'
  <1> USE DEF OnClose, WrapInv, WrapTypes
  <1>1. WrapTypes' OBVIOUS
  <1>2. WrapSafe' BY DEF WrapSafe
  <1>3. WrapLife' BY DEF WrapLife, WrapSafe
  <1> QED BY <1>1, <1>2, <1>3

\* iotjs_handlewrap_destroy, which needs the reference to be gone
LEMMA DestroyKeeps ==
    ASSUME WrapInv, NEW h \in Handles, Destroy(h) PROVE WrapInv' /\ handle[h] = "null"
  <1> USE DEF Destroy, WrapInv, WrapTypes
  <1>0. handle[h] = "null" BY DEF WrapSafe, WrapLife
  <1>1. WrapTypes' OBVIOUS
  <1>2. WrapSafe' BY DEF WrapSafe
  <1>3. WrapLife' BY <1>0 DEF WrapLife
  <1> QED BY <1>0, <1>1, <1>2, <1>3

\* iotjs_environment_cleanup_handlewrap: every open handle is in the queue
LEMMA CloseQueueKeeps ==
    ASSUME WrapInv, CloseQueue PROVE WrapInv' /\ \A h \in Handles : handle'[h] # "open"
  <1> USE DEF CloseQueue, WrapInv, WrapTypes
  <1>1. WrapTypes' OBVIOUS
  <1>2. WrapSafe' BY DEF WrapSafe
  <1>3. WrapLife' BY DEF WrapLife
  <1>4. \A h \in Handles : handle'[h] # "open" BY DEF WrapSafe
  <1> QED BY <1>1, <1>2, <1>3, <1>4

\* jerry_cleanup, when no handle is open or closing
LEMMA DestroyLeftKeeps ==
    ASSUME WrapInv, DestroyLeft, \A h \in Handles : handle[h] \notin {"open", "closing"}
    PROVE  WrapInv'
  <1> USE DEF DestroyLeft, WrapInv, WrapTypes
  <1>1. WrapTypes' OBVIOUS
  <1>2. WrapSafe' BY DEF WrapSafe
  <1>3. WrapLife' BY DEF WrapLife, WrapSafe
  <1> QED BY <1>1, <1>2, <1>3

\* The invariants of the wraps depend on nothing else
LEMMA WrapsUnchanged ==
    ASSUME WrapInv, UNCHANGED wrapVars PROVE WrapInv'
  BY DEF WrapInv, WrapTypes, WrapSafe, WrapLife, wrapVars

-----------------------------------------------------------------------------
(* What timers.js keeps *)

\* The invariant of the callbacks depends on nothing but their state
LEMMA CallbacksUnchanged ==
    ASSUME CallbackInv,
           UNCHANGED <<callback, isrepeat, running, fired, cleared, threw>>
    PROVE  CallbackInv'
  BY DEF CallbackInv, CallbackTypes, CallbackState

\* ref() makes a native timer that belongs to this Timeout alone
LEMMA DoRefKeeps ==
    ASSUME IInv, NEW t \in Timeouts, NEW h \in Handles, DoRef(t, h), InJS, UNCHANGED phase
    PROVE  WrapInv' /\ TimerInv' /\ PhaseType' /\ ClosedAtExit'
  <1>1. Initialize(h) BY DEF DoRef, NewTimer
  <1>2. WrapInv' BY <1>1, InitializeKeeps DEF IInv
  <1>3. Fresh(h) /\ handle' = [handle EXCEPT ![h] = "open"]
                 /\ wrap' = [wrap EXCEPT ![h] = "live"]
    BY <1>1 DEF Initialize
  <1>4. handler' = [handler EXCEPT ![t] = h] /\ owner' = [owner EXCEPT ![h] = t]
    BY DEF DoRef, NewTimer
  <1>5. h # None BY TimersAssumption
  <1> USE DEF IInv, TimerInv, TimerTypes, WrapInv, WrapTypes
  <1>6. TimerTypes' BY <1>4 DEF DoRef, NewTimer, StartTimer
  <1>7. OwnTimer' BY <1>3, <1>4, <1>5 DEF OwnTimer, Fresh
  <1>8. HandlersOpen' BY <1>3, <1>4, <1>5 DEF OwnTimer, HandlersOpen, InJS
  <1>9. PhaseType' BY DEF PhaseType
  <1>10. ClosedAtExit' BY DEF ClosedAtExit, InJS
  <1> QED BY <1>2, <1>6, <1>7, <1>8, <1>9, <1>10

\* unref() closes the native timer of this Timeout and of no other
LEMMA DoUnrefKeeps ==
    ASSUME IInv, NEW t \in Timeouts, DoUnref(t), UNCHANGED <<phase, owner>>
    PROVE  WrapInv' /\ TimerInv' /\ PhaseType' /\ ClosedAtExit'
  <1>1. PhaseType' BY DEF IInv, PhaseType
  <1>2. CASE handler[t] = None
    <2>1. UNCHANGED <<wrapVars, handler, timeoutObj, uvActive>> BY <1>2 DEF DoUnref
    <2>2. WrapInv' BY <2>1, WrapsUnchanged DEF IInv
    <2>3. TimerInv'
      BY <2>1 DEF IInv, TimerInv, TimerTypes, OwnTimer, HandlersOpen, Fresh, InJS, wrapVars
    <2>4. ClosedAtExit' BY <2>1 DEF IInv, ClosedAtExit, InJS, wrapVars
    <2> QED BY <1>1, <2>2, <2>3, <2>4
  <1>3. CASE handler[t] # None
    <2> DEFINE h == handler[t]
    <2>1. h \in Handles BY <1>3 DEF IInv, TimerInv, TimerTypes
    <2>2. /\ timeoutObj' = [timeoutObj EXCEPT ![h] = None]
          /\ handler' = [handler EXCEPT ![t] = None]
          /\ uvActive' = [uvActive EXCEPT ![h] = FALSE]
          /\ Close(h, "release")
      BY <1>3 DEF DoUnref, StopTimer
    <2>3. WrapInv' BY <2>1, <2>2, CloseKeeps DEF IInv
    <2>4. /\ \A g \in Handles : handle'[g] = "open" => handle[g] = "open"
          /\ \A g \in Handles \ {h} : handle'[g] = handle[g]
          /\ wrap' = wrap
      BY <2>1, <2>2 DEF Close, IInv, WrapInv, WrapTypes
    <2> USE DEF IInv, TimerInv, TimerTypes
    <2>5. TimerTypes' BY <2>1, <2>2
    <2>6. OwnTimer' BY <2>2, <2>4 DEF OwnTimer, Fresh
    <2>7. \A s \in Timeouts : handler'[s] # None => s # t /\ handler[s] \in Handles \ {h}
      BY <1>3, <2>1, <2>2 DEF OwnTimer
    <2>8. HandlersOpen' BY <2>2, <2>4, <2>7 DEF HandlersOpen, InJS
    <2>9. ClosedAtExit' BY <2>4 DEF ClosedAtExit, InJS
    <2> QED BY <1>1, <2>3, <2>5, <2>6, <2>8, <2>9
  <1> QED BY <1>2, <1>3

\* setTimeout and setInterval
LEMMA SetTimerKeeps ==
    ASSUME IInv, NEW t \in Timeouts, NEW h \in Handles, NEW repeat \in BOOLEAN,
           SetTimer(t, repeat, h)
    PROVE  IInv'
  <1>1. WrapInv' /\ TimerInv' /\ PhaseType' /\ ClosedAtExit' BY DoRefKeeps DEF SetTimer
  <1>2. CallbackTypes' BY DEF SetTimer, IInv, CallbackInv, CallbackTypes
  <1>3. CallbackState' BY DEF SetTimer, IInv, CallbackInv, CallbackTypes, CallbackState
  <1> QED BY <1>1, <1>2, <1>3 DEF IInv, CallbackInv

\* timeout.ref() by the script
LEMMA RefKeeps ==
    ASSUME IInv, NEW t \in Timeouts, NEW h \in Handles, Ref(t, h) PROVE IInv'
  <1>1. WrapInv' /\ TimerInv' /\ PhaseType' /\ ClosedAtExit' BY DoRefKeeps DEF Ref
  <1>2. CallbackInv' BY CallbacksUnchanged DEF IInv, Ref
  <1> QED BY <1>1, <1>2 DEF IInv

\* clearTimeout and clearInterval
LEMMA ClearKeeps ==
    ASSUME IInv, NEW t \in Timeouts, Clear(t) PROVE IInv'
  <1>1. WrapInv' /\ TimerInv' /\ PhaseType' /\ ClosedAtExit' BY DoUnrefKeeps DEF Clear
  <1> USE DEF Clear, DoUnref, IInv, CallbackInv, CallbackTypes
  <1>2. CallbackTypes' OBVIOUS
  <1>3. CallbackState' BY DEF CallbackState
  <1> QED BY <1>1, <1>2, <1>3

\* timeout.unref() by the script
LEMMA UnrefKeeps ==
    ASSUME IInv, NEW t \in Timeouts, Unref(t) PROVE IInv'
  <1>1. WrapInv' /\ TimerInv' /\ PhaseType' /\ ClosedAtExit'
    BY DoUnrefKeeps DEF Unref, historyVars
  <1> USE DEF Unref, historyVars, DoUnref, IInv, CallbackInv, CallbackTypes
  <1>2. CallbackTypes' OBVIOUS
  <1>3. CallbackState' BY DEF CallbackState
  <1> QED BY <1>1, <1>2, <1>3

-----------------------------------------------------------------------------
(* What the loop and the exit keep *)

\* A timer that fires changes nothing but its own state and what runs
LEMMA FireKeeps ==
    ASSUME IInv, NEW h \in Handles, Fire(h) PROVE IInv'
  <1>0. UNCHANGED <<wrapVars, callback, isrepeat, handler, timeoutObj, phase, cleared,
                    threw, owner>>
    BY DEF Fire
  <1>1. WrapInv' BY <1>0, WrapsUnchanged DEF IInv
  <1>2. AfterFire(owner[h]) \in BOOLEAN
    BY DEF AfterFire, IInv, TimerInv, TimerTypes, CallbackInv, CallbackTypes
  <1>3. TimerInv'
    <2>1. TimerTypes' BY <1>0, <1>2 DEF Fire, IInv, TimerInv, TimerTypes
    <2>2. OwnTimer' /\ HandlersOpen'
      BY <1>0 DEF IInv, TimerInv, OwnTimer, HandlersOpen, Fresh, InJS, wrapVars
    <2> QED BY <2>1, <2>2 DEF TimerInv
  <1>4. CallbackInv'
    <2> DEFINE t == timeoutObj[h]
    <2>1. CASE t # None /\ callback[t] = "set"
      <3>1. t \in Timeouts BY <2>1 DEF IInv, TimerInv, TimerTypes
      <3>2. fired' = [fired EXCEPT ![t] = @ + 1] /\ running' = t BY <2>1 DEF Fire
      <3>3. CallbackTypes' BY <1>0, <3>1, <3>2 DEF IInv, CallbackInv, CallbackTypes
      <3>4. running = None /\ \A s \in Timeouts : s # None
        BY TimersAssumption DEF Fire
      <3>5. CallbackState'
        BY <1>0, <2>1, <3>1, <3>2, <3>4 DEF IInv, CallbackInv, CallbackTypes, CallbackState
      <3> QED BY <3>3, <3>5 DEF CallbackInv
    <2>2. CASE ~(t # None /\ callback[t] = "set")
      BY <1>0, <2>2, CallbacksUnchanged DEF IInv, Fire
    <2> QED BY <2>1, <2>2
  <1>5. PhaseType' /\ ClosedAtExit'
    BY <1>0 DEF IInv, PhaseType, ClosedAtExit, InJS, wrapVars
  <1> QED BY <1>1, <1>3, <1>4, <1>5 DEF IInv

\* The callback returns: a one-shot Timeout is unref'ed before anything else runs
LEMMA ReturnKeeps ==
    ASSUME IInv, Return PROVE IInv'
  <1>1. running \in Timeouts BY DEF Return, IInv, CallbackInv, CallbackTypes
  <1>2. UNCHANGED <<phase, fired, cleared, threw, refs, owner>> /\ running' = None
    BY DEF Return, historyVars
  <1>3. CASE isrepeat[running]
    <2>1. UNCHANGED <<wrapVars, timerVars>> BY <1>3 DEF Return
    <2>2. WrapInv' BY <2>1, WrapsUnchanged DEF IInv
    <2>3. TimerInv' /\ PhaseType' /\ ClosedAtExit'
      BY <1>2, <2>1 DEF IInv, TimerInv, TimerTypes, OwnTimer, HandlersOpen, PhaseType,
                        ClosedAtExit, Fresh, InJS, wrapVars, timerVars
    <2>4. CallbackTypes' BY <1>2, <2>1 DEF IInv, CallbackInv, CallbackTypes, timerVars
    <2>5. CallbackState'
      BY <1>1, <1>2, <1>3, <2>1 DEF IInv, CallbackInv, CallbackState, timerVars
    <2> QED BY <2>2, <2>3, <2>4, <2>5 DEF IInv, CallbackInv
  <1>4. CASE ~isrepeat[running]
    <2>1. DoUnref(running) BY <1>4 DEF Return
    <2>2. WrapInv' /\ TimerInv' /\ PhaseType' /\ ClosedAtExit'
      BY <1>1, <1>2, <2>1, DoUnrefKeeps
    <2>3. callback' = [callback EXCEPT ![running] = "undefined"] /\ UNCHANGED isrepeat
      BY <2>1 DEF DoUnref
    <2>4. CallbackTypes' BY <1>1, <1>2, <2>3 DEF IInv, CallbackInv, CallbackTypes
    <2>5. CallbackState'
      BY <1>1, <1>2, <2>3 DEF IInv, CallbackInv, CallbackTypes, CallbackState
    <2> QED BY <2>2, <2>4, <2>5 DEF IInv, CallbackInv
  <1> QED BY <1>3, <1>4

\* The callback throws: its Timeout is left as it was
LEMMA ThrowKeeps ==
    ASSUME IInv, Throw PROVE IInv'
  <1>0. /\ UNCHANGED <<wrapVars, timerVars, phase, fired, cleared, owner>>
        /\ running' = None /\ running \in Timeouts
        /\ threw' = [threw EXCEPT ![running] = TRUE]
    BY DEF Throw, IInv, CallbackInv, CallbackTypes
  <1>1. WrapInv' BY <1>0, WrapsUnchanged DEF IInv
  <1>2. TimerInv' /\ PhaseType' /\ ClosedAtExit'
    BY <1>0 DEF IInv, TimerInv, TimerTypes, OwnTimer, HandlersOpen, PhaseType,
                ClosedAtExit, Fresh, InJS, wrapVars, timerVars
  <1>3. CallbackTypes' BY <1>0 DEF IInv, CallbackInv, CallbackTypes, timerVars
  <1>4. CallbackState'
    BY <1>0 DEF IInv, CallbackInv, CallbackTypes, CallbackState, timerVars
  <1> QED BY <1>1, <1>2, <1>3, <1>4 DEF IInv, CallbackInv

\* uv finishes what is closing, which no Timeout holds any more
LEMMA CloseDoneKeeps ==
    ASSUME IInv, NEW h \in Handles, CloseDone(h) PROVE IInv'
  <1>0. OnClose(h) /\ UNCHANGED <<timerVars, running, phase, historyVars>> BY DEF CloseDone
  <1>1. WrapInv' BY <1>0, OnCloseKeeps DEF IInv
  <1>2. CallbackInv' BY <1>0, CallbacksUnchanged DEF IInv, timerVars, historyVars
  <1>3. /\ \A g \in Handles \ {h} : handle'[g] = handle[g]
        /\ handle[h] = "closing" /\ handle'[h] = "null" /\ wrap' = wrap
    BY <1>0 DEF OnClose, IInv, WrapInv, WrapTypes
  <1>4. TimerTypes' BY <1>0 DEF IInv, TimerInv, TimerTypes, timerVars, historyVars
  <1>5. OwnTimer'
    BY <1>0, <1>3 DEF IInv, TimerInv, OwnTimer, Fresh, timerVars, historyVars
  <1>6. HandlersOpen'
    BY <1>0, <1>3 DEF IInv, TimerInv, TimerTypes, HandlersOpen, InJS, timerVars, historyVars
  <1>7. PhaseType' /\ ClosedAtExit' BY <1>0, <1>3 DEF IInv, PhaseType, ClosedAtExit, InJS
  <1> QED BY <1>1, <1>2, <1>4, <1>5, <1>6, <1>7 DEF IInv, TimerInv

\* The garbage collector takes a wrap that no Timeout holds
LEMMA CollectKeeps ==
    ASSUME IInv, NEW h \in Handles, Collect(h) PROVE IInv'
  <1>0. Destroy(h) /\ UNCHANGED <<timerVars, running, phase, historyVars>> BY DEF Collect
  <1>1. WrapInv' BY <1>0, DestroyKeeps DEF IInv
  <1>2. CallbackInv' BY <1>0, CallbacksUnchanged DEF IInv, timerVars, historyVars
  <1>3. handle' = handle /\ wrap' = [wrap EXCEPT ![h] = "destroyed"] BY <1>0 DEF Destroy
  <1>4. TimerTypes' BY <1>0 DEF IInv, TimerInv, TimerTypes, timerVars, historyVars
  <1>5. OwnTimer'
    BY <1>0, <1>3 DEF IInv, TimerInv, TimerTypes, OwnTimer, Fresh, WrapInv, WrapTypes,
                      timerVars, historyVars
  <1>6. HandlersOpen' /\ PhaseType' /\ ClosedAtExit'
    BY <1>0, <1>3 DEF IInv, TimerInv, HandlersOpen, PhaseType, ClosedAtExit, InJS, timerVars
  <1> QED BY <1>1, <1>2, <1>4, <1>5, <1>6 DEF IInv, TimerInv

\* 'exit': JavaScript goes on in its listeners
LEMMA EmitExitKeeps ==
    ASSUME IInv, EmitExit PROVE IInv'
  <1>0. /\ phase = "run" /\ phase' = "exit"
        /\ UNCHANGED <<wrapVars, timerVars, running, historyVars>>
    BY DEF EmitExit
  <1>1. WrapInv' BY <1>0, WrapsUnchanged DEF IInv
  <1>2. CallbackInv' BY <1>0, CallbacksUnchanged DEF IInv, timerVars, historyVars
  <1>3. TimerInv' /\ PhaseType' /\ ClosedAtExit'
    BY <1>0 DEF IInv, TimerInv, TimerTypes, OwnTimer, HandlersOpen, PhaseType,
                ClosedAtExit, Fresh, InJS, wrapVars, timerVars, historyVars
  <1> QED BY <1>1, <1>2, <1>3 DEF IInv

\* The walk of the queue closes every handle
LEMMA CleanUpKeeps ==
    ASSUME IInv, CleanUp PROVE IInv'
  <1>0. /\ phase' = "cleanup" /\ CloseQueue /\ uvActive' = [h \in Handles |-> FALSE]
        /\ UNCHANGED <<callback, isrepeat, handler, timeoutObj, running, historyVars>>
    BY DEF CleanUp
  <1>1. WrapInv' /\ \A h \in Handles : handle'[h] # "open"
    BY <1>0, CloseQueueKeeps DEF IInv
  <1>2. CallbackInv' BY <1>0, CallbacksUnchanged DEF IInv, historyVars
  <1>3. wrap' = wrap BY <1>0 DEF CloseQueue
  <1>4. TimerTypes' BY <1>0 DEF IInv, TimerInv, TimerTypes, historyVars
  <1>5. OwnTimer' BY <1>0, <1>3 DEF IInv, TimerInv, OwnTimer, Fresh, historyVars
  <1>6. HandlersOpen' /\ PhaseType' /\ ClosedAtExit'
    BY <1>0, <1>1 DEF HandlersOpen, PhaseType, ClosedAtExit, InJS
  <1> QED BY <1>1, <1>2, <1>4, <1>5, <1>6 DEF IInv, TimerInv

\* jerry_cleanup finds every handle closed
LEMMA JerryCleanupKeeps ==
    ASSUME IInv, JerryCleanup PROVE IInv'
  <1>0. /\ phase = "cleanup" /\ phase' = "done" /\ DestroyLeft
        /\ UNCHANGED <<timerVars, running, historyVars>>
        /\ \A h \in Handles : handle[h] # "closing"
    BY DEF JerryCleanup
  <1>1. \A h \in Handles : handle[h] \notin {"open", "closing"}
    BY <1>0 DEF IInv, ClosedAtExit, InJS
  <1>2. WrapInv' BY <1>0, <1>1, DestroyLeftKeeps DEF IInv
  <1>3. CallbackInv' BY <1>0, CallbacksUnchanged DEF IInv, timerVars, historyVars
  <1>4. handle' = handle /\ \A h \in Handles : wrap[h] # "none" => wrap'[h] # "none"
    BY <1>0 DEF DestroyLeft
  <1>5. TimerTypes' BY <1>0 DEF IInv, TimerInv, TimerTypes, timerVars, historyVars
  <1>6. OwnTimer'
    BY <1>0, <1>4 DEF IInv, TimerInv, TimerTypes, OwnTimer, Fresh, timerVars, historyVars
  <1>7. HandlersOpen' /\ PhaseType' /\ ClosedAtExit'
    BY <1>0, <1>1, <1>4 DEF HandlersOpen, PhaseType, ClosedAtExit, InJS
  <1> QED BY <1>2, <1>3, <1>5, <1>6, <1>7 DEF IInv, TimerInv

\* A step that changes nothing
LEMMA StutterKeeps ==
    ASSUME IInv, UNCHANGED vars PROVE IInv'
  <1>0. UNCHANGED <<wrapVars, timerVars, running, phase, historyVars>> BY DEF vars
  <1>1. WrapInv' BY <1>0, WrapsUnchanged DEF IInv
  <1>2. CallbackInv' BY <1>0, CallbacksUnchanged DEF IInv, timerVars, historyVars
  <1>3. TimerInv' /\ PhaseType' /\ ClosedAtExit'
    BY <1>0 DEF IInv, TimerInv, TimerTypes, OwnTimer, HandlersOpen, PhaseType,
                ClosedAtExit, Fresh, InJS, wrapVars, timerVars, historyVars
  <1> QED BY <1>1, <1>2, <1>3 DEF IInv

\* A process that starts satisfies the invariant
LEMMA InitIInv == Init => IInv
  <1> SUFFICES ASSUME Init PROVE IInv OBVIOUS
  <1> USE DEF Init, WrapInit
  <1>1. WrapTypes BY DEF WrapTypes
  <1>2. WrapSafe BY DEF WrapSafe
  <1>3. WrapLife BY DEF WrapLife
  <1>4. TimerTypes BY DEF TimerTypes
  <1>5. OwnTimer /\ HandlersOpen BY DEF OwnTimer, HandlersOpen
  <1>6. CallbackTypes BY DEF CallbackTypes
  <1>7. CallbackState BY DEF CallbackState
  <1>8. PhaseType /\ ClosedAtExit BY DEF PhaseType, ClosedAtExit, InJS
  <1> QED BY <1>1, <1>2, <1>3, <1>4, <1>5, <1>6, <1>7, <1>8
          DEF IInv, WrapInv, TimerInv, CallbackInv

\* Every step keeps the invariant
LEMMA NextIInv == IInv /\ [Next]_vars => IInv'
  <1> SUFFICES ASSUME IInv, [Next]_vars PROVE IInv' OBVIOUS
  <1>1. ASSUME NEW t \in Timeouts, NEW h \in Handles, NEW repeat \in BOOLEAN,
               SetTimer(t, repeat, h)
        PROVE  IInv'
    BY <1>1, SetTimerKeeps
  <1>2. ASSUME NEW t \in Timeouts, NEW h \in Handles, Ref(t, h) PROVE IInv'
    BY <1>2, RefKeeps
  <1>3. ASSUME NEW t \in Timeouts, Clear(t) \/ Unref(t) PROVE IInv'
    BY <1>3, ClearKeeps, UnrefKeeps
  <1>4. ASSUME NEW h \in Handles, Fire(h) PROVE IInv' BY <1>4, FireKeeps
  <1>5. ASSUME NEW h \in Handles, CloseDone(h) PROVE IInv' BY <1>5, CloseDoneKeeps
  <1>6. ASSUME NEW h \in Handles, Collect(h) PROVE IInv' BY <1>6, CollectKeeps
  <1>7. CASE Return \/ Throw BY <1>7, ReturnKeeps, ThrowKeeps
  <1>8. CASE EmitExit \/ CleanUp \/ JerryCleanup
    BY <1>8, EmitExitKeeps, CleanUpKeeps, JerryCleanupKeeps
  <1>9. CASE Done \/ UNCHANGED vars BY <1>9, StutterKeeps DEF Done
  <1> QED BY <1>1, <1>2, <1>3, <1>4, <1>5, <1>6, <1>7, <1>8, <1>9 DEF Next

\* The invariant holds in every state of every run of the program
THEOREM Invariant == Spec => []IInv
  BY InitIInv, NextIInv, PTL DEF Spec

\* The wraps are safe and every handler is open while JavaScript runs, whatever the
\* script, the garbage collector and uv do in whichever order (TimersSafe)
THEOREM Safe == Spec => []TimersSafe
  <1>1. IInv => TimersSafe
    BY DEF IInv, WrapInv, TimerInv, HandlersOpen, TimersSafe
  <1> QED BY <1>1, Invariant, PTL

-----------------------------------------------------------------------------
(* Callbacks run only when due *)

\* Only Fire counts a callback, and it does so for one whose callback is still set
LEMMA FiresDue ==
    ASSUME IInv, [Next]_vars, NEW t \in Timeouts, fired'[t] > fired[t]
    PROVE  ~cleared[t] /\ (isrepeat[t] \/ threw[t] \/ fired[t] = 0)
  <1>1. fired \in [Timeouts -> Nat] BY DEF IInv, CallbackInv, CallbackTypes
  <1>2. fired' # fired BY <1>1
  <1>3. PICK h \in Handles : Fire(h)
    BY <1>2 DEF Next, SetTimer, Ref, Clear, Unref, CloseDone, Collect, Return, Throw, EmitExit,
                CleanUp, JerryCleanup, Done, vars, historyVars
  <1> DEFINE s == timeoutObj[h]
  <1>4. s # None /\ callback[s] = "set" /\ fired' = [fired EXCEPT ![s] = @ + 1]
    BY <1>2, <1>3 DEF Fire
  <1>5. s = t BY <1>1, <1>4
  <1>6. running # t BY <1>3, TimersAssumption DEF Fire
  <1> QED BY <1>1, <1>4, <1>5, <1>6 DEF IInv, CallbackInv, CallbackState

\* No callback runs after clearTimeout, clearInterval or unref(), and a one-shot
\* callback that returned never runs again (FiresOnlyWhenDue)
THEOREM FiresWhenDue == Spec => FiresOnlyWhenDue
  <1> DEFINE Due ==
        \A t \in Timeouts :
            fired'[t] > fired[t] => ~cleared[t] /\ (isrepeat[t] \/ threw[t] \/ fired[t] = 0)
  <1>1. IInv /\ [Next]_vars => [Due]_vars BY FiresDue
  <1> QED BY <1>1, Invariant, PTL DEF Spec, FiresOnlyWhenDue
-----------------------------------------------------------------------------
(* The wraps implement HandleLife *)

\* A step that changes one wrap is a move of its life
LEMMA Moves ==
    ASSUME NEW h \in Handles, NEW to, lifeBar'[h] = to,
           \A g \in Handles \ {h} : handle'[g] = handle[g] /\ wrap'[g] = wrap[g]
    PROVE  Abstract!Move(h, lifeBar[h], to)
  <1>1. \A g \in Handles \ {h} : lifeBar'[g] = lifeBar[g] BY DEF lifeBar
  <1>2. /\ lifeBar = [g \in Handles |-> lifeBar[g]]
        /\ lifeBar' = [g \in Handles |-> lifeBar'[g]]
    BY DEF lifeBar
  <1>3. lifeBar' = [lifeBar EXCEPT ![h] = to] BY <1>1, <1>2
  <1> QED BY <1>3 DEF Abstract!Move

\* iotjs_handlewrap_initialize opens
LEMMA InitializeMoves ==
    ASSUME WrapInv, NEW h \in Handles, Initialize(h) PROVE Abstract!Next
  <1> USE DEF Initialize, Fresh, WrapInv, WrapTypes
  <1>1. lifeBar[h] = "none" /\ lifeBar'[h] = "open" BY DEF lifeBar
  <1>2. \A g \in Handles \ {h} : handle'[g] = handle[g] /\ wrap'[g] = wrap[g] OBVIOUS
  <1>3. Abstract!Move(h, "none", "open") BY <1>1, <1>2, Moves
  <1> QED BY <1>3 DEF Abstract!Next

\* iotjs_handlewrap_close begins to close a handle that is open
LEMMA CloseMoves ==
    ASSUME WrapInv, NEW h \in Handles, Close(h, "release")
    PROVE  [Abstract!Next]_lifeBar
  <1> USE DEF Close, WrapInv, WrapTypes
  <1>1. CASE handle[h] = "open"
    <2>1. lifeBar[h] = "open" /\ lifeBar'[h] = "closing" BY <1>1 DEF lifeBar, WrapSafe
    <2>2. \A g \in Handles \ {h} : handle'[g] = handle[g] /\ wrap'[g] = wrap[g] OBVIOUS
    <2>3. Abstract!Move(h, "open", "closing") BY <2>1, <2>2, Moves
    <2> QED BY <2>3 DEF Abstract!Next
  <1>2. CASE handle[h] # "open"
    <2>1. lifeBar' = lifeBar BY <1>2 DEF lifeBar
    <2> QED BY <2>1
  <1> QED BY <1>1, <1>2

\* iotjs_handlewrap_on_close closes
LEMMA OnCloseMoves ==
    ASSUME WrapInv, NEW h \in Handles, OnClose(h) PROVE Abstract!Next
  <1> USE DEF OnClose, WrapInv, WrapTypes
  <1>1. lifeBar[h] = "closing" /\ lifeBar'[h] = "closed" BY DEF lifeBar, WrapSafe
  <1>2. \A g \in Handles \ {h} : handle'[g] = handle[g] /\ wrap'[g] = wrap[g] OBVIOUS
  <1>3. Abstract!Move(h, "closing", "closed") BY <1>1, <1>2, Moves
  <1> QED BY <1>3 DEF Abstract!Next

\* iotjs_handlewrap_destroy: the reference that is gone says that the handle is closed,
\* which is what the function asserts
LEMMA DestroyMoves ==
    ASSUME WrapInv, NEW h \in Handles, Destroy(h) PROVE Abstract!Next
  <1>0. handle[h] = "null" BY DestroyKeeps
  <1> USE DEF Destroy, WrapInv, WrapTypes
  <1>1. lifeBar[h] = "closed" /\ lifeBar'[h] = "destroyed" BY <1>0 DEF lifeBar
  <1>2. \A g \in Handles \ {h} : handle'[g] = handle[g] /\ wrap'[g] = wrap[g] OBVIOUS
  <1>3. Abstract!Move(h, "closed", "destroyed") BY <1>1, <1>2, Moves
  <1> QED BY <1>3 DEF Abstract!Next

\* The walk of the queue closes every open handle, and no other
LEMMA CloseQueueMoves ==
    ASSUME WrapInv, CloseQueue PROVE Abstract!Next
  <1>1. Abstract!CloseAll
    BY DEF CloseQueue, Abstract!CloseAll, lifeBar, WrapInv, WrapTypes, WrapSafe, WrapLife
  <1> QED BY <1>1 DEF Abstract!Next

\* jerry_cleanup destroys what is closed, when nothing is open or closing
LEMMA DestroyLeftMoves ==
    ASSUME WrapInv, DestroyLeft, \A h \in Handles : handle[h] \notin {"open", "closing"}
    PROVE  Abstract!Next
  <1>1. Abstract!DestroyAll
    BY DEF DestroyLeft, Abstract!DestroyAll, lifeBar, WrapInv, WrapTypes, WrapLife
  <1> QED BY <1>1 DEF Abstract!Next

\* unref() closes or does nothing
LEMMA DoUnrefMoves ==
    ASSUME IInv, NEW t \in Timeouts, DoUnref(t) PROVE [Abstract!Next]_lifeBar
  <1>1. CASE handler[t] = None BY <1>1 DEF DoUnref, wrapVars, lifeBar
  <1>2. CASE handler[t] # None
    <2>1. handler[t] \in Handles BY <1>2 DEF IInv, TimerInv, TimerTypes
    <2>2. Close(handler[t], "release") BY <1>2 DEF DoUnref, StopTimer
    <2> QED BY <2>1, <2>2, CloseMoves DEF IInv
  <1> QED BY <1>1, <1>2

\* Every step of the program is a step of HandleLife or changes no life
LEMMA LifeStep == IInv /\ [Next]_vars => [Abstract!Next]_lifeBar
  <1> SUFFICES ASSUME IInv, [Next]_vars PROVE [Abstract!Next]_lifeBar OBVIOUS
  <1>1. ASSUME UNCHANGED wrapVars PROVE UNCHANGED lifeBar BY <1>1 DEF wrapVars, lifeBar
  <1>2. ASSUME NEW t \in Timeouts, NEW h \in Handles,
               Ref(t, h) \/ \E repeat \in BOOLEAN : SetTimer(t, repeat, h)
        PROVE  Abstract!Next
    <2>1. Initialize(h) BY <1>2 DEF SetTimer, Ref, DoRef, NewTimer
    <2> QED BY <2>1, InitializeMoves DEF IInv
  <1>3. ASSUME NEW t \in Timeouts, Clear(t) \/ Unref(t) PROVE [Abstract!Next]_lifeBar
    BY <1>3, DoUnrefMoves DEF Clear, Unref
  <1>4. ASSUME NEW h \in Handles, Fire(h) PROVE UNCHANGED lifeBar BY <1>1, <1>4 DEF Fire
  <1>5. ASSUME NEW h \in Handles, CloseDone(h) PROVE Abstract!Next
    BY <1>5, OnCloseMoves DEF CloseDone, IInv
  <1>6. ASSUME NEW h \in Handles, Collect(h) PROVE Abstract!Next
    BY <1>6, DestroyMoves DEF Collect, IInv
  <1>7. ASSUME Return PROVE [Abstract!Next]_lifeBar
    <2>1. running \in Timeouts BY <1>7 DEF Return, IInv, CallbackInv, CallbackTypes
    <2>2. CASE isrepeat[running] BY <1>1, <1>7, <2>2 DEF Return
    <2>3. CASE ~isrepeat[running] BY <1>7, <2>1, <2>3, DoUnrefMoves DEF Return
    <2> QED BY <2>2, <2>3
  <1>8. ASSUME Throw \/ EmitExit \/ Done \/ UNCHANGED vars PROVE UNCHANGED lifeBar
    BY <1>1, <1>8 DEF Throw, EmitExit, Done, vars
  <1>9. ASSUME CleanUp PROVE Abstract!Next BY <1>9, CloseQueueMoves DEF CleanUp, IInv
  <1>10. ASSUME JerryCleanup PROVE Abstract!Next
    <2>1. \A h \in Handles : handle[h] \notin {"open", "closing"}
      BY <1>10 DEF JerryCleanup, IInv, ClosedAtExit, InJS
    <2> QED BY <1>10, <2>1, DestroyLeftMoves DEF JerryCleanup, IInv
  <1> QED BY <1>2, <1>3, <1>4, <1>5, <1>6, <1>7, <1>8, <1>9, <1>10 DEF Next

\* The wraps implement HandleLife: none is destroyed before it is closed, closed twice,
\* reopened, or forgotten at exit (FollowsHandleLife)
THEOREM Implements == Spec => FollowsHandleLife
  <1>1. Init => Abstract!Init BY DEF Init, WrapInit, Abstract!Init, lifeBar
  <1> QED BY <1>1, LifeStep, Invariant, PTL DEF Spec, FollowsHandleLife, Abstract!Spec
=============================================================================
