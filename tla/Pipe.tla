--------------------------------- MODULE Pipe ---------------------------------
(***************************************************************************)
(* readable.pipe(writable) (src/src/js/stream_readable.js): a Readable     *)
(* source and a Writable destination.  The script may use both directly as *)
(* well.  ondata is taken to be the first listener of 'data', and 'error'  *)
(* to have a listener, so that a late write does not throw.                *)
(***************************************************************************)
EXTENDS Writable

CONSTANTS
    MaxPushes, MaxEofs,  \* bounds of the source
    MaxScriptWrites      \* bound: writes of the script itself

ASSUME PipeAssumption ==
    /\ MaxPushes \in Nat /\ MaxEofs \in Nat /\ MaxScriptWrites \in Nat
    /\ 1..MaxPushes \subseteq Sizes
    /\ MaxWrites >= MaxPushes + MaxScriptWrites

VARIABLES
    rBuffer, flowing, rEnded, endEmitted, calls, listening, pushed, consumed,
    emitted, unseen, ends, eofs,
    piped,         \* ondata listens to 'data'
    pipeCall,      \* position in calls of the emitData that pipe() waits for, or 0
    onend,         \* onend listens to 'end'
    scriptWrites   \* number of writes of the script

Source == INSTANCE Readable WITH buffer <- rBuffer, ended <- rEnded

srcVars == <<rBuffer, flowing, rEnded, endEmitted, calls, listening, pushed, consumed,
             emitted, unseen, ends, eofs>>
vars == <<writableVars, srcVars, piped, pipeCall, onend, scriptWrites>>

Init ==
    /\ WritableInit
    /\ Source!ReadableInit
    /\ piped = FALSE /\ pipeCall = 0 /\ onend = FALSE
    /\ scriptWrites = 0

\* What ondata and onend do in the step of the source that emits their event
Forward(listens) ==
    IF emitted' # emitted /\ listens
    THEN Write(Len(consumed') - Len(consumed))
    ELSE IF ends' # ends /\ onend
         THEN End
         ELSE UNCHANGED writableVars

\* The end of pipe(): onend is registered.  After 'end' pipe() throws instead,
\* for its call of nextTick is misspelt.
AddOnend ==
    /\ pipeCall' = 0
    /\ onend' = ~endEmitted'

\* src.pipe(dest), up to the emission of what was buffered, if anything was
PipeTo ==
    /\ ~piped
    /\ piped' = TRUE
    /\ Source!OnData
    /\ Forward(TRUE)
    /\ IF calls' # calls
       THEN pipeCall' = Len(calls') /\ UNCHANGED onend
       ELSE AddOnend
    /\ UNCHANGED scriptWrites

\* A step of the source; ondata and onend run in it, and pipe() goes on when
\* the emission it waits for returns
InSource(A) ==
    /\ A
    /\ Forward(piped)
    /\ IF pipeCall > 0 /\ Len(calls') < pipeCall
       THEN AddOnend
       ELSE UNCHANGED <<pipeCall, onend>>
    /\ UNCHANGED <<piped, scriptWrites>>

\* A step of the concrete destination or of the script on the destination, in a
\* callback of its own or in a listener
InDestination(A) ==
    A /\ UNCHANGED <<srcVars, piped, pipeCall, onend, scriptWrites>>

ScriptWrite(s) ==
    /\ scriptWrites < MaxScriptWrites
    /\ scriptWrites' = scriptWrites + 1
    /\ Write(s)
    /\ UNCHANGED <<srcVars, piped, pipeCall, onend>>

\* Ticks run outside of all calls
Tick == calls = << >> /\ FinishTick

Next ==
    \/ PipeTo
    \/ InSource(Source!ReadableNext)
    \/ \E s \in Sizes : ScriptWrite(s)
    \/ InDestination(End)
    \/ InDestination(WriteReturns)
    \/ InDestination(Tick)
    \/ InDestination(ReadyToWrite)
    \/ InDestination(OnWrite)

\* Calls return, ticks run, and the concrete destination becomes ready and is
\* done with every chunk in the end
Fairness ==
    /\ WF_vars(InSource(Source!OnEof))
    /\ WF_vars(InSource(Source!DataReturns))
    /\ WF_vars(InDestination(WriteReturns))
    /\ WF_vars(InDestination(Tick))
    /\ WF_vars(InDestination(ReadyToWrite))
    /\ WF_vars(InDestination(OnWrite))

Spec == Init /\ [][Next]_vars /\ Fairness

-----------------------------------------------------------------------------
(* Properties *)

\* The source keeps what Readable promises although ondata, onend and whatever the
\* destination calls run inside its emitData: every unit is consumed once and in
\* order, nothing stays buffered while it flows, and one 'end' follows the last unit
SourceInOrder == Source!ReadInOrder /\ Source!FlowingIsEmpty /\ Source!EndIsLast

\* Once the source is piped and meets its end, the destination finishes, though
\* the consumer may have paused the source and the destination may have told
\* its writer to stop.
PipeFinishes == (onend /\ eofs > 0) ~> (finished = 1)
=============================================================================
