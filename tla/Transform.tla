------------------------------ MODULE Transform -------------------------------
(***************************************************************************)
(* Stream.Transform (src/src/js/stream_transform.js), a Duplex whose       *)
(* _write transforms the chunk and pushes the result to its readable side. *)
(* _transform is the user's; it calls back once, at once or later.  There  *)
(* is no _flush.                                                           *)
(***************************************************************************)
EXTENDS Writable

CONSTANTS MaxPushes, MaxEofs

VARIABLES
    rBuffer, flowing, rEnded, endEmitted, calls, listening, pushed, consumed,
    emitted, unseen, ends, eofs,
    transforming,  \* _transformState.transforming
    writecb        \* _transformState.writecb is set

Out == INSTANCE Readable WITH buffer <- rBuffer, ended <- rEnded

outVars == <<rBuffer, flowing, rEnded, endEmitted, calls, listening, pushed, consumed,
             emitted, unseen, ends, eofs>>
vars == <<writableVars, outVars, transforming, writecb>>

Init ==
    /\ WritableInit
    /\ Out!ReadableInit
    /\ transforming = FALSE
    /\ writecb = FALSE

\* Transform.prototype._write and _read, when the writable side hands a chunk
\* down in this step: needReadable is always TRUE, so _write always calls _read
TakeChunk ==
    IF written' # written
    THEN transforming' = TRUE /\ writecb' = TRUE
    ELSE UNCHANGED <<transforming, writecb>>

\* onfinish and done, in the step that emits 'finish'
OnFinish ==
    IF finished' # finished /\ length' = 0 /\ ~transforming'
    THEN Out!PushNull
    ELSE UNCHANGED outVars

\* A method of the writable side
InWritable(A) == A /\ TakeChunk /\ OnFinish

\* afterTransform with data: the chunk is pushed and the callback of write() is
\* called; onwrite, the fourth argument of _write, is not
AfterTransform ==
    /\ transforming
    /\ writecb
    /\ Out!Push
    /\ transforming' = FALSE
    /\ writecb' = FALSE
    /\ UNCHANGED writableVars

InReadable(A) == A /\ UNCHANGED <<writableVars, transforming, writecb>>

Next ==
    \/ \E s \in Sizes : InWritable(Write(s))
    \/ InWritable(WriteReturns)
    \/ InWritable(End)
    \/ InWritable(FinishTick)
    \/ InWritable(ReadyToWrite)
    \/ AfterTransform
    \/ InReadable(Out!OnData)
    \/ InReadable(Out!OnEof)
    \/ InReadable(Out!DataReturns)

\* The transform calls back, calls return, ticks run, and the stream is made
\* ready
Spec ==
    /\ Init /\ [][Next]_vars
    /\ WF_vars(AfterTransform)
    /\ WF_vars(InWritable(WriteReturns))
    /\ WF_vars(InWritable(FinishTick))
    /\ WF_vars(InWritable(ReadyToWrite))
    /\ WF_vars(InReadable(Out!OnEof))
    /\ WF_vars(InReadable(Out!DataReturns))

\* docs/api/Stream.md on 'finish': "Emitted after writable.end() has been called
\* and all pending data has been flushed."
TransformFinishes == ending ~> finished = 1
=============================================================================
