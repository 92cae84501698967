------------------------------- MODULE Writable -------------------------------
(***************************************************************************)
(* Stream.Writable (src/src/js/stream_writable.js).  The concrete stream   *)
(* (a socket, a file) is the environment: its _write keeps the chunk and   *)
(* calls onwrite once, before it returns or later.  User code may run      *)
(* wherever the stream calls out: in the listeners of 'drain', 'finish'    *)
(* and 'error' and inside _write.                                          *)
(***************************************************************************)
EXTENDS Integers, Sequences, SequencesExt, Sums

CONSTANTS
    HighWaterMark,
    Sizes,      \* lengths of the chunks
    MaxWrites   \* bound: calls of write()

ASSUME WritableAssumption ==
    /\ HighWaterMark \in Nat
    /\ Sizes \subseteq Nat
    /\ MaxWrites \in Nat

VARIABLES
    \* WritableState
    buffer,        \* the WriteReqs: numbers of writes, in order
    length, ready, writing, writingLength, needDrain, ending, ended,
    \* control
    inWrite,       \* calls of writeOrBuffer that are inside _write
    finishTick,    \* emitFinish is queued with process.nextTick
    \* history
    size,          \* size[n] is the length of the chunk of the nth write
    written,       \* chunks handed to _write
    flushed,       \* number of chunks the concrete stream is done with
    finished,      \* number of 'finish' events
    stopped,       \* write() returned false and no 'drain' came since
    lateWrite      \* write() was called after end()

bufferVars == <<buffer, length, writing, writingLength, written>>
writableVars == <<bufferVars, ready, needDrain, ending, ended, inWrite, finishTick,
                  size, flushed, finished, stopped, lateWrite>>

WritableInit ==
    /\ buffer = << >> /\ length = 0
    /\ ready = FALSE /\ writing = FALSE /\ writingLength = 0
    /\ needDrain = FALSE /\ ending = FALSE /\ ended = FALSE
    /\ inWrite = 0 /\ finishTick = FALSE
    /\ size = << >> /\ written = << >> /\ flushed = 0 /\ finished = 0
    /\ stopped = FALSE /\ lateWrite = FALSE

-----------------------------------------------------------------------------
(* The helpers of stream_writable.js, each on the variables it assigns *)

\* emitFinish
EmitFinish ==
    /\ ended' = TRUE
    /\ finished' = IF ended THEN finished ELSE finished + 1

\* emitDrain
EmitDrain ==
    /\ needDrain' = FALSE
    /\ stopped' = (stopped /\ ~needDrain)

\* onEmptyBuffer
OnEmptyBuffer ==
    IF ending
    THEN EmitFinish /\ UNCHANGED <<needDrain, stopped>>
    ELSE EmitDrain /\ UNCHANGED <<ended, finished>>

\* doWrite: only called when nothing is being written
DoWrite(n, len) ==
    /\ writing' = TRUE
    /\ writingLength' = len
    /\ written' = Append(written, n)

\* Mutant: buffered chunks are taken from the wrong end
WriteBuffered_LastFirst ==
    IF buffer = << >>
    THEN /\ writing' = FALSE
         /\ writingLength' = 0
         /\ OnEmptyBuffer
         /\ UNCHANGED <<buffer, written>>
    ELSE /\ buffer' = Front(buffer)
         /\ DoWrite(Last(buffer), size[Last(buffer)])
         /\ UNCHANGED <<needDrain, stopped, ended, finished>>

\* Mutant: no 'drain'
WriteBuffered_NoDrain ==
    IF buffer = << >>
    THEN /\ writing' = FALSE
         /\ writingLength' = 0
         /\ IF ending THEN EmitFinish ELSE UNCHANGED <<ended, finished>>
         /\ UNCHANGED <<buffer, written, needDrain, stopped>>
    ELSE /\ buffer' = Tail(buffer)
         /\ DoWrite(Head(buffer), size[Head(buffer)])
         /\ UNCHANGED <<needDrain, stopped, ended, finished>>

\* writeBuffered when nothing is being written
WriteBuffered ==
    IF buffer = << >>
    THEN /\ writing' = FALSE
         /\ writingLength' = 0
         /\ OnEmptyBuffer
         /\ UNCHANGED <<buffer, written>>
    ELSE /\ buffer' = Tail(buffer)
         /\ DoWrite(Head(buffer), size[Head(buffer)])
         /\ UNCHANGED <<needDrain, stopped, ended, finished>>

\* The end of writeOrBuffer, with the stream holding len bytes
CheckHighWaterMark(len) ==
    /\ needDrain' = (needDrain \/ len >= HighWaterMark)
    /\ stopped' = (stopped \/ needDrain')

\* The condition of writeOrBuffer
MustBuffer == ~ready \/ writing \/ buffer # << >>

-----------------------------------------------------------------------------
(* The methods *)

\* writeOrBuffer, up to the call of _write
WriteOrBuffer(s) ==
    /\ Len(size) < MaxWrites
    /\ size' = Append(size, s)
    /\ length' = length + s
    /\ LET n == Len(size) + 1
       IN  IF MustBuffer
           THEN /\ buffer' = Append(buffer, n)
                /\ CheckHighWaterMark(length + s)
                /\ UNCHANGED <<writing, writingLength, written, inWrite>>
           ELSE /\ DoWrite(n, s)
                /\ inWrite' = inWrite + 1
                /\ UNCHANGED <<buffer, needDrain, stopped>>

\* write: a write after the end only emits 'error' (and queues its callback)
Write(s) ==
    IF ended
    THEN UNCHANGED writableVars
    ELSE /\ WriteOrBuffer(s)
         /\ lateWrite' = (lateWrite \/ ending)
         /\ UNCHANGED <<ready, ending, ended, finishTick, flushed, finished>>

\* _write returns to writeOrBuffer
WriteReturns ==
    /\ inWrite > 0
    /\ inWrite' = inWrite - 1
    /\ CheckHighWaterMark(length)
    /\ UNCHANGED <<bufferVars, ready, ending, ended, finishTick, size, flushed,
                   finished, lateWrite>>

\* Mutant: the callback's event is queued although a chunk is on its way
End_IgnoresWriting ==
    /\ IF ending
       THEN UNCHANGED <<ending, finishTick>>
       ELSE /\ ending' = TRUE
            /\ finishTick' = (buffer = << >>)
    /\ UNCHANGED <<bufferVars, ready, needDrain, ended, inWrite, size, flushed,
                   finished, stopped, lateWrite>>

\* endWritable: with nothing left, emitFinish is queued
EndWritable ==
    /\ ending' = TRUE
    /\ finishTick' = (~writing /\ buffer = << >>)

\* end without a chunk; with one it is Write, then End
End ==
    /\ IF ending THEN UNCHANGED <<ending, finishTick>> ELSE EndWritable
    /\ UNCHANGED <<bufferVars, ready, needDrain, ended, inWrite, size, flushed,
                   finished, stopped, lateWrite>>

\* The tick that end queued
FinishTick ==
    /\ finishTick
    /\ inWrite = 0
    /\ finishTick' = FALSE
    /\ EmitFinish
    /\ UNCHANGED <<bufferVars, ready, needDrain, ending, inWrite, size, flushed,
                   stopped, lateWrite>>

\* _readyToWrite, by the concrete stream
ReadyToWrite ==
    /\ ready' = TRUE
    /\ IF writing
       THEN UNCHANGED <<buffer, writing, writingLength, written, needDrain, stopped,
                        ended, finished>>
       ELSE WriteBuffered
    /\ UNCHANGED <<length, ending, inWrite, finishTick, size, flushed, lateWrite>>

\* _onwrite, by the concrete stream, once for each _write
OnWrite ==
    /\ writing
    /\ length' = length - writingLength
    /\ flushed' = flushed + 1
    /\ WriteBuffered
    /\ UNCHANGED <<ready, ending, inWrite, finishTick, size, lateWrite>>

WritableNext ==
    \/ \E s \in Sizes : Write(s)
    \/ WriteReturns
    \/ End
    \/ FinishTick
    \/ ReadyToWrite
    \/ OnWrite

\* The concrete stream becomes ready and is done with every chunk in the end;
\* _write returns and ticks run
WritableFairness ==
    /\ WF_writableVars(WriteReturns)
    /\ WF_writableVars(FinishTick)
    /\ WF_writableVars(ReadyToWrite)
    /\ WF_writableVars(OnWrite)

WritableSpec == WritableInit /\ [][WritableNext]_writableVars /\ WritableFairness

-----------------------------------------------------------------------------
(* Properties *)

\* Every chunk that write() accepted is handed to _write once, in the order of
\* the calls, and one at a time, though _write may call onwrite, and a listener
\* of 'drain' may call write(), before the write() that led there returns.
WrittenInOrder ==
    /\ written \o buffer = [n \in 1..Len(size) |-> n]
    /\ flushed = Len(written) - (IF writing THEN 1 ELSE 0)

\* A writer that was told to stop is not forgotten.  length, by which write() tells
\* it, is what has been accepted and not flushed, and as long as the writer waits
\* there is a chunk whose flush leads to 'drain', or end() was called.  (With a
\* highWaterMark of 0, write() returns false with nothing to wait for.)
DrainIsDue ==
    /\ length = SumOf(size) - Totals(size)[flushed]
    /\ HighWaterMark > 0 /\ stopped
           => ending \/ (needDrain /\ (writing \/ buffer # << >>))

\* 'finish' comes once, after end(), and after everything was flushed, unless
\* the script wrote after end().
FinishIsLast ==
    /\ finished <= 1
    /\ finished = 1 => ending /\ (lateWrite \/ flushed = Len(size))

=============================================================================
