------------------------------- MODULE Readable -------------------------------
(***************************************************************************)
(* Stream.Readable (src/src/js/stream_readable.js).  The concrete stream   *)
(* pushes; the consumer reads, pauses and resumes.  A listener of 'data'   *)
(* runs inside emitData and may call any of the methods again: calls holds *)
(* the calls of emitData and onEof that have not returned.  The data are   *)
(* a sequence of units, numbered as they are pushed.                       *)
(***************************************************************************)
EXTENDS Naturals, Sequences, SequencesExt

CONSTANTS
    MaxPushes,  \* bound: units pushed
    MaxEofs     \* bound: calls of push(null)

VARIABLES
    \* ReadableState; length is Len(buffer)
    buffer, flowing, ended, endEmitted,
    calls,      \* calls in progress, the innermost last
    listening,  \* 'data' has a listener
    \* history
    pushed,     \* number of units pushed
    consumed,   \* units emitted with 'data' or returned by read()
    emitted,    \* number of 'data' events
    unseen,     \* units emitted by onEof's own resume, without a listener
    ends,       \* number of 'end' events
    eofs        \* number of calls of push(null)

readableVars == <<buffer, flowing, ended, endEmitted, calls, listening, pushed,
                  consumed, emitted, unseen, ends, eofs>>

ReadableInit ==
    /\ buffer = << >> /\ flowing = FALSE /\ ended = FALSE /\ endEmitted = FALSE
    /\ calls = << >> /\ listening = FALSE
    /\ pushed = 0 /\ consumed = << >> /\ emitted = 0 /\ unseen = 0
    /\ ends = 0 /\ eofs = 0

-----------------------------------------------------------------------------
(* The helpers *)

Innermost == IF calls = << >> THEN "none" ELSE Last(calls)

\* JavaScript other than this module's runs outside of all calls, and in the
\* listeners of 'data'
InUserCode == Innermost # "onEof"

\* Mutant: the rest of the buffer is dropped
ReadBuffer_DropsRest(n) ==
    /\ consumed' = consumed \o SubSeq(buffer, 1, n)
    /\ buffer' = << >>

\* readBuffer: the first n units leave the buffer
ReadBuffer(n) ==
    /\ consumed' = consumed \o SubSeq(buffer, 1, n)
    /\ buffer' = SubSeq(buffer, n + 1, Len(buffer))

\* emitData up to the call of the listeners.  It asserts that nothing is left in
\* the buffer: see FlowingIsEmpty.
EmitData ==
    /\ emitted' = emitted + 1
    /\ calls' = Append(calls, "emitData")

\* emitEnd up to the call of the listeners
EmitEnd ==
    /\ endEmitted' = TRUE
    /\ ends' = IF endEmitted THEN ends ELSE ends + 1

\* Mutant: what is buffered waits for the next push
DoResume_KeepsBuffer ==
    /\ flowing' = TRUE
    /\ UNCHANGED <<buffer, consumed, emitted, calls>>

\* resume
DoResume ==
    IF ~flowing /\ buffer # << >>
    THEN /\ flowing' = TRUE
         /\ ReadBuffer(Len(buffer))
         /\ EmitData
    ELSE /\ flowing' = TRUE
         /\ UNCHANGED <<buffer, consumed, emitted, calls>>

-----------------------------------------------------------------------------
(* The methods *)

\* push of a chunk; after EOF it only emits 'error'
Push ==
    /\ InUserCode
    /\ ~ended
    /\ pushed < MaxPushes
    /\ pushed' = pushed + 1
    /\ IF flowing
       THEN /\ consumed' = Append(consumed, pushed + 1)
            /\ EmitData
            /\ UNCHANGED buffer
       ELSE /\ buffer' = Append(buffer, pushed + 1)
            /\ UNCHANGED <<consumed, emitted, calls>>
    /\ UNCHANGED <<flowing, ended, endEmitted, listening, unseen, ends, eofs>>

\* push(null), also from destroy(): enters onEof
PushNull ==
    /\ InUserCode
    /\ eofs < MaxEofs
    /\ eofs' = eofs + 1
    /\ calls' = Append(calls, "onEof")
    /\ UNCHANGED <<buffer, flowing, ended, endEmitted, listening, pushed, consumed,
                   emitted, unseen, ends>>

\* One iteration of the loop of onEof, or what follows it
OnEof ==
    /\ Innermost = "onEof"
    /\ IF buffer # << >>
       THEN /\ DoResume
            /\ unseen' = unseen + (IF listening THEN 0 ELSE Len(buffer))
            /\ UNCHANGED <<ended, endEmitted, ends>>
       ELSE /\ ended' = TRUE
            /\ EmitEnd
            /\ calls' = Front(calls)
            /\ UNCHANGED <<buffer, flowing, consumed, emitted, unseen>>
    /\ UNCHANGED <<listening, pushed, eofs>>

\* The listeners of 'data' have returned to emitData
DataReturns ==
    /\ Innermost = "emitData"
    /\ calls' = Front(calls)
    /\ IF ended /\ buffer = << >> THEN EmitEnd ELSE UNCHANGED <<endEmitted, ends>>
    /\ UNCHANGED <<buffer, flowing, ended, listening, pushed, consumed, emitted,
                   unseen, eofs>>

\* read(n), and read() with the largest n
Read(n) ==
    /\ InUserCode
    /\ ReadBuffer(IF n > Len(buffer) THEN Len(buffer) ELSE n)
    /\ IF ended /\ buffer' = << >> THEN EmitEnd ELSE UNCHANGED <<endEmitted, ends>>
    /\ UNCHANGED <<flowing, ended, calls, listening, pushed, emitted, unseen, eofs>>

Pause ==
    /\ InUserCode
    /\ flowing' = FALSE
    /\ UNCHANGED <<buffer, ended, endEmitted, calls, listening, pushed, consumed,
                   emitted, unseen, ends, eofs>>

Resume ==
    /\ InUserCode
    /\ DoResume
    /\ UNCHANGED <<ended, endEmitted, listening, pushed, unseen, ends, eofs>>

\* on('data', listener)
OnData ==
    /\ InUserCode
    /\ listening' = TRUE
    /\ DoResume
    /\ UNCHANGED <<ended, endEmitted, pushed, unseen, ends, eofs>>

ReadableNext ==
    \/ Push
    \/ PushNull
    \/ OnEof
    \/ DataReturns
    \/ \E n \in 1..MaxPushes : Read(n)
    \/ Pause
    \/ Resume
    \/ OnData

\* Calls return
ReadableSpec ==
    ReadableInit /\ [][ReadableNext]_readableVars /\ WF_readableVars(OnEof \/ DataReturns)

-----------------------------------------------------------------------------
(* Properties *)

\* Every unit is consumed once and in the order of the pushes, by whatever mix
\* of flowing, pausing and reading, and from listeners too.
ReadInOrder == consumed \o buffer = [n \in 1..pushed |-> n]

\* The buffer of a flowing stream is empty: the assertion of emitData holds
\* (it would throw the data away), and the loop of onEof makes progress.
FlowingIsEmpty == flowing => buffer = << >>

\* 'end' comes once, after the last unit, and nothing is pushed or emitted
\* after it.
EndIsLast ==
    /\ ends <= 1
    /\ ended <=> ends = 1
    /\ ended => Len(consumed) = pushed

\* docs/api/Stream.md on 'end': "Emitted when there is no more data to be
\* consumed from the stream."  Here: every unit was returned by read() or given
\* to a listener, unless the consumer itself resumed the stream.
EndWhenConsumed == ends > 0 => unseen = 0
=============================================================================
