------------------------------ MODULE PipeProofs ------------------------------
(***************************************************************************)
(* The order of the writes, the place of 'finish' and the 'drain' that a   *)
(* writer waits for in Writable, for any high water mark, any chunk        *)
(* lengths and any number of writes; then the order of the data through    *)
(* pipe(): the source keeps what Readable promises and the destination     *)
(* what Writable promises, for any number of units, of calls of push(null) *)
(* and of writes by the script itself.                                     *)
(***************************************************************************)
EXTENDS Pipe, SequenceTheorems, TLAPS

\* 'finish' and what is known before it: a queued or emitted 'finish' follows
\* end(), and nothing is under way unless the script wrote after end().
FinishState ==
    /\ finished = IF ended THEN 1 ELSE 0
    /\ ended \/ finishTick => ending
    /\ lateWrite \/ (ended \/ finishTick => ~writing /\ buffer = << >>)

DataTypes ==
    /\ buffer \in Seq(Nat) /\ written \in Seq(Nat)
    /\ size \in Seq(Sizes)
    /\ flushed \in Int

FlagTypes ==
    /\ writing \in BOOLEAN /\ ending \in BOOLEAN /\ ended \in BOOLEAN
    /\ finishTick \in BOOLEAN /\ lateWrite \in BOOLEAN

Types == DataTypes /\ FlagTypes

\* The inductive invariant
IInv == Types /\ WrittenInOrder /\ FinishState

\* Numbering n + 1 things is numbering n of them and one more.
LEMMA UptoSucc ==
    ASSUME NEW n \in Nat
    PROVE  Append([i \in 1..n |-> i], n + 1) = [i \in 1..(n + 1) |-> i]
  OBVIOUS

\* A chunk that is buffered, or handed down with nothing buffered, is the last.
LEMMA AppendLast ==
    ASSUME NEW w \in Seq(Nat), NEW b \in Seq(Nat), NEW n \in Nat
    PROVE  w \o Append(b, n) = Append(w \o b, n)
  OBVIOUS

\* Handing down the head of the buffer changes nothing of the order.
LEMMA MoveHead ==
    ASSUME NEW w \in Seq(Nat), NEW b \in Seq(Nat), b # << >>
    PROVE  /\ Append(w, Head(b)) \o Tail(b) = w \o b
           /\ Append(w, Head(b)) \in Seq(Nat)
           /\ Tail(b) \in Seq(Nat)
           /\ Len(Append(w, Head(b))) = Len(w) + 1
  OBVIOUS

\* A new stream satisfies the invariant
LEMMA InitIInv == WritableInit => IInv
  <1> SUFFICES ASSUME WritableInit PROVE IInv OBVIOUS
  <1> USE DEF WritableInit
  <1>1. << >> \in Seq(Nat) /\ << >> \in Seq(Sizes) OBVIOUS
  <1>2. Types
    <2>a. DataTypes BY <1>1 DEF DataTypes
    <2>b. FlagTypes BY DEF FlagTypes
    <2> QED BY <2>a, <2>b DEF Types
  <1>3. WrittenInOrder
    <2>1. << >> \o << >> = << >> OBVIOUS
    <2>2. [n \in 1..Len(<< >>) |-> n] = << >> OBVIOUS
    <2>3. written \o buffer = << >> BY <2>1
    <2>4. [n \in 1..Len(size) |-> n] = << >> BY <2>2
    <2> QED BY <2>3, <2>4 DEF WrittenInOrder
  <1>4. FinishState BY DEF FinishState
  <1> QED BY <1>2, <1>3, <1>4 DEF IInv

\* write() accepts one more chunk: it is buffered behind the others, or handed
\* down when there are none.
LEMMA WritePreserves ==
    ASSUME IInv, NEW s \in Sizes, Write(s)
    PROVE  IInv'
  <1>1. CASE ended
    BY <1>1 DEF Write, writableVars, bufferVars, IInv, Types, DataTypes, FlagTypes,
               WrittenInOrder, FinishState
  <1>2. CASE ~ended
    <2> DEFINE n == Len(size) + 1
               L == Len(size)
    <2>1. /\ WriteOrBuffer(s)
          /\ lateWrite' = (lateWrite \/ ending)
          /\ UNCHANGED <<ready, ending, ended, finishTick, flushed, finished>>
      BY <1>2 DEF Write
    <2>2. /\ buffer \in Seq(Nat) /\ written \in Seq(Nat) /\ size \in Seq(Sizes)
          /\ flushed \in Int /\ writing \in BOOLEAN
      BY DEF IInv, Types, DataTypes, FlagTypes
    <2>3. /\ written \o buffer = [i \in 1..L |-> i]
          /\ flushed = Len(written) - (IF writing THEN 1 ELSE 0)
      BY DEF IInv, WrittenInOrder
    <2>4. size' = Append(size, s) BY <2>1 DEF WriteOrBuffer
    <2>5. size' \in Seq(Sizes) /\ Len(size') = L + 1 BY <2>2, <2>4
    <2>6. L \in Nat /\ n \in Nat BY <2>2
    <2>7. Append([i \in 1..L |-> i], n) = [i \in 1..(L + 1) |-> i] BY <2>6, UptoSucc
    <2>8. FinishState'
      BY <1>2, <2>1 DEF IInv, FinishState
    <2>9. CASE MustBuffer
      <3>1. buffer' = Append(buffer, n) /\ UNCHANGED <<writing, written>>
        BY <2>1, <2>9 DEF WriteOrBuffer
      <3>2. written \o Append(buffer, n) = Append(written \o buffer, n)
        BY <2>2, <2>6, AppendLast
      <3>3. written' \o buffer' = [i \in 1..(L + 1) |-> i] BY <2>3, <2>7, <3>1, <3>2
      <3>4. WrittenInOrder' BY <2>1, <2>3, <2>5, <3>1, <3>3 DEF WrittenInOrder
      <3>5. Types'
        <4>a. DataTypes' BY <2>1, <2>2, <2>5, <2>6, <3>1 DEF IInv, Types, DataTypes
        <4>b. FlagTypes' BY <2>1, <2>2, <2>5, <2>6, <3>1 DEF IInv, Types, FlagTypes
        <4> QED BY <4>a, <4>b DEF Types
      <3> QED BY <2>8, <3>4, <3>5 DEF IInv
    <2>10. CASE ~MustBuffer
      <3>1. /\ writing' = TRUE /\ written' = Append(written, n)
            /\ UNCHANGED buffer
        BY <2>1, <2>10 DEF WriteOrBuffer, DoWrite
      <3>2. ~writing /\ buffer = << >> BY <2>10 DEF MustBuffer
      <3>3. written \o << >> = written /\ Append(written, n) \o << >> = Append(written, n)
        BY <2>2, <2>6
      <3>4. written' \o buffer' = [i \in 1..(L + 1) |-> i]
        BY <2>3, <2>7, <3>1, <3>2, <3>3
      <3>5. Len(written') = Len(written) + 1 /\ Len(written) \in Nat BY <2>2, <2>6, <3>1
      <3>6. flushed' = Len(written') - 1 BY <2>1, <2>3, <3>2, <3>5
      <3>7. WrittenInOrder' BY <2>5, <3>1, <3>4, <3>6 DEF WrittenInOrder
      <3>8. Types'
        <4>a. DataTypes' BY <2>1, <2>2, <2>5, <2>6, <3>1 DEF IInv, Types, DataTypes
        <4>b. FlagTypes' BY <2>1, <2>2, <2>5, <2>6, <3>1 DEF IInv, Types, FlagTypes
        <4> QED BY <4>a, <4>b DEF Types
      <3> QED BY <2>8, <3>7, <3>8 DEF IInv
    <2> QED BY <2>9, <2>10
  <1> QED BY <1>1, <1>2

\* writeBuffered, reached with nothing under way or with the chunk that was just
\* flushed, hands down the next chunk or finishes.
LEMMA WriteBufferedPreserves ==
    ASSUME IInv, WriteBuffered, flushed' = Len(written),
           ended \/ finishTick => lateWrite \/ buffer = << >>,
           UNCHANGED <<size, ending, finishTick, lateWrite>>
    PROVE  IInv'
  <1>1. /\ buffer \in Seq(Nat) /\ written \in Seq(Nat) /\ size \in Seq(Sizes)
        /\ written \o buffer = [i \in 1..Len(size) |-> i]
    BY DEF IInv, Types, DataTypes, WrittenInOrder
  <1>2. Len(written) \in Nat BY <1>1
  <1>3. CASE buffer = << >>
    <2>1. writing' = FALSE /\ UNCHANGED <<buffer, written>> BY <1>3 DEF WriteBuffered
    <2>2. WrittenInOrder' BY <1>1, <1>2, <2>1 DEF WrittenInOrder
    <2>3. CASE ending
      <3>1. ended' = TRUE /\ finished' = IF ended THEN finished ELSE finished + 1
        BY <1>3, <2>3 DEF WriteBuffered, OnEmptyBuffer, EmitFinish
      <3>2. FinishState' BY <1>3, <2>1, <2>3, <3>1 DEF IInv, FinishState
      <3>3. Types'
        <4>a. DataTypes' BY <1>1, <1>2, <2>1, <3>1 DEF IInv, Types, DataTypes
        <4>b. FlagTypes' BY <1>1, <1>2, <2>1, <3>1 DEF IInv, Types, FlagTypes
        <4> QED BY <4>a, <4>b DEF Types
      <3> QED BY <2>2, <3>2, <3>3 DEF IInv
    <2>4. CASE ~ending
      <3>1. UNCHANGED <<ended, finished>> BY <1>3, <2>4 DEF WriteBuffered, OnEmptyBuffer
      <3>2. FinishState' BY <1>3, <2>1, <2>4, <3>1 DEF IInv, FinishState
      <3>3. Types'
        <4>a. DataTypes' BY <1>1, <1>2, <2>1, <3>1 DEF IInv, Types, DataTypes
        <4>b. FlagTypes' BY <1>1, <1>2, <2>1, <3>1 DEF IInv, Types, FlagTypes
        <4> QED BY <4>a, <4>b DEF Types
      <3> QED BY <2>2, <3>2, <3>3 DEF IInv
    <2> QED BY <2>3, <2>4
  <1>4. CASE buffer # << >>
    <2>1. /\ buffer' = Tail(buffer) /\ written' = Append(written, Head(buffer))
          /\ writing' = TRUE
          /\ UNCHANGED <<ended, finished>>
      BY <1>4 DEF WriteBuffered, DoWrite
    <2>2. /\ written' \o buffer' = written \o buffer
          /\ written' \in Seq(Nat) /\ buffer' \in Seq(Nat)
          /\ Len(written') = Len(written) + 1
      BY <1>1, <1>4, <2>1, MoveHead
    <2>3. flushed' = Len(written') - 1 BY <1>2, <2>2
    <2>4. WrittenInOrder' BY <1>1, <2>1, <2>2, <2>3 DEF WrittenInOrder
    <2>5. FinishState' BY <1>4, <2>1 DEF IInv, FinishState
    <2>6. Types'
      <3>a. DataTypes' BY <1>1, <1>2, <2>1, <2>2 DEF IInv, Types, DataTypes
      <3>b. FlagTypes' BY <1>1, <1>2, <2>1, <2>2 DEF IInv, Types, FlagTypes
      <3> QED BY <3>a, <3>b DEF Types
    <2> QED BY <2>4, <2>5, <2>6 DEF IInv
  <1> QED BY <1>3, <1>4

\* _onwrite: the chunk under way is flushed
LEMMA OnWritePreserves ==
    ASSUME IInv, OnWrite PROVE IInv'
  <1>1. written \in Seq(Nat) BY DEF IInv, Types, DataTypes
  <1>2. flushed' = Len(written) BY <1>1 DEF OnWrite, IInv, WrittenInOrder
  <1>3. ended \/ finishTick => lateWrite \/ buffer = << >> BY DEF IInv, FinishState
  <1>4. WriteBuffered /\ UNCHANGED <<size, ending, finishTick, lateWrite>> BY DEF OnWrite
  <1> QED BY <1>2, <1>3, <1>4, WriteBufferedPreserves

\* _readyToWrite: nothing is flushed
LEMMA ReadyToWritePreserves ==
    ASSUME IInv, ReadyToWrite PROVE IInv'
  <1>0. UNCHANGED <<size, ending, finishTick, lateWrite, flushed>> BY DEF ReadyToWrite
  <1>1. CASE writing
    <2>1. UNCHANGED <<buffer, writing, written, ended, finished>> BY <1>1 DEF ReadyToWrite
    <2> QED BY <1>0, <2>1 DEF IInv, Types, DataTypes, FlagTypes, WrittenInOrder, FinishState
  <1>2. CASE ~writing
    <2>1. written \in Seq(Nat) BY DEF IInv, Types, DataTypes
    <2>2. flushed' = Len(written) BY <1>0, <1>2, <2>1 DEF IInv, WrittenInOrder
    <2>3. ended \/ finishTick => lateWrite \/ buffer = << >> BY DEF IInv, FinishState
    <2>4. WriteBuffered BY <1>2 DEF ReadyToWrite
    <2> QED BY <1>0, <2>2, <2>3, <2>4, WriteBufferedPreserves
  <1> QED BY <1>1, <1>2

\* end() queues 'finish' only when nothing is under way, and the tick emits it
LEMMA EndingPreserves ==
    ASSUME IInv, WriteReturns \/ End \/ FinishTick PROVE IInv'
  <1>1. CASE WriteReturns
    BY <1>1 DEF WriteReturns, bufferVars, IInv, Types, DataTypes, FlagTypes, WrittenInOrder, FinishState
  <1>2. CASE End
    <2>1. UNCHANGED <<buffer, writing, written, size, flushed, finished, ended, lateWrite>>
      BY <1>2 DEF End, EndWritable, bufferVars
    <2>2. WrittenInOrder' BY <2>1 DEF IInv, WrittenInOrder
    <2>3. Types'
      <3>a. DataTypes' BY <1>2, <2>1 DEF End, EndWritable, IInv, Types, DataTypes
      <3>b. FlagTypes' BY <1>2, <2>1 DEF End, EndWritable, IInv, Types, FlagTypes
      <3> QED BY <3>a, <3>b DEF Types
    <2>4. FinishState' BY <1>2, <2>1 DEF End, EndWritable, IInv, FinishState, Types, FlagTypes
    <2> QED BY <2>2, <2>3, <2>4 DEF IInv
  <1>3. CASE FinishTick
    <2>1. UNCHANGED <<buffer, writing, written, size, flushed, ending, lateWrite>>
      BY <1>3 DEF FinishTick, bufferVars
    <2>2. WrittenInOrder' BY <2>1 DEF IInv, WrittenInOrder
    <2>3. Types'
      <3>a. DataTypes' BY <1>3, <2>1 DEF FinishTick, EmitFinish, IInv, Types, DataTypes
      <3>b. FlagTypes' BY <1>3, <2>1 DEF FinishTick, EmitFinish, IInv, Types, FlagTypes
      <3> QED BY <3>a, <3>b DEF Types
    <2>4. FinishState' BY <1>3, <2>1 DEF FinishTick, EmitFinish, IInv, FinishState, Types, FlagTypes
    <2> QED BY <2>2, <2>3, <2>4 DEF IInv
  <1> QED BY <1>1, <1>2, <1>3

\* The invariant is inductive: no order of calls by the script and by the
\* concrete stream breaks it.
LEMMA WritableStep == IInv /\ [WritableNext]_writableVars => IInv'
  <1> SUFFICES ASSUME IInv, [WritableNext]_writableVars PROVE IInv' OBVIOUS
  <1>1. CASE UNCHANGED writableVars
    BY <1>1 DEF writableVars, bufferVars, IInv, Types, DataTypes, FlagTypes,
                WrittenInOrder, FinishState
  <1>2. CASE WritableNext
    BY <1>2, WritePreserves, OnWritePreserves, ReadyToWritePreserves, EndingPreserves
       DEF WritableNext
  <1> QED BY <1>1, <1>2

\* The invariant holds in every state of a Writable
THEOREM WritableInvariance == WritableSpec => []IInv
  BY InitIInv, WritableStep, PTL DEF WritableSpec

\* Every chunk is handed to _write once and in order, one at a time
THEOREM OrderCorrect == WritableSpec => []WrittenInOrder
  <1>1. IInv => WrittenInOrder BY DEF IInv
  <1> QED BY <1>1, WritableInvariance, PTL

\* The invariant says where 'finish' comes
LEMMA FinishFollows == IInv => FinishIsLast
  <1> SUFFICES ASSUME IInv PROVE FinishIsLast OBVIOUS
  <1>1. finished = (IF ended THEN 1 ELSE 0) /\ (ended => ending)
    BY DEF IInv, FinishState
  <1>2. ASSUME ended, ~lateWrite PROVE flushed = Len(size)
    <2>1. ~writing /\ buffer = << >> BY <1>2 DEF IInv, FinishState
    <2>2. written \in Seq(Nat) /\ size \in Seq(Sizes) BY DEF IInv, Types, DataTypes
    <2>3. written \o << >> = written BY <2>2
    <2>4. written = [i \in 1..Len(size) |-> i] BY <2>1, <2>3 DEF IInv, WrittenInOrder
    <2>5. Len(written) = Len(size) BY <2>2, <2>4
    <2> QED BY <2>1, <2>2, <2>5 DEF IInv, WrittenInOrder
  <1> QED BY <1>1, <1>2 DEF FinishIsLast

\* 'finish' comes once, after end() and after the last flush, unless the script
\* wrote after end()
THEOREM FinishCorrect == WritableSpec => []FinishIsLast
  BY FinishFollows, WritableInvariance, PTL

-----------------------------------------------------------------------------
(* The end of a wait for 'drain' *)

DrainTypes ==
    /\ length \in Int /\ needDrain \in BOOLEAN /\ stopped \in BOOLEAN

\* What length counts, and the length of the chunk that is being written: what the
\* flush of that chunk takes off length is what write() added for it
LengthState ==
    /\ length = Totals(size)[Len(size)] - Totals(size)[flushed]
    /\ writingLength = IF writing THEN size[Len(written)] ELSE 0
    /\ writing => written # << >>

\* A writer waits only when 'drain' is to come, and 'drain' is to come only while
\* there is a chunk, or after end()
WaitState ==
    /\ stopped => needDrain
    /\ HighWaterMark > 0 /\ needDrain => ending \/ writing \/ buffer # << >>

DrainInv == IInv /\ DrainTypes /\ LengthState /\ WaitState

\* What follows a sequence in a concatenation, and the length of one
LEMMA ConcatAt ==
    ASSUME NEW w \in Seq(Nat), NEW b \in Seq(Nat)
    PROVE  /\ Len(w) \in Nat /\ Len(b) \in Nat
           /\ Len(w \o b) = Len(w) + Len(b)
           /\ b # << >> => Len(b) >= 1 /\ (w \o b)[Len(w) + 1] = Head(b)
  <1>1. Len(w) \in Nat /\ Len(b) \in Nat /\ Len(w \o b) = Len(w) + Len(b) OBVIOUS
  <1>2. ASSUME b # << >> PROVE Len(b) >= 1 /\ (w \o b)[Len(w) + 1] = Head(b)
    <2>1. Len(b) >= 1 /\ Head(b) = b[1] BY <1>2
    <2>2. (w \o b)[Len(w) + 1] = b[1] BY <1>1, <2>1
    <2> QED BY <2>1, <2>2
  <1> QED BY <1>1, <1>2

\* A sequence that something was appended to
LEMMA AppendedLast ==
    ASSUME NEW w \in Seq(Nat), NEW n \in Nat
    PROVE  Append(w, n) # << >> /\ Len(Append(w, n)) = Len(w) + 1
  <1>1. Len(Append(w, n)) = Len(w) + 1 /\ Len(w) + 1 # 0 OBVIOUS
  <1>2. Len(<< >>) = 0 OBVIOUS
  <1> QED BY <1>1, <1>2

\* Sequences of chunk lengths are sequences of numbers
LEMMA SizesAreNumbers ==
    ASSUME NEW s \in Seq(Sizes) PROVE s \in Seq(Nat) /\ Len(s) \in Nat
  <1>1. Len(s) \in Nat /\ s \in [1..Len(s) -> Sizes] OBVIOUS
  <1>2. s \in [1..Len(s) -> Nat] BY <1>1, WritableAssumption
  <1> QED BY <1>1, <1>2

\* The chunks are numbered: what was written and what is buffered are the writes, the
\* next chunk is the one after the last that was written, and with nothing buffered the
\* last one written is the last
LEMMA Numbered ==
    ASSUME IInv, writing => written # << >>
    PROVE  /\ buffer \in Seq(Nat) /\ written \in Seq(Nat) /\ size \in Seq(Nat)
           /\ Len(size) \in Nat /\ Len(written) \in 0..Len(size)
           /\ flushed \in 0..Len(size)
           /\ flushed = Len(written) - (IF writing THEN 1 ELSE 0)
           /\ buffer # << >> => /\ Head(buffer) = Len(written) + 1
                               /\ Len(written) + 1 \in 1..Len(size)
           /\ buffer = << >> => Len(written) = Len(size)
           /\ writing => Len(written) \in 1..Len(size)
  <1>1. /\ buffer \in Seq(Nat) /\ written \in Seq(Nat) /\ size \in Seq(Sizes)
        /\ written \o buffer = [i \in 1..Len(size) |-> i]
        /\ flushed = Len(written) - (IF writing THEN 1 ELSE 0)
        /\ writing \in BOOLEAN
    BY DEF IInv, Types, DataTypes, FlagTypes, WrittenInOrder
  <1>2. size \in Seq(Nat) /\ Len(size) \in Nat BY <1>1, SizesAreNumbers
  <1>3. /\ Len(written) \in Nat /\ Len(buffer) \in Nat
        /\ Len(written \o buffer) = Len(written) + Len(buffer)
        /\ buffer # << >> => Len(buffer) >= 1 /\ (written \o buffer)[Len(written) + 1] = Head(buffer)
    BY <1>1, ConcatAt
  <1>4. Len(written) + Len(buffer) = Len(size)
    <2>1. Len([i \in 1..Len(size) |-> i]) = Len(size) BY <1>2
    <2> QED BY <1>1, <1>3, <2>1
  <1>5. ASSUME buffer # << >>
        PROVE  Head(buffer) = Len(written) + 1 /\ Len(written) + 1 \in 1..Len(size)
    <2>1. Len(written) + 1 \in 1..Len(size) BY <1>2, <1>3, <1>4, <1>5
    <2>2. [i \in 1..Len(size) |-> i][Len(written) + 1] = Len(written) + 1 BY <2>1
    <2>3. (written \o buffer)[Len(written) + 1] = Len(written) + 1 BY <1>1, <2>2
    <2> QED BY <1>3, <1>5, <2>1, <2>3
  <1>6. ASSUME buffer = << >> PROVE Len(written) = Len(size)
    <2>1. Len(buffer) = 0 BY <1>6
    <2> QED BY <1>3, <1>4, <2>1
  <1>7. Len(written) \in 0..Len(size) BY <1>2, <1>3, <1>4
  <1>8. ASSUME writing PROVE Len(written) \in 1..Len(size)
    <2>1. written \in Seq(Nat) /\ written # << >> BY <1>1, <1>8
    <2>2. Len(written) # 0 BY <2>1
    <2> QED BY <1>2, <1>3, <1>4, <2>2
  <1>9. flushed \in 0..Len(size)
    <2>1. flushed = Len(written) - (IF writing THEN 1 ELSE 0) BY <1>1
    <2> QED BY <1>2, <1>3, <1>4, <1>8, <2>1
  <1> QED BY <1>1, <1>2, <1>5, <1>6, <1>7, <1>8, <1>9

\* With nothing under way, nothing is counted
LEMMA NothingCounted ==
    ASSUME DrainInv, ~writing, buffer = << >>
    PROVE  length = 0
  <1>1. /\ size \in Seq(Nat) /\ Len(size) \in 0..Len(size) /\ flushed = Len(size)
    BY Numbered DEF DrainInv, LengthState
  <1>2. Totals(size)[Len(size)] \in Nat BY <1>1, TotalsSum
  <1> QED BY <1>1, <1>2 DEF DrainInv, LengthState

\* A new stream
LEMMA DrainInit == WritableInit => DrainInv
  <1> SUFFICES ASSUME WritableInit PROVE DrainInv OBVIOUS
  <1>1. IInv BY InitIInv
  <1>2. DrainTypes /\ WaitState
    <2>1. length = 0 /\ needDrain = FALSE /\ stopped = FALSE BY DEF WritableInit
    <2>2. DrainTypes
      <3>1. length \in Int BY <2>1
      <3>2. needDrain \in BOOLEAN /\ stopped \in BOOLEAN BY <2>1, Zenon
      <3> QED BY <3>1, <3>2 DEF DrainTypes
    <2> QED BY <2>1, <2>2 DEF WaitState
  <1>3. << >> \in Seq(Nat) /\ Len(<< >>) = 0 /\ 0 \in 0..0 OBVIOUS
  <1>4. Totals(<< >>)[0] \in Nat BY <1>3, TotalsSum
  <1>5. /\ length = 0 /\ size = << >> /\ flushed = 0 /\ writing = FALSE /\ writingLength = 0
    BY DEF WritableInit
  <1>6. Totals(size)[Len(size)] - Totals(size)[flushed] = 0 BY <1>3, <1>4, <1>5
  <1>7. LengthState BY <1>5, <1>6 DEF LengthState
  <1> QED BY <1>1, <1>2, <1>7 DEF DrainInv

\* A chunk that write() accepts adds its length, and a writer that is told to stop leaves
\* a chunk behind
LEMMA WriteCounts ==
    ASSUME DrainInv, NEW s \in Sizes, Write(s)
    PROVE  DrainTypes' /\ LengthState' /\ WaitState'
  <1>1. CASE ended
    BY <1>1 DEF Write, writableVars, bufferVars, DrainInv, DrainTypes, LengthState, WaitState
  <1>2. CASE ~ended
    <2> DEFINE n == Len(size)
    <2>1. /\ WriteOrBuffer(s)
          /\ UNCHANGED <<ending, flushed>>
      BY <1>2 DEF Write
    <2>2. /\ buffer \in Seq(Nat) /\ written \in Seq(Nat) /\ size \in Seq(Nat)
          /\ n \in Nat /\ Len(written) \in 0..n
          /\ flushed \in 0..n
          /\ buffer = << >> => Len(written) = n
          /\ writing => Len(written) \in 1..n
      BY Numbered DEF DrainInv, LengthState
    <2>3. s \in Nat BY WritableAssumption
    <2>4. /\ length \in Int /\ needDrain \in BOOLEAN /\ stopped \in BOOLEAN
          /\ length = Totals(size)[n] - Totals(size)[flushed]
          /\ writingLength = IF writing THEN size[Len(written)] ELSE 0
          /\ stopped => needDrain
      BY DEF DrainInv, DrainTypes, LengthState, WaitState
    <2>5. size' = Append(size, s) /\ length' = length + s BY <2>1 DEF WriteOrBuffer
    <2>6. /\ Len(size') = n + 1 /\ size'[n + 1] = s
          /\ \A i \in 1..n : size'[i] = size[i]
      BY <2>2, <2>3, <2>5
    <2>7. /\ Totals(size')[flushed] = Totals(size)[flushed]
          /\ Totals(size')[n + 1] = Totals(size)[n] + s
          /\ Totals(size)[flushed] \in Nat /\ Totals(size)[n] \in Nat
      BY <2>2, <2>3, <2>5, TotalsAppend
    <2>8. /\ length' \in Int
          /\ length' = Totals(size')[Len(size')] - Totals(size')[flushed']
      BY <2>1, <2>3, <2>4, <2>5, <2>6, <2>7
    <2>9. CASE MustBuffer
      <3>1. /\ buffer' = Append(buffer, n + 1)
            /\ needDrain' = (needDrain \/ length + s >= HighWaterMark)
            /\ stopped' = (stopped \/ needDrain')
            /\ UNCHANGED <<writing, writingLength, written>>
        BY <2>1, <2>9 DEF WriteOrBuffer, CheckHighWaterMark
      <3>2. buffer' # << >>
        <4>1. buffer \in Seq(Nat) /\ n + 1 \in Nat BY <2>2
        <4> HIDE DEF n
        <4>2. Append(buffer, n + 1) # << >> BY ONLY <4>1, AppendedLast
        <4> QED BY ONLY <3>1, <4>2
      <3>3. WaitState' BY <2>4, <3>1, <3>2 DEF WaitState
      <3>4. writingLength' = IF writing' THEN size'[Len(written')] ELSE 0
        BY <2>2, <2>4, <2>6, <3>1
      <3>5. LengthState' BY <2>8, <3>1, <3>4 DEF LengthState, DrainInv
      <3>6. DrainTypes' BY <2>4, <2>8, <3>1 DEF DrainTypes
      <3> QED BY <3>3, <3>5, <3>6
    <2>10. CASE ~MustBuffer
      <3>1. /\ writing' = TRUE /\ writingLength' = s /\ written' = Append(written, n + 1)
            /\ UNCHANGED <<needDrain, stopped>>
        BY <2>1, <2>10 DEF WriteOrBuffer, DoWrite
      <3>2. Len(written) = n BY <2>2, <2>10 DEF MustBuffer
      <3>3. Len(written') = n + 1 /\ written' # << >>
        <4>1. written \in Seq(Nat) /\ n + 1 \in Nat BY <2>2
        <4> HIDE DEF n
        <4>2. Append(written, n + 1) # << >> /\ Len(Append(written, n + 1)) = Len(written) + 1
          BY ONLY <4>1, AppendedLast
        <4> QED BY ONLY <3>1, <3>2, <4>2
      <3>4. LengthState' BY <2>6, <2>8, <3>1, <3>3 DEF LengthState
      <3>5. WaitState' BY <2>4, <3>1 DEF WaitState
      <3>6. DrainTypes' BY <2>4, <2>8, <3>1 DEF DrainTypes
      <3> QED BY <3>4, <3>5, <3>6
    <2> QED BY <2>9, <2>10
  <1> QED BY <1>1, <1>2

\* The next chunk takes its length with it, and with none left the writer that waits is
\* told, unless the stream is ending
LEMMA WriteBufferedCounts ==
    ASSUME DrainInv, WriteBuffered, UNCHANGED <<size, ending>>,
           length' \in Int, length' = Totals(size)[Len(size)] - Totals(size)[flushed']
    PROVE  DrainTypes' /\ LengthState' /\ WaitState'
  <1>1. /\ needDrain \in BOOLEAN /\ stopped \in BOOLEAN /\ (stopped => needDrain)
    BY DEF DrainInv, DrainTypes, WaitState
  <1>2. /\ buffer \in Seq(Nat) /\ written \in Seq(Nat) /\ Len(written) \in Nat
        /\ buffer # << >> => Head(buffer) = Len(written) + 1
    BY Numbered DEF DrainInv, LengthState
  <1>3. CASE buffer = << >>
    <2>1. /\ writing' = FALSE /\ writingLength' = 0 /\ OnEmptyBuffer
      BY <1>3 DEF WriteBuffered
    <2>2. LengthState' BY <2>1 DEF LengthState
    <2>3. CASE ending
      <3>1. UNCHANGED <<needDrain, stopped>> BY <2>1, <2>3 DEF OnEmptyBuffer
      <3> QED BY <1>1, <2>2, <2>3, <3>1 DEF DrainTypes, WaitState
    <2>4. CASE ~ending
      <3>1. needDrain' = FALSE /\ stopped' = FALSE
        BY <1>1, <2>1, <2>4 DEF OnEmptyBuffer, EmitDrain
      <3> QED BY <2>2, <3>1 DEF DrainTypes, WaitState
    <2> QED BY <2>3, <2>4
  <1>4. CASE buffer # << >>
    <2>1. /\ writing' = TRUE /\ writingLength' = size[Head(buffer)]
          /\ written' = Append(written, Head(buffer))
          /\ UNCHANGED <<needDrain, stopped>>
      BY <1>4 DEF WriteBuffered, DoWrite
    <2>2. Len(written') = Head(buffer) /\ written' # << >> BY <1>2, <1>4, <2>1, AppendedLast
    <2>3. LengthState' BY <2>1, <2>2 DEF LengthState
    <2>4. DrainTypes' BY <1>1, <2>1 DEF DrainTypes
    <2>5. WaitState' BY <1>1, <2>1 DEF WaitState
    <2> QED BY <2>3, <2>4, <2>5
  <1> QED BY <1>3, <1>4

\* The flush of a chunk takes off its length
LEMMA OnWriteCounts ==
    ASSUME DrainInv, OnWrite
    PROVE  DrainTypes' /\ LengthState' /\ WaitState'
  <1>1. /\ writing /\ length' = length - writingLength /\ flushed' = flushed + 1
        /\ WriteBuffered /\ UNCHANGED <<size, ending>>
    BY DEF OnWrite
  <1>2. /\ size \in Seq(Nat) /\ Len(size) \in 0..Len(size)
        /\ Len(written) \in 1..Len(size) /\ flushed = Len(written) - 1
    BY <1>1, Numbered DEF DrainInv, LengthState
  <1>3. /\ length \in Int
        /\ length = Totals(size)[Len(size)] - Totals(size)[flushed]
        /\ writingLength = size[Len(written)]
    BY <1>1 DEF DrainInv, DrainTypes, LengthState
  <1>4. /\ Totals(size)[Len(written)] = Totals(size)[flushed] + size[Len(written)]
        /\ Totals(size)[flushed] \in Nat /\ size[Len(written)] \in Nat
    BY <1>2, TotalsNext
  <1>5. Totals(size)[Len(size)] \in Nat BY <1>2, TotalsSum
  <1>6. flushed' = Len(written) BY <1>1, <1>2
  <1>7. length' \in Int /\ length' = Totals(size)[Len(size)] - Totals(size)[flushed']
    BY <1>1, <1>3, <1>4, <1>5, <1>6
  <1> QED BY <1>1, <1>7, WriteBufferedCounts

\* The steps that flush nothing and accept nothing: _write returns with the chunk still
\* there or with nothing counted, below the high water mark
LEMMA OthersCount ==
    ASSUME DrainInv, WriteReturns \/ End \/ FinishTick \/ ReadyToWrite
    PROVE  DrainTypes' /\ LengthState' /\ WaitState'
  <1>1. CASE WriteReturns
    <2>1. /\ UNCHANGED <<buffer, length, writing, writingLength, written, size, flushed, ending>>
          /\ needDrain' = (needDrain \/ length >= HighWaterMark)
          /\ stopped' = (stopped \/ needDrain')
      BY <1>1 DEF WriteReturns, bufferVars, CheckHighWaterMark
    <2>2. LengthState' BY <2>1 DEF DrainInv, LengthState
    <2>3. DrainTypes' BY <2>1 DEF DrainInv, DrainTypes
    <2>4. ASSUME HighWaterMark > 0, ~writing, buffer = << >> PROVE ~(length >= HighWaterMark)
      BY <2>4, NothingCounted, WritableAssumption
    <2>5. WaitState' BY <2>1, <2>4 DEF DrainInv, WaitState, DrainTypes
    <2> QED BY <2>2, <2>3, <2>5
  <1>2. CASE End \/ FinishTick
    <2>1. /\ UNCHANGED <<buffer, length, writing, writingLength, written, size, flushed,
                        needDrain, stopped>>
          /\ ending => ending'
      BY <1>2 DEF End, EndWritable, FinishTick, bufferVars
    <2> QED BY <2>1 DEF DrainInv, DrainTypes, LengthState, WaitState
  <1>3. CASE ReadyToWrite
    <2>1. UNCHANGED <<length, size, flushed, ending>> BY <1>3 DEF ReadyToWrite
    <2>2. CASE writing
      <3>1. UNCHANGED <<buffer, writing, writingLength, written, needDrain, stopped>>
        BY <1>3, <2>2 DEF ReadyToWrite
      <3> QED BY <2>1, <3>1 DEF DrainInv, DrainTypes, LengthState, WaitState
    <2>3. CASE ~writing
      <3>1. WriteBuffered BY <1>3, <2>3 DEF ReadyToWrite
      <3>2. length' \in Int /\ length' = Totals(size)[Len(size)] - Totals(size)[flushed']
        BY <2>1 DEF DrainInv, DrainTypes, LengthState
      <3> QED BY <2>1, <3>1, <3>2, WriteBufferedCounts
    <2> QED BY <2>2, <2>3
  <1> QED BY <1>1, <1>2, <1>3

\* No order of calls breaks it
LEMMA DrainStep == DrainInv /\ [WritableNext]_writableVars => DrainInv'
  <1> SUFFICES ASSUME DrainInv, [WritableNext]_writableVars PROVE DrainInv' OBVIOUS
  <1>1. IInv' BY WritableStep DEF DrainInv
  <1>2. CASE UNCHANGED writableVars
    BY <1>1, <1>2 DEF writableVars, bufferVars, DrainInv, DrainTypes, LengthState, WaitState
  <1>3. CASE WritableNext
    BY <1>1, <1>3, WriteCounts, OnWriteCounts, OthersCount DEF WritableNext, DrainInv
  <1> QED BY <1>2, <1>3

\* What DrainIsDue says of a state follows
LEMMA DrainFollows == DrainInv => DrainIsDue
  BY DEF DrainInv, LengthState, WaitState, DrainIsDue, SumOf

\* length is what was accepted and not flushed, and a writer that was told to stop is not
\* forgotten (DrainIsDue)
THEOREM DrainCorrect == WritableSpec => []DrainIsDue
  BY DrainInit, DrainStep, DrainFollows, PTL DEF WritableSpec

-----------------------------------------------------------------------------
(* The source and the pipe *)

SourceTypes ==
    /\ rBuffer \in Seq(Nat) /\ consumed \in Seq(Nat)
    /\ pushed \in Nat /\ pushed <= MaxPushes
    /\ flowing \in BOOLEAN /\ rEnded \in BOOLEAN

\* What follows the last unit: 'end' was emitted exactly when the source has ended, and
\* an ended source has nothing left
EndState ==
    /\ rEnded => rBuffer = << >>
    /\ endEmitted = rEnded
    /\ ends = IF rEnded THEN 1 ELSE 0

\* The inductive invariant of the source
SourceInv == SourceTypes /\ Source!ReadInOrder /\ Source!FlowingIsEmpty /\ EndState

-----------------------------------------------------------------------------
(* Sequences *)

\* Concatenation in any grouping
LEMMA ConcatInOrder ==
    ASSUME NEW x \in Seq(Nat), NEW y \in Seq(Nat), NEW z \in Seq(Nat)
    PROVE  (x \o y) \o z = x \o (y \o z)
  OBVIOUS

\* Taking the first n of a buffer moves them behind what was consumed before
LEMMA TakeFirst ==
    ASSUME NEW c \in Seq(Nat), NEW b \in Seq(Nat), NEW n \in 0..Len(b)
    PROVE  /\ SubSeq(b, 1, n) \in Seq(Nat) /\ SubSeq(b, n + 1, Len(b)) \in Seq(Nat)
           /\ Len(SubSeq(b, 1, n)) = n
           /\ (c \o SubSeq(b, 1, n)) \o SubSeq(b, n + 1, Len(b)) = c \o b
  <1> DEFINE m == Len(b)
  <1>1. m \in Nat /\ n \in Nat /\ n <= m /\ \A i \in 1..m : b[i] \in Nat OBVIOUS
  <1>2. /\ 1 \in Int /\ n \in Int /\ n + 1 \in Int /\ m \in Int
        /\ \A i \in 1..n : b[i] \in Nat
        /\ \A i \in (n + 1)..m : b[i] \in Nat
    BY <1>1
  <1>3. /\ SubSeq(b, 1, n) \in Seq(Nat)
        /\ Len(SubSeq(b, 1, n)) = IF 1 <= n THEN n - 1 + 1 ELSE 0
        /\ \A i \in 1..(n - 1 + 1) : SubSeq(b, 1, n)[i] = b[1 + i - 1]
    BY ONLY <1>2, SubSeqProperties
  <1>4. /\ SubSeq(b, n + 1, m) \in Seq(Nat)
        /\ Len(SubSeq(b, n + 1, m)) = IF n + 1 <= m THEN m - (n + 1) + 1 ELSE 0
        /\ \A i \in 1..(m - (n + 1) + 1) : SubSeq(b, n + 1, m)[i] = b[(n + 1) + i - 1]
    BY ONLY <1>2, SubSeqProperties
  <1>5. Len(SubSeq(b, 1, n)) = n BY <1>1, <1>3
  <1>6. SubSeq(b, 1, n) \o SubSeq(b, n + 1, m) = b
    <2>1. 1 \in 1..(Len(b) + 1) /\ n \in (1 - 1)..Len(b) /\ m \in n..Len(b) BY <1>1
    <2>2. SubSeq(b, 1, n) \o SubSeq(b, n + 1, m) = SubSeq(b, 1, m)
      BY <2>1, ConcatAdjacentSubSeq
    <2> QED BY <2>2, SubSeqFull
  <1>7. (c \o SubSeq(b, 1, n)) \o SubSeq(b, n + 1, m)
          = c \o (SubSeq(b, 1, n) \o SubSeq(b, n + 1, m))
    <2>1. SubSeq(b, 1, n) \in Seq(Nat) /\ SubSeq(b, n + 1, m) \in Seq(Nat) BY <1>3, <1>4
    <2> QED BY <2>1, ConcatInOrder
  <1> QED BY <1>3, <1>4, <1>5, <1>6, <1>7

\* The lengths of what was consumed and of what is buffered add up to what was pushed
LEMMA SourceLengths ==
    ASSUME SourceInv
    PROVE  /\ Len(consumed) \in Nat /\ Len(rBuffer) \in Nat
           /\ Len(consumed) + Len(rBuffer) = pushed
  <1>1. consumed \in Seq(Nat) /\ rBuffer \in Seq(Nat) /\ pushed \in Nat
    BY DEF SourceInv, SourceTypes
  <1>2. consumed \o rBuffer = [n \in 1..pushed |-> n] BY DEF SourceInv, Source!ReadInOrder
  <1>3. Len(consumed \o rBuffer) = Len(consumed) + Len(rBuffer) BY <1>1
  <1>4. Len([n \in 1..pushed |-> n]) = pushed BY <1>1
  <1> QED BY <1>1, <1>2, <1>3, <1>4

-----------------------------------------------------------------------------
(* The source *)

\* readBuffer keeps the order, whatever the number of units it takes
LEMMA ReadBufferKeeps ==
    ASSUME SourceInv, NEW n \in 0..Len(rBuffer), Source!ReadBuffer(n), pushed' = pushed
    PROVE  /\ rBuffer' \in Seq(Nat) /\ consumed' \in Seq(Nat) /\ Source!ReadInOrder'
           /\ Len(consumed') = Len(consumed) + n
           /\ n = Len(rBuffer) => rBuffer' = << >>
           /\ rBuffer = << >> => rBuffer' = << >>
  <1>1. consumed \in Seq(Nat) /\ rBuffer \in Seq(Nat) BY DEF SourceInv, SourceTypes
  <1>2. /\ consumed' = consumed \o SubSeq(rBuffer, 1, n)
        /\ rBuffer' = SubSeq(rBuffer, n + 1, Len(rBuffer))
    BY DEF Source!ReadBuffer
  <1>3. /\ SubSeq(rBuffer, 1, n) \in Seq(Nat)
        /\ SubSeq(rBuffer, n + 1, Len(rBuffer)) \in Seq(Nat)
        /\ Len(SubSeq(rBuffer, 1, n)) = n
        /\ (consumed \o SubSeq(rBuffer, 1, n)) \o SubSeq(rBuffer, n + 1, Len(rBuffer))
             = consumed \o rBuffer
    BY <1>1, TakeFirst
  <1>4. consumed' \in Seq(Nat) /\ Len(consumed') = Len(consumed) + n BY <1>1, <1>2, <1>3
  <1>5. Source!ReadInOrder' BY <1>2, <1>3 DEF SourceInv, Source!ReadInOrder
  <1>6. ASSUME n = Len(rBuffer) PROVE rBuffer' = << >>
    <2>1. n \in Int /\ n + 1 \in Int /\ n < n + 1 BY <1>1, <1>6
    <2> QED BY <1>2, <1>6, <2>1, SubSeqEmpty
  <1>7. ASSUME rBuffer = << >> PROVE n = Len(rBuffer) BY <1>7
  <1> QED BY <1>2, <1>3, <1>4, <1>5, <1>6, <1>7

\* A unit that is consumed as it is pushed, or buffered behind the others
LEMMA PushKeeps ==
    ASSUME SourceInv, Source!Push PROVE SourceInv'
  <1>1. /\ consumed \in Seq(Nat) /\ rBuffer \in Seq(Nat) /\ pushed \in Nat
        /\ pushed < MaxPushes /\ pushed' = pushed + 1 /\ ~rEnded
        /\ UNCHANGED <<flowing, rEnded, endEmitted, ends>>
    BY DEF SourceInv, SourceTypes, Source!Push
  <1>2. consumed \o rBuffer = [n \in 1..pushed |-> n] BY DEF SourceInv, Source!ReadInOrder
  <1>3. Append([n \in 1..pushed |-> n], pushed + 1) = [n \in 1..(pushed + 1) |-> n]
    BY <1>1, UptoSucc
  <1>4. EndState' BY <1>1 DEF SourceInv, EndState
  <1>5. CASE flowing
    <2>1. consumed' = Append(consumed, pushed + 1) /\ rBuffer' = rBuffer /\ rBuffer = << >>
      BY <1>5 DEF Source!Push, SourceInv, Source!FlowingIsEmpty
    <2>2. consumed \o << >> = consumed
          /\ Append(consumed, pushed + 1) \o << >> = Append(consumed, pushed + 1)
      BY <1>1
    <2>3. Source!ReadInOrder' BY <1>1, <1>2, <1>3, <2>1, <2>2 DEF Source!ReadInOrder
    <2>4. Append(consumed, pushed + 1) \in Seq(Nat) BY <1>1
    <2>5. SourceTypes'
      BY <1>1, <2>1, <2>4, PipeAssumption DEF SourceInv, SourceTypes
    <2>6. Source!FlowingIsEmpty' BY <2>1 DEF Source!FlowingIsEmpty
    <2> QED BY <1>4, <2>3, <2>5, <2>6 DEF SourceInv
  <1>6. CASE ~flowing
    <2>1. rBuffer' = Append(rBuffer, pushed + 1) /\ consumed' = consumed
      BY <1>6 DEF Source!Push
    <2>2. consumed \o Append(rBuffer, pushed + 1) = Append(consumed \o rBuffer, pushed + 1)
      BY <1>1, AppendLast
    <2>3. Source!ReadInOrder' BY <1>1, <1>2, <1>3, <2>1, <2>2 DEF Source!ReadInOrder
    <2>4. Append(rBuffer, pushed + 1) \in Seq(Nat) BY <1>1
    <2>5. SourceTypes'
      BY <1>1, <2>1, <2>4, PipeAssumption DEF SourceInv, SourceTypes
    <2>6. Source!FlowingIsEmpty' BY <1>1, <1>6 DEF Source!FlowingIsEmpty
    <2> QED BY <1>1, <1>4, <2>3, <2>5, <2>6 DEF SourceInv, EndState
  <1> QED BY <1>5, <1>6

\* resume empties the buffer
LEMMA DoResumeKeeps ==
    ASSUME SourceInv, Source!DoResume, UNCHANGED <<rEnded, endEmitted, ends, pushed>>
    PROVE  SourceInv'
  <1>1. flowing' = TRUE BY DEF Source!DoResume
  <1>2. CASE ~flowing /\ rBuffer # << >>
    <2>1. Len(rBuffer) \in 0..Len(rBuffer) /\ Source!ReadBuffer(Len(rBuffer))
      BY <1>2 DEF Source!DoResume, SourceInv, SourceTypes
    <2>2. /\ rBuffer' \in Seq(Nat) /\ consumed' \in Seq(Nat) /\ Source!ReadInOrder'
          /\ rBuffer' = << >>
      BY <2>1, ReadBufferKeeps
    <2>3. SourceTypes' BY <1>1, <2>2 DEF SourceInv, SourceTypes
    <2>4. EndState' BY <2>2 DEF SourceInv, EndState
    <2>5. Source!FlowingIsEmpty' BY <2>2 DEF Source!FlowingIsEmpty
    <2> QED BY <2>2, <2>3, <2>4, <2>5 DEF SourceInv
  <1>3. CASE ~(~flowing /\ rBuffer # << >>)
    <2>1. UNCHANGED <<rBuffer, consumed>> BY <1>3 DEF Source!DoResume
    <2>2. rBuffer = << >> BY <1>3 DEF SourceInv, Source!FlowingIsEmpty
    <2>3. SourceTypes' BY <1>1, <2>1 DEF SourceInv, SourceTypes
    <2>4. EndState' BY <2>1 DEF SourceInv, EndState
    <2>5. Source!FlowingIsEmpty' BY <2>1, <2>2 DEF Source!FlowingIsEmpty
    <2>6. Source!ReadInOrder' BY <2>1 DEF SourceInv, Source!ReadInOrder
    <2> QED BY <2>3, <2>4, <2>5, <2>6 DEF SourceInv
  <1> QED BY <1>2, <1>3

\* onEof ends the source only when nothing is buffered
LEMMA OnEofKeeps ==
    ASSUME SourceInv, Source!OnEof PROVE SourceInv'
  <1>0. pushed' = pushed BY DEF Source!OnEof
  <1>1. CASE rBuffer # << >> BY <1>0, <1>1, DoResumeKeeps DEF Source!OnEof
  <1>2. CASE rBuffer = << >>
    <2>1. /\ rEnded' = TRUE /\ endEmitted' = TRUE
          /\ ends' = IF endEmitted THEN ends ELSE ends + 1
          /\ UNCHANGED <<rBuffer, flowing, consumed>>
      BY <1>2 DEF Source!OnEof, Source!EmitEnd
    <2>2. EndState' BY <1>2, <2>1 DEF SourceInv, EndState
    <2>3. SourceTypes' BY <1>0, <2>1 DEF SourceInv, SourceTypes
    <2>4. Source!FlowingIsEmpty' BY <2>1 DEF SourceInv, Source!FlowingIsEmpty
    <2>5. Source!ReadInOrder' BY <1>0, <2>1 DEF SourceInv, Source!ReadInOrder
    <2> QED BY <2>2, <2>3, <2>4, <2>5 DEF SourceInv
  <1> QED BY <1>1, <1>2

\* read takes from the front
LEMMA ReadKeeps ==
    ASSUME SourceInv, NEW n \in 1..MaxPushes, Source!Read(n) PROVE SourceInv'
  <1> DEFINE k == IF n > Len(rBuffer) THEN Len(rBuffer) ELSE n
  <1>1. Source!ReadBuffer(k) /\ UNCHANGED <<flowing, rEnded, pushed>>
    BY DEF Source!Read
  <1>2. k \in 0..Len(rBuffer) BY PipeAssumption DEF SourceInv, SourceTypes
  <1> HIDE DEF k
  <1>3. /\ rBuffer' \in Seq(Nat) /\ consumed' \in Seq(Nat) /\ Source!ReadInOrder'
        /\ rBuffer = << >> => rBuffer' = << >>
    BY <1>1, <1>2, ReadBufferKeeps
  <1>4. SourceTypes' BY <1>1, <1>3 DEF SourceInv, SourceTypes
  <1>5. Source!FlowingIsEmpty' BY <1>1, <1>3 DEF SourceInv, Source!FlowingIsEmpty
  <1>6. UNCHANGED <<endEmitted, ends>>
    BY DEF Source!Read, Source!EmitEnd, SourceInv, EndState
  <1>7. EndState' BY <1>1, <1>3, <1>6 DEF SourceInv, EndState
  <1> QED BY <1>3, <1>4, <1>5, <1>7 DEF SourceInv

\* Every step of the source keeps its invariant
LEMMA SourceStep ==
    ASSUME SourceInv, Source!ReadableNext \/ UNCHANGED srcVars PROVE SourceInv'
  <1>1. CASE Source!Push BY <1>1, PushKeeps
  <1>2. CASE Source!OnEof BY <1>2, OnEofKeeps
  <1>3. CASE \E n \in 1..MaxPushes : Source!Read(n) BY <1>3, ReadKeeps
  <1>4. CASE Source!Resume \/ Source!OnData
    BY <1>4, DoResumeKeeps DEF Source!Resume, Source!OnData
  <1>5. CASE Source!PushNull \/ UNCHANGED srcVars
    BY <1>5 DEF Source!PushNull, srcVars, SourceInv, SourceTypes, EndState,
                Source!ReadInOrder, Source!FlowingIsEmpty
  <1>6. CASE Source!DataReturns
    <2>1. UNCHANGED <<rBuffer, flowing, rEnded, pushed, consumed>>
      BY <1>6 DEF Source!DataReturns
    <2>2. UNCHANGED <<endEmitted, ends>>
      BY <1>6 DEF Source!DataReturns, Source!EmitEnd, SourceInv, EndState
    <2> QED BY <2>1, <2>2 DEF SourceInv, SourceTypes, EndState, Source!ReadInOrder,
                              Source!FlowingIsEmpty
  <1>7. CASE Source!Pause
    <2>1. /\ flowing' = FALSE
          /\ UNCHANGED <<rBuffer, rEnded, endEmitted, pushed, consumed, ends>>
      BY <1>7 DEF Source!Pause
    <2> QED BY <2>1 DEF SourceInv, SourceTypes, EndState, Source!ReadInOrder,
                        Source!FlowingIsEmpty
  <1> QED BY <1>1, <1>2, <1>3, <1>4, <1>5, <1>6, <1>7 DEF Source!ReadableNext

-----------------------------------------------------------------------------
(* The destination *)

\* A 'data' event carries at least one unit and no more than were pushed, so that
\* what ondata writes has the length of a chunk
LEMMA EmittedSize ==
    ASSUME SourceInv, Source!ReadableNext, emitted' # emitted
    PROVE  Len(consumed') - Len(consumed) \in Sizes
  <1>1. /\ Len(consumed) \in Nat /\ Len(rBuffer) \in Nat
        /\ Len(consumed) + Len(rBuffer) = pushed
    BY SourceLengths
  <1>2. consumed \in Seq(Nat) /\ rBuffer \in Seq(Nat) /\ pushed \in Nat /\ pushed <= MaxPushes
    BY DEF SourceInv, SourceTypes
  <1>3. CASE Source!Push
    <2>1. pushed < MaxPushes /\ consumed' = Append(consumed, pushed + 1)
      BY <1>3 DEF Source!Push
    <2>2. Len(consumed') - Len(consumed) = 1 BY <1>1, <1>2, <2>1
    <2>3. 1 \in 1..MaxPushes BY <1>2, <2>1, PipeAssumption
    <2> QED BY <2>2, <2>3, PipeAssumption
  <1>4. CASE Source!DoResume /\ pushed' = pushed
    <2>1. rBuffer # << >> /\ Source!ReadBuffer(Len(rBuffer)) BY <1>4 DEF Source!DoResume
    <2>2. Len(rBuffer) \in 0..Len(rBuffer) /\ Len(rBuffer) # 0 BY <1>1, <1>2, <2>1
    <2>3. Len(consumed') = Len(consumed) + Len(rBuffer)
      BY <1>4, <2>1, <2>2, ReadBufferKeeps
    <2>4. Len(consumed') - Len(consumed) = Len(rBuffer) BY <1>1, <2>3
    <2>5. Len(rBuffer) \in 1..MaxPushes BY <1>1, <1>2, <2>2, PipeAssumption
    <2> QED BY <2>4, <2>5, PipeAssumption
  <1>5. Source!Push \/ (Source!DoResume /\ pushed' = pushed)
    BY DEF Source!ReadableNext, Source!PushNull, Source!OnEof, Source!DataReturns,
           Source!Read, Source!Pause, Source!Resume, Source!OnData
  <1> QED BY <1>3, <1>4, <1>5

\* What ondata and onend do is what a script may do
LEMMA ForwardStep ==
    ASSUME SourceInv, Source!ReadableNext, NEW listens, Forward(listens)
    PROVE  [WritableNext]_writableVars
  <1>1. CASE emitted' # emitted /\ listens
    BY <1>1, EmittedSize DEF Forward, WritableNext
  <1>2. CASE ~(emitted' # emitted /\ listens) BY <1>2 DEF Forward, WritableNext
  <1> QED BY <1>1, <1>2

\* Every step of the pipe is a step of the source or none of it, and a step of the
\* destination or none of it
LEMMA PipeStep ==
    ASSUME SourceInv, [Next]_vars
    PROVE  /\ Source!ReadableNext \/ UNCHANGED srcVars
           /\ [WritableNext]_writableVars
  <1>1. CASE PipeTo
    <2>1. Source!ReadableNext BY <1>1 DEF PipeTo, Source!ReadableNext
    <2> QED BY <1>1, <2>1, ForwardStep DEF PipeTo
  <1>2. CASE InSource(Source!ReadableNext) BY <1>2, ForwardStep DEF InSource
  <1>3. CASE \E s \in Sizes : ScriptWrite(s) BY <1>3 DEF ScriptWrite, WritableNext, srcVars
  <1>4. CASE \/ InDestination(End) \/ InDestination(WriteReturns) \/ InDestination(Tick)
             \/ InDestination(ReadyToWrite) \/ InDestination(OnWrite)
    BY <1>4 DEF InDestination, Tick, WritableNext, srcVars
  <1>5. CASE UNCHANGED vars BY <1>5 DEF vars
  <1> QED BY <1>1, <1>2, <1>3, <1>4, <1>5 DEF Next

\* The invariants of both ends hold in every state of the pipe
THEOREM PipeInvariance == Spec => [](SourceInv /\ DrainInv)
  <1>1. Init => SourceInv /\ DrainInv
    <2> SUFFICES ASSUME Init PROVE SourceInv /\ DrainInv OBVIOUS
    <2>1. DrainInv BY DrainInit DEF Init
    <2>2. /\ rBuffer = << >> /\ flowing = FALSE /\ rEnded = FALSE /\ endEmitted = FALSE
          /\ pushed = 0 /\ consumed = << >> /\ ends = 0
      BY DEF Init, Source!ReadableInit
    <2>3. SourceTypes
      <3>1. << >> \in Seq(Nat) /\ 0 \in Nat /\ 0 <= MaxPushes BY PipeAssumption
      <3>2. FALSE \in BOOLEAN OBVIOUS
      <3>3. rBuffer \in Seq(Nat) /\ consumed \in Seq(Nat) BY <2>2, <3>1
      <3>4. pushed \in Nat /\ pushed <= MaxPushes BY <2>2, <3>1
      <3>5. flowing \in BOOLEAN /\ rEnded \in BOOLEAN BY <2>2, <3>2
      <3> QED BY <3>3, <3>4, <3>5 DEF SourceTypes
    <2>4. Source!ReadInOrder
      <3>1. << >> \o << >> = << >> /\ [n \in 1..0 |-> n] = << >> OBVIOUS
      <3>2. consumed \o rBuffer = << >> BY <2>2, <3>1
      <3>3. [n \in 1..pushed |-> n] = << >> BY <2>2, <3>1
      <3> QED BY <3>2, <3>3 DEF Source!ReadInOrder
    <2>5. Source!FlowingIsEmpty /\ EndState BY <2>2 DEF Source!FlowingIsEmpty, EndState
    <2> QED BY <2>1, <2>3, <2>4, <2>5 DEF SourceInv
  <1>2. SourceInv /\ DrainInv /\ [Next]_vars => SourceInv' /\ DrainInv'
    BY PipeStep, SourceStep, DrainStep
  <1> QED BY <1>1, <1>2, PTL DEF Spec

\* Through the pipe every unit is consumed once and in order, nothing stays buffered
\* while the source flows, and one 'end' follows the last unit (SourceInOrder)
THEOREM PipeSource == Spec => []SourceInOrder
  <1>1. SourceInv => SourceInOrder
    <2> SUFFICES ASSUME SourceInv PROVE SourceInOrder OBVIOUS
    <2>1. Source!ReadInOrder /\ Source!FlowingIsEmpty BY DEF SourceInv
    <2>2. ASSUME rEnded PROVE Len(consumed) = pushed
      <3>1. Len(rBuffer) = 0 BY <2>2 DEF SourceInv, EndState
      <3> QED BY <3>1, SourceLengths
    <2>3. Source!EndIsLast BY <2>2 DEF SourceInv, SourceTypes, EndState, Source!EndIsLast
    <2> QED BY <2>1, <2>3 DEF SourceInOrder
  <1> QED BY <1>1, PipeInvariance, PTL

\* The destination of a pipe gets every chunk once and in order, the ones of the pipe
\* and those of the script (WrittenInOrder)
THEOREM PipeOrder == Spec => []WrittenInOrder
  <1>1. DrainInv => WrittenInOrder BY DEF DrainInv, IInv
  <1> QED BY <1>1, PipeInvariance, PTL

\* ... and emits 'finish' once, after the last of them (FinishIsLast)
THEOREM PipeFinish == Spec => []FinishIsLast
  <1>1. DrainInv => FinishIsLast BY FinishFollows DEF DrainInv
  <1> QED BY <1>1, PipeInvariance, PTL

\* A writer that the pipe's destination told to stop is not forgotten: a 'drain' that
\* resumes it is due (DrainIsDue)
THEOREM PipeDrains == Spec => []DrainIsDue
  BY DrainFollows, PipeInvariance, PTL
=============================================================================
