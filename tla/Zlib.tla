--------------------------------- MODULE Zlib ---------------------------------
(***************************************************************************)
(* One compression stream: src/src/modules/iotjs_module_zlib.c and the     *)
(* part of src/src/js/zlib.js below Transform.  The binding gives a chunk  *)
(* of input and a private output buffer to the thread pool, copies the     *)
(* output back on the loop and calls again while the output was full.      *)
(* zlib itself (deps/) is here as far as the binding uses it: it consumes  *)
(* bytes in order, owes `ratio` bytes of output for a byte of data, and    *)
(* stops when input or output runs out.  A byte of output is its number.   *)
(* The RAW modes behave like the plain ones and GZIP like DEFLATE; no      *)
(* caller gives a dictionary.                                              *)
(***************************************************************************)
EXTENDS Integers, Sequences, FiniteSets

CONSTANT ChunkSize   \* _chunkSize, the bytes of _outBuffer

ASSUME ZlibAssumption == ChunkSize \in Nat \ {0}

VARIABLE zl

Member == <<"id1", "id2", "data", "end">>
\* The inputs: gzip files of one and two members, with padding, with garbage
\* behind, and a zlib stream
Gzips == {Member, Member \o Member, Member \o <<"zero">>, Member \o <<"other">>,
          <<"id1", "id2", "data", "data", "end">>}
Deflated == <<"other", "data", "end">>
InputsOf(mode) == CASE mode = "DEFLATE" -> {<<"data", "data">>}
                    [] mode = "INFLATE" -> {Deflated}
                    [] mode = "GUNZIP"  -> Gzips
                    [] mode = "UNZIP"   -> Gzips \cup {Deflated, <<"id1", "data">>}

\* iotjs_zlib_create, and the constructor Zlib with ZlibInit
ZlibInit ==
    \E mode \in {"DEFLATE", "INFLATE", "GUNZIP", "UNZIP"}, ratio \in {1, 3} :
    \E input \in InputsOf(mode) :
        zl = [mode      |-> mode,      \* mode_
              err       |-> "OK",      \* err_
              gzipId    |-> 0,         \* gzip_id_bytes_read_
              writing   |-> FALSE,     \* write_in_progress_
              pending   |-> FALSE,     \* pending_close_
              out       |-> << >>,     \* out_
              outPos    |-> 0,         \* strm_.next_out - out_
              availOut  |-> 0,
              nextIn    |-> 1,         \* strm_.next_in, as a place in the input
              availIn   |-> 0,
              at        |-> IF mode = "DEFLATE" THEN "body" ELSE "head",
              owed      |-> 0,         \* output that the engine holds back
              work      |-> "idle",    \* work_req_
              flush     |-> "NO",      \* flush_
              outBuffer |-> [i \in 1 .. ChunkSize |-> 0],
              outOffset |-> 0,
              outBefore |-> 0,         \* availOutBefore
              inBefore  |-> 0,         \* availInBefore
              inOff     |-> 0,
              base      |-> 0,         \* the chunk's place in the input
              busy      |-> FALSE,     \* the transform's callback is due
              closed    |-> FALSE,     \* _handle is null
              flushed   |-> FALSE,     \* _flush was called
              input     |-> input,
              ratio     |-> ratio,
              given     |-> 0,         \* bytes given to _transform
              pushed    |-> << >>,
              ate       |-> << >>,     \* history: bytes the engine consumed
              made      |-> 0,         \* history: bytes the engine produced
              spilled   |-> FALSE,     \* history: see AfterProcess
              meddled   |-> FALSE,     \* history: close or reset under work
              restarted |-> FALSE,     \* history: reset
              freed     |-> FALSE]     \* history: the engine ran after its end

-----------------------------------------------------------------------------
(* Calls on the loop's thread *)

\* ZlibWrite, then ZlibDoWrite
ZlibWrite(z, flush, off, inLen, outOff, outLen) ==
    [z EXCEPT !.out = [i \in 1 .. outLen |-> 0], !.outPos = outOff,
              !.availOut = outLen, !.availIn = inLen, !.nextIn = z.base + off + 1,
              !.flush = flush, !.work = "queued"]

\* processChunk on the next n bytes
ProcessChunk(n, flush) ==
    LET room == ChunkSize - zl.outOffset
        z == [zl EXCEPT !.busy = TRUE, !.outBefore = room, !.inBefore = n, !.inOff = 0,
                        !.base = zl.given, !.given = @ + n]
    IN  IF zl.closed THEN zl ELSE ZlibWrite(z, flush, 0, n, zl.outOffset, room)

\* _transform: the last chunk is given to the engine with Z_FINISH when end() was
\* called before
Transform(n, flush) ==
    /\ ~zl.busy /\ ~zl.flushed /\ ~zl.closed
    /\ zl.given + n <= Len(zl.input)
    /\ flush = "FINISH" => zl.given + n = Len(zl.input)
    /\ zl' = ProcessChunk(n, flush)

\* _flush
FlushLast ==
    /\ ~zl.busy /\ ~zl.flushed /\ zl.given = Len(zl.input)
    /\ zl' = [ProcessChunk(0, "FINISH") EXCEPT !.flushed = TRUE]

\* iotjs_zlib_reset: UNZIP is not among its modes
EngineReset(z) ==
    CASE z.mode = "DEFLATE" -> [z EXCEPT !.at = "body", !.owed = 0]
      [] z.mode \in {"INFLATE", "GUNZIP"} -> [z EXCEPT !.at = "head", !.owed = 0]
      [] OTHER -> z

\* ZlibReset
Reset ==
    /\ ~zl.closed
    /\ zl' = [EngineReset(zl) EXCEPT !.err = "OK", !.meddled = @ \/ zl.busy,
                                         !.restarted = TRUE]

\* ZlibClose: write_in_progress_ is never set, so a close never waits for the work
NativeClose(z) ==
    IF z.writing THEN [z EXCEPT !.pending = TRUE]
    ELSE [z EXCEPT !.pending = FALSE, !.mode = "NONE",
                   !.at = IF z.mode = "NONE" THEN @ ELSE "freed"]

\* Zlib.prototype.close by the application, or for 'end'
Close ==
    /\ ~zl.closed
    /\ zl' = [NativeClose(zl) EXCEPT !.closed = TRUE,
                                     !.meddled = @ \/ zl.busy]

-----------------------------------------------------------------------------
(* iotjs_zlib_process on the thread pool *)

\* The header bytes that tell a gzip file: those of this call, after those before
Detect(z) ==
    LET first  == z.input[z.nextIn]
        second == z.input[z.nextIn + (1 - z.gzipId)]
        more   == z.availIn > 1 - z.gzipId
        id     == IF z.gzipId = 0 /\ first = "id1" THEN 1 ELSE z.gzipId
    IN  CASE z.availIn = 0 -> z
          [] z.availIn > 0 /\ id = 0 -> [z EXCEPT !.mode = "INFLATE"]
          [] z.availIn > 0 /\ id = 1 /\ ~more -> [z EXCEPT !.gzipId = 1]
          [] z.availIn > 0 /\ id = 1 /\ more ->
                 IF second = "id2" THEN [z EXCEPT !.gzipId = 2, !.mode = "GUNZIP"]
                 ELSE [z EXCEPT !.gzipId = id, !.mode = "INFLATE"]

\* The switch on mode_, up to the call of the engine
ProcessStarts ==
    /\ zl.work = "queued"
    /\ LET z == [zl EXCEPT !.err = "OK", !.work = "running"]
       IN  zl' = CASE z.mode = "NONE"  -> [z EXCEPT !.work = "done"]
                   [] z.mode = "UNZIP" -> Detect(z)
                   [] OTHER            -> z

Running == zl.work = "running"
\* A byte of a stream: where the engine is after it
StepOf(at, byte, mode) ==
    CASE at = "head" /\ byte = "id1" /\ mode # "INFLATE"   -> "id2"
      [] at = "head" /\ byte = "other" /\ mode # "GUNZIP"  -> "body"
      [] at = "id2" /\ byte = "id2"                        -> "body"
      [] at = "body" /\ byte = "data"                      -> "body"
      [] at = "body" /\ byte = "end"                       -> "end"
      [] OTHER                                             -> "bad"

\* deflate and inflate: one byte of input
CanRead == zl.at \in {"head", "id2", "body"} /\ zl.owed = 0 /\ zl.availIn > 0
EngineReads ==
    /\ Running /\ CanRead
    /\ LET byte == zl.input[zl.nextIn]
           at == StepOf(zl.at, byte, zl.mode)
       IN  zl' = [zl EXCEPT !.at = at,
                            !.owed = IF at = "body" /\ byte = "data" THEN zl.ratio ELSE 0,
                            !.ate = Append(@, zl.nextIn),
                            !.nextIn = @ + 1, !.availIn = @ - 1]

\* deflate and inflate: one byte of output, past the end of out_ when there is no room
CanWrite == zl.at \in {"body", "end"} /\ zl.owed > 0 /\ zl.availOut > 0
EngineWrites ==
    /\ Running /\ CanWrite
    /\ LET in == zl.outPos + 1 \in DOMAIN zl.out
       IN  zl' = [zl EXCEPT !.out = IF in THEN [@ EXCEPT ![zl.outPos + 1] = zl.made + 1]
                                    ELSE @,
                            !.spilled = @ \/ ~in,
                            !.outPos = @ + 1, !.availOut = @ - 1,
                            !.owed = @ - 1, !.made = @ + 1]

\* The engine returns; behind the end of a gzip member another one may follow
EngineReturns ==
    /\ Running
    /\ ~CanRead /\ ~CanWrite
    /\ LET err == CASE zl.at = "bad" -> "DATA_ERROR"
                    [] zl.at = "end" /\ zl.owed = 0 -> "STREAM_END"
                    [] OTHER -> "OK"
           again == /\ zl.availIn > 0 /\ zl.mode = "GUNZIP" /\ err = "STREAM_END"
                    /\ zl.input[zl.nextIn] # "zero"
       IN  zl' = IF again THEN [EngineReset(zl) EXCEPT !.err = "OK"]
                 ELSE [zl EXCEPT !.err = err, !.work = "done",
                                 !.freed = @ \/ zl.at = "freed"]

-----------------------------------------------------------------------------
(* iotjs_zlib_after_process and processCallback *)

\* avail_out bytes are copied, the room that is left and not the bytes produced:
\* output past the first half of the room does not arrive
Copied(z) ==
    [i \in 1 .. ChunkSize |->
        IF i <= z.availOut /\ i \in DOMAIN z.out THEN z.out[i] ELSE z.outBuffer[i]]

\* Mutant: the chunk is processed again from its beginning
Advance_FromStart(z) == [z EXCEPT !.inBefore = z.availIn]

\* processCallback: the place in the chunk where a further call goes on
Advance(z) == [z EXCEPT !.inOff = @ + z.inBefore - z.availIn, !.inBefore = z.availIn]

\* processCallback: push what was produced, and process the rest of the chunk when
\* the output buffer was full
ProcessCallback(z) ==
    LET have == z.outBefore - z.availOut
        p == [z EXCEPT !.pushed = @ \o SubSeq(z.outBuffer, z.outOffset + 1,
                                              z.outOffset + have),
                       !.outOffset = @ + have]
        q == IF z.availOut = 0 \/ p.outOffset >= ChunkSize
             THEN [p EXCEPT !.outBefore = ChunkSize, !.outOffset = 0,
                            !.outBuffer = [i \in 1 .. ChunkSize |-> 0]]
             ELSE p
        r == Advance(q)
    IN  IF z.availOut = 0
        THEN ZlibWrite(r, z.flush, r.inOff, r.inBefore, r.outOffset, ChunkSize)
        ELSE [q EXCEPT !.busy = FALSE]

\* The copy into out_buf_, and the callback
AfterProcess ==
    /\ zl.work = "done"
    /\ zl' = ProcessCallback([zl EXCEPT !.work = "idle", !.outBuffer = Copied(zl),
                                        !.out = << >>, !.writing = FALSE,
                                        !.spilled = @ \/ zl.outPos > zl.availOut])

ZlibNext ==
    \/ \E n \in 1 .. Len(zl.input), flush \in {"NO", "FINISH"} : Transform(n, flush)
    \/ FlushLast
    \/ Reset
    \/ Close
    \/ ProcessStarts
    \/ EngineReads
    \/ EngineWrites
    \/ EngineReturns
    \/ AfterProcess

-----------------------------------------------------------------------------
(* Properties *)

Count(n) == [i \in 1 .. n |-> i]
DataIn(n) == Cardinality({i \in 1 .. n : zl.input[i] = "data"})
\* Nothing more is due from the engine for what it was given
Drained == ~zl.busy /\ ~zl.closed /\ zl.at # "bad"

\* However the input is cut into chunks, and however often a chunk is processed
\* again because its output did not fit (processCallback), the engine is given
\* every byte once and in order, the members of a gzip file are all inflated
\* (iotjs_zlib_process), as many bytes are pushed as the engine produced, and they
\* are those bytes as long as no call filled more than the first half of its room
\* (iotjs_zlib_after_process copies as many bytes as there is room left, not as came).
\* Said while nobody closes or resets the stream under a write, when the engine runs on
\* freed memory; a reset between two writes makes the engine forget what it holds, and
\* then nothing is said of the input.
ZlibWhole ==
    ~zl.meddled =>
        /\ ~zl.freed
        /\ ~zl.busy => Len(zl.pushed) = zl.made
        /\ ~zl.spilled => zl.pushed = Count(Len(zl.pushed))
        /\ ~zl.restarted => zl.ate = Count(Len(zl.ate))
        /\ Drained /\ ~zl.restarted => zl.made = zl.ratio * DataIn(zl.given)

=============================================================================
