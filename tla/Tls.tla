---------------------------------- MODULE Tls ----------------------------------
(***************************************************************************)
(* A TLS client: src/src/modules/iotjs_module_tls.c and the TLSHandle of   *)
(* src/src/js/tls.js, between the TCP handle and the mbedtls engine, with  *)
(* the pair of BIOs they share.  The engine is not under src/: it is here  *)
(* as far as tls.c uses it.  It sends two records and takes two in the     *)
(* handshake, then one record per chunk of data; a record has RecLen       *)
(* bytes; a record that is not the next one of the peer is refused and     *)
(* makes every later call fail.                                            *)
(***************************************************************************)
EXTENDS Integers, Sequences, SequencesExt

-----------------------------------------------------------------------------
(* The paired BIOs: src/src/modules/iotjs_module_tls_bio.c.  Each BIO of a *)
(* pair keeps a circular buffer that it writes and its pair reads, with no *)
(* count beside the two indices.  The two directions share nothing, so the *)
(* state machine of bio is one direction; tls has both.  Bytes are         *)
(* numbered in the order in which they are offered.                        *)

CONSTANTS RingSize,   \* wrSz, SSL_BIO_SIZE in the code
          MaxBytes    \* bound: bytes offered to the writer

ASSUME BioAssumption == RingSize \in Nat \ {0} /\ MaxBytes \in Nat

VARIABLE bio

\* iotjs_ssl_bio_new, iotjs_bio_set_write_buf_size and iotjs_bio_make_bio_pair
BioNew(size) == [wrSz |-> size, wrIdx |-> 0, rdIdx |-> 0,
                 mem |-> [i \in 0 .. size - 1 |-> 0]]

\* iotjs_bio_ctrl_pending of the reader.  The difference is negative when the
\* write index is back at 0 and the read index is not: the cast to size_t makes
\* an immense number of it.
BioPending(b) ==
    IF b.wrIdx > 0 /\ b.wrIdx <= b.rdIdx
    THEN b.wrSz - b.rdIdx + b.wrIdx
    ELSE b.wrIdx - b.rdIdx

\* iotjs_bio_nread0: what can be read without wrapping around
BioNread0(b) ==
    IF b.wrIdx > 0 /\ b.rdIdx >= b.wrIdx
    THEN b.wrSz - b.rdIdx
    ELSE b.wrIdx - b.rdIdx

IntMin(a, c) == IF a < c THEN a ELSE c

\* Mutant: the write index is not reset with the read index
RdAdvance_KeepsWrite(b, sz) ==
    [b EXCEPT !.rdIdx = IF b.rdIdx + sz = b.wrSz THEN 0 ELSE b.rdIdx + sz]

\* iotjs_bio_nread moves the read index and resets both when all is read
RdAdvance(b, sz) ==
    LET rd1 == b.rdIdx + sz
        end == rd1 = b.wrSz
        rd2 == IF end THEN 0 ELSE rd1
        wr2 == IF end /\ b.wrIdx = b.wrSz THEN 0 ELSE b.wrIdx
    IN  [b EXCEPT !.rdIdx = IF rd2 = wr2 THEN 0 ELSE rd2,
                  !.wrIdx = IF rd2 = wr2 THEN 0 ELSE wr2]

\* iotjs_bio_read and iotjs_bio_net_recv of n > 0 bytes: the bytes, and the buffer
\* after it.  A negative size reads nothing, and moves the index.
BioRead(b, n) ==
    LET sz == IntMin(n, BioNread0(b))
    IN  IF BioNread0(b) = 0 THEN [bio |-> b, bytes |-> << >>]
        ELSE [bio |-> RdAdvance(b, sz),
              bytes |-> [i \in 1 .. (IF sz > 0 THEN sz ELSE 0) |-> b.mem[b.rdIdx + i - 1]]]

\* iotjs_bio_nwrite: where it writes and how much room there is
WrStart(b) == IF b.wrIdx >= b.wrSz /\ b.rdIdx > 0 THEN 0 ELSE b.wrIdx
WrRoom(b) ==
    IF b.wrIdx < b.rdIdx THEN b.rdIdx - b.wrIdx
    ELSE IF b.rdIdx > 0 /\ b.wrIdx = b.rdIdx THEN 0
    ELSE IF b.wrIdx < b.wrSz THEN b.wrSz - b.wrIdx
    ELSE b.rdIdx

\* iotjs_bio_write and iotjs_bio_net_send of a nonempty sequence of bytes: how
\* many were taken, and the buffer after it
BioWrite(b, bytes) ==
    LET start == WrStart(b)
        sz == IntMin(Len(bytes), WrRoom(b))
        wr == start + sz
    IN  IF WrRoom(b) = 0 THEN [bio |-> b, taken |-> 0]
        ELSE [bio |-> [b EXCEPT
                          !.mem = [i \in DOMAIN @ |->
                                      IF i \in start .. wr - 1 THEN bytes[i - start + 1]
                                      ELSE @[i]],
                          !.wrIdx = IF wr = b.wrSz /\ b.rdIdx > 0 THEN 0 ELSE wr],
              taken |-> sz]

\* iotjs_bio_reset
BioReset(b) == [b EXCEPT !.wrIdx = 0, !.rdIdx = 0]

-----------------------------------------------------------------------------
(* One direction of a pair, between a writer and a reader *)

Numbers(from, n) == [i \in 1 .. n |-> from + i]

BioInit == bio = [ring |-> BioNew(RingSize), paired |-> TRUE,
                  written |-> 0,       \* bytes taken
                  read |-> << >>,      \* bytes given
                  strayed |-> FALSE]   \* read while the write index had wrapped to 0

BioWriteSome(n) ==
    /\ bio.paired
    /\ bio.written + n <= MaxBytes
    /\ LET w == BioWrite(bio.ring, Numbers(bio.written, n))
       IN  bio' = [bio EXCEPT !.ring = w.bio, !.written = @ + w.taken]

BioReadSome(n) ==
    /\ bio.paired
    /\ LET r == BioRead(bio.ring, n)
       IN  bio' = [bio EXCEPT !.ring = r.bio, !.read = @ \o r.bytes,
                              !.strayed = @ \/ BioNread0(bio.ring) < 0]

\* iotjs_bio_reset on behalf of a caller that gives up what is pending
BioDoReset ==
    /\ bio.paired
    /\ bio' = [bio EXCEPT !.ring = BioReset(@), !.written = 0, !.read = << >>,
                           !.strayed = FALSE]

\* iotjs_bio_free of either end: the other is no longer paired, and both reading
\* and writing are refused
BioFree ==
    /\ bio.paired
    /\ bio' = [bio EXCEPT !.paired = FALSE]

BioNext ==
    \/ \E n \in 1 .. RingSize : BioWriteSome(n) \/ BioReadSome(n)
    \/ BioDoReset
    \/ BioFree

-----------------------------------------------------------------------------

\* The bytes that the two indices enclose, from the read index and around the end
Contents(b) ==
    LET first == [i \in 1 .. b.wrSz - b.rdIdx |-> b.mem[b.rdIdx + i - 1]]
        rest == [i \in 1 .. b.wrIdx |-> b.mem[i - 1]]
    IN  IF b.wrIdx > b.rdIdx THEN [i \in 1 .. b.wrIdx - b.rdIdx |-> b.mem[b.rdIdx + i - 1]]
        ELSE IF b.rdIdx = 0 THEN << >>
        ELSE first \o rest

\* Between iotjs_bio_write and iotjs_bio_read the buffer is a queue: what was read,
\* followed by what the indices enclose, is all that was written, in order, and a
\* write is refused only when the buffer is full.  The exception is a buffer read
\* while a write has just ended at its last byte (rdIdx > 0): that read loses all.
BioIsQueue ==
    /\ bio.ring.wrIdx \in 0 .. RingSize /\ bio.ring.rdIdx \in 0 .. RingSize - 1
    /\ bio.strayed \/ bio.read \o Contents(bio.ring) = Numbers(0, bio.written)
    /\ bio.strayed \/ (WrRoom(bio.ring) = 0 <=> Len(Contents(bio.ring)) = RingSize)

-----------------------------------------------------------------------------
(* The session *)

CONSTANTS RecLen,      \* bytes in a record
          MaxPeer,     \* bound: bytes that the peer sends
          MaxChunk,    \* the largest chunk that TCP reads at once (OnAlloc)
          MaxWrites    \* bound: calls of write()

ASSUME TlsAssumption == /\ RecLen \in 1 .. RingSize /\ MaxPeer \in Nat
                        /\ MaxChunk \in Nat \ {0} /\ MaxWrites \in Nat

VARIABLE tls

\* iotjs_tlswrap_create and TlsConstructor
TlsInit ==
    tls = [state     |-> "ready",      \* handshake_state
           destroyed |-> FALSE,
           in        |-> BioNew(RingSize),   \* app_bio_ writes, ssl_bio_ reads
           out       |-> BioNew(RingSize),   \* ssl_bio_ writes, app_bio_ reads
           step      |-> 0,            \* engine: flights of the handshake done
           left      |-> << >>,        \* engine: output not yet taken by the BIO
           got       |-> << >>,        \* engine: the record being received
           recs      |-> 0,            \* engine: records received
           failed    |-> FALSE,        \* engine: a call has failed
           made      |-> 0,            \* engine: bytes produced
           tcp       |-> "new",        \* "new", "reading" or "closed"
           pc        |-> "idle",       \* "loop" in TlsRead
           inCall    |-> FALSE,        \* a callback of the script is running
           arrived   |-> 0,            \* bytes that TCP has read
           clipped   |-> FALSE,        \* history: a chunk did not fit the BIO
           data      |-> 0,            \* records given to onread
           closing   |-> FALSE,        \* close_notify was received
           wire      |-> << >>,        \* bytes given to the TCP handle
           writes    |-> 0,
           fault     |-> FALSE]        \* history: freed memory was used

-----------------------------------------------------------------------------
(* The engine *)

Using(t) == [t EXCEPT !.fault = @ \/ t.destroyed]

\* f_send until the output is taken or the BIO is full
FlushOnce(t) ==
    IF t.left = << >> THEN t
    ELSE LET w == BioWrite(t.out, t.left)
         IN  [t EXCEPT !.out = w.bio, !.left = SubSeq(@, w.taken + 1, Len(@))]
EngineFlush(t) == FlushOnce(FlushOnce(t))

EngineSend(t) ==
    EngineFlush([t EXCEPT !.left = @ \o Numbers(t.made, RecLen), !.made = @ + RecLen])

\* f_recv until the record is complete or the BIO is empty
RecvOnce(t) ==
    LET r == BioRead(t.in, RecLen - Len(t.got))
    IN  IF Len(t.got) = RecLen THEN t
        ELSE [t EXCEPT !.in = r.bio, !.got = @ \o r.bytes]
EngineRecv(t) == FoldLeft(LAMBDA x, i : RecvOnce(x), t, Numbers(0, RecLen))

Complete(t) == Len(t.got) = RecLen
Genuine(t) == t.got = Numbers(t.recs * RecLen, RecLen)
Take(t, ok) == IF ok /\ Genuine(t)
               THEN [t EXCEPT !.got = << >>, !.recs = @ + 1]
               ELSE [t EXCEPT !.got = << >>, !.failed = TRUE]

\* mbedtls_ssl_handshake, until it is done, fails or wants to read
FlightOnce(t, ok) ==
    LET r == EngineRecv(EngineFlush(t))
        k == Take(r, ok)
    IN  IF t.failed \/ t.step = 4 THEN t
        ELSE IF t.step \in {0, 2} THEN [EngineSend(t) EXCEPT !.step = @ + 1]
        ELSE IF Complete(r) THEN (IF k.failed THEN k ELSE [k EXCEPT !.step = @ + 1])
        ELSE r
EngineHandshake(t, ok) ==
    FoldLeft(LAMBDA x, i : FlightOnce(x, ok), Using(t), Numbers(0, 4))

-----------------------------------------------------------------------------
(* tls.c *)

\* iotjs_tlswrap_stay_update and onwrite: a buffer of `pending' bytes, of which the
\* BIO fills those it can give in one piece
StayUpdate(t) ==
    LET pending == BioPending(t.out)
        r == BioRead(t.out, pending)
    IN  IF pending <= 0 THEN t
        ELSE [t EXCEPT !.out = r.bio,
                       !.wire = @ \o r.bytes \o [i \in 1 .. pending - Len(r.bytes) |-> 0]]

\* iotjs_tlswrap_error_handler, for WANT_READ and WANT_WRITE
ErrorHandler(t) == IF t.failed THEN t ELSE StayUpdate(t)

\* TlsHandshake without its callback
Handshake(t, ok) ==
    IF t.state = "done" THEN t
    ELSE LET h == EngineHandshake([t EXCEPT !.state = "handshaking"], ok)
         IN  IF h.step = 4 THEN [h EXCEPT !.state = "done"]
             ELSE ErrorHandler(h)

\* iotjs_tlswrap_encode_data, and TLSHandle.write which sends what it returns
EncodeData(t) ==
    LET e == EngineSend(EngineFlush(Using(t)))
        r == BioRead(e.out, BioPending(e.out))
    IN  IF t.failed THEN [Using(t) EXCEPT !.writes = @ + 1]
        ELSE IF BioPending(e.out) <= 0 THEN [e EXCEPT !.writes = @ + 1]
        ELSE [e EXCEPT !.out = r.bio, !.wire = @ \o r.bytes, !.writes = @ + 1]

\* iotjs_tlswrap_free
TlsFree(t) == [t EXCEPT !.fault = @ \/ t.destroyed, !.destroyed = TRUE]

-----------------------------------------------------------------------------
(* TLSHandle and the callbacks *)

ScriptRuns == tls.pc = "idle" \/ tls.inCall

\* tlsAfterConnect with status 0
TlsAfterConnect(ok) ==
    /\ tls.tcp = "new"
    /\ tls' = Handshake([tls EXCEPT !.tcp = "reading"], ok)

\* The peer answers what it has received
PeerMaySend == IF Len(tls.wire) < RecLen THEN 0
               ELSE IF Len(tls.wire) < 2 * RecLen THEN RecLen ELSE MaxPeer

\* TlsRead up to its loop: the chunk goes to the BIO, as far as it fits, and to the
\* handshake, whose callback (onhandshakedone) runs before the loop does
TlsRead(n, ok) ==
    /\ tls.tcp = "reading" /\ tls.pc = "idle"
    /\ tls.arrived + n <= PeerMaySend
    /\ LET w == BioWrite(tls.in, Numbers(tls.arrived, n))
           h == Handshake([tls EXCEPT !.in = w.bio, !.arrived = @ + n,
                                      !.clipped = @ \/ w.taken < n], ok)
       IN  tls' = IF h.state # "done" THEN h
                  ELSE [h EXCEPT !.pc = "loop", !.inCall = (tls.state # "done")]

\* One round of the loop of TlsRead: mbedtls_ssl_read, and the callback it is due
TlsReadLoop(what) ==
    /\ tls.pc = "loop"
    /\ LET t == [tls EXCEPT !.inCall = FALSE]
           r == EngineRecv(EngineFlush(Using(t)))
           k == Take(r, what # "bad")
       IN  tls' = IF t.destroyed \/ t.failed THEN [t EXCEPT !.pc = "idle"]
                  ELSE IF ~Complete(r) THEN [StayUpdate(r) EXCEPT !.pc = "idle"]
                  ELSE IF k.failed THEN [k EXCEPT !.pc = "idle"]
                  ELSE IF what = "close_notify" THEN [k EXCEPT !.pc = "idle", !.closing = TRUE]
                  ELSE [k EXCEPT !.data = @ + 1, !.inCall = TRUE]

\* TLSHandle.write, once encrypted, and TlsWrite
TlsWrite ==
    /\ ScriptRuns /\ tls.tcp = "reading" /\ tls.state = "done"
    /\ tls.writes < MaxWrites
    /\ tls' = EncodeData(tls)

\* TLSHandle.close: net.js calls it once
TlsClose ==
    /\ ScriptRuns /\ tls.tcp # "closed"
    /\ tls' = [TlsFree(tls) EXCEPT !.tcp = "closed"]

TlsNext ==
    \/ \E ok \in BOOLEAN :
          \/ TlsAfterConnect(ok)
          \/ \E n \in 1 .. MaxChunk : TlsRead(n, ok)
    \/ \E what \in {"data", "close_notify", "bad"} : TlsReadLoop(what)
    \/ TlsWrite
    \/ TlsClose

-----------------------------------------------------------------------------

\* A session ended by a callback of TlsRead (onread, onhandshakedone) is not used by
\* the rest of TlsRead: the BIOs and the engine are freed once and not used after.
\* The bytes for the peer leave in order and without gaps, those of the handshake and
\* those of write() together.  When TlsRead has returned, unless the session failed,
\* was closed or was given a chunk larger than the BIO (17000 bytes; OnAlloc reads up
\* to 65535), nothing waits in a BIO: each complete record has been given to onread
\* and each byte of the engine to TCP.
TlsDelivers ==
    /\ ~tls.fault
    /\ IsPrefix(tls.wire, Numbers(0, tls.made))
    /\ tls.pc = "idle" /\ ~tls.destroyed /\ ~tls.failed /\ ~tls.clipped /\ ~tls.closing =>
          /\ tls.recs = tls.arrived \div RecLen
          /\ tls.state = "done" => tls.data = tls.recs - 2
          /\ Len(tls.wire) = tls.made

\* The TLS binding loses, repeats and reorders nothing: the ring of a BIO
\* (iotjs_module_tls_bio.c) is a queue of bytes, and the session over two of them
\* (iotjs_module_tls.c, TlsRead) delivers what arrives and is not used once ended.
TlsWhole == BioIsQueue /\ TlsDelivers
=============================================================================
