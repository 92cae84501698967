-------------------------------- MODULE Buffers --------------------------------
(***************************************************************************)
(* Buffers: src/src/js/buffer.js over                                      *)
(* src/src/modules/iotjs_module_buffer.c and src/src/iotjs_base64.h.  A    *)
(* behaviour makes one call on two buffers of any contents; the call is    *)
(* kept for the property, which compares it with what it stands for.  A    *)
(* character of a base64 text is its value, or 64 for '=' and 65 for one   *)
(* outside the alphabet; of a hexadecimal text its value, or 16.           *)
(***************************************************************************)
EXTENDS Integers, Sequences, SequencesExt, FiniteSetsExt

CONSTANTS BufferBytes,   \* bytes in the buffers
          MaxLength      \* bound: bytes of a buffer

ASSUME BufferAssumption == BufferBytes \subseteq 0 .. 223 /\ MaxLength \in Nat

VARIABLE bu

SizeMax == 2147483647   \* SIZE_MAX: above every index
BufferContents == UNION {[1 .. n -> BufferBytes] : n \in 0 .. MaxLength}
\* Arguments of the script, inside a buffer and outside
Indices == {-2, -1, 0, 1, 3, MaxLength + 2}
NoCall == [op |-> "none"]

\* Two buffers of the script, filled in some way
BuffersInit ==
    bu \in [mem : {<<a, b>> : a \in BufferContents, b \in {<< >>, [i \in 1 .. 3 |-> 7]}},
            call : {NoCall}]

-----------------------------------------------------------------------------
(* Ranges and memory *)

\* iotjs_bufferwrap_create: zeros; no memory for an empty buffer
NewBuffer(length) == [i \in 1 .. length |-> 0]

\* iotjs_convert_double_to_sizet; the arguments have been through ~~
ToSize(v) == IF v < 0 THEN SizeMax ELSE v

\* bound_range
BoundRange(index, low, upper) ==
    IF index = SizeMax THEN low ELSE IF index > upper THEN upper ELSE index
Bounded(v, upper) == BoundRange(ToSize(v), 0, upper)

\* Mutant: the end of the target is not looked at
CopyInternal_Long(mem, d, s, from, to, at) ==
    LET n == to - from
        grown == [mem EXCEPT ![d] = @ \o [i \in 1 .. n |-> 0]]
    IN  FoldLeft(LAMBDA m, t : [m EXCEPT ![d][at + t] = m[s][from + t]],
                 IF n > 0 THEN grown ELSE mem, [t \in 1 .. n |-> t])

\* iotjs_bufferwrap_copy_internal: upwards, byte by byte, also inside one buffer
CopyInternal(mem, d, s, from, to, at) ==
    LET n == Min({to - from, Len(mem[d]) - at})
    IN  FoldLeft(LAMBDA m, t : [m EXCEPT ![d][at + t] = m[s][from + t]],
                 mem, [t \in 1 .. n |-> t])

\* The same from memory of its own (a string, src_buf) into buffer d
CopyFrom(mem, d, bytes, at) ==
    SubSeq(CopyInternal(Append(mem, bytes), d, Len(mem) + 1, 0, Len(bytes), at), 1, Len(mem))

\* iotjs_bufferwrap_create_buffer and a copy of from .. to into it
CopyOf(b, from, to) ==
    LET end == Max({from, to})
    IN  CopyInternal(<<b, NewBuffer(end - from)>>, 2, 1, from, end, 0)[2]

\* WriteUInt8 of the binding
WriteByte(b, value, v) ==
    LET offset == Bounded(v, Len(b))
        length == BoundRange(1, 0, Len(b) - offset)
    IN  CopyFrom(<<b>>, 1, SubSeq(<<value % 256>>, 1, length), offset)[1]

\* ReadUInt8 of the binding: buffer_length - 1 is SIZE_MAX for an empty buffer
ReadByte(b, v) ==
    LET offset == BoundRange(ToSize(v), 0, IF b = << >> THEN SizeMax ELSE Len(b) - 1)
    IN  IF b = << >> THEN 0 ELSE b[offset + 1]

-----------------------------------------------------------------------------
(* Texts *)

Pad == 64
OffAlphabet == 65
Legal(c) == c < 64

\* base64_encoded_size
EncodedSize(n) == ((n + 2 - ((n + 2) % 3)) \div 3) * 4

\* base64_encode
Base64Encode(b) ==
    LET At(i) == IF i <= Len(b) THEN b[i] ELSE 0
        Char(g, p) ==
            LET x == At(3 * g + 1)
                y == At(3 * g + 2)
                z == At(3 * g + 3)
            IN  CASE p = 0 -> x \div 4
                  [] p = 1 -> (x % 4) * 16 + y \div 16
                  [] p = 2 -> IF 3 * g + 2 > Len(b) THEN Pad ELSE (y % 16) * 4 + z \div 64
                  [] p = 3 -> IF 3 * g + 3 > Len(b) THEN Pad ELSE z % 64
    IN  [i \in 1 .. EncodedSize(Len(b)) |-> Char((i - 1) \div 4, (i - 1) % 4)]

\* base64_decoded_size_fast
DecodedSizeFast(size) ==
    LET rest == size % 4
        whole == (size \div 4) * 3
    IN  IF rest = 0 \/ (whole = 0 /\ rest = 1) THEN whole
        ELSE whole + 1 + (IF rest = 3 THEN 1 ELSE 0)

\* base64_decoded_size: up to two '=' at the end do not count
DecodedSize(src) ==
    LET Less(n) == IF n > 0 /\ src[n] = Pad THEN n - 1 ELSE n
    IN  DecodedSizeFast(Less(Less(Len(src))))

\* A character of base64_decode_group_slow (V): those off the alphabet are skipped up
\* to '=' or the end; i characters are used, dst is written up to k
SlowChar(src, dstlen, st, n) ==
    LET j == Min({x \in st.i + 1 .. Len(src) : src[x] <= Pad \/ x = Len(src)})
        lo == src[j]
        byte == CASE n = 2 -> st.hi * 4 + lo \div 16
                  [] n = 3 -> (st.hi % 16) * 16 + lo \div 4
                  [] n = 4 -> (st.hi % 4) * 64 + lo
        dst == IF n = 1 THEN st.dst ELSE Append(st.dst, byte)
    IN  IF st.stop THEN st
        ELSE IF ~Legal(lo) THEN [st EXCEPT !.i = j, !.stop = TRUE]
        ELSE [i |-> j, hi |-> lo, dst |-> dst, stop |-> j >= Len(src) \/ Len(dst) >= dstlen]

\* base64_decode_group_slow
DecodeGroupSlow(src, dstlen, st) ==
    FoldLeft(LAMBDA s, n : SlowChar(src, dstlen, s, n), st, <<1, 2, 3, 4>>)

\* The loop of base64_decode_fast, over groups of four characters
RECURSIVE DecodeGroups(_, _, _, _, _)
DecodeGroups(src, dstlen, maxK, maxI, st) ==
    LET group == SubSeq(src, st.i + 1, st.i + 4)
        slow == DecodeGroupSlow(src, dstlen, st)
        realigned == slow.i + ((Len(src) - slow.i) \div 4) * 4
    IN  IF st.stop \/ st.i >= maxI \/ Len(st.dst) >= maxK THEN st
        ELSE IF \E c \in ToSet(group) : ~Legal(c)
        THEN DecodeGroups(src, dstlen, maxK, realigned, slow)
        ELSE DecodeGroups(src, dstlen, maxK, maxI,
                 [st EXCEPT !.i = @ + 4,
                            !.dst = @ \o <<group[1] * 4 + group[2] \div 16,
                                           (group[2] % 16) * 16 + group[3] \div 4,
                                           (group[3] % 4) * 64 + group[4]>>])

\* base64_decode, into dstlen bytes
Base64Decode(src, dstlen) ==
    LET maxK == (Min({dstlen, DecodedSize(src)}) \div 3) * 3
        st == DecodeGroups(src, dstlen, maxK, (Len(src) \div 4) * 4,
                           [i |-> 0, hi |-> 0, dst |-> << >>, stop |-> FALSE])
    IN  IF ~st.stop /\ st.i < Len(src) /\ Len(st.dst) < dstlen
        THEN DecodeGroupSlow(src, dstlen, st).dst ELSE st.dst

\* ToHexString
HexEncode(b) ==
    [i \in 1 .. 2 * Len(b) |->
        LET x == b[(i + 1) \div 2] IN IF i % 2 = 1 THEN x \div 16 ELSE x % 16]

\* hex_decode, into dstlen bytes: up to a character that hex2bin refuses
HexDecode(src, dstlen) ==
    LET pairs == Min({dstlen, Len(src) \div 2})
        Good(i) == src[2 * i - 1] < 16 /\ src[2 * i] < 16
        n == Max({k \in 0 .. pairs : \A i \in 1 .. k : Good(i)})
    IN  [i \in 1 .. n |-> src[2 * i - 1] * 16 + src[2 * i]]

-----------------------------------------------------------------------------
(* Calls of the script *)

Returns(op, args, mem, result) ==
    bu' = [mem  |-> mem,
           call |-> [op |-> op, args |-> args, was |-> bu.mem, result |-> result]]
May_bu == bu.call = NoCall
Threw == << >>   \* the result, otherwise of one element
BufferIds == {1, 2}

\* buffer.copy of the script throws
CopyThrows(ts, ss, se) == se > ss /\ ts < 0

\* Copy of the binding
BufferCopy ==
    /\ May_bu
    /\ \E d \in BufferIds, s \in BufferIds, ts \in Indices, ss \in Indices, se \in Indices :
          LET dst == Bounded(ts, Len(bu.mem[d]))
              from == Bounded(ss, Len(bu.mem[s]))
              end == Bounded(se, Len(bu.mem[s]))
              to == Max({from, end})
              n == Min({to - from, Len(bu.mem[d]) - dst})
          IN  IF CopyThrows(ts, ss, se) THEN Returns("copy", <<d, s, ts, ss, se>>, bu.mem, Threw)
              ELSE Returns("copy", <<d, s, ts, ss, se>>,
                          CopyInternal(bu.mem, d, s, from, to, dst), <<n>>)

\* buffer.write of the script throws; the length is all that remains by default
OutsideBounds(b, str, offset) == str # << >> /\ (offset < 0 \/ offset >= Len(b))

\* Write of the binding
BufferWrite ==
    /\ May_bu
    /\ \E str \in {<< >>, <<9>>, <<9, 0, 9>>}, offset \in Indices :
       \E len \in Indices \cup {Len(bu.mem[1]) - offset} :
          LET b == bu.mem[1]
              at == Bounded(offset, Len(b))
              length == BoundRange(Bounded(len, Len(b) - at), 0, Len(str))
          IN  IF OutsideBounds(b, str, offset)
              THEN Returns("write", <<str, offset, len>>, bu.mem, Threw)
              ELSE Returns("write", <<str, offset, len>>,
                          CopyFrom(bu.mem, 1, SubSeq(str, 1, length), at), <<length>>)

\* buffer.slice: a copy
BufferSlice ==
    /\ May_bu
    /\ \E start \in Indices, end \in Indices :
          LET len == Len(bu.mem[1])
              Index(v) == BoundRange(IF v >= 0 THEN v
                                     ELSE IF -v > len THEN SizeMax ELSE v + len, 0, len)
          IN  Returns("slice", <<start, end>>, bu.mem,
                     <<CopyOf(bu.mem[1], Index(start), Index(end))>>)

\* jerry_is_valid_utf8_string, for characters of one and two bytes
Utf8(text) ==
    \A i \in DOMAIN text :
        /\ text[i] >= 192 => text[i] >= 194 /\ i < Len(text) /\ text[i + 1] \in 128 .. 191
        /\ text[i] \in 128 .. 191 => i > 1 /\ text[i - 1] >= 192

\* buffer.toString: strnlen stops at a zero byte
BufferToString ==
    /\ May_bu
    /\ \E s \in BufferIds, start \in Indices, end \in Indices :
          LET b == bu.mem[s]
              data == SubSeq(b, Bounded(start, Len(b)) + 1, Bounded(end, Len(b)))
              zeros == {i \in DOMAIN data : data[i] = 0}
              text == IF zeros = {} THEN data ELSE SubSeq(data, 1, Min(zeros) - 1)
          IN  Returns("toString", <<s, start, end>>, bu.mem,
                       IF Utf8(text) THEN <<text>> ELSE Threw)

\* buffer.toString('base64'), of an empty buffer JS_CHECK(data != NULL) throws
BufferToBase64 ==
    /\ May_bu
    /\ Returns("toBase64", << >>, bu.mem,
                IF bu.mem[1] = << >> THEN Threw ELSE <<Base64Encode(bu.mem[1])>>)

\* buffer.toString('hex')
BufferToHex ==
    /\ May_bu
    /\ Returns("toHex", << >>, bu.mem,
                IF bu.mem[1] = << >> THEN Threw ELSE <<HexEncode(bu.mem[1])>>)

\* iotjs_bufferwrap_compare; char is signed or not, as the compiler has it
CompareBytes(a, b, signed) ==
    LET Char(x) == IF signed /\ x > 127 THEN x - 256 ELSE x
        diff == {i \in 1 .. Min({Len(a), Len(b)}) : a[i] # b[i]}
        i == Min(diff)
    IN  IF diff # {} THEN (IF Char(a[i]) < Char(b[i]) THEN -1 ELSE 1)
        ELSE IF Len(a) < Len(b) THEN -1
        ELSE IF Len(a) > Len(b) THEN 1 ELSE 0

\* buffer.compare and equals
BufferCompare ==
    /\ May_bu
    /\ \E signed \in BOOLEAN, other \in BufferContents :
          Returns("compare", <<other, signed>>, bu.mem,
                  <<CompareBytes(bu.mem[1], other, signed)>>)

\* Buffer.concat
BufferConcat ==
    /\ May_bu
    /\ LET len == Len(bu.mem[1]) + Len(bu.mem[2])
           mem == Append(bu.mem, NewBuffer(len))
           first == CopyInternal(mem, 3, 1, 0, Len(mem[1]), 0)
       IN  Returns("concat", << >>, bu.mem,
                  <<CopyInternal(first, 3, 2, 0, Len(mem[2]), Len(mem[1]))[3]>>)

\* ByteLength of the binding
ByteLength(src, encoding) == IF encoding = "base64" THEN DecodedSize(src) ELSE Len(src)
\* Buffer.byteLength
BufferByteLength(src, encoding) ==
    IF encoding = "hex" THEN ByteLength(src, encoding) \div 2 ELSE ByteLength(src, encoding)

\* new Buffer(text, encoding): the bytes written, unless they do not fill byteLength
FromText(encoding, src, b) ==
    Returns(encoding, src, bu.mem,
            IF Len(b) # BufferByteLength(src, encoding) THEN Threw ELSE <<b>>)

\* The texts: that of the contents, whole or cut, or with a character put in
Texts(text, other) ==
    {SubSeq(text, 1, n) : n \in 0 .. Len(text)}
        \cup {InsertAt(text, i, other) : i \in 1 .. Len(text)}

\* new Buffer(text, 'base64'), Base64Write of the binding
FromBase64 ==
    /\ May_bu
    /\ \E src \in Texts(Base64Encode(bu.mem[1]), OffAlphabet) :
          FromText("base64", src, Base64Decode(src, BufferByteLength(src, "base64")))

\* new Buffer(text, 'hex'), HexWrite of the binding
FromHex ==
    /\ May_bu
    /\ \E src \in Texts(HexEncode(bu.mem[1]), 16) :
          FromText("hex", src, HexDecode(src, BufferByteLength(src, "hex")))

\* The integers of width bytes; signed or not, little or big endian
Byte(value, i) == (value \div (256 ^ i)) % 256
PlaceOf(big, width, i) == IF big THEN width - 1 - i ELSE i
\* writeInt16LE writes "(value >>> 8) && 0xff"
ByteWritten(signed, width, big, value, i) ==
    IF signed /\ width = 2 /\ i = 1 THEN (IF value \div 256 = 0 THEN 0 ELSE 255)
    ELSE Byte(value, i)
\* <<signed, width, big endian>>
IntKinds == {<<FALSE, 1, FALSE>>, <<FALSE, 2, FALSE>>, <<TRUE, 2, FALSE>>, <<TRUE, 4, FALSE>>,
             <<TRUE, 4, TRUE>>}
\* checkInt; of four bytes there is no value here that does not fit as a signed one
Fits(k, value) ==
    /\ ~k[1] => value >= 0 /\ (k[2] = 1 => value <= 255)
    /\ k[1] /\ k[2] = 2 => value \in -32768 .. 32767

\* writeUInt8, writeUInt16LE, writeUInt32LE, writeInt16LE, writeInt32LE and
\* writeInt32BE
BufferWriteInt ==
    /\ May_bu
    /\ \E k \in IntKinds \cup {<<FALSE, 4, FALSE>>}, value \in {-300, -2, 7, 255, 258, 40000},
          offset \in 0 .. MaxLength, noAssert \in BOOLEAN :
          LET width == k[2]
              Put(b, i) == WriteByte(b, ByteWritten(k[1], width, k[3], value, i),
                                     offset + PlaceOf(k[3], width, i))
          IN  IF ~noAssert /\ (~Fits(k, value) \/ offset + width > Len(bu.mem[1]))
              THEN Returns("writeInt", <<k, value, offset, noAssert>>, bu.mem, Threw)
              ELSE Returns("writeInt", <<k, value, offset, noAssert>>,
                          [bu.mem EXCEPT ![1] = FoldLeft(Put, @, [i \in 1 .. width |-> i - 1])],
                          <<offset + width>>)

\* The value that the read functions make of the bytes
IntRead(b, k, offset) ==
    LET width == k[2]
        At(i) == ReadByte(b, offset + PlaceOf(k[3], width, i))
        high == At(width - 1)
        top == IF k[1] /\ high > 127 THEN high - 256 ELSE high
    IN  FoldLeft(LAMBDA n, i : n * 256 + At(i), top, [i \in 1 .. width - 1 |-> width - 1 - i])

\* readUInt8, readInt8, readUInt16LE, readInt16LE, readInt32LE and readInt32BE
BufferReadInt ==
    /\ May_bu
    /\ \E k \in IntKinds \cup {<<TRUE, 1, FALSE>>}, offset \in 0 .. MaxLength, noAssert \in BOOLEAN :
          Returns("readInt", <<k, offset, noAssert>>, bu.mem,
                 IF ~noAssert /\ offset + k[2] > Len(bu.mem[1]) THEN Threw
                 ELSE <<IntRead(bu.mem[1], k, offset)>>)

\* ReadFloatLE and ReadDoubleLE: memcpy of width bytes from an offset inside the
\* buffer; the result says whether they were the buffer's
BufferReadFloat ==
    /\ May_bu
    /\ \E width \in {4, 8}, v \in 0 .. MaxLength, noAssert \in BOOLEAN :
          LET b == bu.mem[1]
              offset == BoundRange(v, 0, IF b = << >> THEN SizeMax ELSE Len(b) - 1)
          IN  Returns("readFloat", <<width, v, noAssert>>, bu.mem,
                     IF ~noAssert /\ v + width > Len(b) THEN Threw
                     ELSE <<b = << >> \/ offset + width <= Len(b)>>)

BuffersNext ==
    \/ BufferCopy \/ BufferWrite \/ BufferSlice \/ BufferToString \/ BufferCompare
    \/ BufferConcat \/ FromBase64 \/ FromHex \/ BufferWriteInt \/ BufferReadInt
    \/ BufferReadFloat \/ BufferToBase64 \/ BufferToHex
-----------------------------------------------------------------------------
(* What each call stands for *)

Clip(v, len) == Min({Max({v, 0}), len})

\* The bytes from .. to - 1, counted from 0, clipped to the buffer
Part(b, from, to) == SubSeq(b, Clip(from, Len(b)) + 1, Clip(to, Len(b)))

\* Nothing is said of the bytes that a copy to a higher place of the same buffer leaves
\* where the two ranges overlap
CopyExact(c) ==
    LET d == c.args[1]
        s == c.args[2]
        at == Clip(c.args[3], Len(c.was[d]))
        from == Clip(c.args[4], Len(c.was[s]))
        part == Part(c.was[s], c.args[4], c.args[5])
        n == Min({Len(part), Len(c.was[d]) - at})
        overlaps == d = s /\ from < at /\ at < from + n
    IN  IF c.result = Threw THEN c.args[3] < 0 /\ bu.mem = c.was
        ELSE /\ c.result = <<n>>
             /\ \A o \in BufferIds \ {d} : bu.mem[o] = c.was[o]
             /\ \A i \in DOMAIN c.was[d] :
                   IF i \in at + 1 .. at + n
                   THEN overlaps \/ bu.mem[d][i] = part[i - at]
                   ELSE bu.mem[d][i] = c.was[d][i]

WriteExact(c) ==
    LET str == c.args[1]
        at == c.args[2]
        n == Min({Len(str), Clip(c.args[3], Len(c.was[1]) - at)})
    IN  IF at \in 0 .. Len(c.was[1]) /\ c.result # Threw
        THEN /\ c.result = <<n>>
             /\ bu.mem[1] = SubSeq(c.was[1], 1, at) \o SubSeq(str, 1, n)
                            \o SubSeq(c.was[1], at + n + 1, Len(c.was[1]))
        ELSE bu.mem = c.was

SliceExact(c) ==
    LET b == c.was[1]
        Index(v) == IF v < 0 THEN v + Len(b) ELSE v
    IN  c.result = <<Part(b, Index(c.args[1]), Index(c.args[2]))>>

\* An encoded text and its bytes have the same bits
BitsOf(s, width) ==
    [i \in 1 .. width * Len(s) |->
        (s[(i - 1) \div width + 1] \div 2 ^ ((width - 1) - ((i - 1) % width))) % 2]
SameBits(bytes, chars, width) ==
    LET a == BitsOf(bytes, 8)
        b == BitsOf(chars, width)
    IN  IsPrefix(a, b) /\ Len(b) - Len(a) < 8

\* The text up to '=', without what is off the alphabet
Meant(src, pad, off) ==
    LET ends == {i \in DOMAIN src : src[i] = pad}
    IN  SelectSeq(IF ends = {} THEN src ELSE SubSeq(src, 1, Min(ends) - 1),
                  LAMBDA ch : ch # off)

\* A text is decoded to its bytes or refused, and one that is all of the alphabet is
\* refused only when a base64 character is left over
DecodedExactly(c, width, pad, off) ==
    LET text == Meant(c.args, pad, off)
    IN  IF c.result = Threw THEN off \in ToSet(c.args) \/ (width = 6 /\ Len(text) % 4 = 1)
        ELSE SameBits(c.result[1], text, width)

\* The text of bytes has their bits, in whole groups of group characters; an empty
\* buffer has no text
EncodedExactly(c, width, pad, group) ==
    IF c.result = Threw THEN c.was[1] = << >>
    ELSE LET text == Meant(c.result[1], pad, OffAlphabet)
         IN  /\ SameBits(c.was[1], text, width)
             /\ Len(c.result[1]) % group = 0 /\ Len(c.result[1]) - Len(text) < group
             /\ \A i \in Len(text) + 1 .. Len(c.result[1]) : c.result[1][i] = pad

\* A part of the buffer that is text
ToStringExact(c) ==
    LET part == Part(c.was[c.args[1]], c.args[2], c.args[3])
    IN  0 \notin ToSet(part) /\ Utf8(part) => c.result = <<part>>

\* <<a, b>> differ first at a place where a has the lower byte, or a is a prefix of b
Before(a, b) ==
    \/ IsStrictPrefix(a, b)
    \/ \E i \in 1 .. Min({Len(a), Len(b)}) :
          a[i] < b[i] /\ \A j \in 1 .. i - 1 : a[j] = b[j]

CompareExact(c) ==
    LET a == c.was[1]
        b == c.args[1]
    IN  /\ (c.result = <<0>>) = (a = b)
        /\ ~c.args[2] => (c.result = <<-1>>) = Before(a, b)

\* The number that width bytes from at stand for, in two's complement if signed
NumberAt(b, k, at) ==
    LET ByteOf(i) == b[at + 1 + PlaceOf(k[3], k[2], i)]
        top == k[2] - 1
        negative == k[1] /\ ByteOf(top) > 127
    IN  MapThenSumSet(LAMBDA i : (ByteOf(i) - (IF i = top /\ negative THEN 256 ELSE 0)) * 256 ^ i,
                      0 .. top)

\* A number inside the buffer
ReadIntExact(c) ==
    LET inside == c.args[2] + c.args[1][2] <= Len(c.was[1])
    IN  IF inside THEN c.result = <<NumberAt(c.was[1], c.args[1], c.args[2])>>
        ELSE c.result = Threw \/ c.args[3]

\* A number that fits, inside the buffer; writeInt16LE with a high byte other than 0 and
\* 255 is left out
WriteIntExact(c) ==
    LET k == c.args[1]
        value == c.args[2]
        at == c.args[3]
        inside == at + k[2] <= Len(c.was[1])
    IN  IF c.result = Threw THEN ~c.args[4] /\ bu.mem = c.was
        ELSE /\ \A i \in DOMAIN c.was[1] :
                   i \notin at + 1 .. at + k[2] => bu.mem[1][i] = c.was[1][i]
             /\ inside /\ Fits(k, value) /\ (<<TRUE, 2, FALSE>> = k => value \in -256 .. 255)
                    => NumberAt(bu.mem[1], k, at) = value

\* Buffers (iotjs_module_buffer.c, iotjs_base64.h, buffer.js): for any contents and any
\* arguments, in range or not, a call does what it stands for on the bytes in range and
\* changes no byte outside of them and no length; numbers are written and read as they
\* are in memory; a text in base64 or hexadecimal has the bits of its bytes, both ways, or
\* is refused; only a float read with noAssert leaves the buffer.  Left out is what the
\* code gets wrong, and at last what the documentation leaves undefined:
\* - writeInt16LE of a high byte other than 0 and 255, as in the example of the
\*   documentation: it writes "(value >>> 8) && 0xff";
\* - toString of bytes with a zero, where it stops, or that are not UTF-8, where it throws;
\* - the order of compare where char is signed, which the compiler decides: there a byte
\*   above 127 comes before the others (that it is 0 only for the same bytes is said);
\* - a copy to a higher place of the same buffer where the ranges overlap, done upwards;
\* - what a read with noAssert makes of an offset outside the buffer.
BuffersExact ==
    LET c == bu.call
    IN  c # NoCall =>
        /\ \A s \in BufferIds : Len(bu.mem[s]) = Len(c.was[s])
        /\ c.op \notin {"copy", "write", "writeInt"} => bu.mem = c.was
        /\ CASE c.op = "copy" -> CopyExact(c)
             [] c.op = "write" -> WriteExact(c)
             [] c.op = "slice" -> SliceExact(c)
             [] c.op = "compare" -> CompareExact(c)
             [] c.op = "writeInt" -> WriteIntExact(c)
             [] c.op = "readInt" -> ReadIntExact(c)
             [] c.op = "base64" -> DecodedExactly(c, 6, Pad, OffAlphabet)
             [] c.op = "hex" -> DecodedExactly(c, 4, 17, 16)
             [] c.op = "toBase64" -> EncodedExactly(c, 6, Pad, 4)
             [] c.op = "toHex" -> EncodedExactly(c, 4, 17, 2)
             [] c.op = "toString" -> ToStringExact(c)
             [] c.op = "concat" -> c.result = <<c.was[1] \o c.was[2]>>
             [] c.op = "readFloat" -> c.result = <<FALSE>> => c.args[3]
=============================================================================
