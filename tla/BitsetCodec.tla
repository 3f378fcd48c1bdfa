---------------------------- MODULE BitsetCodec ----------------------------
(***************************************************************************)
(* The slot-bitmap codecs of src/novadbplus/utils/string.h.  A bitmap of   *)
(* Size bits (CLUSTER_SLOTS in the code) travels in two forms:             *)
(*                                                                         *)
(*   binary  a uint32 total length, then one (start, length) pair of       *)
(*           uint16 per run of set bits, all big-endian;                   *)
(*   text    " 0 100-102 16383 ": one field per run, "first-last" or a     *)
(*           single position, after a leading separator.                   *)
(*                                                                         *)
(* A bitmap is the set of its set bits.  A byte has Radix values (256 in   *)
(* the code); a text is the sequence of its fields, a field the numbers    *)
(* written in it: the digits are not modelled, a number that does not      *)
(* parse is NaN.                                                           *)
(***************************************************************************)
EXTENDS Integers, Sequences, SequencesExt

CONSTANTS
    Size,       \* bits of the bitset
    Radix       \* values of one byte

Uint16 == Radix ^ 2
Uint32 == Radix ^ 4

ASSUME /\ Size \in Nat \ {0}
       /\ Radix \in Nat \ {0, 1}
       /\ Size < Uint16

Bitmap == SUBSET (0 .. Size - 1)
Byte   == 0 .. Radix - 1
NaN    == -1

\* Expected<std::bitset<size>>: a bitmap, ERR_DECODE, or the exception
\* std::bitset::set raises for a position outside the bitset.
Ok(bitmap) == [status |-> "ok", value |-> bitmap]
ErrDecode  == [status |-> "ERR_DECODE", value |-> {}]
OutOfRange == [status |-> "out_of_range", value |-> {}]

Single(pos)       == [kind |-> "single", begin |-> pos, end |-> pos]
Span(begin, end)  == [kind |-> "range", begin |-> begin, end |-> end]
Blank             == Single(NaN)

-----------------------------------------------------------------------------
\* The length test of bitsetDecodeVec one too wide.
PageFits_OneTooWide(len) == len <= Size + 1

\* The "first-last" field written with the length of the run for last.
StrField_EndIsLength(pos, pageLen) == Span(pos, pageLen + 1)

\* The range loop of bitsetStrDecode stopping before end.
RangeBits_EndExcluded(begin, end) == begin .. end - 1

\* bitsetDecode without its test of the claimed length.
TooShort_Never(max_size, decodeSize) == FALSE

\* The test of the start of a page letting through the last bit set.
StartsBehind_OffByOne(pos, last_pos) == pos < last_pos

-----------------------------------------------------------------------------
\* CopyUint: the bytes of element, most significant first.
CopyUint(width, element) ==
    [i \in 1 .. width |-> (element \div Radix ^ (width - i)) % Radix]

\* int16Decode and int32Decode: the number whose bytes CopyUint wrote.
DecodeUint(bytes) == FoldLeft(LAMBDA n, b : n * Radix + b, 0, bytes)

\* The inner loop of the encoders: how many bits are set from idx on.
RunLen(bitmap, idx) ==
    CHOOSE n \in 0 .. Size - idx :
        (idx .. idx + n - 1) \subseteq bitmap /\ idx + n \notin bitmap

RECURSIVE EncodeVecFrom(_, _)
EncodeVecFrom(bitmap, idx) ==
    IF idx >= Size THEN <<>>
    ELSE IF idx \in bitmap
         THEN <<idx % Uint16, RunLen(bitmap, idx) % Uint16>>
                  \o EncodeVecFrom(bitmap, idx + RunLen(bitmap, idx))
         ELSE EncodeVecFrom(bitmap, idx + 1)

bitsetEncodeVec(bitmap) == EncodeVecFrom(bitmap, 0)

\* if (len > size) return ERR_DECODE
PageFits(len) == len <= Size

\* if (pos <= last_pos) return ERR_DECODE
StartsBehind(pos, last_pos) == pos <= last_pos

\* The loop of bitsetDecodeVec from offset on (offsets count from 1 here).
\* A page of length 0 sets nothing and leaves last_pos as it is.
RECURSIVE DecodeVecFrom(_, _, _, _)
DecodeVecFrom(vec, offset, last_pos, bitmap) ==
    IF offset > Len(vec) THEN Ok(bitmap)
    ELSE LET pos == vec[offset]
             len == pos + vec[offset + 1]
         IN  CASE StartsBehind(pos, last_pos) -> ErrDecode
               [] ~PageFits(len)              -> ErrDecode
               [] OTHER ->
                    DecodeVecFrom(vec, offset + 2,
                                  IF len > pos THEN len - 1 ELSE last_pos,
                                  bitmap \cup (pos .. len - 1))

bitsetDecodeVec(vec) ==
    IF Len(vec) % 2 # 0 THEN ErrDecode ELSE DecodeVecFrom(vec, 1, -1, {})

bitsetEncodeSize(bitmap) == (4 + Len(bitsetEncodeVec(bitmap)) * 2) % Uint32

bitsetEncode(bitmap) ==
    LET vec == bitsetEncodeVec(bitmap)
    IN  CopyUint(4, bitsetEncodeSize(bitmap))
            \o FlattenSeq([i \in DOMAIN vec |-> CopyUint(2, vec[i])])

\* if (max_size < decodeSize) return ERR_DECODE
TooShort(max_size, decodeSize) == max_size < decodeSize

\* The bytes bitsetDecode reads of a buffer of max_size bytes: the length
\* and then two bytes at a time while offset < decodeSize.
BytesRead(str, max_size) ==
    IF max_size < 4 THEN 0
    ELSE LET decodeSize == DecodeUint(SubSeq(str, 1, 4))
         IN  IF TooShort(max_size, decodeSize) \/ decodeSize <= 4 THEN 4
             ELSE 4 + 2 * ((decodeSize - 4 + 1) \div 2)

\* The words the loop of bitsetDecode collects.  The one byte past the
\* end that it can reach is the terminator of the std::string the message
\* is in: with an odd decodeSize it is the low byte of the last word.
Words(str, max_size) ==
    LET byteAt(i) == IF i <= Len(str) THEN str[i] ELSE 0
    IN  [k \in 1 .. (BytesRead(str, max_size) - 4) \div 2 |->
            DecodeUint(<<byteAt(3 + 2 * k), byteAt(4 + 2 * k)>>)]

bitsetDecode(str, max_size) ==
    LET decodeSize == DecodeUint(SubSeq(str, 1, 4))
    IN  CASE max_size < 4          -> ErrDecode
          [] TooShort(max_size, decodeSize) -> ErrDecode
          [] OTHER                 -> bitsetDecodeVec(Words(str, max_size))

\* The field bitsetStrEncode writes for a run that starts at pos and has
\* pageLen further bits.
StrField(pos, pageLen) == Span(pos, pos + pageLen)

RECURSIVE StrEncodeFrom(_, _)
StrEncodeFrom(bitmap, idx) ==
    IF idx >= Size THEN <<>>
    ELSE IF idx \notin bitmap THEN StrEncodeFrom(bitmap, idx + 1)
    ELSE IF idx >= Size - 1 \/ idx + 1 \notin bitmap
         THEN <<Single(idx)>> \o StrEncodeFrom(bitmap, idx + 1)
         ELSE LET pageLen == RunLen(bitmap, idx + 1)
              IN  <<StrField(idx, pageLen)>>
                      \o StrEncodeFrom(bitmap, idx + 1 + pageLen)

bitsetStrEncode(bitmap) == <<Blank>> \o StrEncodeFrom(bitmap, 0)

\* for (j = begin; j <= end; j++) bitmap.set(j)
RangeBits(begin, end) == begin .. end

\* The loop of bitsetStrDecode over the fields.  The "first-last" form
\* tests last against the size; the single form passes the position to
\* std::bitset::set, which throws when it is outside.  A range field has
\* both its parts, numbers or not: what stringSplit makes of "5-" or "-5"
\* (the TODO of the code) is outside the sources, and so is s[1] then.
RECURSIVE StrDecodeFrom(_, _, _)
StrDecodeFrom(vec, i, bitmap) ==
    IF i > Len(vec) THEN Ok(bitmap)
    ELSE LET vs == vec[i]
         IN  CASE NaN \in {vs.begin, vs.end} -> ErrDecode
               [] vs.kind = "range" /\ vs.end >= Size -> ErrDecode
               [] vs.kind = "single" /\ vs.begin >= Size -> OutOfRange
               [] OTHER ->
                    StrDecodeFrom(vec, i + 1,
                                  bitmap \cup RangeBits(vs.begin, vs.end))

\* vec.erase(vec.begin()): the field before the leading separator is
\* dropped whatever it holds.
bitsetStrDecode(fields) == StrDecodeFrom(Tail(fields), 1, {})

-----------------------------------------------------------------------------
(***************************************************************************)
(* The reference: the maximal runs of a bitmap and their two encodings.    *)
(***************************************************************************)
MaximalRuns(bitmap) ==
    {r \in (0 .. Size - 1) \X (1 .. Size) :
        /\ (r[1] .. r[1] + r[2] - 1) \subseteq bitmap
        /\ r[1] - 1 \notin bitmap
        /\ r[1] + r[2] \notin bitmap}

RunsInOrder(bitmap) ==
    SetToSortSeq(MaximalRuns(bitmap), LAMBDA r, s : r[1] < s[1])

BinaryOfRuns(runs) ==
    CopyUint(4, 4 + 4 * Len(runs))
        \o FlattenSeq([i \in DOMAIN runs |->
                          CopyUint(2, runs[i][1]) \o CopyUint(2, runs[i][2])])

\* The pages of a binary message, a page the bits from pos on that it
\* names, and the messages the design lets a decoder accept: every page
\* inside the bitset and starting behind every bit an earlier page named.
\* A page of length 0 names no bit.
Pages(vec) ==
    [k \in 1 .. Len(vec) \div 2 |->
        [pos |-> vec[2 * k - 1], len |-> vec[2 * k]]]

BitsOf(page) == page.pos .. page.pos + page.len - 1

PagesAscend(pages) ==
    \A i \in DOMAIN pages :
        /\ pages[i].pos + pages[i].len <= Size
        /\ \A j \in 1 .. i - 1 : \A bit \in BitsOf(pages[j]) : bit < pages[i].pos

\* A message whose claimed length lies inside it.
Framed(str) == Len(str) >= 4 /\ DecodeUint(SubSeq(str, 1, 4)) <= Len(str)

TextOfRuns(runs) ==
    <<Blank>> \o [i \in DOMAIN runs |->
                     IF runs[i][2] = 1
                     THEN Single(runs[i][1])
                     ELSE Span(runs[i][1], runs[i][1] + runs[i][2] - 1)]

=============================================================================
