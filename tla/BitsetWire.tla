----------------------------- MODULE BitsetWire -----------------------------
(***************************************************************************)
(* The codecs of BitsetCodec at work: a node encodes a slot bitmap, or a   *)
(* peer sends bytes of its own making, and the receiver decodes what it    *)
(* got.  Cluster state, migration and GC pass slot bitmaps this way.       *)
(*                                                                         *)
(* Beside the bitmaps, a writer puts a record together in a vector with    *)
(* the write forms of easyCopy, one call a field, and a reader takes the   *)
(* elements out of the bytes that arrived with the read form, one call an  *)
(* element.  A record may arrive cut short.                                *)
(***************************************************************************)
EXTENDS BitsetCodec, EasyCopy

CONSTANTS
    MaxBody,        \* bytes a forged binary message has after its length
    MaxFields,      \* fields of a forged text
    ForgedNum,      \* the numbers a forged text is written with
    MaxRecFields,   \* fields of a record
    MaxArray,       \* elements of an array field
    RecWidths,      \* sizeof(T) of the elements of a record
    RecBytes        \* values of the bytes of an element

VARIABLES
    wire,       \* the message on its way
    result,     \* what the receiver made of the last message, and the message
    batch,      \* the vector a writer fills, its position and its fields
    cursor      \* the position of the reader and the elements it took

vars == <<wire, result, batch, cursor>>

\* The bitmap behind a message nobody encoded.
Unknown == {Size}

NoMessage == [form |-> "none", body |-> <<>>, sent |-> Unknown]
NoResult  == [res |-> Ok({}), msg |-> NoMessage, overread |-> 0]

ForgedBinary ==
    BoundedSeq(Byte, 3)
        \cup {CopyUint(4, claimed) \o body :
                 claimed \in 0 .. MaxBody + 5, body \in BoundedSeq(Byte, MaxBody)}

Field ==
    {Single(n) : n \in ForgedNum} \cup {Span(n, m) : n, m \in ForgedNum}

ForgedText == BoundedSeq(Field, MaxFields) \ {<<>>}

\* A fresh vector with *pos = 0, as the one of a MigrateBatch is after its
\* constructor (reserve leaves the size 0), and a reader at the start of a
\* string.
EmptyBatch == [buf |-> <<>>, pos |-> 0, overrun |-> 0, fields |-> <<>>]
NoCursor   == [pos |-> 0, got |-> <<>>, overread |-> 0]

\* The object representations of an element of width bytes.
Reps(width) == [1 .. width -> RecBytes]

\* The elements of the record in the order they were written.
Elements == FlattenSeq(batch.fields)

Init ==
    /\ wire = NoMessage
    /\ result = NoResult
    /\ batch = EmptyBatch
    /\ cursor = NoCursor

\* A node sends its bitmap: bitsetEncode or bitsetStrEncode.
SendBinary(bitmap) ==
    /\ wire' = [form |-> "binary", body |-> bitsetEncode(bitmap),
                sent |-> bitmap]
    /\ UNCHANGED <<result, batch, cursor>>

SendText(bitmap) ==
    /\ wire' = [form |-> "text", body |-> bitsetStrEncode(bitmap),
                sent |-> bitmap]
    /\ UNCHANGED <<result, batch, cursor>>

\* A message that no encoder of this code wrote arrives.
Forge(form, body) ==
    /\ wire' = [form |-> form, body |-> body, sent |-> Unknown]
    /\ UNCHANGED <<result, batch, cursor>>

\* bitsetDecode(str, max_size) of the message, max_size its length;
\* overread counts the bytes it read beyond them.
DecodeBinary ==
    /\ wire.form = "binary"
    /\ result' = [res |-> bitsetDecode(wire.body, Len(wire.body)),
                  msg |-> wire,
                  overread |-> Max({0, BytesRead(wire.body, Len(wire.body))
                                           - Len(wire.body)})]
    /\ wire' = NoMessage
    /\ UNCHANGED <<batch, cursor>>

\* bitsetStrDecode of the message.
DecodeText ==
    /\ wire.form = "text"
    /\ result' = [res |-> bitsetStrDecode(wire.body), msg |-> wire,
                  overread |-> 0]
    /\ wire' = NoMessage
    /\ UNCHANGED <<batch, cursor>>

\* The receiver is done with the answer and waits for the next message.
Done ==
    /\ wire = NoMessage /\ result # NoResult
    /\ result' = NoResult
    /\ UNCHANGED <<wire, batch, cursor>>

\* The vector and the position after a call r of a write form, with the
\* elements reps the call appended.
Filled(r, reps) ==
    batch' = [buf |-> r.buf, pos |-> r.pos,
              overrun |-> batch.overrun + r.overrun,
              fields |-> Append(batch.fields, reps)]

\* The writer appends a field to its vector: easyCopy of one element, or
\* of an array of elements of one width.
AddElement(rep) ==
    /\ Len(batch.fields) < MaxRecFields
    /\ Filled(PutElement(batch.buf, batch.pos, rep), <<rep>>)
    /\ UNCHANGED <<wire, result, cursor>>

AddArray(width, array) ==
    /\ Len(batch.fields) < MaxRecFields
    /\ Filled(PutArray(batch.buf, batch.pos, array, width), array)
    /\ UNCHANGED <<wire, result, cursor>>

\* The vector goes out as a string; its first size bytes arrive.
SendRecord(size) ==
    /\ batch.fields # <<>>
    /\ wire' = [form |-> "record", body |-> SubSeq(batch.buf, 1, size),
                sent |-> Unknown]
    /\ UNCHANGED <<result, batch, cursor>>

\* The reader takes the next element of the record out of the string.  It
\* goes on to the next element whatever the call returned.
ReadElement(junk) ==
    /\ wire.form = "record"
    /\ Len(cursor.got) < Len(Elements)
    /\ LET width == Len(Elements[Len(cursor.got) + 1])
           r     == GetElement(wire.body, cursor.pos, width, junk)
       IN  cursor' = [pos |-> r.pos, got |-> Append(cursor.got, r.rep),
                      overread |-> cursor.overread + r.overread]
    /\ UNCHANGED <<wire, result, batch>>

\* The reader has asked for every element; writer and reader start afresh.
RecordDone ==
    /\ wire.form = "record"
    /\ Len(cursor.got) = Len(Elements)
    /\ wire' = NoMessage
    /\ batch' = EmptyBatch
    /\ cursor' = NoCursor
    /\ UNCHANGED result

\* The receiver is idle: the forged messages are enumerated in these states
\* only.
Idle == wire = NoMessage /\ result = NoResult /\ batch = EmptyBatch

\* A writer is at work, or may begin.
Writing == wire = NoMessage /\ result = NoResult

Next ==
    \/ /\ Idle
       /\ \/ \E bitmap \in Bitmap : SendBinary(bitmap) \/ SendText(bitmap)
          \/ \E body \in ForgedBinary : Forge("binary", body)
          \/ \E body \in ForgedText : Forge("text", body)
    \/ DecodeBinary
    \/ DecodeText
    \/ Done
    \/ /\ Writing
       /\ \/ \E width \in RecWidths : \E rep \in Reps(width) : AddElement(rep)
          \/ \E width \in RecWidths :
                \E array \in BoundedSeq(Reps(width), MaxArray) :
                    AddArray(width, array)
          \/ \E size \in 0 .. Len(batch.buf) : SendRecord(size)
    \/ \E junk \in RecBytes : ReadElement(junk)
    \/ RecordDone

Spec == Init /\ [][Next]_vars

-----------------------------------------------------------------------------
\* A decoder answers with a bitmap of the bitset, an error or an
\* exception: whatever bytes arrive, bitsetDecodeVec and bitsetStrDecode
\* set no bit outside 0 .. Size - 1.
TypeOK ==
    /\ wire.form \in {"none", "binary", "text", "record"}
    /\ wire.sent \in Bitmap \cup {Unknown}
    /\ result.res.status \in {"ok", "ERR_DECODE", "out_of_range"}
    /\ result.res.value \in Bitmap
    /\ result.msg.sent \in Bitmap \cup {Unknown}
    /\ result.overread \in Nat
    /\ batch.buf \in Seq(RecBytes \cup {0})
    /\ batch.fields \in Seq(Seq(UNION {Reps(w) : w \in RecWidths}))
    /\ cursor.pos \in Nat /\ cursor.overread \in Nat

\* What bitsetEncode and bitsetStrEncode write is the list of the maximal
\* runs of set bits in ascending order, each run once: their scanning
\* loops (a run that ends at the last bit, a single bit at the end, the
\* empty and the full bitmap) agree with the definition of a run.
EncodersWriteMaximalRuns ==
    wire.sent \in Bitmap =>
        wire.body = IF wire.form = "binary"
                    THEN BinaryOfRuns(RunsInOrder(wire.sent))
                    ELSE TextOfRuns(RunsInOrder(wire.sent))

\* Round trip: bitsetDecode(bitsetEncode(b)) and
\* bitsetStrDecode(bitsetStrEncode(b)) are b, for every bitmap b.
DecodeInvertsEncode ==
    result.msg.sent \in Bitmap => result.res = Ok(result.msg.sent)

\* bitsetStrDecode answers every text with a bitmap or with ERR_DECODE, as
\* its return type Expected<std::bitset> says; it raises no exception.
TextDecodeReturnsStatus == result.res.status # "out_of_range"

\* bitsetDecode reads two bytes a turn while offset < decodeSize, so a
\* claimed length that is odd and fills the buffer takes it past max_size.
\* Its two tests of max_size keep that to one byte, the terminator of the
\* std::string: no forged length makes it read memory behind the message.
ReadsAtMostTerminator == result.overread <= 1

\* The decoder tolerates empty runs and rejects overlapping ranges, as the
\* design of the cluster bus asks: bitsetDecode accepts a message, forged
\* or not, exactly when its words are pages that lie inside the bitset and
\* each page starts behind every bit the pages before it set, and it then
\* answers with the bits of its pages.  bitsetDecodeVec moves last_pos
\* only inside the loop that sets bits, so an empty page constrains none
\* of the pages after it, and no bit is ever set by two pages.
AcceptedPagesAscend ==
    (result.msg.form = "binary" /\ Framed(result.msg.body)) =>
        LET vec   == Words(result.msg.body, Len(result.msg.body))
            pages == Pages(vec)
        IN  /\ result.res.status = "ok"
                   <=> Len(vec) % 2 = 0 /\ PagesAscend(pages)
            /\ result.res.status = "ok" =>
                   result.res.value
                       = UNION {BitsOf(pages[i]) : i \in DOMAIN pages}

\* A writer that appends to a fresh vector never copies behind its end,
\* and the position stays the size of the vector: the resize of both write
\* forms of easyCopy makes room for every byte of the copy, for arrays of
\* elements wider than a byte and for the empty array too.
AppendStaysInside ==
    batch.overrun = 0 /\ batch.pos = Len(batch.buf)

\* A record that arrives whole is read back as it was written: the read
\* form of easyCopy returns the elements of every field in order, element
\* by element, ends at the end of the string and reads nothing behind it.
RecordRoundTrip ==
    (/\ wire.form = "record"
     /\ wire.body = batch.buf
     /\ Len(cursor.got) = Len(Elements))
        => /\ cursor.got = Elements
           /\ cursor.pos = Len(wire.body)
           /\ cursor.overread = 0

\* A record that arrives cut short makes the reader read behind the end of
\* the string once: the test of the position in the read form of easyCopy
\* refuses every call after the one that passed the end, so what is read
\* behind the string is at most one element, however many elements the
\* reader still asks for.
OverreadStopsAtEnd == cursor.overread <= Max(RecWidths)

=============================================================================
