------------------------------ MODULE EasyCopy ------------------------------
(***************************************************************************)
(* The three forms of easyCopy in src/novadbplus/utils/string.h: an        *)
(* element appended to a std::vector<byte>, an array of elements appended  *)
(* to it, and an element read back out of a std::string.                   *)
(*                                                                         *)
(* A vector or a string is the sequence of its bytes, a position counts    *)
(* from 0 as in the code.  An element is its object representation, the    *)
(* sequence of its sizeof(T) bytes in the order of the host: the copies    *)
(* move bytes and never look into them.  An operator answers with the new  *)
(* buffer and position and with the number of bytes the copy touched       *)
(* behind the end of the buffer.                                           *)
(***************************************************************************)
EXTENDS Integers, Sequences, SequencesExt

-----------------------------------------------------------------------------
\* The array form making room for len bytes instead of len elements.
ArrayRoom_CountsElements(pos, len, width) == pos + len

\* std::copy to the begin of the buffer instead of begin() + *pos.
Overlay_AtBegin(buf, pos, bytes) ==
    [i \in 1 .. Len(buf) |-> IF i <= Len(bytes) THEN bytes[i] ELSE buf[i]]

\* The read form without its test of the position.
PastEnd_Never(size, pos) == FALSE

-----------------------------------------------------------------------------
\* buf->resize(size): the bytes kept, new ones are zero.
Resized(buf, size) ==
    [i \in 1 .. size |-> IF i <= Len(buf) THEN buf[i] ELSE 0]

\* std::copy(ptr, ptr + n, buf->begin() + *pos): the bytes that land in
\* the buffer.
Overlay(buf, pos, bytes) ==
    [i \in 1 .. Len(buf) |->
        IF i \in pos + 1 .. pos + Len(bytes) THEN bytes[i - pos] ELSE buf[i]]

\* The bytes of the same copy that land behind the end of the buffer.
Overrun(buf, pos, n) == Max({0, pos + n - Len(buf)})

\* size_t easyCopy(std::vector<byte>* buf, size_t* pos, T element)
PutElement(buf, pos, rep) ==
    LET room == IF pos + Len(rep) > Len(buf)
                THEN Resized(buf, pos + Len(rep)) ELSE buf
    IN  [buf |-> Overlay(room, pos, rep), pos |-> pos + Len(rep),
         overrun |-> Overrun(room, pos, Len(rep))]

\* buf->resize(*pos + len * sizeof(T))
ArrayRoom(pos, len, width) == pos + len * width

\* size_t easyCopy(std::vector<byte>* buf, size_t* pos, const T* array,
\*                 size_t len): the test counts elements, the resize and
\* the copy count bytes.
PutArray(buf, pos, array, width) ==
    LET len   == Len(array)
        bytes == FlattenSeq(array)
        room  == IF pos + len > Len(buf)
                 THEN Resized(buf, ArrayRoom(pos, len, width)) ELSE buf
    IN  [buf |-> Overlay(room, pos, bytes), pos |-> pos + len * width,
         overrun |-> Overrun(room, pos, len * width)]

\* if (buf.size() < *pos) return 0
PastEnd(size, pos) == size < pos

\* size_t easyCopy(T* dest, const std::string& buf, size_t* pos).  The
\* byte at buf.size() is the terminator of the string; what lies behind
\* it is not the string's, and the copy finds junk there.  A call that
\* returns 0 leaves dest and the position as they are.
GetElement(buf, pos, width, junk) ==
    LET byteAt(i) == CASE i <= Len(buf)     -> buf[i]
                       [] i = Len(buf) + 1  -> 0
                       [] OTHER             -> junk
    IN  IF PastEnd(Len(buf), pos)
        THEN [ret |-> 0, rep |-> <<>>, pos |-> pos, overread |-> 0]
        ELSE [ret |-> width, rep |-> [k \in 1 .. width |-> byteAt(pos + k)],
              pos |-> pos + width,
              overread |-> Overrun(buf, pos, width)]

=============================================================================
