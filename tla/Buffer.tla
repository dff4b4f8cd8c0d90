------------------------------- MODULE Buffer -------------------------------
(***************************************************************************)
(* Buffer (src/src/common/buffer.h): a vector of bytes with a read and a   *)
(* write index.                                                            *)
(*                                                                         *)
(*   | prependable bytes |  readable bytes  |  writable bytes  |           *)
(*   0      <=      readerIndex_  <=  writerIndex_     <=     size         *)
(*                                                                         *)
(* A buffer is a record, and each operation a function of it.  Assertions  *)
(* are off in the default (Release) build; what the callers must respect   *)
(* all the same are guards of the actions.  The typed operations           *)
(* (appendInt32, readInt32, retrieveUntil, ...) are append, retrieve and   *)
(* prepend of so many bytes.                                               *)
(***************************************************************************)
EXTENDS Naturals, Sequences

CONSTANTS Byte,          \* values of a char
          Zero,          \* what resize() fills with
          kCheapPrepend, \* room reserved in front (8)
          kInitialSize,  \* default size (1024)
          ExtraLen,      \* size of the second vector of readFd (65536)
          Data,          \* what is written at once
          Sizes,         \* arguments of constructor, retrieve and shrink
          MaxSize        \* bound on the size of the vector

ASSUME BufferAssumption ==
    /\ Zero \in Byte
    /\ kCheapPrepend \in Nat /\ kInitialSize \in Nat /\ ExtraLen \in Nat
    /\ Data \subseteq Seq(Byte)
    /\ Sizes \subseteq Nat
    /\ MaxSize \in Nat

VARIABLE buf

size(b) == Len(b.buffer_)
readableBytes(b) == b.writerIndex_ - b.readerIndex_
writableBytes(b) == size(b) - b.writerIndex_
prependableBytes(b) == b.readerIndex_

\* The readable bytes, which peek() points to.
Content(b) == [i \in 1..readableBytes(b) |-> b.buffer_[b.readerIndex_ + i]]

Zeros(n) == [i \in 1..n |-> Zero]

NewBuffer(initialSize) == [buffer_ |-> Zeros(kCheapPrepend + initialSize),
                           readerIndex_ |-> kCheapPrepend,
                           writerIndex_ |-> kCheapPrepend]

\* std::copy of data to the place behind the first at bytes.
Copied(bytes, at, data) ==
    [i \in 1..Len(bytes) |-> IF at < i /\ i <= at + Len(data)
                             THEN data[i - at] ELSE bytes[i]]

-----------------------------------------------------------------------------
(* Making room *)

Resized(b, len) ==
    [b EXCEPT !.buffer_ =
        [i \in 1..(b.writerIndex_ + len) |->
            IF i <= size(b) THEN b.buffer_[i] ELSE Zero]]

\* Mutant of MovedToFront: the bytes are not copied.
MovedToFrontUncopied(b) ==
    [b EXCEPT !.readerIndex_ = kCheapPrepend,
              !.writerIndex_ = kCheapPrepend + readableBytes(b)]

\* Mutant of MovedToFront: to the very front.
MovedToVeryFront(b) ==
    [buffer_ |-> Copied(b.buffer_, 0, Content(b)),
     readerIndex_ |-> 0,
     writerIndex_ |-> readableBytes(b)]

MovedToFront(b) ==
    [buffer_ |-> Copied(b.buffer_, kCheapPrepend, Content(b)),
     readerIndex_ |-> kCheapPrepend,
     writerIndex_ |-> kCheapPrepend + readableBytes(b)]

\* Mutant of Fits: the reserved room is forgotten.
FitsWithoutRoom(b, len) == writableBytes(b) + prependableBytes(b) >= len

\* The readable bytes fit behind the reserved room only after they move.
Fits(b, len) ==
    writableBytes(b) + prependableBytes(b) >= len + kCheapPrepend

\* Mutant of makeSpace: never moves.
makeSpaceGrows(b, len) == Resized(b, len)

makeSpace(b, len) == IF Fits(b, len) THEN MovedToFront(b) ELSE Resized(b, len)

ensureWritableBytes(b, len) ==
    IF writableBytes(b) < len THEN makeSpace(b, len) ELSE b

-----------------------------------------------------------------------------
(* Operations *)

\* Bytes stored behind the readable ones, where there is room for them.
Written(b, data) ==
    [b EXCEPT !.buffer_ = Copied(@, b.writerIndex_, data),
              !.writerIndex_ = @ + Len(data)]

append(b, data) == Written(ensureWritableBytes(b, Len(data)), data)

\* Without its assertion, retrieve of too many bytes retrieves all.
retrieve(b, len) ==
    IF len < readableBytes(b)
    THEN [b EXCEPT !.readerIndex_ = @ + len]
    ELSE [b EXCEPT !.readerIndex_ = kCheapPrepend,
                   !.writerIndex_ = kCheapPrepend]

unwrite(b, len) == [b EXCEPT !.writerIndex_ = @ - len]

prepend(b, data) ==
    [b EXCEPT !.buffer_ = Copied(@, b.readerIndex_ - Len(data), data),
              !.readerIndex_ = @ - Len(data)]

shrink(b, reserve) ==
    append(ensureWritableBytes(NewBuffer(kInitialSize),
                               readableBytes(b) + reserve), Content(b))

\* readv fills the writable bytes first and extrabuf with the rest, which is
\* then appended.
readFd(b, data) ==
    LET n == writableBytes(b)
    IN  IF Len(data) <= n THEN Written(b, data)
        ELSE append(Written(b, SubSeq(data, 1, n)),
                    SubSeq(data, n + 1, Len(data)))

-----------------------------------------------------------------------------
(* A caller that uses a buffer in every permitted way *)

Init == \E initialSize \in Sizes : buf = NewBuffer(initialSize)

Append_(data) == buf' = append(buf, data)

\* The caller writes at beginWrite() itself and then calls hasWritten.
HasWritten(data) == /\ Len(data) <= writableBytes(buf)
                    /\ buf' = Written(buf, data)

Retrieve(len) == buf' = retrieve(buf, len)

Unwrite(len) == /\ len <= readableBytes(buf)
                /\ buf' = unwrite(buf, len)

Prepend(data) == /\ Len(data) <= prependableBytes(buf)
                 /\ buf' = prepend(buf, data)

Shrink(reserve) == buf' = shrink(buf, reserve)

ReadFd(data) ==
    /\ \/ Len(data) <= writableBytes(buf)
       \/ /\ writableBytes(buf) < ExtraLen
          /\ Len(data) <= writableBytes(buf) + ExtraLen
    /\ buf' = readFd(buf, data)

Step == \/ \E data \in Data : \/ Append_(data) \/ HasWritten(data)
                              \/ Prepend(data) \/ ReadFd(data)
        \/ \E len \in Sizes : Retrieve(len) \/ Unwrite(len) \/ Shrink(len)

Next == Step /\ size(buf') <= MaxSize

Spec == Init /\ [][Next]_buf

-----------------------------------------------------------------------------
(* Properties *)

\* The indices stay in the order that the picture above shows.
TypeOK == /\ buf \in [buffer_ : Seq(Byte), readerIndex_ : Nat,
                      writerIndex_ : Nat]
          /\ buf.readerIndex_ <= buf.writerIndex_
          /\ buf.writerIndex_ <= size(buf)

\* Whatever moves, grows or shrinks inside, the readable bytes are a byte
\* queue: no operation changes, loses or reorders bytes that are not its own.
Abstract == INSTANCE ByteQueue WITH content <- Content(buf)
ImplementsByteQueue == Abstract!Spec

\* The vector grows only when what is to be readable does not fit behind the
\* reserved room: makeSpace moves what is there before it asks for memory.
\* (shrink allocates what it is told to reserve.)
GrowsOnlyWhenFull ==
    [][size(buf') > size(buf) =>
          \/ readableBytes(buf') + kCheapPrepend > size(buf)
          \/ \E len \in Sizes : Shrink(len)]_buf

\* Room for prepending is never used up by anything but prepend: WriteHeader
\* appends fields of any number and length and then prepends their length.
PrependRoomKept ==
    [][\/ prependableBytes(buf') >= prependableBytes(buf)
       \/ prependableBytes(buf') >= kCheapPrepend
       \/ \E data \in Data : Prepend(data)]_buf
=============================================================================
