--------------------------- MODULE Buffer_proofs ---------------------------
(***************************************************************************)
(* Buffer for every reserved room, every initial size and all data: the    *)
(* indices stay in order, the readable bytes are a byte queue, the vector  *)
(* grows only when it must, and room for prepending is kept.               *)
(***************************************************************************)
EXTENDS Buffer, SequenceTheorems, TLAPS

\* Buffers whose indices are in order.  That the reserved room exists is what
\* TypeOK lacks to be inductive: retrieveAll sets both indices to its end.
Buffers == {b \in [buffer_ : Seq(Byte), readerIndex_ : Nat,
                   writerIndex_ : Nat] :
               /\ b.readerIndex_ <= b.writerIndex_
               /\ b.writerIndex_ <= size(b)
               /\ kCheapPrepend <= size(b)}

(* A function on 1..n with values in S is a sequence of length n.           *)
LEMMA FunctionIsSeq ==
    ASSUME NEW S, NEW n \in Nat, NEW f \in [1..n -> S]
    PROVE  f \in Seq(S) /\ Len(f) = n
OBVIOUS

(* The parts of a buffer, and that its four areas have natural lengths.     *)
LEMMA BufferParts ==
    ASSUME NEW b \in Buffers
    PROVE  /\ b.buffer_ \in Seq(Byte) /\ size(b) \in Nat
           /\ b.readerIndex_ \in Nat /\ b.writerIndex_ \in Nat
           /\ b.readerIndex_ <= b.writerIndex_ /\ b.writerIndex_ <= size(b)
           /\ kCheapPrepend \in Nat /\ kCheapPrepend <= size(b)
           /\ readableBytes(b) \in Nat /\ writableBytes(b) \in Nat
           /\ prependableBytes(b) \in Nat
BY BufferAssumption
   DEF Buffers, size, readableBytes, writableBytes, prependableBytes

(* The readable bytes are a sequence of bytes of that length.               *)
LEMMA ContentIsSeq ==
    ASSUME NEW b \in Buffers
    PROVE  /\ Content(b) \in Seq(Byte)
           /\ Len(Content(b)) = readableBytes(b)
           /\ \A i \in 1..readableBytes(b) :
                 Content(b)[i] = b.buffer_[b.readerIndex_ + i]
<1> DEFINE n == readableBytes(b)
<1>1. n \in Nat /\ b.buffer_ \in Seq(Byte)
  BY BufferParts
<1>2. ASSUME NEW i \in 1..n
      PROVE  b.buffer_[b.readerIndex_ + i] \in Byte
  <2>1. b.readerIndex_ + i \in 1..Len(b.buffer_)
    BY BufferParts DEF readableBytes, size
  <2> QED
    BY <1>1, <2>1, ElementOfSeq
<1>3. Content(b) \in [1..n -> Byte]
  BY <1>2 DEF Content
<1> QED
  BY <1>1, <1>3, FunctionIsSeq DEF Content

(* Two buffers have the same content if they have as many readable bytes,   *)
(* and the same ones.                                                       *)
LEMMA SameContent ==
    ASSUME NEW b \in Buffers, NEW c \in Seq(Byte),
           readableBytes(b) = Len(c),
           \A i \in 1..Len(c) : b.buffer_[b.readerIndex_ + i] = c[i]
    PROVE  Content(b) = c
BY ContentIsSeq, SeqEqual

(* Copying bytes into a vector keeps its length.                            *)
LEMMA CopiedIsSeq ==
    ASSUME NEW bytes \in Seq(Byte), NEW data \in Seq(Byte), NEW at \in Nat
    PROVE  /\ Copied(bytes, at, data) \in Seq(Byte)
           /\ Len(Copied(bytes, at, data)) = Len(bytes)
           /\ \A i \in 1..Len(bytes) :
                 Copied(bytes, at, data)[i] =
                    IF at < i /\ i <= at + Len(data)
                    THEN data[i - at] ELSE bytes[i]
<1>1. Len(bytes) \in Nat /\ Len(data) \in Nat
  BY LenProperties
<1>2. ASSUME NEW i \in 1..Len(bytes)
      PROVE  (IF at < i /\ i <= at + Len(data)
              THEN data[i - at] ELSE bytes[i]) \in Byte
  <2>1. CASE at < i /\ i <= at + Len(data)
    <3>1. i - at \in 1..Len(data)
      BY <1>1, <2>1
    <3> QED
      BY <2>1, <3>1, ElementOfSeq
  <2>2. CASE ~(at < i /\ i <= at + Len(data))
    BY <2>2, ElementOfSeq
  <2> QED
    BY <2>1, <2>2
<1>3. Copied(bytes, at, data) \in [1..Len(bytes) -> Byte]
  BY <1>2 DEF Copied
<1> QED
  BY <1>1, <1>3, FunctionIsSeq DEF Copied

(* A new buffer is empty, with the reserved room in front.                  *)
LEMMA NewBufferOk ==
    ASSUME NEW n \in Nat
    PROVE  /\ NewBuffer(n) \in Buffers
           /\ Content(NewBuffer(n)) = <<>>
           /\ prependableBytes(NewBuffer(n)) = kCheapPrepend
<1> USE BufferAssumption
<1>1. /\ Zeros(kCheapPrepend + n) \in Seq(Byte)
      /\ Len(Zeros(kCheapPrepend + n)) = kCheapPrepend + n
  <2>1. kCheapPrepend + n \in Nat
    OBVIOUS
  <2>2. Zeros(kCheapPrepend + n) \in [1..(kCheapPrepend + n) -> Byte]
    BY DEF Zeros
  <2> QED
    BY <2>1, <2>2, FunctionIsSeq
<1>2. NewBuffer(n) \in Buffers
  BY <1>1 DEF NewBuffer, Buffers, size
<1>3. readableBytes(NewBuffer(n)) = 0
  BY DEF readableBytes, NewBuffer
<1>4. Content(NewBuffer(n)) = <<>>
  BY <1>2, <1>3, ContentIsSeq, EmptySeq
<1> QED
  BY <1>2, <1>4 DEF prependableBytes, NewBuffer

-----------------------------------------------------------------------------
(* Making room *)

(* resize keeps what is there and leaves exactly the room asked for.        *)
LEMMA ResizedOk ==
    ASSUME NEW b \in Buffers, NEW len \in Nat, writableBytes(b) < len
    PROVE  /\ Resized(b, len) \in Buffers
           /\ Content(Resized(b, len)) = Content(b)
           /\ writableBytes(Resized(b, len)) = len
           /\ prependableBytes(Resized(b, len)) = prependableBytes(b)
<1> DEFINE m == b.writerIndex_ + len
           c == Resized(b, len)
<1>1. m \in Nat /\ size(b) < m
  BY BufferParts DEF writableBytes
<1>2. /\ c.buffer_ = [i \in 1..m |->
                         IF i <= size(b) THEN b.buffer_[i] ELSE Zero]
      /\ c.readerIndex_ = b.readerIndex_ /\ c.writerIndex_ = b.writerIndex_
      /\ c \in [buffer_ : {c.buffer_}, readerIndex_ : Nat, writerIndex_ : Nat]
  BY DEF Resized, Buffers
<1>3. c.buffer_ \in Seq(Byte) /\ Len(c.buffer_) = m
  <2>1. ASSUME NEW i \in 1..m
        PROVE  (IF i <= size(b) THEN b.buffer_[i] ELSE Zero) \in Byte
    BY <1>1, BufferParts, ElementOfSeq, BufferAssumption DEF size
  <2>2. c.buffer_ \in [1..m -> Byte]
    BY <1>2, <2>1
  <2> QED
    BY <1>1, <2>2, FunctionIsSeq
<1>4. c \in Buffers
  <2> HIDE DEF c, m
  <2>1. b.writerIndex_ <= Len(c.buffer_) /\ kCheapPrepend <= Len(c.buffer_)
    BY <1>1, <1>3, BufferParts
  <2> QED
    BY <1>2, <1>3, <2>1, BufferParts DEF Buffers, size
<1>5. ASSUME NEW i \in 1..readableBytes(b)
      PROVE  c.buffer_[c.readerIndex_ + i] = Content(b)[i]
  <2>1. b.readerIndex_ + i \in 1..size(b)
    BY BufferParts DEF readableBytes
  <2> QED
    BY <1>1, <1>2, <2>1, ContentIsSeq, BufferParts
<1>6. Content(c) = Content(b)
  BY <1>2, <1>4, <1>5, ContentIsSeq, SameContent DEF readableBytes
<1> QED
  BY <1>1, <1>2, <1>3, <1>4, <1>6, BufferParts
     DEF writableBytes, prependableBytes, size

(* Moving the readable bytes keeps them, although they may overlap their    *)
(* copy, and turns everything behind them into writable bytes.              *)
LEMMA MovedOk ==
    ASSUME NEW b \in Buffers, kCheapPrepend + readableBytes(b) <= size(b)
    PROVE  /\ MovedToFront(b) \in Buffers
           /\ Content(MovedToFront(b)) = Content(b)
           /\ writableBytes(MovedToFront(b)) =
                 size(b) - kCheapPrepend - readableBytes(b)
           /\ prependableBytes(MovedToFront(b)) = kCheapPrepend
           /\ size(MovedToFront(b)) = size(b)
<1> DEFINE c == MovedToFront(b)
           n == readableBytes(b)
<1>1. /\ n \in Nat /\ size(b) \in Nat /\ kCheapPrepend \in Nat
      /\ kCheapPrepend + n <= size(b)
  BY BufferParts, BufferAssumption
<1>2. /\ c.buffer_ = Copied(b.buffer_, kCheapPrepend, Content(b))
      /\ c.readerIndex_ = kCheapPrepend
      /\ c.writerIndex_ = kCheapPrepend + n
      /\ c \in [buffer_ : {c.buffer_}, readerIndex_ : Nat, writerIndex_ : Nat]
  BY <1>1 DEF MovedToFront
<1>3. /\ c.buffer_ \in Seq(Byte) /\ Len(c.buffer_) = size(b)
      /\ \A i \in 1..size(b) :
            c.buffer_[i] = IF /\ kCheapPrepend < i
                              /\ i <= kCheapPrepend + n
                           THEN Content(b)[i - kCheapPrepend]
                           ELSE b.buffer_[i]
  <2>1. b.buffer_ \in Seq(Byte) /\ Len(b.buffer_) = size(b)
    BY BufferParts DEF size
  <2>2. Content(b) \in Seq(Byte) /\ Len(Content(b)) = n
    BY ContentIsSeq
  <2> DEFINE d == Content(b)
  <2>3. /\ Copied(b.buffer_, kCheapPrepend, d) \in Seq(Byte)
        /\ Len(Copied(b.buffer_, kCheapPrepend, d)) = Len(b.buffer_)
        /\ \A i \in 1..Len(b.buffer_) :
              Copied(b.buffer_, kCheapPrepend, d)[i] =
                 IF kCheapPrepend < i /\ i <= kCheapPrepend + Len(d)
                 THEN d[i - kCheapPrepend] ELSE b.buffer_[i]
    <3> DEFINE v == b.buffer_
    <3>1. v \in Seq(Byte) /\ d \in Seq(Byte) /\ kCheapPrepend \in Nat
      BY <1>1, <2>1, <2>2
    <3> HIDE DEF d, v
    <3>2. /\ Copied(v, kCheapPrepend, d) \in Seq(Byte)
          /\ Len(Copied(v, kCheapPrepend, d)) = Len(v)
          /\ \A i \in 1..Len(v) :
                Copied(v, kCheapPrepend, d)[i] =
                   IF kCheapPrepend < i /\ i <= kCheapPrepend + Len(d)
                   THEN d[i - kCheapPrepend] ELSE v[i]
      BY <3>1, CopiedIsSeq
    <3> QED
      BY <3>2 DEF v
  <2> HIDE DEF c, n
  <2> QED
    BY <1>2, <2>1, <2>2, <2>3
<1>4. c \in Buffers
  <2> HIDE DEF c, n
  <2> QED
    BY <1>1, <1>2, <1>3 DEF Buffers, size
<1>5. ASSUME NEW i \in 1..n
      PROVE  c.buffer_[c.readerIndex_ + i] = Content(b)[i]
  <2>1. kCheapPrepend + i \in 1..size(b)
    BY <1>1
  <2>2. /\ kCheapPrepend < kCheapPrepend + i
        /\ kCheapPrepend + i <= kCheapPrepend + n
        /\ (kCheapPrepend + i) - kCheapPrepend = i
    BY <1>1
  <2> HIDE DEF c, n
  <2> QED
    BY <1>2, <1>3, <2>1, <2>2
<1>6. Content(c) = Content(b)
  <2>1. readableBytes(c) = n
    BY <1>1, <1>2 DEF readableBytes
  <2> QED
    BY <1>4, <1>5, <2>1, ContentIsSeq, SameContent
<1> QED
  BY <1>1, <1>2, <1>3, <1>4, <1>6
     DEF writableBytes, prependableBytes, size

(* Whichever way room is made, it is made, the content stays, and room in   *)
(* front is kept or restored.  The vector grows only if it must.            *)
LEMMA EnsureOk ==
    ASSUME NEW b \in Buffers, NEW len \in Nat
    PROVE  /\ ensureWritableBytes(b, len) \in Buffers
           /\ Content(ensureWritableBytes(b, len)) = Content(b)
           /\ writableBytes(ensureWritableBytes(b, len)) >= len
           /\ prependableBytes(ensureWritableBytes(b, len))
                 \in {prependableBytes(b), kCheapPrepend}
           /\ size(ensureWritableBytes(b, len)) # size(b) =>
                 readableBytes(b) + len + kCheapPrepend > size(b)
<1>1. CASE ~(writableBytes(b) < len)
  BY <1>1, BufferParts DEF ensureWritableBytes
<1>2. CASE writableBytes(b) < len /\ ~Fits(b, len)
  <2>1. ensureWritableBytes(b, len) = Resized(b, len)
    BY <1>2 DEF ensureWritableBytes, makeSpace
  <2>2. readableBytes(b) + len + kCheapPrepend > size(b)
    BY <1>2, BufferParts, BufferAssumption
       DEF Fits, readableBytes, writableBytes, prependableBytes
  <2> QED
    BY <1>2, <2>1, <2>2, ResizedOk
<1>3. CASE writableBytes(b) < len /\ Fits(b, len)
  <2>1. ensureWritableBytes(b, len) = MovedToFront(b)
    BY <1>3 DEF ensureWritableBytes, makeSpace
  <2>2. kCheapPrepend + readableBytes(b) + len <= size(b)
    BY <1>3, BufferParts, BufferAssumption
       DEF Fits, readableBytes, writableBytes, prependableBytes
  <2>3. /\ kCheapPrepend + readableBytes(b) <= size(b)
        /\ size(b) - kCheapPrepend - readableBytes(b) >= len
    BY <2>2, BufferParts, BufferAssumption
  <2> QED
    BY <2>1, <2>3, MovedOk
<1> QED
  BY <1>1, <1>2, <1>3

-----------------------------------------------------------------------------
(* Operations *)

(* Bytes written where there is room are appended to the content.           *)
LEMMA WrittenOk ==
    ASSUME NEW b \in Buffers, NEW data \in Seq(Byte),
           Len(data) <= writableBytes(b)
    PROVE  /\ Written(b, data) \in Buffers
           /\ Content(Written(b, data)) = Content(b) \o data
           /\ readableBytes(Written(b, data)) = readableBytes(b) + Len(data)
           /\ prependableBytes(Written(b, data)) = prependableBytes(b)
           /\ size(Written(b, data)) = size(b)
<1> DEFINE c == Written(b, data)
           w == b.writerIndex_
           r == b.readerIndex_
           v == b.buffer_
           n == readableBytes(b)
           s == size(b)
           l == Len(data)
<1>1. /\ v \in Seq(Byte) /\ s = Len(v) /\ s \in Nat
      /\ r \in Nat /\ w \in Nat /\ l \in Nat /\ n \in Nat
      /\ w = r + n /\ w + l <= s
      /\ kCheapPrepend \in Nat /\ kCheapPrepend <= s
  BY BufferParts, LenProperties DEF size, readableBytes, writableBytes
<1>2. /\ c.buffer_ = Copied(v, w, data)
      /\ c.readerIndex_ = r /\ c.writerIndex_ = w + l
      /\ c \in [buffer_ : {c.buffer_}, readerIndex_ : {r},
                writerIndex_ : {w + l}]
  BY DEF Written, Buffers
<1>3. /\ c.buffer_ \in Seq(Byte) /\ Len(c.buffer_) = s
      /\ \A i \in 1..s : c.buffer_[i] =
            IF w < i /\ i <= w + l THEN data[i - w] ELSE v[i]
  <2>1. /\ Copied(v, w, data) \in Seq(Byte)
        /\ Len(Copied(v, w, data)) = Len(v)
        /\ \A i \in 1..Len(v) : Copied(v, w, data)[i] =
              IF w < i /\ i <= w + Len(data) THEN data[i - w] ELSE v[i]
    <3>1. v \in Seq(Byte) /\ w \in Nat
      BY <1>1
    <3> HIDE DEF v, w
    <3> QED
      BY <3>1, CopiedIsSeq
  <2> HIDE DEF c, w, v, s, r, n
  <2> QED
    BY <1>1, <1>2, <2>1
<1>4. c \in Buffers
  <2> HIDE DEF c, w, v, s, r, n, l
  <2> QED
    BY <1>1, <1>2, <1>3 DEF Buffers, size
<1>5. readableBytes(c) = n + l
  <2> HIDE DEF c, w, v, s, r, n, l
  <2> QED
    BY <1>1, <1>2 DEF readableBytes
<1>6. /\ Content(b) \o data \in Seq(Byte)
      /\ Len(Content(b) \o data) = n + l
      /\ \A i \in 1..(n + l) : (Content(b) \o data)[i] =
            IF i <= n THEN v[r + i] ELSE data[i - n]
  <2>1. /\ Content(b) \in Seq(Byte) /\ Len(Content(b)) = n
        /\ \A i \in 1..n : Content(b)[i] = v[r + i]
    BY ContentIsSeq
  <2> DEFINE d == Content(b)
             t == d \o data
  <2>2. d \in Seq(Byte) /\ Len(d) = n
    BY <2>1
  <2> HIDE DEF d
  <2>3. /\ t \in Seq(Byte) /\ Len(t) = Len(d) + Len(data)
        /\ \A i \in 1..Len(d) + Len(data) :
              t[i] = IF i <= Len(d) THEN d[i] ELSE data[i - Len(d)]
    BY <2>2, ConcatProperties
  <2>4. /\ t \in Seq(Byte) /\ Len(t) = n + l
        /\ \A i \in 1..(n + l) :
              t[i] = IF i <= n THEN v[r + i] ELSE data[i - n]
    <3>1. \A i \in 1..(n + l) : i <= n => i \in 1..n
      BY <1>1
    <3>2. \A i \in 1..n : d[i] = v[r + i]
      BY <2>1 DEF d
    <3> HIDE DEF t, v, r, n, l
    <3>3. l = Len(data)
      BY DEF l
    <3> QED
      BY <2>2, <2>3, <3>1, <3>2, <3>3
  <2> QED
    BY <2>4 DEF d
<1>7. ASSUME NEW i \in 1..(n + l)
      PROVE  c.buffer_[c.readerIndex_ + i] = (Content(b) \o data)[i]
  <2> DEFINE d == Content(b) \o data
  <2> HIDE DEF c, w, v, s, r, n, l
  <2>1. r + i \in 1..s
    BY <1>1
  <2>2. CASE i <= n
    <3>1. ~(w < r + i)
      BY <1>1, <2>2
    <3> QED
      BY <1>2, <1>3, <1>6, <2>1, <2>2, <3>1
  <2>3. CASE ~(i <= n)
    <3>1. w < r + i /\ r + i <= w + l /\ (r + i) - w = i - n
      BY <1>1, <2>3
    <3> QED
      BY <1>2, <1>3, <1>6, <2>1, <2>3, <3>1
  <2> QED
    BY <2>2, <2>3
<1>8. Content(c) = Content(b) \o data
  <2> DEFINE d == Content(b) \o data
  <2>1. /\ d \in Seq(Byte) /\ Len(d) = n + l
        /\ \A i \in 1..Len(d) : c.buffer_[c.readerIndex_ + i] = d[i]
    BY <1>6, <1>7
  <2> HIDE DEF c, d, n, l
  <2>2. Content(c) = d
    BY <1>4, <1>5, <2>1, SameContent
  <2> QED
    BY <2>2 DEF d
<1> QED
  BY <1>2, <1>3, <1>4, <1>5, <1>8 DEF prependableBytes, size

(* append makes room first and then writes.                                 *)
LEMMA AppendOk ==
    ASSUME NEW b \in Buffers, NEW data \in Seq(Byte)
    PROVE  /\ append(b, data) \in Buffers
           /\ Content(append(b, data)) = Content(b) \o data
           /\ readableBytes(append(b, data)) = readableBytes(b) + Len(data)
           /\ prependableBytes(append(b, data))
                 \in {prependableBytes(b), kCheapPrepend}
           /\ size(append(b, data)) # size(b) =>
                 readableBytes(append(b, data)) + kCheapPrepend > size(b)
<1> DEFINE e == ensureWritableBytes(b, Len(data))
<1>1. /\ e \in Buffers /\ Content(e) = Content(b)
      /\ writableBytes(e) >= Len(data)
      /\ prependableBytes(e) \in {prependableBytes(b), kCheapPrepend}
      /\ size(e) # size(b) =>
            readableBytes(b) + Len(data) + kCheapPrepend > size(b)
  BY EnsureOk, LenProperties
<1>2. append(b, data) = Written(e, data)
  BY DEF append
<1> HIDE DEF e
<1>3. Len(data) <= writableBytes(e)
  BY <1>1, BufferParts, LenProperties
<1>4. readableBytes(e) = readableBytes(b)
  BY <1>1, ContentIsSeq
<1>5. /\ Written(e, data) \in Buffers
      /\ Content(Written(e, data)) = Content(e) \o data
      /\ readableBytes(Written(e, data)) = readableBytes(e) + Len(data)
      /\ prependableBytes(Written(e, data)) = prependableBytes(e)
      /\ size(Written(e, data)) = size(e)
  BY <1>1, <1>3, WrittenOk
<1> QED
  BY <1>1, <1>2, <1>4, <1>5

(* retrieve takes bytes off the front, all of them if asked for too many.   *)
LEMMA RetrieveOk ==
    ASSUME NEW b \in Buffers, NEW len \in Nat
    PROVE  /\ retrieve(b, len) \in Buffers
           /\ \E k \in 0..Len(Content(b)) :
                 Content(retrieve(b, len)) =
                    SubSeq(Content(b), k + 1, Len(Content(b)))
           /\ \/ prependableBytes(retrieve(b, len)) >= prependableBytes(b)
              \/ prependableBytes(retrieve(b, len)) = kCheapPrepend
           /\ size(retrieve(b, len)) = size(b)
<1> DEFINE c == retrieve(b, len)
           n == readableBytes(b)
           r == b.readerIndex_
           d == Content(b)
<1>1. /\ n \in Nat /\ r \in Nat /\ size(b) \in Nat /\ kCheapPrepend \in Nat
      /\ b.writerIndex_ = r + n /\ r + n <= size(b)
      /\ kCheapPrepend <= size(b)
      /\ b.buffer_ \in Seq(Byte)
  BY BufferParts DEF readableBytes
<1>2. /\ d \in Seq(Byte) /\ Len(d) = n
      /\ \A i \in 1..n : d[i] = b.buffer_[r + i]
  BY ContentIsSeq
<1>3. CASE len < n
  <2>1. /\ c.buffer_ = b.buffer_ /\ c.readerIndex_ = r + len
        /\ c.writerIndex_ = r + n
        /\ c \in [buffer_ : Seq(Byte), readerIndex_ : Nat,
                  writerIndex_ : Nat]
    BY <1>1, <1>3 DEF retrieve, Buffers
  <2> HIDE DEF c, n, r, d
  <2>2. size(c) = size(b)
    BY <2>1 DEF size
  <2>3. c \in Buffers
    BY <1>1, <1>3, <2>1, <2>2 DEF Buffers
  <2>4. readableBytes(c) = n - len
    BY <1>1, <1>3, <2>1 DEF readableBytes
  <2>5. /\ SubSeq(d, len + 1, n) \in Seq(Byte)
        /\ Len(SubSeq(d, len + 1, n)) = n - len
        /\ \A i \in 1..(n - len) : SubSeq(d, len + 1, n)[i] = d[len + i]
    BY <1>1, <1>2, <1>3, SubSeqProperties
  <2>6. ASSUME NEW i \in 1..(n - len)
        PROVE  c.buffer_[c.readerIndex_ + i] = SubSeq(d, len + 1, n)[i]
    <3>1. len + i \in 1..n /\ r + (len + i) = (r + len) + i
      BY <1>1, <1>3
    <3> QED
      BY <1>2, <2>1, <2>5, <3>1
  <2>7. Content(c) = SubSeq(d, len + 1, n)
    <3> DEFINE t == SubSeq(d, len + 1, n)
    <3>1. /\ t \in Seq(Byte) /\ Len(t) = n - len
          /\ \A i \in 1..Len(t) : c.buffer_[c.readerIndex_ + i] = t[i]
      BY <2>5, <2>6
    <3> HIDE DEF t
    <3>2. Content(c) = t
      BY <2>3, <2>4, <3>1, SameContent
    <3> QED
      BY <3>2 DEF t
  <2>8. prependableBytes(c) >= prependableBytes(b)
    BY <1>1, <2>1 DEF prependableBytes, r
  <2>9. len \in 0..n
    BY <1>1, <1>3
  <2>10. \E k \in 0..Len(d) : Content(c) = SubSeq(d, k + 1, Len(d))
    BY <1>2, <2>7, <2>9
  <2> QED
    BY <2>2, <2>3, <2>8, <2>10 DEF c, d
<1>4. CASE ~(len < n)
  <2>1. /\ c.buffer_ = b.buffer_ /\ c.readerIndex_ = kCheapPrepend
        /\ c.writerIndex_ = kCheapPrepend
        /\ c \in [buffer_ : Seq(Byte), readerIndex_ : Nat,
                  writerIndex_ : Nat]
    BY <1>1, <1>4 DEF retrieve, Buffers
  <2> HIDE DEF c, n, r, d
  <2>2. size(c) = size(b)
    BY <2>1 DEF size
  <2>3. c \in Buffers
    BY <1>1, <2>1, <2>2 DEF Buffers
  <2>4. readableBytes(c) = 0
    BY <1>1, <2>1 DEF readableBytes
  <2>5. Content(c) = <<>>
    BY <2>3, <2>4, ContentIsSeq, EmptySeq
  <2>6. SubSeq(d, n + 1, n) = <<>>
    BY <1>1, <1>2, SubSeqProperties, EmptySeq
  <2>7. \E k \in 0..Len(d) : Content(c) = SubSeq(d, k + 1, Len(d))
    <3>1. n \in 0..n
      BY <1>1
    <3> QED
      BY <1>2, <2>5, <2>6, <3>1
  <2>8. prependableBytes(c) = kCheapPrepend
    BY <2>1 DEF prependableBytes
  <2> QED
    BY <2>2, <2>3, <2>7, <2>8 DEF c, d
<1> QED
  BY <1>3, <1>4

(* unwrite takes the last bytes back.                                       *)
LEMMA UnwriteOk ==
    ASSUME NEW b \in Buffers, NEW len \in Nat, len <= readableBytes(b)
    PROVE  /\ unwrite(b, len) \in Buffers
           /\ Content(unwrite(b, len)) =
                 SubSeq(Content(b), 1, Len(Content(b)) - len)
           /\ prependableBytes(unwrite(b, len)) = prependableBytes(b)
           /\ size(unwrite(b, len)) = size(b)
<1> DEFINE c == unwrite(b, len)
           n == readableBytes(b)
           r == b.readerIndex_
           d == Content(b)
           t == SubSeq(d, 1, n - len)
<1>1. /\ n \in Nat /\ r \in Nat /\ size(b) \in Nat /\ kCheapPrepend \in Nat
      /\ b.writerIndex_ = r + n /\ r + n <= size(b) /\ len <= n
      /\ kCheapPrepend <= size(b)
      /\ b.buffer_ \in Seq(Byte)
  BY BufferParts DEF readableBytes
<1>2. /\ d \in Seq(Byte) /\ Len(d) = n
      /\ \A i \in 1..n : d[i] = b.buffer_[r + i]
  BY ContentIsSeq
<1>3. /\ c.buffer_ = b.buffer_ /\ c.readerIndex_ = r
      /\ c.writerIndex_ = r + n - len
      /\ c \in [buffer_ : Seq(Byte), readerIndex_ : Nat, writerIndex_ : Nat]
  <2> DEFINE w == b.writerIndex_ - len
  <2>1. w = r + n - len /\ w \in Nat
    BY <1>1
  <2>2. c = [b EXCEPT !.writerIndex_ = w]
    BY DEF unwrite
  <2>3. b \in [buffer_ : Seq(Byte), readerIndex_ : Nat, writerIndex_ : Nat]
    BY DEF Buffers
  <2> HIDE DEF c, w, n
  <2> QED
    BY <2>1, <2>2, <2>3
<1> HIDE DEF c, n, r, d
<1>4. size(c) = size(b)
  BY <1>3 DEF size
<1>5. c \in Buffers
  BY <1>1, <1>3, <1>4 DEF Buffers
<1>6. readableBytes(c) = n - len
  BY <1>1, <1>3 DEF readableBytes
<1>7. /\ t \in Seq(Byte) /\ Len(t) = n - len
      /\ \A i \in 1..(n - len) : t[i] = d[i]
  BY <1>1, <1>2, SubSeqProperties
<1>8. ASSUME NEW i \in 1..(n - len)
      PROVE  c.buffer_[c.readerIndex_ + i] = t[i]
  <2>1. i \in 1..n
    BY <1>1
  <2> HIDE DEF t
  <2> QED
    BY <1>2, <1>3, <1>7, <2>1
<1>9. Content(c) = t
  <2> HIDE DEF t
  <2> QED
    BY <1>5, <1>6, <1>7, <1>8, SameContent
<1> QED
  BY <1>2, <1>3, <1>4, <1>5, <1>9 DEF c, d, r, prependableBytes

(* Bytes prepended where there is room are put in front of the content.     *)
LEMMA PrependOk ==
    ASSUME NEW b \in Buffers, NEW data \in Seq(Byte),
           Len(data) <= prependableBytes(b)
    PROVE  /\ prepend(b, data) \in Buffers
           /\ Content(prepend(b, data)) = data \o Content(b)
           /\ size(prepend(b, data)) = size(b)
<1> DEFINE c == prepend(b, data)
           r == b.readerIndex_
           v == b.buffer_
           n == readableBytes(b)
           s == size(b)
           l == Len(data)
           d == Content(b)
           t == data \o d
<1>1. /\ v \in Seq(Byte) /\ s = Len(v) /\ s \in Nat
      /\ r \in Nat /\ l \in Nat /\ n \in Nat /\ r - l \in Nat
      /\ b.writerIndex_ = r + n /\ l <= r /\ r + n <= s
      /\ kCheapPrepend \in Nat /\ kCheapPrepend <= s
  BY BufferParts, LenProperties DEF size, readableBytes, prependableBytes
<1>2. /\ c.buffer_ = Copied(v, r - l, data)
      /\ c.readerIndex_ = r - l /\ c.writerIndex_ = r + n
      /\ c \in [buffer_ : {c.buffer_}, readerIndex_ : {r - l},
                writerIndex_ : {r + n}]
  BY <1>1 DEF prepend, Buffers
<1>3. /\ c.buffer_ \in Seq(Byte) /\ Len(c.buffer_) = s
      /\ \A i \in 1..s : c.buffer_[i] =
            IF r - l < i /\ i <= r THEN data[i - (r - l)] ELSE v[i]
  <2> DEFINE at == r - l
  <2>1. /\ Copied(v, at, data) \in Seq(Byte)
        /\ Len(Copied(v, at, data)) = Len(v)
        /\ \A i \in 1..Len(v) : Copied(v, at, data)[i] =
              IF at < i /\ i <= at + Len(data) THEN data[i - at] ELSE v[i]
    <3>1. v \in Seq(Byte) /\ at \in Nat
      BY <1>1
    <3> HIDE DEF v, at
    <3> QED
      BY <3>1, CopiedIsSeq
  <2>2. at + Len(data) = r
    BY <1>1
  <2> HIDE DEF c, v, s, r, n
  <2> QED
    BY <1>1, <1>2, <2>1, <2>2
<1>4. c \in Buffers
  <2> HIDE DEF c, v, s, r, n, l
  <2> QED
    BY <1>1, <1>2, <1>3 DEF Buffers, size
<1>5. readableBytes(c) = l + n
  <2> HIDE DEF c, v, s, r, n, l
  <2> QED
    BY <1>1, <1>2 DEF readableBytes
<1>6. /\ d \in Seq(Byte) /\ Len(d) = n
      /\ \A i \in 1..n : d[i] = v[r + i]
  BY ContentIsSeq
<1>7. /\ t \in Seq(Byte) /\ Len(t) = l + n
      /\ \A i \in 1..(l + n) : t[i] = IF i <= l THEN data[i] ELSE d[i - l]
  <2> HIDE DEF d, n
  <2> QED
    BY <1>6, ConcatProperties
<1>8. ASSUME NEW i \in 1..(l + n)
      PROVE  c.buffer_[c.readerIndex_ + i] = t[i]
  <2> HIDE DEF c, v, s, r, n, l, d, t
  <2>1. (r - l) + i \in 1..s
    BY <1>1
  <2>2. CASE i <= l
    <3>1. /\ r - l < (r - l) + i /\ (r - l) + i <= r
          /\ ((r - l) + i) - (r - l) = i
      BY <1>1, <2>2
    <3> QED
      BY <1>2, <1>3, <1>7, <2>1, <2>2, <3>1
  <2>3. CASE ~(i <= l)
    <3>1. /\ ~((r - l) + i <= r) /\ i - l \in 1..n
          /\ (r - l) + i = r + (i - l)
      BY <1>1, <2>3
    <3> QED
      BY <1>2, <1>3, <1>6, <1>7, <2>1, <2>3, <3>1
  <2> QED
    BY <2>2, <2>3
<1>9. Content(c) = t
  <2> HIDE DEF c, t, n, l
  <2> QED
    BY <1>4, <1>5, <1>7, <1>8, SameContent
<1> QED
  BY <1>3, <1>4, <1>9 DEF size

(* shrink moves the content to a new buffer.                                *)
LEMMA ShrinkOk ==
    ASSUME NEW b \in Buffers, NEW reserve \in Nat
    PROVE  /\ shrink(b, reserve) \in Buffers
           /\ Content(shrink(b, reserve)) = Content(b)
           /\ prependableBytes(shrink(b, reserve)) = kCheapPrepend
<1> DEFINE new == NewBuffer(kInitialSize)
           e == ensureWritableBytes(new, readableBytes(b) + reserve)
           d == Content(b)
<1>1. /\ new \in Buffers /\ Content(new) = <<>>
      /\ prependableBytes(new) = kCheapPrepend
  BY NewBufferOk, BufferAssumption
<1>2. readableBytes(b) + reserve \in Nat
  BY BufferParts
<1>3. /\ e \in Buffers /\ Content(e) = <<>>
      /\ prependableBytes(e) = kCheapPrepend
  <2> HIDE DEF new
  <2> QED
    BY <1>1, <1>2, EnsureOk
<1>4. d \in Seq(Byte)
  BY ContentIsSeq
<1>5. shrink(b, reserve) = append(e, d)
  BY DEF shrink
<1> HIDE DEF e, d
<1>6. /\ append(e, d) \in Buffers /\ Content(append(e, d)) = <<>> \o d
      /\ prependableBytes(append(e, d)) = kCheapPrepend
  BY <1>3, <1>4, AppendOk
<1>7. <<>> \o d = d
  BY <1>4, ConcatEmptySeq
<1> QED
  BY <1>5, <1>6, <1>7 DEF d

(* What readFd stores in two places is appended in order.                   *)
LEMMA ReadFdOk ==
    ASSUME NEW b \in Buffers, NEW data \in Seq(Byte)
    PROVE  /\ readFd(b, data) \in Buffers
           /\ Content(readFd(b, data)) = Content(b) \o data
           /\ prependableBytes(readFd(b, data))
                 \in {prependableBytes(b), kCheapPrepend}
           /\ size(readFd(b, data)) # size(b) =>
                 readableBytes(readFd(b, data)) + kCheapPrepend > size(b)
<1> DEFINE n == writableBytes(b)
           x == SubSeq(data, 1, n)
           y == SubSeq(data, n + 1, Len(data))
           w == Written(b, x)
<1>1. n \in Nat /\ Len(data) \in Nat
  BY BufferParts, LenProperties
<1>2. CASE Len(data) <= n
  BY <1>2, WrittenOk DEF readFd
<1>3. CASE ~(Len(data) <= n)
  <2>1. readFd(b, data) = append(w, y)
    BY <1>3 DEF readFd
  <2>2. /\ x \in Seq(Byte) /\ Len(x) = n /\ y \in Seq(Byte)
        /\ x \o y = data
    <3> HIDE DEF n
    <3>1. \A i \in 1..Len(data) : data[i] \in Byte
      BY ElementOfSeq
    <3>2. x \in Seq(Byte) /\ Len(x) = n
          /\ \A i \in 1..n : x[i] = data[i]
      BY <1>1, <1>3, <3>1, SubSeqProperties
    <3>3. y \in Seq(Byte) /\ Len(y) = Len(data) - n
          /\ \A i \in 1..(Len(data) - n) : y[i] = data[n + i]
      BY <1>1, <1>3, <3>1, SubSeqProperties
    <3> HIDE DEF x, y
    <3>4. SubSeq(data, 1, n) \o SubSeq(data, n + 1, Len(data))
             = SubSeq(data, 1, Len(data))
      <4>1. /\ 1 \in 1..(Len(data) + 1) /\ n \in (1 - 1)..Len(data)
            /\ Len(data) \in n..Len(data)
        BY <1>1, <1>3
      <4> QED
        BY <4>1, ConcatAdjacentSubSeq
    <3>5. x \o y = data
      BY <3>4, SubSeqFull DEF x, y
    <3> QED
      BY <3>2, <3>3, <3>5
  <2>3. /\ w \in Buffers /\ Content(w) = Content(b) \o x
        /\ prependableBytes(w) = prependableBytes(b) /\ size(w) = size(b)
    <3> HIDE DEF x
    <3>1. Len(x) <= writableBytes(b)
      BY <1>1, <2>2
    <3> QED
      BY <2>2, <3>1, WrittenOk
  <2> HIDE DEF w, x, y
  <2>4. /\ append(w, y) \in Buffers
        /\ Content(append(w, y)) = Content(w) \o y
        /\ prependableBytes(append(w, y))
              \in {prependableBytes(w), kCheapPrepend}
        /\ size(append(w, y)) # size(w) =>
              readableBytes(append(w, y)) + kCheapPrepend > size(w)
    BY <2>2, <2>3, AppendOk
  <2>5. (Content(b) \o x) \o y = Content(b) \o (x \o y)
    <3> DEFINE d == Content(b)
    <3>1. d \in Seq(Byte) /\ x \in Seq(Byte) /\ y \in Seq(Byte)
      BY <2>2, ContentIsSeq
    <3> HIDE DEF d
    <3>2. \A p, q, u \in Seq(Byte) : (p \o q) \o u = p \o (q \o u)
      BY ConcatAssociative
    <3>3. (d \o x) \o y = d \o (x \o y)
      BY <3>1, <3>2
    <3> QED
      BY <3>3 DEF d
  <2> QED
    BY <2>1, <2>2, <2>3, <2>4, <2>5
<1> QED
  BY <1>2, <1>3

-----------------------------------------------------------------------------
(* Theorems *)

(* The invariant of the machine: TypeOK, and that the room exists.          *)
IInv == buf \in Buffers

\* What a step may do to the size and to the room in front.
SizeStep == size(buf') > size(buf) =>
               \/ readableBytes(buf') + kCheapPrepend > size(buf)
               \/ \E len \in Sizes : Shrink(len)
RoomStep == \/ prependableBytes(buf') >= prependableBytes(buf)
            \/ prependableBytes(buf') >= kCheapPrepend
            \/ \E data \in Data : Prepend(data)

(* A buffer starts empty and with its indices in order.                     *)
LEMMA InitOk == Init => IInv /\ Content(buf) = <<>>
BY NewBufferOk, BufferAssumption DEF Init, IInv

(* Every operation keeps the indices in order, is a step of the byte queue, *)
(* and respects the size and the room.                                      *)
LEMMA StepOk ==
    ASSUME IInv, Next
    PROVE  /\ IInv'
           /\ Abstract!Next \/ Content(buf') = Content(buf)
           /\ SizeStep /\ RoomStep
<1> USE DEF IInv
<1>1. /\ \A data \in Data : data \in Seq(Byte)
      /\ \A len \in Sizes : len \in Nat
      /\ kCheapPrepend \in Nat /\ size(buf) \in Nat
      /\ prependableBytes(buf) \in Nat
  BY BufferAssumption, BufferParts
<1>2. ASSUME NEW data \in Data, Append_(data)
      PROVE  /\ IInv' /\ Abstract!Next /\ SizeStep /\ RoomStep
  <2>1. /\ buf' \in Buffers /\ Content(buf') = Content(buf) \o data
        /\ prependableBytes(buf') \in {prependableBytes(buf), kCheapPrepend}
        /\ size(buf') # size(buf) =>
              readableBytes(buf') + kCheapPrepend > size(buf)
    BY <1>1, <1>2, AppendOk DEF Append_
  <2>2. SizeStep /\ RoomStep
    BY <1>1, <2>1, BufferParts DEF SizeStep, RoomStep
  <2> QED
    BY <2>1, <2>2 DEF Abstract!Next, Abstract!Write
<1>3. ASSUME NEW data \in Data, HasWritten(data)
      PROVE  /\ IInv' /\ Abstract!Next /\ SizeStep /\ RoomStep
  <2>1. /\ buf' \in Buffers /\ Content(buf') = Content(buf) \o data
        /\ prependableBytes(buf') = prependableBytes(buf)
        /\ size(buf') = size(buf)
    BY <1>1, <1>3, WrittenOk DEF HasWritten
  <2>2. SizeStep /\ RoomStep
    BY <1>1, <2>1 DEF SizeStep, RoomStep
  <2> QED
    BY <2>1, <2>2 DEF Abstract!Next, Abstract!Write
<1>4. ASSUME NEW data \in Data, Prepend(data)
      PROVE  /\ IInv' /\ Abstract!Next /\ SizeStep /\ RoomStep
  <2>1. /\ buf' \in Buffers /\ Content(buf') = data \o Content(buf)
        /\ size(buf') = size(buf)
    BY <1>1, <1>4, PrependOk DEF Prepend
  <2>2. SizeStep /\ RoomStep
    BY <1>1, <1>4, <2>1 DEF SizeStep, RoomStep
  <2> QED
    BY <2>1, <2>2 DEF Abstract!Next, Abstract!PutInFront
<1>5. ASSUME NEW data \in Data, ReadFd(data)
      PROVE  /\ IInv' /\ Abstract!Next /\ SizeStep /\ RoomStep
  <2>1. /\ buf' \in Buffers /\ Content(buf') = Content(buf) \o data
        /\ prependableBytes(buf') \in {prependableBytes(buf), kCheapPrepend}
        /\ size(buf') # size(buf) =>
              readableBytes(buf') + kCheapPrepend > size(buf)
    BY <1>1, <1>5, ReadFdOk DEF ReadFd
  <2>2. SizeStep /\ RoomStep
    BY <1>1, <2>1, BufferParts DEF SizeStep, RoomStep
  <2> QED
    BY <2>1, <2>2 DEF Abstract!Next, Abstract!Write
<1>6. ASSUME NEW len \in Sizes, Retrieve(len)
      PROVE  /\ IInv' /\ Abstract!Next /\ SizeStep /\ RoomStep
  <2>1. /\ buf' \in Buffers /\ size(buf') = size(buf)
        /\ \E k \in 0..Len(Content(buf)) :
              Content(buf') = SubSeq(Content(buf), k + 1, Len(Content(buf)))
        /\ \/ prependableBytes(buf') >= prependableBytes(buf)
           \/ prependableBytes(buf') = kCheapPrepend
    BY <1>1, <1>6, RetrieveOk DEF Retrieve
  <2>2. SizeStep /\ RoomStep
    BY <1>1, <2>1 DEF SizeStep, RoomStep
  <2> QED
    BY <2>1, <2>2 DEF Abstract!Next, Abstract!Consume
<1>7. ASSUME NEW len \in Sizes, Unwrite(len)
      PROVE  /\ IInv' /\ Abstract!Next /\ SizeStep /\ RoomStep
  <2>1. /\ buf' \in Buffers /\ size(buf') = size(buf)
        /\ Content(buf') =
              SubSeq(Content(buf), 1, Len(Content(buf)) - len)
        /\ prependableBytes(buf') = prependableBytes(buf)
    BY <1>1, <1>7, UnwriteOk DEF Unwrite
  <2>2. SizeStep /\ RoomStep
    BY <1>1, <2>1 DEF SizeStep, RoomStep
  <2>3. len \in 0..Len(Content(buf))
    BY <1>1, <1>7, ContentIsSeq, BufferParts DEF Unwrite
  <2> QED
    BY <2>1, <2>2, <2>3 DEF Abstract!Next, Abstract!Unwrite
<1>8. ASSUME NEW len \in Sizes, Shrink(len)
      PROVE  /\ IInv' /\ Content(buf') = Content(buf)
             /\ SizeStep /\ RoomStep
  <2>1. /\ buf' \in Buffers /\ Content(buf') = Content(buf)
        /\ prependableBytes(buf') = kCheapPrepend
    BY <1>1, <1>8, ShrinkOk DEF Shrink
  <2>2. SizeStep /\ RoomStep
    BY <1>1, <1>8, <2>1 DEF SizeStep, RoomStep
  <2> QED
    BY <2>1, <2>2
<1> QED
  BY <1>2, <1>3, <1>4, <1>5, <1>6, <1>7, <1>8 DEF Next, Step

(* The stronger invariant holds throughout.                                 *)
LEMMA Invariance == Spec => []IInv
<1>1. Init => IInv
  BY InitOk
<1>2. IInv /\ [Next]_buf => IInv'
  <2>1. IInv /\ Next => IInv'
    BY StepOk
  <2>2. IInv /\ UNCHANGED buf => IInv'
    BY DEF IInv
  <2> QED
    BY <2>1, <2>2
<1> QED
  BY <1>1, <1>2, PTL DEF Spec

(* readerIndex_ <= writerIndex_ <= size always, whatever the reserved room  *)
(* and the data: the readable bytes lie within the vector.                  *)
THEOREM TypeCorrect == Spec => []TypeOK
<1>1. IInv => TypeOK
  BY DEF IInv, Buffers, TypeOK
<1> QED
  BY <1>1, Invariance, PTL

(* The readable bytes are a byte queue: moving them within the vector,      *)
(* growing it, shrinking it and reading in two parts changes none of them.  *)
THEOREM Refinement == Spec => ImplementsByteQueue
<1>1. Init => Abstract!Init
  BY InitOk DEF Abstract!Init
<1>2. IInv /\ [Next]_buf => [Abstract!Next]_(Content(buf))
  <2>1. IInv /\ Next => [Abstract!Next]_(Content(buf))
    BY StepOk
  <2>2. UNCHANGED buf => [Abstract!Next]_(Content(buf))
    BY DEF Content, readableBytes
  <2> QED
    BY <2>1, <2>2
<1> QED
  BY <1>1, <1>2, Invariance, PTL DEF Spec, ImplementsByteQueue, Abstract!Spec

(* The vector grows only when the readable bytes, the new ones and the      *)
(* reserved room do not fit, however the calls were mixed before.           *)
THEOREM NoNeedlessGrowth == Spec => GrowsOnlyWhenFull
<1>1. IInv /\ [Next]_buf =>
         [size(buf') > size(buf) =>
             \/ readableBytes(buf') + kCheapPrepend > size(buf)
             \/ \E len \in Sizes : Shrink(len)]_buf
  BY StepOk DEF SizeStep
<1> QED
  BY <1>1, Invariance, PTL DEF Spec, GrowsOnlyWhenFull

(* Only prepend uses up the room in front: after any appends there is room  *)
(* for the length that WriteHeader and AppendHeader put there.              *)
THEOREM RoomKept == Spec => PrependRoomKept
<1>1. IInv /\ [Next]_buf =>
         [\/ prependableBytes(buf') >= prependableBytes(buf)
          \/ prependableBytes(buf') >= kCheapPrepend
          \/ \E data \in Data : Prepend(data)]_buf
  BY StepOk DEF RoomStep
<1> QED
  BY <1>1, Invariance, PTL DEF Spec, PrependRoomKept
=============================================================================
