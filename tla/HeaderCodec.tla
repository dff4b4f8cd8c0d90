---------------------------- MODULE HeaderCodec ----------------------------
(***************************************************************************)
(* The header record of a bag: WriteHeader and ReadHeader (util.cpp) with  *)
(* Bag::WriteHeaderRecord and the operations of Buffer they call.          *)
(*                                                                         *)
(*   | length of all | length | name=value | length | name=value | pad |   *)
(*                                                                         *)
(* A length is written in the byte order of the host, low byte first, for  *)
(* appendInt32 does not convert it.  Texts are kept as far as their        *)
(* lengths and the place of the "=" go.                                    *)
(***************************************************************************)
EXTENDS Naturals, Sequences, SequencesExt

CONSTANTS IntLen,       \* sizeof(uint32_t)
          HeaderLen,    \* bytes of the record, its first length included (1028)
          NameLens,     \* length of each field's name, in the map's order
          FirstLens,    \* lengths of their values when the bag is opened ...
          LastLens      \* ... and when it is closed

ASSUME HeaderAssumption ==
    /\ IntLen \in Nat \ {0} /\ HeaderLen \in Nat \ {0}
    /\ NameLens \in Seq(Nat \ {0})
    /\ FirstLens \in Seq(Nat) /\ LastLens \in Seq(Nat)
    /\ Len(FirstLens) = Len(NameLens) /\ Len(LastLens) = Len(NameLens)

\* Bytes: what a fresh vector holds, and ASCII.
Zero == 0
Space == 32
Digit == 48
Eq == 61
Letter(i) == 96 + i

Times(n, byte) == [i \in 1..n |-> byte]

Fields == DOMAIN NameLens
Name(i) == Times(NameLens[i], Letter(i))
Names == {Name(i) : i \in Fields}

-----------------------------------------------------------------------------
(* WriteHeader *)

\* appendInt32 and prependInt32.
Int32(n) == <<n>> \o Times(IntLen - 1, Zero)

\* Mutant of Field: the length leaves the "=" out.
FieldWithoutEq(i, len) ==
    Int32(NameLens[i] + len) \o Name(i) \o <<Eq>> \o Times(len, Digit)

\* A field whose value has length len.
Field(i, len) ==
    Int32(NameLens[i] + 1 + len) \o Name(i) \o <<Eq>> \o Times(len, Digit)

\* The loop of WriteHeader: what the first n fields have appended.
Appended(lens) ==
    LET first[n \in 0..Len(NameLens)] ==
            IF n = 0 THEN <<>> ELSE first[n - 1] \o Field(n, lens[n])
    IN first

\* WriteHeaderRecord: the fields, their length in front, and the padding.
HeaderRecord(lens) ==
    LET fields == Appended(lens)[Len(NameLens)]
        pad == (HeaderLen - IntLen) - Len(fields)
    IN Int32(Len(fields)) \o fields \o Times(pad, Space)

FirstHeader == HeaderRecord(FirstLens)
LastHeader == HeaderRecord(LastLens)

\* Four names and their values, of 20 digits at most, are less than
\* FILE_HEADER_LEN, and short enough for lengths of one byte.
ASSUME HeaderFits ==
    \A lens \in {FirstLens, LastLens} :
        LET size == Len(Appended(lens)[Len(NameLens)])
        IN  IntLen + size <= HeaderLen /\ size < 256

-----------------------------------------------------------------------------
(* ReadHeader: a reader h has the indices r and w of its Buffer into bytes, *)
(* which is the whole vector behind the room for prepending.                *)

\* memcpy and std::string do not ask whether n bytes are there.
Overruns(bytes, r, n) == r + n > Len(bytes)

\* peekInt32: the value of the IntLen bytes at r, the last of which weighs most.
IntAt(bytes, r) ==
    LET value[k \in 0..IntLen] ==
            IF k = 0 THEN 0
            ELSE bytes[(r + IntLen) - (k - 1)] + 256 * value[k - 1]
    IN value[IntLen]

\* retrieve: everything or more sets both indices back to the beginning.
Retrieved(h, n) == IF n < h.w - h.r
                   THEN [h EXCEPT !.r = h.r + n]
                   ELSE [h EXCEPT !.r = 0, !.w = 0]

\* retrieveAsString
Text(bytes, r, n) == SubSeq(bytes, r + 1, r + n)

\* find_first_of("="): the name before it, in a text that has one.
NameIn(text) ==
    LET pos == SelectInSeq(text, LAMBDA c : c = Eq) IN SubSeq(text, 1, pos - 1)

NewReader(bytes) ==
    Retrieved([r |-> 0, w |-> Len(bytes), len |-> IntAt(bytes, 0), read |-> 0,
               found |-> {}], IntLen)

\* One pass of the loop runs past the end of the vector.
FieldOverruns(bytes, h) ==
    IF Overruns(bytes, h.r, IntLen)
    THEN TRUE
    ELSE Overruns(bytes, Retrieved(h, IntLen).r, IntAt(bytes, h.r))

\* One pass of the loop: a text without "=" is skipped and not counted.
ReadField(bytes, h) ==
    LET len == IntAt(bytes, h.r)
        lengthRead == Retrieved(h, IntLen)
        text == Text(bytes, lengthRead.r, len)
    IN IF Contains(text, Eq)
       THEN [Retrieved(lengthRead, len) EXCEPT
                !.read = @ + (len + IntLen), !.found = @ \union {NameIn(text)}]
       ELSE Retrieved(lengthRead, len)
=============================================================================
