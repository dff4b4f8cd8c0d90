------------------------------ MODULE BagFile ------------------------------
(***************************************************************************)
(* A bag file on disk (src/src/storage/bag.cpp): Recorder appends to it    *)
(* through Bag::Write, the process may die in the middle of any write, and *)
(* Bag::Open reads back what is there.                                     *)
(*                                                                         *)
(* Of the records only the lengths are kept: a file is its number of bytes *)
(* and the layout of the records in it.  The header record, which is       *)
(* rewritten in place when the bag is closed, is kept byte by byte.  Every *)
(* Write reaches the file before the next one begins, because              *)
(* UpdateFileInfo moves the write position; so what a dead process leaves  *)
(* behind is a prefix of what it wrote.                                    *)
(***************************************************************************)
EXTENDS Integers, Sequences, HeaderCodec

CONSTANTS VersionLen, \* bytes of the version line
          WordLen,    \* sizeof(size_t) = sizeof(long long)
          TopicLens,  \* lengths a topic may have
          BodyLens,   \* lengths a serialized message may have
          MaxRecords  \* bound on the records written

ASSUME BagFileAssumption ==
    /\ VersionLen \in Nat \ {0}
    /\ WordLen \in Nat \ {0}
    /\ TopicLens \subseteq Nat \ {0} /\ BodyLens \subseteq Nat
    /\ MaxRecords \in Nat

VARIABLES writer,    \* the write that comes next, or how writing ended
          file_size, \* bytes on disk
          header,    \* its header record, zero where there is nothing yet
          recs,      \* records written, the last one perhaps in part
          reader,    \* progress of Bag::Open in the reading process
          hdr,       \* its ReadHeader
          offset_,   \* where the reader's stream stands, or NoPosition
          records_   \* numbers of the records the reader has inserted

disk == <<file_size, header>>
vars == <<writer, file_size, header, recs, reader, hdr, offset_, records_>>

NoHeader == Times(HeaderLen, Zero)

Init == /\ writer = "version"
        /\ file_size = 0
        /\ header = NoHeader
        /\ recs = <<>>
        /\ reader = "none"
        /\ hdr = NewReader(NoHeader)
        /\ offset_ = 0
        /\ records_ = <<>>

\* What tellg gives once the stream has failed; in offset_, which is unsigned,
\* it is the largest value, and what is subtracted from a size wraps around to
\* one more than the size.
NoPosition == -1

\* Where the parts of record r end.
StampEnd(r) == r.start + 2 * WordLen
LineEnd(r) == StampEnd(r) + r.topic + 1
End(r) == LineEnd(r) + r.body

-----------------------------------------------------------------------------
(* The writing process *)

\* Each pending write, its length, and the write after it.
WriteLen == CASE writer = "version" -> VersionLen
              [] writer = "header" -> HeaderLen
              [] writer \in {"size", "stamp"} -> WordLen
              [] writer = "topic" -> Last(recs).topic
              [] writer = "newline" -> 1
              [] writer = "body" -> Last(recs).body

NextWrite == [version |-> "header", header |-> "idle", size |-> "stamp",
              stamp |-> "topic", topic |-> "newline", newline |-> "body",
              body |-> "idle"]

Writing == writer \in DOMAIN NextWrite

\* The Write calls of Bag::StartWriting and of Recorder::DoWrite, in order.
Write == /\ Writing
         /\ file_size' = file_size + WriteLen
         /\ writer' = NextWrite[writer]
         /\ header' = IF writer = "header" THEN FirstHeader ELSE header
         /\ UNCHANGED <<recs, reader, hdr, offset_, records_>>

\* DoWrite begins with a message.
BeginRecord ==
    /\ writer = "idle" /\ Len(recs) < MaxRecords
    /\ \E t \in TopicLens, b \in BodyLens :
          recs' = Append(recs, [start |-> file_size, topic |-> t, body |-> b])
    /\ writer' = "size"
    /\ UNCHANGED <<disk, reader, hdr, offset_, records_>>

\* Bag::Close moves the write position to the header ...
Close == /\ writer = "idle"
         /\ writer' = "rewrite"
         /\ UNCHANGED <<disk, recs, reader, hdr, offset_, records_>>

\* ... and writes it again, over the old one.
Rewrite == /\ writer = "rewrite"
           /\ writer' = "closed"
           /\ header' = LastHeader
           /\ UNCHANGED <<file_size, recs, reader, hdr, offset_, records_>>

\* The header with the first k bytes of a new one over it.
Overwritten(new, k) == SubSeq(new, 1, k) \o SubSeq(header, k + 1, HeaderLen)

\* The process dies, or the disk is full and nothing is written any more: some
\* part of the pending write is in the file.  A machine that stops is another
\* matter, for nothing is synchronized with the disk.
Crash ==
    /\ \/ writer = "idle" /\ UNCHANGED disk
       \/ /\ writer = "header"
          /\ \E k \in 0..HeaderLen :
                /\ header' = Overwritten(FirstHeader, k)
                /\ file_size' = file_size + k
       \/ /\ writer = "rewrite"
          /\ \E k \in 0..HeaderLen : header' = Overwritten(LastHeader, k)
          /\ UNCHANGED file_size
       \/ /\ Writing /\ writer # "header"
          /\ file_size' \in file_size..(file_size + WriteLen)
          /\ UNCHANGED header
    /\ writer' = "crashed"
    /\ UNCHANGED <<recs, reader, hdr, offset_, records_>>

-----------------------------------------------------------------------------
(* The reading process, once nobody writes any more *)

Ended == writer \in {"closed", "crashed"}

\* There is a header record, but in part the old one, or nothing.
HeaderTorn == VersionLen < file_size /\ header \notin {FirstHeader, LastHeader}

\* OpenRead and ReadVersion, which throw if the version line is cut, and the
\* beginning of ReadHeaderRecord: the bytes there are go to a new Buffer.
OpenRead ==
    /\ Ended /\ reader = "none"
    /\ \/ file_size < VersionLen /\ reader' = "threw" /\ UNCHANGED hdr
       \/ /\ file_size >= VersionLen
          /\ reader' = "header"
          /\ hdr' = NewReader(header)
    /\ UNCHANGED <<writer, disk, recs, offset_, records_>>

\* One field of ReadHeader, which may lie beyond the end of the Buffer.
ReadHeaderField ==
    /\ reader = "header" /\ hdr.read < hdr.len
    /\ \/ FieldOverruns(header, hdr) /\ reader' = "undefined" /\ UNCHANGED hdr
       \/ /\ ~FieldOverruns(header, hdr)
          /\ hdr' = ReadField(header, hdr)
          /\ UNCHANGED reader
    /\ UNCHANGED <<writer, disk, recs, offset_, records_>>

\* ReadHeader returns.  If the read before it was short the stream has failed,
\* the loop over the records does nothing, and Open throws.
HeaderRead ==
    /\ reader = "header" /\ hdr.read >= hdr.len
    /\ \/ /\ file_size >= VersionLen + HeaderLen
          /\ offset_' = VersionLen + HeaderLen
          /\ reader' = "reading"
       \/ /\ file_size < VersionLen + HeaderLen
          /\ reader' = "threw"
          /\ UNCHANGED offset_
    /\ UNCHANGED <<writer, disk, recs, hdr, records_>>

\* Mutant of EnoughData: no check.
EnoughDataUnchecked(offset, size) == TRUE

\* Mutant of EnoughData: a word must follow what is read.
EnoughDataAndWord(offset, size) == file_size - offset > size + WordLen

\* CheckEnoughDataToRead(size) with the stream at offset.
EnoughData(offset, size) == file_size - offset > size

Following == recs[Len(records_) + 1]

\* The two words of the record are there, and something behind them.
PrefixReadable == /\ EnoughData(offset_, WordLen)
                  /\ EnoughData(offset_ + WordLen, WordLen)

\* Mutant of ReadRecord: the length of the body is not checked.
ReadRecordShort ==
    /\ PrefixReadable
    /\ file_size >= LineEnd(Following)
    /\ records_' = Append(records_, Len(records_) + 1)
    /\ offset_' = file_size
    /\ UNCHANGED reader

\* ReadTopicIndexRecord100 inserts a record ...
ReadRecord ==
    /\ PrefixReadable
    /\ file_size >= LineEnd(Following)
    /\ EnoughData(LineEnd(Following), Following.body)
    /\ records_' = Append(records_, Len(records_) + 1)
    /\ offset_' = End(Following)
    /\ UNCHANGED reader

\* Mutant of NotEnough: the stream stays where it is.
NotEnoughStays ==
    /\ \/ ~PrefixReadable
       \/ /\ file_size >= LineEnd(Following)
          /\ ~EnoughData(LineEnd(Following), Following.body)
    /\ UNCHANGED <<reader, offset_, records_>>

\* ... or gives up and moves to the end of the file: "not enough data" ...
NotEnough ==
    /\ \/ ~PrefixReadable
       \/ /\ file_size >= LineEnd(Following)
          /\ ~EnoughData(LineEnd(Following), Following.body)
    /\ offset_' = file_size
    /\ UNCHANGED <<reader, records_>>

\* ... or meets the end of the file inside the topic: getline sets eofbit and
\* the next tellg fails, so that the length of the body is checked against
\* NoPosition.  Unless the body is longer than the file, a record with a cut
\* topic and a body of zeros is inserted; the loop ends either way, and Open
\* throws because the stream has failed.
TopicTorn ==
    /\ PrefixReadable
    /\ file_size < LineEnd(Following)
    /\ \/ /\ EnoughData(NoPosition, Following.body)
          /\ records_' = Append(records_, Len(records_) + 1)
          /\ offset_' = NoPosition
       \/ /\ ~EnoughData(NoPosition, Following.body)
          /\ offset_' = file_size
          /\ UNCHANGED records_
    /\ reader' = "threw"

ReadTopicIndexRecord100 ==
    /\ reader = "reading" /\ offset_ < file_size
    /\ ReadRecord \/ NotEnough \/ TopicTorn
    /\ UNCHANGED <<writer, disk, recs, hdr>>

\* while (offset_ < file_size_) ends, and Open returns.
Opened == /\ reader = "reading" /\ offset_ >= file_size
          /\ reader' = "opened"
          /\ UNCHANGED <<writer, disk, recs, hdr, offset_, records_>>

Done == reader \in {"opened", "threw", "undefined"} /\ UNCHANGED vars

Reading == \/ OpenRead \/ ReadHeaderField \/ HeaderRead
           \/ ReadTopicIndexRecord100 \/ Opened

Next == Write \/ BeginRecord \/ Close \/ Rewrite \/ Crash \/ Reading \/ Done

Spec == Init /\ [][Next]_vars
FairSpec == Spec /\ WF_vars(Reading)

-----------------------------------------------------------------------------
(* Properties *)

Record == [start : Nat, topic : TopicLens, body : BodyLens]

\* The types, and the reader within the file.
TypeOK == /\ writer \in DOMAIN NextWrite \union
                           {"idle", "rewrite", "closed", "crashed"}
          /\ header \in [1..HeaderLen -> Nat]
          /\ hdr.r \in 0..hdr.w /\ hdr.w \in {0, HeaderLen}
          /\ hdr.len \in Nat /\ hdr.read \in Nat
          /\ file_size \in Nat /\ offset_ \in NoPosition..file_size
          /\ recs \in Seq(Record) /\ records_ \in Seq(Nat)
          /\ writer \in {"size", "stamp", "topic", "newline", "body"} =>
                recs # <<>>
          /\ reader \in {"none", "header", "reading", "opened", "threw",
                          "undefined"}
          /\ offset_ = NoPosition => reader = "threw"

\* Records that are on disk in full.
Complete == {k \in 1..Len(recs) : End(recs[k]) <= file_size}

\* Wherever the writer died, the reader inserts records in the order written and
\* each of them once, and stands at the start of the next one; they are whole,
\* except that the last record of a bag it refuses may not be; and a header
\* that was written in full has been read field by field.
ReadsWholeRecords ==
    /\ \A i \in 1..Len(records_) :
          /\ records_[i] = i
          /\ i \in Complete \/ (reader = "threw" /\ i = Len(records_))
    /\ reader = "reading" /\ offset_ < file_size => offset_ = Following.start
    /\ reader \in {"reading", "opened"} /\ ~HeaderTorn => hdr.found = Names

\* A bag that opens lacks at most one complete record, the one at its very end.
LosesAtMostTheLast ==
    reader = "opened" =>
        \A k \in Complete : k <= Len(records_) \/ End(recs[k]) = file_size

\* A bag is refused only if the writer stopped before the header was complete or
\* inside a topic line, and the reader runs out of its buffer only over a header
\* that was written in part; a closed bag always opens.
RefusedOnlyIfTorn ==
    /\ reader = "threw" =>
          /\ writer = "crashed"
          /\ \/ file_size < VersionLen + HeaderLen
             \/ /\ recs # <<>>
                /\ StampEnd(Last(recs)) < file_size
                /\ file_size < LineEnd(Last(recs))
    /\ reader = "undefined" => writer = "crashed" /\ HeaderTorn

\* Opening a bag comes to an end, for every length of the file, unless the
\* header itself is torn: over such a header ReadHeader may read zeros for ever.
OpenEnds == Ended /\ ~HeaderTorn ~> reader \in {"opened", "threw"}

\* "Play back the contents of one or more bag files": a bag that was closed
\* and that opens yields every record written to it.
ClosedBagReadsBack ==
    writer = "closed" /\ reader = "opened" => Len(records_) = Len(recs)
=============================================================================
