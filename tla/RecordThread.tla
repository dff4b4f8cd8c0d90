---------------------------- MODULE RecordThread ----------------------------
(***************************************************************************)
(* The record thread of Recorder (src/src/record/recorder.cpp): opening,   *)
(* splitting, pruning and finishing bag files while it writes one message  *)
(* after the other.  Where messages come from, and who clears running_ or  *)
(* calls Stop, is left open here; module Recorder closes the system.       *)
(*                                                                         *)
(* Sizes are counted in records and times in clock units; IntRange records *)
(* are the 4 GB that an int can tell apart.  The files the recorder ever   *)
(* opens are kept in a sequence: the current one is the last, and          *)
(* split_count_ is Len(files) - 1.  A record stands for the number of its  *)
(* message in the order the thread took them.  A file is damaged once an   *)
(* operation on it has failed; torn is the number of the message whose     *)
(* record the program has counted although its flush failed, or 0.         *)
(***************************************************************************)
EXTENDS MachineInt, Sequences, FiniteSets

CONSTANTS Options,    \* the RecorderOptions to start from
          Msgs,       \* messages: records with a field time
          MaxTime,    \* bound on the clock
          MaxMsgs,    \* bound on the messages handled
          DiskPeriod, \* clock units between two disk checks (2.0 s)
          CanFail     \* may opening, writing and closing a file fail?

OptionRecord == [split : BOOLEAN, max_size : Nat, max_splits : Nat,
                 max_duration : Nat, min_space : Nat]

\* A size limit is an int that ParseOption has widened.
ASSUME RecordAssumption ==
    /\ Options \subseteq OptionRecord
    /\ \A o \in Options : o.max_size = AsULong(AsInt(o.max_size))
    /\ \A m \in Msgs : m.time \in Nat
    /\ MaxTime \in Nat /\ MaxMsgs \in Nat /\ DiskPeriod \in Nat
    /\ CanFail \in BOOLEAN

VARIABLES options_,         \* the options in force; they never change
          clock,            \* Timestamp::Now()
          running_,         \* the atomic flag shared with the other threads
          pc,               \* the step the thread takes next
          rotation,         \* what made the thread split: size or duration
          start_time_,      \* where the current duration window begins
          files,            \* every file opened so far
          bag_,             \* the Bag object: stream state and msg_count_
          current_files_,   \* finished files that pruning still knows of
          writing_enabled_, \* FALSE while the disk is too full
          check_disk_next_, \* when the next disk check is due
          handled,          \* messages given to DoWrite so far, in order
          dropped           \* numbers of the messages DoWrite did not record

config == <<options_, clock>>
disk == <<writing_enabled_, check_disk_next_>>
history == <<handled, dropped>>
vars == <<config, running_, pc, rotation, start_time_, files, bag_,
          current_files_, disk, history>>

PC == {"open", "loop", "take", "next", "size", "close", "rename", "prune",
       "reopen", "duration", "disk", "write", "body", "done", "closed",
       "finished"}

\* Mutant of ClosedBag: closing leaves the stream usable.
ClosedBagStillGood == [open |-> FALSE, good |-> TRUE, msg_count_ |-> 0]

\* Stream closed, or open and good, or open after a failed operation.
\* Only Bag::Init, which the constructor and Close call, resets msg_count_.
ClosedBag == [open |-> FALSE, good |-> FALSE, msg_count_ |-> 0]
OpenBag == [bag_ EXCEPT !.open = TRUE, !.good = TRUE]
BrokenBag == [bag_ EXCEPT !.open = TRUE, !.good = FALSE]

\* The header is written at once, with the count the Bag object has then.
NewFile(start) == [name |-> "active", recs |-> <<>>, hdr |-> bag_.msg_count_,
                   damaged |-> FALSE, torn |-> 0, start |-> start]

Init == /\ options_ \in Options
        /\ clock = 0
        /\ running_ = TRUE
        /\ pc = "open"
        /\ rotation = "size"
        /\ start_time_ = 0
        /\ files = <<>>
        /\ bag_ = ClosedBag
        /\ current_files_ = <<>>
        /\ writing_enabled_ = TRUE
        /\ check_disk_next_ = 0
        /\ handled = <<>>
        /\ dropped = {}

Current == Len(files)
Message == handled[Len(handled)]

-----------------------------------------------------------------------------
(* Files *)

\* A failed open leaves no file, or a file without a usable header; either
\* way the recorder stops running, but the caller goes on.  When it is only the
\* flush of the header that fails, in the last lines of Bag::Open, nobody
\* notices before the next Write.
StartWriting ==
    \/ /\ files' = Append(files, NewFile(start_time_))
       /\ bag_' = OpenBag
       /\ UNCHANGED running_
    \/ /\ CanFail
       /\ files' = Append(files, [NewFile(start_time_) EXCEPT !.name = "none"])
       /\ running_' = FALSE
       /\ UNCHANGED bag_
    \/ /\ CanFail
       /\ files' = Append(files, [NewFile(start_time_)
                                     EXCEPT !.damaged = TRUE])
       /\ bag_' = BrokenBag
       /\ running_' = FALSE \/ UNCHANGED running_

\* Mutant of CloseBag: Close does not call Init.
CloseBagKeepsCount ==
    /\ \/ /\ bag_.good
          /\ files' = [files EXCEPT ![Current].hdr = bag_.msg_count_]
       \/ ~bag_.good /\ UNCHANGED files
    /\ bag_' = [bag_ EXCEPT !.open = FALSE, !.good = FALSE]

\* Bag::Close rewrites the header in place, unless the stream has failed.
CloseBag ==
    /\ \/ /\ bag_.good
          /\ files' = [files EXCEPT ![Current].hdr = bag_.msg_count_]
       \/ /\ bag_.good /\ CanFail
          /\ files' = [files EXCEPT ![Current].damaged = TRUE]
       \/ ~bag_.good /\ UNCHANGED files
    /\ bag_' = ClosedBag

\* rename(write_filename_, target_filename_): an error is ignored.
RenameToTarget ==
    files' = [files EXCEPT ![Current].name = IF @ = "active" THEN "bag" ELSE @]

\* CheckDisk: below min_space it disables writing, from 5 * min_space on it
\* enables it, in between (or when statvfs fails) it leaves it alone.  The
\* space left is any; ok is what ScheduledCheckDisk returns.
CheckDisk(ok) ==
    \/ options_.min_space > 0 /\ writing_enabled_' = FALSE /\ ok = FALSE
    \/ writing_enabled_' = TRUE /\ ok = TRUE
    \/ /\ options_.min_space > 0 \/ CanFail
       /\ UNCHANGED writing_enabled_ /\ ok = TRUE

-----------------------------------------------------------------------------
(* The loop of DoRecordSingleThread *)

Open == /\ pc = "open"
        /\ StartWriting
        /\ \E ok \in BOOLEAN : CheckDisk(ok)
        /\ check_disk_next_' = clock + DiskPeriod
        /\ pc' = "loop"
        /\ UNCHANGED <<config, rotation, start_time_, current_files_, history>>

Loop == /\ pc = "loop"
        /\ pc' = IF running_ THEN "take" ELSE "done"
        /\ UNCHANGED <<config, running_, rotation, start_time_, files, bag_,
                       current_files_, disk, history>>

\* Take returns: with messages, or empty-handed after the queue was stopped.
Taken == /\ pc = "take"
         /\ pc' = "next"
         /\ UNCHANGED <<config, running_, rotation, start_time_, files, bag_,
                        current_files_, disk, history>>

ListDone == /\ pc = "next"
            /\ pc' = "loop"
            /\ UNCHANGED <<config, running_, rotation, start_time_, files,
                           bag_, current_files_, disk, history>>

\* The rest of the list is lost when running_ is found cleared.
Abandon == /\ pc = "next" /\ ~running_
           /\ pc' = "done"
           /\ UNCHANGED <<config, running_, rotation, start_time_, files,
                          bag_, current_files_, disk, history>>

NextMsg(m) == /\ pc = "next" /\ running_
              /\ handled' = Append(handled, m)
              /\ pc' = "size"
              /\ UNCHANGED <<config, running_, rotation, start_time_, files,
                             bag_, current_files_, disk, dropped>>

-----------------------------------------------------------------------------
(* DoWrite *)

\* file_size_: tellp gives -1 once the stream has failed.
FileSize == IF bag_.good THEN Len(files[Current].recs) ELSE -1

\* Mutant of GetSize: the size is not truncated, but max_size still is.
GetSizeFull == FileSize

\* The size of the file, returned as an int.
GetSize == AsInt(FileSize)

\* An int is compared with a uint64_t.
SizeExceeded == options_.max_size > 0 /\ AsULong(GetSize) > options_.max_size

DurationExceeded == /\ options_.max_duration > 0
                    /\ Message.time > start_time_ + options_.max_duration

\* Mutant of CheckSize: without --split the limit is ignored.
CheckSizeIgnored ==
    /\ pc = "size"
    /\ pc' = IF SizeExceeded /\ options_.split THEN "close" ELSE "duration"
    /\ rotation' = IF SizeExceeded THEN "size" ELSE rotation
    /\ UNCHANGED <<config, running_, start_time_, files, bag_, current_files_,
                   disk, history>>

\* Without --split a limit clears running_, and the message is still written.
CheckSize ==
    /\ pc = "size"
    /\ \/ /\ SizeExceeded /\ options_.split
          /\ pc' = "close" /\ rotation' = "size"
          /\ UNCHANGED running_
       \/ /\ SizeExceeded /\ ~options_.split
          /\ pc' = "duration" /\ running_' = FALSE
          /\ UNCHANGED rotation
       \/ /\ ~SizeExceeded
          /\ pc' = "duration"
          /\ UNCHANGED <<running_, rotation>>
    /\ UNCHANGED <<config, start_time_, files, bag_, current_files_, disk,
                   history>>

\* The while loop of CheckDuration comes back here after every split.
CheckDuration ==
    /\ pc = "duration"
    /\ \/ /\ DurationExceeded /\ options_.split
          /\ pc' = "close" /\ rotation' = "duration"
          /\ UNCHANGED running_
       \/ /\ DurationExceeded /\ ~options_.split
          /\ pc' = "disk" /\ running_' = FALSE
          /\ UNCHANGED rotation
       \/ /\ ~DurationExceeded
          /\ pc' = "disk"
          /\ UNCHANGED <<running_, rotation>>
    /\ UNCHANGED <<config, start_time_, files, bag_, current_files_, disk,
                   history>>

\* Mutant of SplitClose: StopWriting does not rename.
SplitCloseOnly == /\ pc = "close"
                  /\ CloseBag
                  /\ pc' = "prune"
                  /\ UNCHANGED <<config, running_, rotation, start_time_,
                                 current_files_, disk, history>>

SplitClose == /\ pc = "close"
              /\ CloseBag
              /\ pc' = "rename"
              /\ UNCHANGED <<config, running_, rotation, start_time_,
                             current_files_, disk, history>>

SplitRename == /\ pc = "rename"
               /\ RenameToTarget
               /\ pc' = "prune"
               /\ UNCHANGED <<config, running_, rotation, start_time_, bag_,
                              current_files_, disk, history>>

\* unlink of a file that is not there fails and is only logged.
Unlink(i) ==
    files' = [files EXCEPT ![i].name = IF @ = "bag" THEN "deleted" ELSE @]

\* Mutant of CheckNumSplits: size() >= max_splits.
CheckNumSplitsEager ==
    LET kept == Append(current_files_, Current)
    IN  \/ /\ options_.max_splits = 0
           /\ UNCHANGED <<files, current_files_>>
        \/ /\ options_.max_splits > 0 /\ Len(kept) < options_.max_splits
           /\ current_files_' = kept
           /\ UNCHANGED files
        \/ /\ options_.max_splits > 0 /\ Len(kept) >= options_.max_splits
           /\ Unlink(Head(kept))
           /\ current_files_' = Tail(kept)

CheckNumSplits ==
    LET kept == Append(current_files_, Current)
    IN  \/ /\ options_.max_splits = 0
           /\ UNCHANGED <<files, current_files_>>
        \/ /\ options_.max_splits > 0 /\ Len(kept) <= options_.max_splits
           /\ current_files_' = kept
           /\ UNCHANGED files
        \/ /\ options_.max_splits > 0 /\ Len(kept) > options_.max_splits
           /\ Unlink(Head(kept))
           /\ current_files_' = Tail(kept)

SplitPrune ==
    /\ pc = "prune"
    /\ CheckNumSplits
    /\ start_time_' = IF rotation = "duration"
                      THEN start_time_ + options_.max_duration ELSE start_time_
    /\ pc' = "reopen"
    /\ UNCHANGED <<config, running_, rotation, bag_, disk, history>>

\* Mutant of SplitReopen: split_count_ is not advanced, the name is reused.
SplitReopenSameName ==
    /\ pc = "reopen"
    /\ files' = [files EXCEPT ![Current] = NewFile(start_time_)]
    /\ bag_' = OpenBag
    /\ pc' = "duration"
    /\ UNCHANGED <<config, running_, rotation, start_time_, current_files_,
                   disk, history>>

SplitReopen == /\ pc = "reopen"
               /\ StartWriting
               /\ pc' = "duration"
               /\ UNCHANGED <<config, rotation, start_time_, current_files_,
                              disk, history>>

\* ScheduledCheckDisk() && CheckLogging()
CheckSpace ==
    /\ pc = "disk"
    /\ \E ok \in BOOLEAN :
          /\ \/ /\ clock < check_disk_next_ /\ ok = TRUE
                /\ UNCHANGED disk
             \/ /\ clock >= check_disk_next_
                /\ check_disk_next_' = check_disk_next_ + DiskPeriod
                /\ CheckDisk(ok)
          /\ \/ /\ ok /\ writing_enabled_'
                /\ pc' = "write"
                /\ UNCHANGED dropped
             \/ /\ ~(ok /\ writing_enabled_')
                /\ pc' = "next"
                /\ dropped' = dropped \union {Len(handled)}
    /\ UNCHANGED <<config, running_, rotation, start_time_, files, bag_,
                   current_files_, handled>>

\* Mutant of WriteBegin: Bag::Write does not look at the stream.
WriteBeginUnchecked ==
    /\ pc = "write"
    /\ files' = [files EXCEPT ![Current].damaged = TRUE]
    /\ pc' = "body"
    /\ UNCHANGED <<config, running_, rotation, start_time_, bag_,
                   current_files_, disk, history>>

\* The first of five writes: from here on the file ends in part of a record.
WriteBegin == /\ pc = "write" /\ bag_.good
              /\ files' = [files EXCEPT ![Current].damaged = TRUE]
              /\ pc' = "body"
              /\ UNCHANGED <<config, running_, rotation, start_time_, bag_,
                             current_files_, disk, history>>

\* The last of them returns and the message is counted.  If that write was
\* small it has only been flushed by the seekp of UpdateFileInfo, and when
\* the flush fails the stream goes bad without a word.
WriteEnd ==
    /\ pc = "body"
    /\ \/ /\ files' = [files EXCEPT ![Current].damaged = FALSE,
                                    ![Current].recs = Append(@, Len(handled))]
          /\ bag_' = [bag_ EXCEPT !.msg_count_ = @ + 1]
       \/ /\ CanFail
          /\ files' = [files EXCEPT ![Current].recs = Append(@, Len(handled)),
                                    ![Current].torn = Len(handled)]
          /\ bag_' = [bag_ EXCEPT !.good = FALSE, !.msg_count_ = @ + 1]
    /\ pc' = "next"
    /\ UNCHANGED <<config, running_, rotation, start_time_, current_files_,
                   disk, history>>

\* Write throws: the stream has failed before, in the flush of one of the first
\* four writes, or in a last write too large for the buffer.
WriteFail == /\ \/ pc = "write" /\ ~bag_.good
                \/ pc = "body" /\ CanFail
             /\ running_' = FALSE
             /\ bag_' = [bag_ EXCEPT !.good = FALSE]
             /\ dropped' = dropped \union {Len(handled)}
             /\ pc' = "next"
             /\ UNCHANGED <<config, rotation, start_time_, files,
                            current_files_, disk, handled>>

DoWrite == \/ CheckSize \/ CheckDuration \/ SplitClose \/ SplitRename
           \/ SplitPrune \/ SplitReopen \/ CheckSpace
           \/ WriteBegin \/ WriteEnd \/ WriteFail

-----------------------------------------------------------------------------
(* Stop: any thread clears the flag; after the join, it finishes the file. *)

StopFlag == /\ running_' = FALSE
            /\ UNCHANGED <<config, pc, rotation, start_time_, files, bag_,
                           current_files_, disk, history>>

StopClose == /\ pc = "done"
             /\ CloseBag
             /\ pc' = "closed"
             /\ UNCHANGED <<config, running_, rotation, start_time_,
                            current_files_, disk, history>>

StopRename == /\ pc = "closed"
              /\ RenameToTarget
              /\ pc' = "finished"
              /\ UNCHANGED <<config, running_, rotation, start_time_, bag_,
                             current_files_, disk, history>>

Tick == /\ clock < MaxTime
        /\ clock' = clock + 1
        /\ UNCHANGED <<options_, running_, pc, rotation, start_time_, files,
                       bag_, current_files_, disk, history>>

\* Any message stamped by now may come next, whatever the stamp of the last.
SomeMsg == /\ Len(handled) < MaxMsgs
           /\ \E m \in Msgs : m.time <= clock /\ NextMsg(m)

Finished == pc = "finished" /\ UNCHANGED vars

Next == \/ Open \/ Loop \/ Taken \/ ListDone \/ Abandon \/ SomeMsg \/ DoWrite
        \/ StopFlag \/ StopClose \/ StopRename \/ Tick \/ Finished

Spec == Init /\ [][Next]_vars

-----------------------------------------------------------------------------
(* Properties *)

Names == {"none", "active", "bag", "deleted"}
File == [name : Names, recs : Seq(Nat), hdr : Nat, damaged : BOOLEAN,
         torn : Nat, start : Nat]

\* The types, and the stream and the file in step with the thread's position.
TypeOK == /\ options_ \in OptionRecord
          /\ clock \in Nat /\ start_time_ \in Nat /\ check_disk_next_ \in Nat
          /\ running_ \in BOOLEAN /\ writing_enabled_ \in BOOLEAN
          /\ pc \in PC /\ rotation \in {"size", "duration"}
          /\ files \in Seq(File)
          /\ pc # "open" => files # <<>>
          /\ bag_ \in [open : BOOLEAN, good : BOOLEAN, msg_count_ : Nat]
          /\ bag_.good => bag_.open
          /\ current_files_ \in Seq(Nat)
          /\ handled \in Seq(Msgs)
          /\ dropped \subseteq Nat

\* The messages DoWrite is through with: all but the one it is working on.
Through == IF pc \in {"size", "close", "rename", "prune", "reopen",
                      "duration", "disk", "write", "body"}
           THEN 1..(Len(handled) - 1) ELSE 1..Len(handled)

RecordsOf(i) == {files[i].recs[k] : k \in 1..Len(files[i].recs)}

\* Each message is a record of one file, once, or was dropped; and files hold
\* records in the order in which the messages came, across splits too.
InOnePlace ==
    /\ dropped \union UNION {RecordsOf(i) : i \in 1..Len(files)} = Through
    /\ \A i \in 1..Len(files) :
          /\ RecordsOf(i) \intersect dropped = {}
          /\ \A k, l \in 1..Len(files[i].recs) :
                k < l => files[i].recs[k] < files[i].recs[l]
          /\ \A j \in 1..(i-1) : \A p \in RecordsOf(j), q \in RecordsOf(i) :
                p < q

\* A torn record is the last of its file, which is damaged.
TornIsLast ==
    \A i \in 1..Len(files) :
        files[i].torn # 0 =>
            /\ files[i].damaged
            /\ files[i].torn \in RecordsOf(i)
            /\ \A p \in RecordsOf(i) : p <= files[i].torn

\* Every message DoWrite is through with is in exactly one place: counted
\* once as a record of one file, in the order in which the messages came, or
\* dropped.  What is counted is there in full, with one exception: the flush
\* of a record may have failed unseen, and then nothing can follow that record
\* in its file.
Accounted == InOnePlace /\ TornIsLast

\* A bag under its final name that no failed write has damaged carries the
\* number of its records in its header, although the header is written
\* before the records and once more when the file is closed.
HeaderCounts ==
    \A i \in 1..Len(files) :
        files[i].name = "bag" /\ ~files[i].damaged =>
            files[i].hdr = Len(files[i].recs)

\* What --size asked for, if that is below IntRange (4 GB), and whether a record
\* more is below it, too.
SizeAsked == options_.max_size % IntRange
SizeLimited == options_.max_size > 0 /\ SizeAsked + 1 < IntRange

\* A split file stays within its limits: at most one record more than --size,
\* also where neither the limit nor the size of the file fits an int, and no
\* message later than its window of max_duration.
SplitWithinLimits ==
    options_.split =>
        \A i \in 1..Len(files) :
            /\ SizeLimited => Len(files[i].recs) <= SizeAsked + 1
            /\ options_.max_duration > 0 => \A p \in RecordsOf(i) :
                  handled[p].time <= files[i].start + options_.max_duration

\* Without --split, recording stops one message after the limit was crossed.
LimitStops ==
    ~options_.split /\ files # <<>> =>
        /\ SizeLimited =>
              Len(files[Current].recs) <= SizeAsked + 2
        /\ options_.max_duration > 0 => \A p \in RecordsOf(Current) :
              \/ handled[p].time <= start_time_ + options_.max_duration
              \/ p = Len(handled)

\* Files that CheckNumSplits has seen: all but the current one.
Pruned == IF pc = "reopen" THEN Len(files) ELSE Len(files) - 1

\* --max-splits deletes a finished bag only when max_splits younger ones are
\* kept, and apart from the current file no older bag stays behind.
Retention ==
    options_.max_splits > 0 =>
        \A i \in 1..Pruned :
            /\ files[i].name = "deleted" => i + options_.max_splits <= Pruned
            /\ files[i].name = "bag" => i + options_.max_splits > Pruned

\* A finished bag never changes again, except that pruning may delete it.
FinishedBagIsFinal ==
    [][\A i \in 1..Len(files) :
          files[i].name = "bag" =>
              \/ files'[i] = files[i]
              \/ files'[i] = [files[i] EXCEPT !.name = "deleted"]]_vars

\* Never more than one file under its temporary name, and it is the current.
OneActive == \A i \in 1..(Len(files) - 1) : files[i].name # "active"

-----------------------------------------------------------------------------
(* What the usage text says, and the code does not do *)

\* "--max-splits=MAX_SPLITS  Keep a maximum of N bag files, when reaching the
\* maximum erase the oldest one to keep a constant number of files."
AtMostMaxSplits ==
    options_.max_splits > 0 /\ pc # "prune" =>
        Cardinality({i \in 1..Len(files) : files[i].name = "bag"})
            <= options_.max_splits
=============================================================================
