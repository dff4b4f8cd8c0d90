------------------------ MODULE RecordThread_proofs ------------------------
(***************************************************************************)
(* RecordThread for all options, messages and bounds: every safety         *)
(* property of its run, from one invariant that says, for each step of     *)
(* DoWrite, what the stream, the current file and the list of finished     *)
(* files may look like.                                                    *)
(***************************************************************************)
EXTENDS RecordThread, SequenceTheorems, FiniteSetTheorems, TLAPS

Bag == [open : BOOLEAN, good : BOOLEAN, msg_count_ : Nat]

-----------------------------------------------------------------------------
(* The inductive invariant.  TypeOK is its first part. *)

\* DoWrite is at work on a message.
Working == pc \in {"size", "close", "rename", "prune", "reopen", "duration",
                   "disk", "write", "body"}

\* The current file is not closed yet.
Recording == pc \in {"loop", "take", "next", "size", "close", "duration",
                     "disk", "write", "body", "done"}

\* Nothing has happened before the first file is opened.
Fresh == /\ pc = "open" => /\ files = <<>> /\ bag_ = ClosedBag
                           /\ current_files_ = <<>>
                           /\ handled = <<>> /\ dropped = {}
         /\ Working => handled # <<>>

\* The stream, the Bag object's count and the current file belong together: a
\* good stream counts what is in the file, and a bad one has left its mark on
\* the file, if there is one.
Stream ==
    /\ ~Recording => bag_ = ClosedBag
    /\ pc = "body" => bag_.good /\ files[Current].damaged
    /\ Recording =>
          /\ files[Current].name \in {"active", "none"}
          /\ bag_.good => /\ bag_.msg_count_ = Len(files[Current].recs)
                          /\ files[Current].name = "active"
                          /\ files[Current].torn = 0
          /\ ~bag_.good => \/ files[Current].name = "none"
                           \/ files[Current].damaged
    /\ pc \in {"rename", "closed"} =>
          /\ files[Current].name \in {"active", "none"}
          /\ \/ files[Current].name = "none"
             \/ files[Current].damaged
             \/ files[Current].hdr = Len(files[Current].recs)
    /\ pc \in {"prune", "finished"} => files[Current].name \in {"bag", "none"}
    /\ pc = "reopen" => files[Current].name # "active"

\* The files pruning knows of are the youngest ones it has seen.
Window ==
    options_.max_splits > 0 /\ pc # "open" =>
        /\ Len(current_files_) = IF Pruned <= options_.max_splits THEN Pruned
                                 ELSE options_.max_splits
        /\ \A k \in 1..Len(current_files_) :
              current_files_[k] = Pruned - Len(current_files_) + k

\* What --size limits, at every step of the thread.
SizeBound ==
    SizeLimited /\ pc # "open" =>
        LET len == Len(files[Current].recs)
        IN  /\ options_.split => len <= SizeAsked + 1
            /\ options_.split /\ pc \in {"duration", "disk", "write", "body"} =>
                  len <= SizeAsked
            /\ ~options_.split => \/ len <= SizeAsked + 1
                                  \/ (len = SizeAsked + 2 /\ ~running_)
            /\ ~options_.split /\ pc = "size" => len <= SizeAsked + 1
            /\ ~options_.split /\ pc \in {"duration", "disk", "write", "body"} =>
                  len <= SizeAsked \/ (len = SizeAsked + 1 /\ ~running_)

\* What --duration limits, at every step of the thread.
InWindow(p) == handled[p].time <= start_time_ + options_.max_duration

DurationBound ==
    options_.max_duration > 0 /\ pc # "open" =>
        /\ pc # "reopen" => files[Current].start = start_time_
        /\ pc \in {"disk", "write", "body"} =>
              InWindow(Len(handled)) \/ (~options_.split /\ ~running_)
        /\ ~options_.split => \A p \in RecordsOf(Current) :
              InWindow(p) \/ (p = Len(handled) /\ ~running_)

\* Without --split there is one file, and it is never rotated.
OneFile == /\ ~options_.split /\ pc # "open" => Len(files) = 1
           /\ ~options_.split =>
                 pc \notin {"close", "rename", "prune", "reopen"}

IInv == /\ TypeOK /\ options_ \in Options
        /\ Fresh /\ Stream /\ OneFile /\ OneActive /\ HeaderCounts
        /\ Accounted /\ Window /\ Retention
        /\ SizeBound /\ DurationBound /\ SplitWithinLimits /\ LimitStops

\* A file whose stream is good has no trace of a failure.  (Not part of IInv:
\* it is what the recorder needs beyond it.)
Healthy == bag_.good /\ pc # "body" => ~files[Current].damaged

-----------------------------------------------------------------------------
(* Files *)

\* A step keeps all files but file i, which becomes f.
Replaced(i, f) == /\ files' \in Seq(File)
                  /\ Len(files') = Len(files)
                  /\ files'[i] = f
                  /\ \A j \in 1..Len(files) : j # i => files'[j] = files[j]

\* A step opens one more file f.
Added(f) == /\ files' \in Seq(File)
            /\ Len(files') = Len(files) + 1
            /\ files'[Len(files) + 1] = f
            /\ \A j \in 1..Len(files) : files'[j] = files[j]

LEMMA ReplaceFile ==
    ASSUME files \in Seq(File), NEW i \in 1..Len(files), NEW f \in File,
           files' = [files EXCEPT ![i] = f]
    PROVE  Replaced(i, f)
BY ExceptSeq DEF Replaced

LEMMA AddFile ==
    ASSUME files \in Seq(File), NEW f \in File, files' = Append(files, f)
    PROVE  Added(f)
BY AppendProperties DEF Added

LEMMA StartWritingLemma ==
    ASSUME TypeOK, StartWriting
    PROVE  /\ \E f \in File :
                 /\ Added(f)
                 /\ f.recs = <<>> /\ f.torn = 0 /\ f.start = start_time_
                 /\ f.hdr = bag_.msg_count_
                 /\ f.name \in {"active", "none"}
                 /\ \/ f.name = "active" /\ bag_' = OpenBag
                    \/ f.name = "none" /\ bag_' = bag_
                    \/ f.damaged /\ bag_' = BrokenBag
           /\ running_' \in BOOLEAN /\ (running_' => running_)
<1> DEFINE f == NewFile(start_time_)
<1>1. /\ f \in File
      /\ [f EXCEPT !.name = "none"] \in File
      /\ [f EXCEPT !.damaged = TRUE] \in File
  BY EmptySeq DEF NewFile, File, Names, TypeOK
<1>2. CASE files' = Append(files, f) /\ bag_' = OpenBag /\ UNCHANGED running_
  <2>1. Added(f)
    BY <1>1, <1>2, AddFile DEF TypeOK
  <2> QED
    BY <1>1, <1>2, <2>1 DEF NewFile, TypeOK
<1>3. CASE /\ files' = Append(files, [f EXCEPT !.name = "none"])
           /\ bag_' = bag_ /\ running_' = FALSE
  <2>1. Added([f EXCEPT !.name = "none"])
    BY <1>1, <1>3, AddFile DEF TypeOK
  <2> QED
    BY <1>1, <1>3, <2>1 DEF NewFile, TypeOK
<1>4. CASE /\ files' = Append(files, [f EXCEPT !.damaged = TRUE])
           /\ bag_' = BrokenBag /\ (running_' = FALSE \/ UNCHANGED running_)
  <2>1. Added([f EXCEPT !.damaged = TRUE])
    BY <1>1, <1>4, AddFile DEF TypeOK
  <2>2. running_' \in BOOLEAN /\ (running_' => running_)
    <3>1. CASE running_' = FALSE
      BY <3>1
    <3>2. CASE running_' = running_
      BY <3>2 DEF TypeOK
    <3> QED
      BY <1>4, <3>1, <3>2
  <2> QED
    BY <1>1, <1>4, <2>1, <2>2 DEF NewFile
<1> QED
  BY <1>2, <1>3, <1>4 DEF StartWriting

\* Parts of the current file and of the Bag object.
LEMMA CurrentFile ==
    ASSUME TypeOK, pc # "open"
    PROVE  /\ Len(files) \in Nat \ {0} /\ Current \in 1..Len(files)
           /\ files[Current] \in File
           /\ bag_ \in Bag /\ bag_.msg_count_ \in Nat
BY EmptySeq, ElementOfSeq DEF TypeOK, Current, Bag

LEMMA CloseBagLemma ==
    ASSUME TypeOK, pc # "open", CloseBag
    PROVE  /\ bag_' = ClosedBag
           /\ \/ /\ bag_.good
                 /\ Replaced(Current,
                             [files[Current] EXCEPT !.hdr = bag_.msg_count_])
              \/ /\ bag_.good
                 /\ Replaced(Current, [files[Current] EXCEPT !.damaged = TRUE])
              \/ ~bag_.good /\ UNCHANGED files
<1> USE CurrentFile
<1>1. /\ [files[Current] EXCEPT !.hdr = bag_.msg_count_] \in File
      /\ [files[Current] EXCEPT !.damaged = TRUE] \in File
  BY DEF File
<1>2. ASSUME files' = [files EXCEPT ![Current].hdr = bag_.msg_count_]
      PROVE  Replaced(Current,
                      [files[Current] EXCEPT !.hdr = bag_.msg_count_])
  BY <1>1, <1>2, ReplaceFile DEF TypeOK
<1>3. ASSUME files' = [files EXCEPT ![Current].damaged = TRUE]
      PROVE  Replaced(Current, [files[Current] EXCEPT !.damaged = TRUE])
  BY <1>1, <1>3, ReplaceFile DEF TypeOK
<1> QED
  BY <1>2, <1>3 DEF CloseBag

LEMMA RenameLemma ==
    ASSUME TypeOK, pc # "open", RenameToTarget
    PROVE  Replaced(Current,
               [files[Current] EXCEPT !.name = IF @ = "active" THEN "bag"
                                               ELSE @])
<1> DEFINE f == [files[Current] EXCEPT !.name = IF @ = "active" THEN "bag"
                                                ELSE @]
<1>1. f \in File
  BY CurrentFile DEF File, Names
<1>2. files' = [files EXCEPT ![Current] = f]
  BY DEF RenameToTarget
<1> QED
  BY <1>1, <1>2, CurrentFile, ReplaceFile DEF TypeOK

LEMMA UnlinkLemma ==
    ASSUME TypeOK, NEW i \in 1..Len(files), Unlink(i)
    PROVE  Replaced(i, [files[i] EXCEPT !.name = IF @ = "bag" THEN "deleted"
                                                 ELSE @])
<1> DEFINE f == [files[i] EXCEPT !.name = IF @ = "bag" THEN "deleted" ELSE @]
<1>1. files[i] \in File
  BY ElementOfSeq DEF TypeOK
<1>2. f \in File
  BY <1>1 DEF File, Names
<1>3. files' = [files EXCEPT ![i] = f]
  BY DEF Unlink
<1> QED
  BY <1>2, <1>3, ReplaceFile DEF TypeOK

LEMMA WriteBeginLemma ==
    ASSUME TypeOK, WriteBegin
    PROVE  Replaced(Current, [files[Current] EXCEPT !.damaged = TRUE])
<1>1. pc # "open"
  BY DEF WriteBegin
<1>2. [files[Current] EXCEPT !.damaged = TRUE] \in File
  BY <1>1, CurrentFile DEF File
<1> QED
  BY <1>1, <1>2, CurrentFile, ReplaceFile DEF WriteBegin, TypeOK

LEMMA WriteEndLemma ==
    ASSUME TypeOK, WriteEnd
    PROVE  LET old == files[Current]
               new == files'[Current]
           IN  /\ Replaced(Current, new) /\ new \in File
               /\ new.name = old.name /\ new.hdr = old.hdr
               /\ new.start = old.start
               /\ new.recs = Append(old.recs, Len(handled))
               /\ \/ /\ ~new.damaged /\ new.torn = old.torn
                     /\ bag_'.good = bag_.good
                  \/ /\ new.damaged = old.damaged /\ new.torn = Len(handled)
                     /\ ~bag_'.good
               /\ bag_' \in Bag /\ bag_'.open = bag_.open
               /\ bag_'.good => bag_.good
               /\ bag_'.msg_count_ = bag_.msg_count_ + 1
<1> DEFINE old == files[Current]
           f == [old EXCEPT !.damaged = FALSE,
                            !.recs = Append(@, Len(handled))]
           g == [old EXCEPT !.recs = Append(@, Len(handled)),
                            !.torn = Len(handled)]
<1>1. pc # "open"
  BY DEF WriteEnd
<1>2. /\ Append(old.recs, Len(handled)) \in Seq(Nat)
      /\ Len(handled) \in Nat /\ old \in File /\ Current \in 1..Len(files)
  BY <1>1, CurrentFile, AppendProperties, LenProperties DEF File, TypeOK
<1>3. f \in File /\ g \in File
  BY <1>2 DEF File
<1>4. \/ /\ files' = [files EXCEPT ![Current] = f]
         /\ bag_' = [bag_ EXCEPT !.msg_count_ = @ + 1]
      \/ /\ files' = [files EXCEPT ![Current] = g]
         /\ bag_' = [bag_ EXCEPT !.good = FALSE, !.msg_count_ = @ + 1]
  BY DEF WriteEnd
<1>5. bag_ \in Bag /\ bag_.msg_count_ + 1 \in Nat
  BY <1>1, CurrentFile
<1>6. CASE /\ files' = [files EXCEPT ![Current] = f]
           /\ bag_' = [bag_ EXCEPT !.msg_count_ = @ + 1]
  <2>1. Replaced(Current, f)
    BY <1>2, <1>3, <1>6, ReplaceFile DEF TypeOK
  <2>2. /\ f.name = old.name /\ f.hdr = old.hdr /\ f.start = old.start
        /\ f.recs = Append(old.recs, Len(handled))
        /\ ~f.damaged /\ f.torn = old.torn
    BY <1>2 DEF File
  <2>3. /\ bag_' \in Bag /\ bag_'.open = bag_.open /\ bag_'.good = bag_.good
        /\ bag_'.msg_count_ = bag_.msg_count_ + 1
    BY <1>5, <1>6 DEF Bag
  <2> HIDE DEF f, g
  <2> QED
    BY <1>3, <2>1, <2>2, <2>3 DEF Replaced
<1>7. CASE /\ files' = [files EXCEPT ![Current] = g]
           /\ bag_' = [bag_ EXCEPT !.good = FALSE, !.msg_count_ = @ + 1]
  <2>1. Replaced(Current, g)
    BY <1>2, <1>3, <1>7, ReplaceFile DEF TypeOK
  <2>2. /\ g.name = old.name /\ g.hdr = old.hdr /\ g.start = old.start
        /\ g.recs = Append(old.recs, Len(handled))
        /\ g.damaged = old.damaged /\ g.torn = Len(handled)
    BY <1>2 DEF File
  <2>3. /\ bag_' \in Bag /\ bag_'.open = bag_.open /\ ~bag_'.good
        /\ bag_'.msg_count_ = bag_.msg_count_ + 1
    BY <1>5, <1>7 DEF Bag
  <2> HIDE DEF f, g
  <2> QED
    BY <1>3, <2>1, <2>2, <2>3 DEF Replaced
<1> QED
  BY <1>4, <1>6, <1>7

LEMMA AppendedNumber ==
    ASSUME NEW s \in Seq(Nat), NEW n \in Nat
    PROVE  Append(s, n) \in Seq(Nat) /\ Append(s, n) # <<>>
BY AppendProperties

LEMMA CheckNumSplitsLemma ==
    ASSUME TypeOK, pc = "prune", CheckNumSplits
    PROVE  /\ files' \in Seq(File) /\ Len(files') = Len(files)
           /\ current_files_' \in Seq(Nat)
           /\ \A i \in 1..Len(files) :
                 \/ files'[i] = files[i]
                 \/ /\ files[i].name = "bag"
                    /\ files'[i] = [files[i] EXCEPT !.name = "deleted"]
<1> DEFINE kept == Append(current_files_, Current)
<1>1. /\ kept \in Seq(Nat) /\ kept # <<>>
      /\ Head(kept) \in Nat /\ Tail(kept) \in Seq(Nat)
  <2>1. Current \in Nat
    BY CurrentFile
  <2>2. current_files_ \in Seq(Nat)
    BY DEF TypeOK
  <2>3. kept \in Seq(Nat) /\ kept # <<>>
    BY <2>1, <2>2, AppendedNumber
  <2> HIDE DEF kept
  <2> QED
    BY <2>3, HeadTailProperties
<1>2. CASE Unlink(Head(kept)) /\ current_files_' = Tail(kept)
  <2>1. CASE Head(kept) \in 1..Len(files)
    <3> DEFINE h == Head(kept)
    <3>1. /\ Replaced(h, [files[h] EXCEPT !.name =
                             IF @ = "bag" THEN "deleted" ELSE @])
          /\ files[h] \in File
      BY <1>2, <2>1, UnlinkLemma, ElementOfSeq DEF TypeOK
    <3>2. \/ files'[h] = files[h]
          \/ /\ files[h].name = "bag"
             /\ files'[h] = [files[h] EXCEPT !.name = "deleted"]
      <4>1. CASE files[h].name = "bag"
        BY <3>1, <4>1 DEF Replaced
      <4>2. CASE files[h].name # "bag"
        BY <3>1, <4>2 DEF Replaced, File
      <4> QED
        BY <4>1, <4>2
    <3> QED
      BY <1>1, <1>2, <3>1, <3>2 DEF Replaced
  <2>2. CASE Head(kept) \notin 1..Len(files)
    <3>1. files' = files
      BY <1>2, <2>2, LenProperties DEF Unlink, TypeOK
    <3> QED
      BY <1>1, <1>2, <3>1 DEF TypeOK
  <2> QED
    BY <2>1, <2>2
<1> QED
  BY <1>1, <1>2 DEF CheckNumSplits, TypeOK

-----------------------------------------------------------------------------
(* TypeOK *)

LEMMA TypeInit == Init => TypeOK
BY RecordAssumption, EmptySeq DEF Init, TypeOK, PC, ClosedBag

\* A file list that is replaced in place or grows stays one.
LEMMA FilesType ==
    ASSUME TypeOK, pc # "open", NEW f, NEW i, Replaced(i, f)
    PROVE  files' \in Seq(File) /\ files' # <<>>
BY CurrentFile, EmptySeq DEF Replaced

LEMMA TypeInductive ==
    ASSUME TypeOK, [Next]_vars
    PROVE  TypeOK'
<1> USE RecordAssumption DEF PC
<1>1. CASE Open
  <2>1. /\ \E f \in File : Added(f) /\ bag_' \in {OpenBag, bag_, BrokenBag}
        /\ running_' \in BOOLEAN
    BY <1>1, StartWritingLemma DEF Open
  <2>2. files' \in Seq(File) /\ files' # <<>>
    BY <2>1, LenProperties, EmptySeq DEF Added, TypeOK
  <2>3. bag_' \in Bag /\ (bag_'.good => bag_'.open)
    BY <2>1 DEF OpenBag, BrokenBag, TypeOK, Bag
  <2>4. writing_enabled_' \in BOOLEAN
    BY <1>1 DEF Open, CheckDisk, TypeOK
  <2> QED
    BY <1>1, <2>1, <2>2, <2>3, <2>4 DEF Open, config, history, TypeOK, Bag
<1>2. CASE Loop \/ Taken \/ ListDone \/ Abandon
  BY <1>2 DEF Loop, Taken, ListDone, Abandon, config, disk, history, TypeOK
<1>3. CASE SomeMsg
  BY <1>3, AppendProperties
     DEF SomeMsg, NextMsg, config, disk, TypeOK
<1>4. CASE CheckSize \/ CheckDuration
  BY <1>4 DEF CheckSize, CheckDuration, config, disk, history, TypeOK
<1>5. CASE SplitClose \/ StopClose
  <2>1. pc # "open" /\ CloseBag
    BY <1>5 DEF SplitClose, StopClose
  <2>2. bag_' = ClosedBag
    BY <2>1, CloseBagLemma
  <2>3. (\E f : Replaced(Current, f)) \/ UNCHANGED files
    BY <2>1, CloseBagLemma
  <2>4. files' \in Seq(File) /\ files' # <<>>
    BY <2>1, <2>3, FilesType DEF TypeOK
  <2>5. bag_' \in Bag /\ ~bag_'.good
    BY <2>2 DEF ClosedBag, Bag
  <2> QED
    BY <1>5, <2>4, <2>5
       DEF SplitClose, StopClose, config, disk, history, TypeOK, Bag
<1>6. CASE SplitRename \/ StopRename
  <2>1. pc # "open" /\ RenameToTarget
    BY <1>6 DEF SplitRename, StopRename
  <2>2. files' \in Seq(File) /\ files' # <<>>
    BY <2>1, RenameLemma, FilesType
  <2> QED
    BY <1>6, <2>2 DEF SplitRename, StopRename, config, disk, history, TypeOK
<1>7. CASE SplitPrune
  <2>1. /\ files' \in Seq(File) /\ files' # <<>>
        /\ current_files_' \in Seq(Nat)
    BY <1>7, CheckNumSplitsLemma, CurrentFile, EmptySeq DEF SplitPrune
  <2>2. start_time_' \in Nat
    BY <1>7 DEF SplitPrune, TypeOK, OptionRecord
  <2> QED
    BY <1>7, <2>1, <2>2 DEF SplitPrune, config, disk, history, TypeOK
<1>8. CASE SplitReopen
  <2>1. /\ \E f \in File : Added(f) /\ bag_' \in {OpenBag, bag_, BrokenBag}
        /\ running_' \in BOOLEAN
    BY <1>8, StartWritingLemma DEF SplitReopen
  <2>2. files' \in Seq(File) /\ files' # <<>>
    BY <2>1, LenProperties, EmptySeq DEF Added, TypeOK
  <2>3. bag_' \in Bag /\ (bag_'.good => bag_'.open)
    BY <2>1 DEF OpenBag, BrokenBag, TypeOK, Bag
  <2> QED
    BY <1>8, <2>1, <2>2, <2>3
       DEF SplitReopen, config, disk, history, TypeOK, Bag
<1>9. CASE CheckSpace
  <2>1. Len(handled) \in Nat
    BY LenProperties DEF TypeOK
  <2>2. /\ pc' \in {"write", "next"}
        /\ dropped' \in {dropped, dropped \union {Len(handled)}}
    BY <1>9 DEF CheckSpace
  <2>4. writing_enabled_' \in BOOLEAN
    BY <1>9 DEF CheckSpace, CheckDisk, disk, TypeOK
  <2>5. check_disk_next_' \in Nat
    BY <1>9 DEF CheckSpace, disk, TypeOK
  <2>3. /\ pc # "open"
        /\ UNCHANGED <<config, running_, rotation, start_time_, files, bag_,
                       current_files_, handled>>
    BY <1>9 DEF CheckSpace
  <2> QED
    BY <2>1, <2>2, <2>3, <2>4, <2>5 DEF config, TypeOK
<1>10. CASE WriteBegin
  <2>1. files' \in Seq(File) /\ files' # <<>>
    BY <1>10, WriteBeginLemma, FilesType DEF WriteBegin
  <2> QED
    BY <1>10, <2>1 DEF WriteBegin, config, disk, history, TypeOK
<1>11. CASE WriteEnd
  <2>1. files' \in Seq(File) /\ files' # <<>>
    BY <1>11, WriteEndLemma, FilesType DEF WriteEnd
  <2>2. bag_' \in Bag /\ (bag_'.good => bag_'.open)
    BY <1>11, WriteEndLemma DEF TypeOK
  <2> QED
    BY <1>11, <2>1, <2>2 DEF WriteEnd, config, disk, history, TypeOK, Bag
<1>12. CASE WriteFail
  <2>1. Len(handled) \in Nat
    BY LenProperties DEF TypeOK
  <2>2. bag_' \in Bag /\ ~bag_'.good
    BY <1>12 DEF WriteFail, TypeOK, Bag
  <2>3. /\ running_' \in BOOLEAN /\ pc # "open" /\ pc' = "next"
        /\ dropped' = dropped \union {Len(handled)}
        /\ UNCHANGED <<options_, clock, rotation, start_time_, files,
                       current_files_, writing_enabled_, check_disk_next_,
                       handled>>
    BY <1>12 DEF WriteFail, config, disk
  <2> QED
    BY <1>12, <2>1, <2>2, <2>3 DEF TypeOK, Bag
<1>13. CASE StopFlag
  BY <1>13 DEF StopFlag, config, disk, history, TypeOK
<1>14. CASE Tick
  BY <1>14 DEF Tick, disk, history, TypeOK
<1>15. CASE UNCHANGED vars
  BY <1>15 DEF vars, config, disk, history, TypeOK
<1> QED
  BY <1>1, <1>2, <1>3, <1>4, <1>5, <1>6, <1>7, <1>8, <1>9, <1>10, <1>11,
     <1>12, <1>13, <1>14, <1>15 DEF Next, DoWrite, Finished

-----------------------------------------------------------------------------
(* Fresh, Stream, OneFile *)

\* The steps that leave the files and the Bag object alone.
Quiet == \/ Loop \/ Taken \/ ListDone \/ Abandon \/ SomeMsg
         \/ CheckSize \/ CheckDuration \/ CheckSpace
         \/ StopFlag \/ Tick \/ UNCHANGED vars

LEMMA QuietSteps ==
    ASSUME TypeOK, Quiet
    PROVE  /\ UNCHANGED <<options_, start_time_, files, bag_, current_files_>>
           /\ running_' => running_
           /\ pc' = "open" => pc = "open" /\ UNCHANGED <<handled, dropped>>
           /\ \/ pc' = pc
              \/ pc = "loop" /\ pc' \in {"take", "done"}
              \/ pc = "take" /\ pc' = "next"
              \/ pc = "next" /\ pc' \in {"loop", "done", "size"}
              \/ pc = "size" /\ pc' \in {"close", "duration"}
              \/ pc = "duration" /\ pc' \in {"close", "disk"}
              \/ pc = "disk" /\ pc' \in {"write", "next"}
           /\ pc' = "close" /\ pc # "close" => options_.split
<1> USE DEF config, disk, history
<1>1. CASE Loop \/ Taken \/ ListDone \/ Abandon
  BY <1>1 DEF Loop, Taken, ListDone, Abandon
<1>2. CASE SomeMsg
  BY <1>2 DEF SomeMsg, NextMsg
<1>3. CASE CheckSize
  BY <1>3 DEF CheckSize
<1>4. CASE CheckDuration
  BY <1>4 DEF CheckDuration
<1>5. CASE CheckSpace
  BY <1>5 DEF CheckSpace
<1>6. CASE StopFlag
  BY <1>6 DEF StopFlag
<1>7. CASE Tick
  BY <1>7 DEF Tick
<1>8. CASE UNCHANGED vars
  BY <1>8 DEF vars
<1> QED
  BY <1>1, <1>2, <1>3, <1>4, <1>5, <1>6, <1>7, <1>8 DEF Quiet

LEMMA NextCases ==
    ASSUME [Next]_vars
    PROVE  \/ Quiet \/ Open \/ SplitReopen \/ SplitClose \/ StopClose
           \/ SplitRename \/ StopRename \/ SplitPrune
           \/ WriteBegin \/ WriteEnd \/ WriteFail
BY DEF Next, DoWrite, Finished, Quiet

LEMMA FreshInductive ==
    ASSUME TypeOK, Fresh, [Next]_vars
    PROVE  Fresh'
<1> USE DEF Fresh, Working
<1>1. CASE Quiet
  <2>1. CASE SomeMsg
    <3>1. handled' # <<>> /\ pc' = "size"
      BY <2>1, AppendProperties DEF SomeMsg, NextMsg, TypeOK
    <3> QED
      BY <3>1
  <2>2. CASE ~SomeMsg
    <3>1. UNCHANGED handled /\ (pc' = "size" => pc = "size")
      BY <1>1, <2>2
         DEF Quiet, Loop, Taken, ListDone, Abandon, CheckSize, CheckDuration,
             CheckSpace, StopFlag, Tick, vars, history
    <3> QED
      BY <1>1, <3>1, QuietSteps
  <2> QED
    BY <2>1, <2>2
<1>2. CASE Open \/ SplitReopen
  BY <1>2 DEF Open, SplitReopen, history
<1>3. CASE \/ SplitClose \/ StopClose \/ SplitRename \/ StopRename
           \/ SplitPrune
  BY <1>3
     DEF SplitClose, StopClose, SplitRename, StopRename, SplitPrune, history
<1>4. CASE WriteBegin \/ WriteEnd \/ WriteFail
  BY <1>4 DEF WriteBegin, WriteEnd, WriteFail, history
<1> QED
  BY <1>1, <1>2, <1>3, <1>4, NextCases

LEMMA OneFileInductive ==
    ASSUME TypeOK, Fresh, OneFile, [Next]_vars
    PROVE  OneFile'
<1> USE DEF OneFile
<1>1. CASE Quiet
  BY <1>1, QuietSteps
<1>2. CASE Open
  <2>1. Len(files') = 1
    <3>1. PICK f \in File : Added(f)
      BY <1>2, StartWritingLemma DEF Open
    <3> QED
      BY <1>2, <3>1, EmptySeq DEF Open, Fresh, Added
  <2> QED
    BY <1>2, <2>1 DEF Open, config
<1>3. CASE SplitReopen \/ SplitClose \/ SplitRename \/ SplitPrune
  BY <1>3 DEF SplitReopen, SplitClose, SplitRename, SplitPrune, config
<1>4. CASE StopClose \/ StopRename \/ WriteBegin \/ WriteEnd \/ WriteFail
  <2>1. Len(files') = Len(files) /\ pc # "open"
    BY <1>4, CloseBagLemma, RenameLemma, WriteBeginLemma, WriteEndLemma
       DEF StopClose, StopRename, WriteBegin, WriteEnd, WriteFail, Replaced
  <2> QED
    BY <1>4, <2>1
       DEF StopClose, StopRename, WriteBegin, WriteEnd, WriteFail, config
<1> QED
  BY <1>1, <1>2, <1>3, <1>4, NextCases

\* A file that was just opened, with the stream as it is then.
LEMMA StreamOpened ==
    ASSUME TypeOK, StartWriting, bag_ = ClosedBag
    PROVE  LET f == files'[Current']
           IN  /\ f.name \in {"active", "none"}
               /\ bag_'.good => /\ bag_'.msg_count_ = Len(f.recs)
                                /\ f.name = "active" /\ f.torn = 0
               /\ ~bag_'.good => f.name = "none" \/ f.damaged
               /\ Current' = Current + 1
               /\ f.recs = <<>> /\ f.start = start_time_
<1>1. PICK f \in File :
         /\ Added(f)
         /\ f.recs = <<>> /\ f.torn = 0 /\ f.start = start_time_
         /\ f.name \in {"active", "none"}
         /\ \/ f.name = "active" /\ bag_' = OpenBag
            \/ f.name = "none" /\ bag_' = bag_
            \/ f.damaged /\ bag_' = BrokenBag
  BY StartWritingLemma
<1>2. Current' = Current + 1 /\ files'[Current'] = f
  BY <1>1 DEF Added, Current
<1>3. Len(f.recs) = 0
  BY <1>1, EmptySeq
<1>4. /\ OpenBag.good /\ OpenBag.msg_count_ = 0
      /\ ~BrokenBag.good /\ ~ClosedBag.good
  BY DEF OpenBag, BrokenBag, ClosedBag
<1>5. \/ f.name = "active" /\ bag_'.good /\ bag_'.msg_count_ = 0
      \/ f.name = "none" /\ ~bag_'.good
      \/ f.damaged /\ ~bag_'.good
  BY <1>1, <1>4
<1> HIDE DEF Current
<1> QED
  BY <1>1, <1>2, <1>3, <1>5

LEMMA StreamInductive ==
    ASSUME TypeOK, Fresh, Stream, [Next]_vars
    PROVE  Stream'
<1> USE DEF Stream, Recording
<1>1. CASE Quiet
  <2>1. Current' = Current
    BY <1>1, QuietSteps DEF Current
  <2>2. pc' \in {"body", "finished"} => pc' = pc
    BY <1>1, QuietSteps
  <2>3. Recording' = Recording
    BY <1>1, QuietSteps
  <2>4. pc' # pc => pc' \notin {"rename", "closed", "prune", "reopen",
                               "finished"}
    BY <1>1, QuietSteps
  <2> QED
    BY <1>1, <2>1, <2>2, <2>3, <2>4, QuietSteps
<1>2. CASE Open \/ SplitReopen
  <2>1. StartWriting /\ bag_ = ClosedBag /\ pc' \in {"loop", "duration"}
    BY <1>2 DEF Open, SplitReopen
  <2> QED
    BY <2>1, StreamOpened
<1>3. CASE SplitClose \/ StopClose
  <2>1. CloseBag /\ pc \in {"close", "done"} /\ pc' \in {"rename", "closed"}
    BY <1>3 DEF SplitClose, StopClose
  <2>2. bag_' = ClosedBag
    BY <2>1, CloseBagLemma
  <2>3. Current' = Current /\ files[Current] \in File
    BY <2>1, CloseBagLemma, CurrentFile DEF Replaced, Current
  <2>4. /\ files'[Current].name \in {"active", "none"}
        /\ \/ files'[Current].name = "none"
           \/ files'[Current].damaged
           \/ files'[Current].hdr = Len(files'[Current].recs)
    <3>1. CASE bag_.good
      BY <2>1, <2>3, <3>1, CloseBagLemma DEF Replaced, File
    <3>2. CASE ~bag_.good
      BY <2>1, <3>2, CloseBagLemma
    <3> QED
      BY <3>1, <3>2
  <2> QED
    BY <2>1, <2>2, <2>3, <2>4
<1>4. CASE SplitRename \/ StopRename
  <2>1. /\ RenameToTarget /\ pc \in {"rename", "closed"}
        /\ pc' \in {"prune", "finished"} /\ UNCHANGED bag_
    BY <1>4 DEF SplitRename, StopRename
  <2>2. Current' = Current /\ files[Current] \in File
    BY <2>1, RenameLemma, CurrentFile DEF Replaced, Current
  <2>3. files'[Current].name \in {"bag", "none"}
    BY <2>1, <2>2, RenameLemma DEF Replaced, File
  <2> QED
    BY <2>1, <2>2, <2>3
<1>5. CASE SplitPrune
  <2>1. /\ pc = "prune" /\ pc' = "reopen" /\ CheckNumSplits /\ UNCHANGED bag_
    BY <1>5 DEF SplitPrune
  <2>2. Current' = Current /\ files[Current] \in File /\ Current \in 1..Len(files)
    BY <2>1, CheckNumSplitsLemma, CurrentFile DEF Current
  <2>3. files'[Current].name # "active"
    BY <2>1, <2>2, CheckNumSplitsLemma DEF File
  <2> QED
    BY <2>1, <2>2, <2>3
<1>6. CASE WriteBegin
  <2>1. Current' = Current /\ files[Current] \in File
    BY <1>6, WriteBeginLemma, CurrentFile DEF Replaced, Current, WriteBegin
  <2>2. files'[Current] = [files[Current] EXCEPT !.damaged = TRUE]
    BY <1>6, WriteBeginLemma DEF Replaced
  <2> QED
    BY <1>6, <2>1, <2>2 DEF WriteBegin, File
<1>7. CASE WriteEnd
  <2> DEFINE old == files[Current]
             new == files'[Current]
  <2>1. Current' = Current /\ old \in File /\ bag_ \in Bag
    BY <1>7, WriteEndLemma, CurrentFile DEF Replaced, Current, WriteEnd
  <2>2. Len(new.recs) = Len(old.recs) + 1
    <3>1. /\ old.recs \in Seq(Nat) /\ Len(handled) \in Nat
          /\ new.recs = Append(old.recs, Len(handled))
      BY <1>7, <2>1, WriteEndLemma, LenProperties DEF File, TypeOK
    <3> QED
      BY <3>1, AppendProperties
  <2>3. bag_.good /\ pc' = "next" /\ pc = "body" /\ old.damaged
    BY <1>7 DEF WriteEnd
  <2>4. /\ new.name = old.name
        /\ bag_'.msg_count_ = bag_.msg_count_ + 1
        /\ bag_'.good => new.torn = old.torn
        /\ ~bag_'.good => new.damaged
    BY <1>7, <2>3, WriteEndLemma
  <2> HIDE DEF old, new
  <2>5. /\ old.name = "active" /\ old.torn = 0
        /\ bag_.msg_count_ = Len(old.recs)
    BY <2>3 DEF old
  <2>6. /\ new.name = "active" /\ bag_'.msg_count_ = Len(new.recs)
        /\ bag_'.good => new.torn = 0
    BY <2>2, <2>4, <2>5
  <2> QED
    BY <2>1, <2>3, <2>4, <2>6 DEF new
<1>8. CASE WriteFail
  <2>1. bag_ \in Bag /\ Current' = Current /\ files[Current] \in File
    BY <1>8, CurrentFile DEF WriteFail, Current
  <2>2. pc = "body" => files[Current].damaged
    OBVIOUS
  <2> QED
    BY <1>8, <2>1, <2>2 DEF WriteFail, Bag
<1> QED
  BY <1>1, <1>2, <1>3, <1>4, <1>5, <1>6, <1>7, <1>8, NextCases

-----------------------------------------------------------------------------
(* Finished files: FinishedBagIsFinal, OneActive, HeaderCounts *)

Deleted(i) == /\ files[i].name = "bag"
              /\ files'[i] = [files[i] EXCEPT !.name = "deleted"]

(* Only the current file changes, and not once it is a bag: every other     *)
(* change is a bag that pruning deletes.                                    *)
LEMMA OldFiles ==
    ASSUME TypeOK, Fresh, Stream, [Next]_vars
    PROVE  /\ \A i \in 1..Len(files) :
                 i # Current \/ files[i].name = "bag" =>
                     files'[i] = files[i] \/ Deleted(i)
           /\ \/ Len(files') = Len(files)
              \/ /\ StartWriting /\ bag_ = ClosedBag
                 /\ pc \in {"open", "reopen"}
                 /\ Len(files') = Len(files) + 1
                 /\ \A i \in 1..Len(files) : files'[i] = files[i]
<1>1. CASE Quiet \/ WriteFail
  BY <1>1, QuietSteps DEF WriteFail
<1>2. CASE Open \/ SplitReopen
  <2>1. StartWriting /\ pc \in {"open", "reopen"}
    BY <1>2 DEF Open, SplitReopen
  <2> QED
    BY <2>1, StartWritingLemma DEF Added, Stream, Recording
<1>3. CASE SplitClose \/ StopClose
  <2>1. CloseBag /\ pc \in {"close", "done"}
    BY <1>3 DEF SplitClose, StopClose
  <2>2. files[Current].name # "bag"
    BY <2>1 DEF Stream, Recording
  <2> QED
    BY <2>1, <2>2, CloseBagLemma DEF Replaced
<1>4. CASE SplitRename \/ StopRename
  <2>1. RenameToTarget /\ pc \in {"rename", "closed"}
    BY <1>4 DEF SplitRename, StopRename
  <2>2. files[Current].name # "bag"
    BY <2>1 DEF Stream
  <2> QED
    BY <2>1, <2>2, RenameLemma DEF Replaced
<1>5. CASE SplitPrune
  BY <1>5, CheckNumSplitsLemma DEF SplitPrune, Deleted
<1>6. CASE WriteBegin
  BY <1>6, WriteBeginLemma DEF WriteBegin, Replaced, Stream, Recording
<1>7. CASE WriteEnd
  BY <1>7, WriteEndLemma DEF WriteEnd, Replaced, Stream, Recording
<1> QED
  BY <1>1, <1>2, <1>3, <1>4, <1>5, <1>6, <1>7, NextCases

LEMMA OneActiveInductive ==
    ASSUME TypeOK, Fresh, Stream, OneActive, [Next]_vars
    PROVE  OneActive'
<1> SUFFICES ASSUME NEW i \in 1..(Len(files') - 1)
             PROVE  files'[i].name # "active"
  BY DEF OneActive
<1>1. CASE Len(files') = Len(files)
  <2>1. i \in 1..Len(files) /\ i # Current
    BY <1>1, LenProperties DEF Current, TypeOK
  <2>2. files[i] \in File /\ files[i].name # "active"
    BY <1>1, <2>1, ElementOfSeq DEF OneActive, TypeOK
  <2> QED
    BY <2>1, <2>2, OldFiles DEF Deleted, File
<1>2. CASE /\ Len(files') = Len(files) + 1 /\ pc \in {"open", "reopen"}
           /\ \A j \in 1..Len(files) : files'[j] = files[j]
  <2>1. i \in 1..Len(files)
    BY <1>2, LenProperties DEF TypeOK
  <2>2. pc = "reopen"
    BY <1>2, <2>1, EmptySeq DEF Fresh
  <2>3. files[i].name # "active"
    BY <1>2, <2>1, <2>2 DEF OneActive, Stream, Current
  <2> QED
    BY <1>2, <2>1, <2>3
<1> QED
  BY <1>1, <1>2, OldFiles

LEMMA HeaderCountsInductive ==
    ASSUME TypeOK, Fresh, Stream, HeaderCounts, [Next]_vars
    PROVE  HeaderCounts'
<1> SUFFICES ASSUME NEW i \in 1..Len(files'),
                    files'[i].name = "bag", ~files'[i].damaged
             PROVE  files'[i].hdr = Len(files'[i].recs)
  BY DEF HeaderCounts
<1>0. \A j \in 1..Len(files) : files[j] \in File
  BY ElementOfSeq DEF TypeOK
<1>1. CASE i \in 1..Len(files) /\ (i # Current \/ files[i].name = "bag")
  BY <1>0, <1>1, OldFiles DEF Deleted, File, HeaderCounts
<1>2. CASE i \in 1..Len(files) /\ i = Current /\ files[i].name # "bag"
  <2>1. pc # "open"
    BY <1>2, EmptySeq DEF Fresh
  <2>2. files'[i] # files[i]
    BY <1>2
  <2>3. \/ SplitClose \/ StopClose \/ SplitRename \/ StopRename
        \/ WriteBegin \/ WriteEnd
    <3>1. ~Quiet /\ ~WriteFail
      BY <2>2, QuietSteps DEF WriteFail
    <3>2. ~Open /\ ~SplitReopen
      BY <1>2, <2>2, StartWritingLemma DEF Open, SplitReopen, Added
    <3>3. ~SplitPrune
      BY <1>2, <2>2, CheckNumSplitsLemma DEF SplitPrune
    <3> QED
      BY <3>1, <3>2, <3>3, NextCases
  <2>4. CASE SplitRename \/ StopRename
    <3>1. RenameToTarget /\ pc \in {"rename", "closed"}
      BY <2>4 DEF SplitRename, StopRename
    <3>2. files'[i] = [files[i] EXCEPT !.name = IF @ = "active" THEN "bag"
                                                ELSE @]
      BY <1>2, <3>1, RenameLemma DEF Replaced
    <3>3. \/ files[i].name = "none" \/ files[i].damaged
          \/ files[i].hdr = Len(files[i].recs)
      BY <1>2, <3>1 DEF Stream
    <3> QED
      BY <1>0, <1>2, <3>2, <3>3 DEF File
  <2>5. CASE SplitClose \/ StopClose
    <3>1. CloseBag
      BY <2>5 DEF SplitClose, StopClose
    <3> QED
      BY <1>0, <1>2, <2>1, <2>2, <3>1, CloseBagLemma DEF Replaced, File
  <2>6. CASE WriteBegin
    BY <1>0, <1>2, <2>6, WriteBeginLemma DEF Replaced, File
  <2>7. CASE WriteEnd
    <3>1. files'[i].name = files[i].name
      BY <1>0, <1>2, <2>7, WriteEndLemma DEF Replaced, File
    <3> QED
      BY <1>2, <3>1
  <2> QED
    BY <2>3, <2>4, <2>5, <2>6, <2>7
<1>3. CASE i \notin 1..Len(files)
  <2>1. StartWriting /\ bag_ = ClosedBag /\ Len(files') = Len(files) + 1
    BY <1>3, OldFiles
  <2>2. i = Current'
    BY <1>3, <2>1, LenProperties DEF Current, TypeOK
  <2> QED
    BY <2>1, <2>2, StreamOpened
<1> QED
  BY <1>1, <1>2, <1>3

-----------------------------------------------------------------------------
(* Accounted: InOnePlace, TornIsLast *)

(* Records are only ever added, by WriteEnd.                                *)
LEMMA RecordsKept ==
    ASSUME TypeOK, Fresh, Stream, [Next]_vars, ~WriteEnd
    PROVE  /\ \A i \in 1..Len(files) :
                 /\ files'[i].recs = files[i].recs
                 /\ files'[i].torn = files[i].torn
                 /\ files[i].damaged => files'[i].damaged
           /\ \/ Len(files') = Len(files)
              \/ /\ Len(files') = Len(files) + 1
                 /\ files'[Len(files) + 1].recs = <<>>
                 /\ files'[Len(files) + 1].torn = 0
<1>0. \A j \in 1..Len(files) : files[j] \in File
  BY ElementOfSeq DEF TypeOK
<1>1. CASE Quiet \/ WriteFail
  BY <1>1, QuietSteps DEF WriteFail
<1>2. CASE Open \/ SplitReopen
  BY <1>2, StartWritingLemma DEF Open, SplitReopen, Added
<1>3. CASE SplitClose \/ StopClose
  <2>1. CloseBag /\ pc # "open"
    BY <1>3 DEF SplitClose, StopClose
  <2> QED
    BY <1>0, <2>1, CloseBagLemma, CurrentFile DEF Replaced, File
<1>4. CASE SplitRename \/ StopRename
  <2>1. RenameToTarget /\ pc # "open"
    BY <1>4 DEF SplitRename, StopRename
  <2> QED
    BY <1>0, <2>1, RenameLemma, CurrentFile DEF Replaced, File
<1>5. CASE SplitPrune
  BY <1>0, <1>5, CheckNumSplitsLemma DEF SplitPrune, File
<1>6. CASE WriteBegin
  <2>1. pc # "open"
    BY <1>6 DEF WriteBegin
  <2> QED
    BY <1>0, <1>6, <2>1, WriteBeginLemma, CurrentFile DEF Replaced, File
<1> QED
  BY <1>1, <1>2, <1>3, <1>4, <1>5, <1>6, NextCases

(* DoWrite is through with a message when it drops or records it.           *)
LEMMA ThroughSteps ==
    ASSUME TypeOK, Fresh, [Next]_vars
    PROVE  LET n == Len(handled)
           IN  \/ ~WriteEnd /\ Through' = Through /\ dropped' = dropped
               \/ /\ Through = 1..(n - 1) /\ Through' = 1..n
                  /\ n \in Nat \ {0}
                  /\ \/ ~WriteEnd /\ dropped' = dropped \union {n}
                     \/ WriteEnd /\ dropped' = dropped
<1> DEFINE n == Len(handled)
<1>1. Through = IF Working THEN 1..(n - 1) ELSE 1..n
  BY DEF Through, Working
<1>2. Through' = IF Working' THEN 1..(Len(handled') - 1) ELSE 1..Len(handled')
  BY DEF Through, Working
<1>3. n \in Nat /\ (Working => n # 0)
  BY LenProperties, EmptySeq DEF Fresh, TypeOK
<1>4. CASE SomeMsg
  <2>1. Len(handled') = n + 1 /\ ~Working /\ Working' /\ dropped' = dropped
    BY <1>4, AppendProperties DEF SomeMsg, NextMsg, TypeOK, Working
  <2> QED
    BY <1>1, <1>2, <1>3, <1>4, <2>1 DEF SomeMsg, NextMsg, WriteEnd
<1>5. CASE CheckSpace \/ WriteEnd \/ WriteFail
  <2>1. Working /\ UNCHANGED handled
    BY <1>5 DEF CheckSpace, WriteEnd, WriteFail, Working, history
  <2>2. \/ WriteEnd /\ pc' = "next" /\ dropped' = dropped
        \/ ~WriteEnd /\ pc' = "write" /\ dropped' = dropped
        \/ ~WriteEnd /\ pc' = "next" /\ dropped' = dropped \union {n}
    BY <1>5, EmptySeq DEF CheckSpace, WriteEnd, WriteFail, history, Fresh, Bag, TypeOK
  <2> QED
    BY <1>1, <1>2, <1>3, <2>1, <2>2 DEF Working
<1>6. CASE ~SomeMsg /\ ~CheckSpace /\ ~WriteEnd /\ ~WriteFail
  <2>1. UNCHANGED <<handled, dropped>> /\ Working' = Working
    <3>1. CASE \/ Loop \/ Taken \/ ListDone \/ Abandon \/ CheckSize
               \/ CheckDuration \/ StopFlag \/ Tick \/ UNCHANGED vars
      BY <3>1
         DEF Loop, Taken, ListDone, Abandon, CheckSize, CheckDuration,
             StopFlag, Tick, vars, history, Working
    <3>2. CASE \/ Open \/ SplitReopen \/ SplitClose \/ StopClose
               \/ SplitRename \/ StopRename \/ SplitPrune \/ WriteBegin
      BY <3>2
         DEF Open, SplitReopen, SplitClose, StopClose, SplitRename,
             StopRename, SplitPrune, WriteBegin, history, Working
    <3> QED
      BY <1>6, <3>1, <3>2, NextCases DEF Quiet
  <2> QED
    BY <1>1, <1>2, <1>6, <2>1
<1> QED
  BY <1>4, <1>5, <1>6

(* InOnePlace, record by record.                                            *)
RecordedIn(p, i) == \E k \in 1..Len(files[i].recs) : p = files[i].recs[k]

InOnePlaceFlat ==
    /\ dropped \subseteq Through
    /\ \A i \in 1..Len(files) : \A p : RecordedIn(p, i) =>
          p \in Through /\ p \notin dropped
    /\ \A p \in Through : p \in dropped \/
          \E i \in 1..Len(files) : RecordedIn(p, i)
    /\ \A i \in 1..Len(files) : \A k, l \in 1..Len(files[i].recs) :
          k < l => files[i].recs[k] < files[i].recs[l]
    /\ \A i \in 1..Len(files) : \A j \in 1..(i-1) : \A p, q :
          RecordedIn(p, j) /\ RecordedIn(q, i) => p < q

LEMMA InOnePlaceIsFlat == InOnePlace <=> InOnePlaceFlat
<1>1. \A p, i : p \in RecordsOf(i) <=> RecordedIn(p, i)
  BY DEF RecordsOf, RecordedIn
<1> DEFINE all == UNION {RecordsOf(i) : i \in 1..Len(files)}
<1>2. \A p : p \in all <=> \E i \in 1..Len(files) : p \in RecordsOf(i)
  OBVIOUS
<1> HIDE DEF all
<1>3. dropped \union all = Through <=>
          /\ dropped \subseteq Through
          /\ \A i \in 1..Len(files) : \A p : RecordedIn(p, i) => p \in Through
          /\ \A p \in Through : p \in dropped \/
                \E i \in 1..Len(files) : RecordedIn(p, i)
  BY <1>1, <1>2
<1>4. \A i : RecordsOf(i) \intersect dropped = {} <=>
             \A p : RecordedIn(p, i) => p \notin dropped
  BY <1>1
<1>5. \A i, j : (\A p \in RecordsOf(j), q \in RecordsOf(i) : p < q) <=>
                (\A p, q : RecordedIn(p, j) /\ RecordedIn(q, i) => p < q)
  BY <1>1
<1>6. InOnePlace <=>
        /\ dropped \union all = Through
        /\ \A i \in 1..Len(files) :
              /\ RecordsOf(i) \intersect dropped = {}
              /\ \A k, l \in 1..Len(files[i].recs) :
                    k < l => files[i].recs[k] < files[i].recs[l]
              /\ \A j \in 1..(i-1) : \A p \in RecordsOf(j), q \in RecordsOf(i) :
                    p < q
  BY DEF InOnePlace, all
<1> QED
  BY <1>3, <1>4, <1>5, <1>6, Zenon DEF InOnePlaceFlat

(* What a file that keeps its records, or a new one, records.               *)
LEMMA RecordedKept ==
    ASSUME TypeOK, Fresh, Stream, [Next]_vars, ~WriteEnd
    PROVE  \A i \in 1..Len(files') : \A p :
              RecordedIn(p, i)' <=> i \in 1..Len(files) /\ RecordedIn(p, i)
<1>1. Len(files) \in Nat
  BY LenProperties DEF TypeOK
<1> QED
  BY <1>1, RecordsKept, EmptySeq DEF RecordedIn

LEMMA InOnePlaceInductive ==
    ASSUME TypeOK, Fresh, Stream, InOnePlace, [Next]_vars
    PROVE  InOnePlace'
<1> DEFINE n == Len(handled)
<1>1. Len(files) \in Nat /\ InOnePlaceFlat
  BY InOnePlaceIsFlat, LenProperties DEF TypeOK
<1>2. CASE ~WriteEnd
  <2>1. \/ Through' = Through /\ dropped' = dropped
        \/ /\ Through = 1..(n - 1) /\ Through' = 1..n /\ n \in Nat \ {0}
           /\ dropped' = dropped \union {n}
    BY <1>2, ThroughSteps
  <2>2. /\ Len(files') \in Nat /\ Len(files') >= Len(files)
        /\ \A i \in 1..Len(files') : i \notin 1..Len(files) =>
              files'[i].recs = <<>>
        /\ \A i \in 1..Len(files) : files'[i].recs = files[i].recs
    BY <1>1, <1>2, RecordsKept
  <2>3. dropped' \subseteq Through'
    BY <1>1, <2>1 DEF InOnePlaceFlat
  <2>4. \A i \in 1..Len(files') : \A p : RecordedIn(p, i)' =>
            p \in Through' /\ p \notin dropped'
    BY <1>1, <1>2, <2>1, RecordedKept DEF InOnePlaceFlat
  <2>5. \A p \in Through' : p \in dropped' \/
            \E i \in 1..Len(files') : RecordedIn(p, i)'
    BY <1>1, <1>2, <2>1, <2>2, RecordedKept DEF InOnePlaceFlat
  <2>6. \A i \in 1..Len(files') : \A k, l \in 1..Len(files'[i].recs) :
            k < l => files'[i].recs[k] < files'[i].recs[l]
    BY <1>1, <2>2, EmptySeq DEF InOnePlaceFlat
  <2>7. \A i \in 1..Len(files') : \A j \in 1..(i-1) : \A p, q :
            RecordedIn(p, j)' /\ RecordedIn(q, i)' => p < q
    BY <1>1, <1>2, <2>2, RecordedKept DEF InOnePlaceFlat
  <2>8. InOnePlaceFlat'
    BY <2>3, <2>4, <2>5, <2>6, <2>7 DEF InOnePlaceFlat
  <2> QED
    BY <2>8, InOnePlaceIsFlat, PTL
<1>3. CASE WriteEnd
  <2> PICK c \in 1..Len(files) : c = Current
    BY <1>3, CurrentFile DEF WriteEnd
  <2> DEFINE old == files[c].recs
  <2>1. /\ Through = 1..(n - 1) /\ Through' = 1..n /\ n \in Nat \ {0}
        /\ dropped' = dropped
    BY <1>3, ThroughSteps DEF WriteEnd
  <2>2. /\ c \in 1..Len(files) /\ files[c] \in File /\ Len(files') = Len(files)
        /\ old \in Seq(Nat) /\ c = Len(files)
        /\ files'[c].recs = Append(old, n)
        /\ \A i \in 1..Len(files) : i # c => files'[i] = files[i]
    BY <1>3, WriteEndLemma, CurrentFile DEF WriteEnd, Replaced, File, Current
  <2>3. /\ Len(files'[c].recs) = Len(old) + 1 /\ Len(old) \in Nat
        /\ \A k \in 1..Len(old) : files'[c].recs[k] = old[k]
        /\ files'[c].recs[Len(old) + 1] = n
    BY <2>1, <2>2, AppendProperties, LenProperties
  <2> HIDE DEF old
  <2>4. \A i \in 1..Len(files) : i # c =>
            \A p : RecordedIn(p, i)' <=> RecordedIn(p, i)
    BY <2>2 DEF RecordedIn
  <2>5. \A p : RecordedIn(p, c)' <=> RecordedIn(p, c) \/ p = n
    BY <2>2, <2>3 DEF RecordedIn, old
  <2>6. dropped' \subseteq Through'
    BY <1>1, <2>1 DEF InOnePlaceFlat
  <2>7. \A i \in 1..Len(files') : \A p : RecordedIn(p, i)' =>
            p \in Through' /\ p \notin dropped'
    BY <1>1, <2>1, <2>2, <2>4, <2>5 DEF InOnePlaceFlat
  <2>8. \A p \in Through' : p \in dropped' \/
            \E i \in 1..Len(files') : RecordedIn(p, i)'
    <3>1. ASSUME NEW p \in Through, p \notin dropped
          PROVE  \E i \in 1..Len(files') : RecordedIn(p, i)'
      <4>1. PICK i \in 1..Len(files) : RecordedIn(p, i)
        BY <1>1, <3>1 DEF InOnePlaceFlat
      <4>2. RecordedIn(p, i)'
        BY <2>4, <2>5, <4>1
      <4> QED
        BY <2>2, <4>2
    <3>2. ASSUME NEW p, p = n
          PROVE  \E i \in 1..Len(files') : RecordedIn(p, i)'
      <4>1. RecordedIn(p, c)'
        BY <2>5, <3>2
      <4> QED
        BY <2>2, <4>1
    <3> QED
      BY <2>1, <3>1, <3>2
  <2>9. \A i \in 1..Len(files') : \A k, l \in 1..Len(files'[i].recs) :
            k < l => files'[i].recs[k] < files'[i].recs[l]
    <3>1. \A k \in 1..Len(old) : old[k] \in Through
      BY <1>1, <2>2 DEF InOnePlaceFlat, RecordedIn, old
    <3>2. \A k, l \in 1..(Len(old) + 1) :
              k < l => files'[c].recs[k] < files'[c].recs[l]
      BY <1>1, <2>1, <2>2, <2>3, <3>1 DEF InOnePlaceFlat, old
    <3> QED
      BY <1>1, <2>2, <2>3, <3>2 DEF InOnePlaceFlat
  <2>10. \A i \in 1..Len(files') : \A j \in 1..(i-1) : \A p, q :
            RecordedIn(p, j)' /\ RecordedIn(q, i)' => p < q
    <3> SUFFICES ASSUME NEW i \in 1..Len(files'), NEW j \in 1..(i-1),
                        NEW p, NEW q, RecordedIn(p, j)', RecordedIn(q, i)'
                 PROVE  p < q
      OBVIOUS
    <3>1. j \in 1..Len(files) /\ j # c /\ RecordedIn(p, j) /\ p \in Through
      BY <1>1, <2>2, <2>4 DEF InOnePlaceFlat
    <3>2. CASE RecordedIn(q, i)
      BY <1>1, <2>2, <3>1, <3>2 DEF InOnePlaceFlat
    <3>3. CASE q = n
      BY <2>1, <3>1, <3>3
    <3> QED
      BY <2>2, <2>4, <2>5, <3>2, <3>3
  <2>11. InOnePlaceFlat'
    BY <2>6, <2>7, <2>8, <2>9, <2>10 DEF InOnePlaceFlat
  <2> QED
    BY <2>11, InOnePlaceIsFlat, PTL
<1> QED
  BY <1>2, <1>3

LEMMA TornIsLastInductive ==
    ASSUME TypeOK, Fresh, Stream, InOnePlace, TornIsLast, [Next]_vars
    PROVE  TornIsLast'
<1> SUFFICES ASSUME NEW i \in 1..Len(files'), files'[i].torn # 0
             PROVE  /\ files'[i].damaged
                    /\ files'[i].torn \in RecordsOf(i)'
                    /\ \A p \in RecordsOf(i)' : p <= files'[i].torn
  BY DEF TornIsLast
<1>0. /\ Len(files) \in Nat /\ Len(files') \in Nat
      /\ \A j \in 1..Len(files) : files[j] \in File
  BY LenProperties, ElementOfSeq, TypeInductive DEF TypeOK
<1>1. ASSUME i \in 1..Len(files), files'[i].recs = files[i].recs,
             files'[i].torn = files[i].torn,
             files[i].damaged => files'[i].damaged
      PROVE  /\ files'[i].damaged
             /\ files'[i].torn \in RecordsOf(i)'
             /\ \A p \in RecordsOf(i)' : p <= files'[i].torn
  <2>1. RecordsOf(i)' = RecordsOf(i)
    BY <1>1 DEF RecordsOf
  <2> QED
    BY <1>1, <2>1 DEF TornIsLast
<1>2. CASE ~WriteEnd
  BY <1>0, <1>1, <1>2, RecordsKept
<1>3. CASE WriteEnd /\ i # Current
  BY <1>0, <1>1, <1>3, WriteEndLemma DEF Replaced
<1>4. CASE WriteEnd /\ i = Current
  <2> DEFINE old == files[i].recs
             n == Len(handled)
  <2>1. /\ Through = 1..(n - 1) /\ n \in Nat \ {0}
    BY <1>4, ThroughSteps DEF WriteEnd
  <2>2. /\ i \in 1..Len(files) /\ old \in Seq(Nat) /\ files[i].damaged
        /\ files[i].torn = 0
    BY <1>0, <1>4, WriteEndLemma, CurrentFile
       DEF WriteEnd, Replaced, File, Stream, Recording
  <2>3. /\ files'[i].recs = Append(old, n)
        /\ files'[i].damaged /\ files'[i].torn = n
    BY <1>4, <2>2, WriteEndLemma
  <2>4. /\ Len(files'[i].recs) = Len(old) + 1 /\ Len(old) \in Nat
        /\ \A k \in 1..Len(old) : files'[i].recs[k] = old[k]
        /\ files'[i].recs[Len(old) + 1] = n
    BY <2>1, <2>2, <2>3, AppendProperties, LenProperties
  <2>5. \A k \in 1..Len(old) : old[k] \in 1..(n - 1)
    <3>1. RecordsOf(i) \subseteq Through
      BY <2>2 DEF InOnePlace
    <3> QED
      BY <2>1, <3>1 DEF RecordsOf
  <2> HIDE DEF old, n
  <2>6. n \in RecordsOf(i)'
    BY <2>4 DEF RecordsOf
  <2>7. \A p \in RecordsOf(i)' : p <= n
    <3> SUFFICES ASSUME NEW k \in 1..(Len(old) + 1)
                 PROVE  files'[i].recs[k] <= n
      BY <2>4 DEF RecordsOf
    <3>1. CASE k \in 1..Len(old)
      BY <2>1, <2>4, <2>5, <3>1
    <3>2. CASE k = Len(old) + 1
      BY <2>1, <2>4, <3>2
    <3> QED
      BY <2>4, <3>1, <3>2
  <2> QED
    BY <2>3, <2>6, <2>7
<1> QED
  BY <1>2, <1>3, <1>4

LEMMA AccountedInductive ==
    ASSUME TypeOK, Fresh, Stream, Accounted, [Next]_vars
    PROVE  Accounted'
BY InOnePlaceInductive, TornIsLastInductive DEF Accounted

-----------------------------------------------------------------------------
(* Window, Retention *)

(* All steps but pruning and the two that open a file leave the windows of  *)
(* pruning and of --duration alone, and touch no file but the current one.  *)
LEMMA OtherSteps ==
    ASSUME TypeOK, Stream, [Next]_vars, ~Open, ~SplitReopen, ~SplitPrune
    PROVE  /\ Len(files') = Len(files)
           /\ UNCHANGED <<options_, start_time_, current_files_>>
           /\ pc' = "reopen" <=> pc = "reopen"
           /\ pc' = "open" <=> pc = "open"
           /\ \A i \in 1..Len(files) :
                 i # Current \/ pc = "reopen" => files'[i] = files[i]
           /\ \A i \in 1..Len(files) : files'[i].start = files[i].start
<1>0. \A j \in 1..Len(files) : files[j] \in File
  BY ElementOfSeq DEF TypeOK
<1>1. CASE Quiet
  BY <1>1, QuietSteps
<1>2. CASE SplitClose \/ StopClose
  <2>1. CloseBag /\ pc \in {"close", "done"}
    BY <1>2 DEF SplitClose, StopClose
  <2>2. /\ Len(files') = Len(files)
        /\ \A i \in 1..Len(files) : i # Current => files'[i] = files[i]
        /\ \A i \in 1..Len(files) : files'[i].start = files[i].start
    BY <1>0, <2>1, CurrentFile, CloseBagLemma DEF Replaced, File
  <2> QED
    BY <1>2, <2>1, <2>2 DEF SplitClose, StopClose, config
<1>3. CASE SplitRename \/ StopRename
  <2>1. RenameToTarget /\ pc \in {"rename", "closed"}
    BY <1>3 DEF SplitRename, StopRename
  <2>2. /\ Len(files') = Len(files)
        /\ \A i \in 1..Len(files) : i # Current => files'[i] = files[i]
        /\ \A i \in 1..Len(files) : files'[i].start = files[i].start
    BY <1>0, <2>1, CurrentFile, RenameLemma DEF Replaced, File
  <2> QED
    BY <1>3, <2>1, <2>2 DEF SplitRename, StopRename, config
<1>4. CASE WriteBegin
  <2>1. pc = "write"
    BY <1>4 DEF WriteBegin
  <2>2. /\ Len(files') = Len(files)
        /\ \A i \in 1..Len(files) : i # Current => files'[i] = files[i]
        /\ \A i \in 1..Len(files) : files'[i].start = files[i].start
    BY <1>0, <1>4, <2>1, CurrentFile, WriteBeginLemma DEF Replaced, File
  <2> QED
    BY <1>4, <2>1, <2>2 DEF WriteBegin, config
<1>5. CASE WriteEnd
  <2>1. pc = "body"
    BY <1>5 DEF WriteEnd
  <2>2. /\ Len(files') = Len(files)
        /\ \A i \in 1..Len(files) : i # Current => files'[i] = files[i]
        /\ \A i \in 1..Len(files) : files'[i].start = files[i].start
    BY <1>0, <1>5, <2>1, CurrentFile, WriteEndLemma DEF Replaced, File
  <2> QED
    BY <1>5, <2>1, <2>2 DEF WriteEnd, config
<1>6. CASE WriteFail
  BY <1>6 DEF WriteFail, config
<1> QED
  BY <1>1, <1>2, <1>3, <1>4, <1>5, <1>6, NextCases

(* What the window is worth to CheckNumSplits.                              *)
LEMMA PruneStep ==
    ASSUME TypeOK, Window, SplitPrune, options_.max_splits > 0
    PROVE  LET max == options_.max_splits
               n == Len(files)
           IN  /\ max \in Nat \ {0} /\ n \in Nat \ {0}
               /\ Pruned = n - 1 /\ Pruned' = n
               /\ \/ n <= max /\ UNCHANGED files
                  \/ n > max /\ Unlink(n - max)
               /\ Len(current_files_') = IF n <= max THEN n ELSE max
               /\ \A k \in 1..Len(current_files_') :
                     current_files_'[k] = n - Len(current_files_') + k
<1>0. PICK max \in Nat \ {0}, n \in Nat \ {0} :
               max = options_.max_splits /\ n = Len(files)
  BY CurrentFile DEF SplitPrune, TypeOK, OptionRecord
<1>9. SUFFICES /\ Pruned = n - 1 /\ Pruned' = n
               /\ \/ n <= max /\ UNCHANGED files
                  \/ n > max /\ Unlink(n - max)
               /\ Len(current_files_') = IF n <= max THEN n ELSE max
               /\ \A k \in 1..Len(current_files_') :
                     current_files_'[k] = n - Len(current_files_') + k
  BY <1>0
<1> DEFINE old == current_files_
<1>1. /\ pc = "prune" /\ pc' = "reopen" /\ CheckNumSplits
      /\ Current = n
      /\ old \in Seq(Nat) /\ Len(files') = n
  BY <1>0, CurrentFile, CheckNumSplitsLemma
     DEF SplitPrune, TypeOK, OptionRecord, Current
<1>2. Pruned = n - 1 /\ Pruned' = n
  BY <1>0, <1>1 DEF Pruned
<1>3. /\ Len(old) = IF n - 1 <= max THEN n - 1 ELSE max
      /\ \A k \in 1..Len(old) : old[k] = n - 1 - Len(old) + k
  BY <1>0, <1>1, <1>2 DEF Window
<1>8. PICK kept \in Seq(Nat) : kept = Append(old, Current)
  BY <1>1, AppendProperties
<1>4. /\ Len(kept) = Len(old) + 1 /\ Len(old) \in Nat
      /\ \A k \in 1..Len(old) : kept[k] = old[k]
      /\ kept[Len(old) + 1] = n
  BY <1>0, <1>1, <1>8, AppendProperties, LenProperties
<1>5. ASSUME NEW k \in 1..Len(kept)
      PROVE  kept[k] = n - Len(kept) + k
  <2>1. CASE k \in 1..Len(old)
    <3>1. kept[k] = n - 1 - Len(old) + k
      BY <1>3, <1>4, <2>1
    <3> QED
      BY <1>1, <1>4, <3>1
  <2>2. CASE k = Len(old) + 1
    BY <1>1, <1>4, <2>2
  <2> QED
    BY <1>4, <2>1, <2>2
<1>6. CASE Len(kept) <= max
  <2>1. current_files_' = kept /\ UNCHANGED files
    BY <1>0, <1>1, <1>6, <1>8 DEF CheckNumSplits
  <2>2. Len(kept) = n /\ n <= max
    BY <1>1, <1>3, <1>4, <1>6
  <2> QED
    BY <1>2, <1>5, <2>1, <2>2
<1>7. CASE Len(kept) > max
  <2>1. current_files_' = Tail(kept) /\ Unlink(Head(kept))
    BY <1>0, <1>1, <1>7, <1>8 DEF CheckNumSplits
  <2>2. Len(kept) = max + 1 /\ n > max
    BY <1>1, <1>3, <1>4, <1>7
  <2>3. /\ Head(kept) = kept[1] /\ Len(Tail(kept)) = max
        /\ \A k \in 1..max : Tail(kept)[k] = kept[k + 1]
    BY <1>1, <1>4, <2>2, HeadTailProperties, EmptySeq
  <2>4. Head(kept) = n - max
    <3>1. kept[1] = n - Len(kept) + 1
      BY <1>1, <1>5, <2>2
    <3> QED
      BY <1>1, <2>2, <2>3, <3>1
  <2>5. ASSUME NEW k \in 1..max
        PROVE  Tail(kept)[k] = n - max + k
    <3>1. k + 1 \in 1..Len(kept)
      BY <2>2
    <3>2. kept[k + 1] = n - Len(kept) + (k + 1)
      BY <1>5, <3>1
    <3>3. n - Len(kept) + (k + 1) = n - max + k
      BY <2>2
    <3> QED
      BY <2>3, <3>2, <3>3
  <2>6. /\ Len(current_files_') = max
        /\ \A k \in 1..max : current_files_'[k] = n - max + k
    BY <2>1, <2>3, <2>5
  <2>7. Unlink(n - max)
    BY <2>1, <2>4 DEF Unlink
  <2> QED
    BY <1>2, <2>2, <2>6, <2>7
<1> QED
  BY <1>6, <1>7, LenProperties

LEMMA PrunedSame ==
    ASSUME TypeOK, Fresh, Stream, [Next]_vars, ~SplitPrune
    PROVE  /\ ~Open => Pruned' = Pruned
           /\ Open => Pruned' = 0
           /\ UNCHANGED <<current_files_, options_>>
<1>1. Len(files) \in Nat
  BY LenProperties DEF TypeOK
<1>2. CASE Open
  <2>1. Len(files') = 1 /\ pc' = "loop"
    BY <1>2, EmptySeq, StartWritingLemma DEF Open, Added, Fresh
  <2> QED
    BY <1>2, <2>1 DEF Open, Pruned, config
<1>3. CASE SplitReopen
  <2>1. Len(files') = Len(files) + 1 /\ pc = "reopen" /\ pc' = "duration"
    BY <1>3, StartWritingLemma DEF SplitReopen, Added
  <2> QED
    BY <1>1, <1>3, <2>1 DEF SplitReopen, Pruned, config, Open
<1>4. CASE ~Open /\ ~SplitReopen
  BY <1>4, OtherSteps DEF Pruned
<1> QED
  BY <1>2, <1>3, <1>4

LEMMA WindowInductive ==
    ASSUME TypeOK, Fresh, Stream, Window, [Next]_vars
    PROVE  Window'
<1>1. CASE SplitPrune
  <2>1. options_' = options_
    BY <1>1 DEF SplitPrune, config
  <2> QED
    BY <1>1, <2>1, PruneStep DEF Window
<1>2. CASE Open
  <2>1. current_files_' = <<>> /\ Pruned' = 0
    BY <1>2, PrunedSame DEF Open, Fresh, SplitPrune
  <2>2. options_' = options_ /\ options_.max_splits \in Nat
    BY <1>2 DEF Open, config, TypeOK, OptionRecord
  <2> QED
    BY <2>1, <2>2, EmptySeq DEF Window
<1>3. CASE ~SplitPrune /\ ~Open
  <2>1. pc' # "open" => pc # "open"
    BY <1>3, OtherSteps DEF SplitReopen
  <2> QED
    BY <1>3, <2>1, PrunedSame DEF Window
<1> QED
  BY <1>1, <1>2, <1>3

LEMMA RetentionInductive ==
    ASSUME TypeOK, Fresh, Stream, Window, Retention, [Next]_vars
    PROVE  Retention'
<1> DEFINE max == options_.max_splits
<1>1. /\ options_' = options_ /\ max \in Nat
  <2>1. max \in Nat
    BY DEF TypeOK, OptionRecord
  <2>2. options_' = options_
    BY PrunedSame DEF SplitPrune, config
  <2> QED
    BY <2>1, <2>2
<1>2. SUFFICES ASSUME max > 0, NEW i \in 1..Pruned'
               PROVE  /\ files'[i].name = "deleted" => i + max <= Pruned'
                      /\ files'[i].name = "bag" => i + max > Pruned'
  BY <1>1 DEF Retention
<1>3. /\ Len(files) \in Nat
      /\ \A j \in 1..Len(files) : files[j] \in File
  BY ElementOfSeq, LenProperties DEF TypeOK
<1>4. CASE SplitPrune
  <2> DEFINE n == Len(files)
  <2>1. /\ n \in Nat \ {0} /\ max \in Nat \ {0}
        /\ Pruned = n - 1 /\ Pruned' = n /\ i \in 1..n
        /\ \/ n <= max /\ UNCHANGED files
           \/ n > max /\ Unlink(n - max)
    BY <1>1, <1>2, <1>4, PruneStep
  <2>2. files[n].name \in {"bag", "none"}
    BY <1>4 DEF SplitPrune, Stream, Current
  <2>3. /\ files[i].name = "deleted" => i + max <= n - 1
        /\ files[i].name = "bag" => i + max > n - 1
    <3>1. CASE i = n
      BY <1>3, <2>1, <2>2, <3>1
    <3>2. CASE i # n
      <4>1. i \in 1..Pruned
        BY <2>1, <3>2
      <4> QED
        BY <1>2, <2>1, <4>1 DEF Retention
    <3> QED
      BY <3>1, <3>2
  <2>4. CASE n <= max /\ UNCHANGED files
    BY <2>1, <2>3, <2>4
  <2>5. CASE n > max /\ Unlink(n - max)
    <3>1. n - max \in 1..n
      BY <2>1, <2>5
    <3>2. /\ files'[n - max] = [files[n - max] EXCEPT !.name =
                                  IF @ = "bag" THEN "deleted" ELSE @]
          /\ \A j \in 1..n : j # n - max => files'[j] = files[j]
      BY <2>5, <3>1, UnlinkLemma DEF Replaced
    <3>3. CASE i = n - max
      <4>1. files'[i].name # "bag"
        BY <1>3, <2>1, <3>2, <3>3 DEF File
      <4> QED
        BY <2>1, <3>3, <4>1
    <3>4. CASE i # n - max
      BY <2>1, <2>3, <3>2, <3>4
    <3> QED
      BY <3>3, <3>4
  <2> QED
    BY <2>1, <2>4, <2>5
<1>5. CASE ~SplitPrune
  <2>1. ~Open /\ Pruned' = Pruned
    BY <1>2, <1>5, PrunedSame
  <2>2. files'[i] = files[i]
    <3>1. CASE SplitReopen
      <4>1. i \in 1..Len(files)
        BY <1>2, <1>3, <2>1, <3>1 DEF SplitReopen, Pruned
      <4> QED
        BY <3>1, <4>1, StartWritingLemma DEF SplitReopen, Added
    <3>2. CASE ~SplitReopen
      <4>1. /\ i \in 1..Len(files)
            /\ i # Current \/ pc = "reopen"
        BY <1>2, <1>3, <2>1 DEF Pruned, Current
      <4> QED
        BY <1>5, <2>1, <3>2, <4>1, OtherSteps
    <3> QED
      BY <3>1, <3>2
  <2> QED
    BY <1>2, <2>1, <2>2 DEF Retention
<1> QED
  BY <1>4, <1>5

-----------------------------------------------------------------------------
(* Sizes *)

(* Remainders of numbers that are less than one range away from 0.          *)
LEMMA ModSmall ==
    ASSUME NEW d \in Nat \ {0}, NEW x \in Int, 0 <= x, x < d
    PROVE  x % d = x
OBVIOUS

LEMMA ModNegative ==
    ASSUME NEW d \in Nat \ {0}, NEW x \in Int, -d <= x, x < 0
    PROVE  x % d = x + d
OBVIOUS

LEMMA ModRange ==
    ASSUME NEW d \in Nat \ {0}, NEW x \in Int
    PROVE  x % d \in 0..(d-1)
OBVIOUS

LEMMA Half ==
    ASSUME NEW d \in Nat \ {0}, d % 2 = 0
    PROVE  d \div 2 \in Nat /\ d = (d \div 2) + (d \div 2) /\ d \div 2 > 0
OBVIOUS

\* An int that has the low part a, as a uint64_t.
LEMMA Widened ==
    ASSUME NEW a \in Nat, a < IntRange
    PROVE  LET half == IntRange \div 2
           IN  AsULong(IF a < half THEN a ELSE a - IntRange) =
                   IF a < half THEN a ELSE a - IntRange + ULongRange
<1> DEFINE half == IntRange \div 2
<1>1. /\ IntRange \in Nat \ {0} /\ ULongRange \in Nat \ {0}
      /\ ULongRange >= IntRange
      /\ half \in Nat \ {0} /\ IntRange = half + half
  BY MachineAssumption, Half
<1> HIDE DEF half
<1>2. CASE a < half
  <2>1. a % ULongRange = a
    BY <1>1, ModSmall
  <2> QED
    BY <1>2, <2>1 DEF AsULong, half
<1>3. CASE ~(a < half)
  <2>1. /\ a - IntRange \in Int /\ a - IntRange < 0
        /\ -ULongRange <= a - IntRange
    BY <1>1
  <2>2. (a - IntRange) % ULongRange = a - IntRange + ULongRange
    BY <1>1, <2>1, ModNegative
  <2> QED
    BY <1>3, <2>2 DEF AsULong, half
<1> QED
  BY <1>2, <1>3

(* CheckSize sees the record that is one too many, though it compares what  *)
(* is left of both sizes in an int.                                         *)
LEMMA SizeSeen ==
    ASSUME NEW m \in Nat, m = AsULong(AsInt(m)), (m % IntRange) + 1 < IntRange
    PROVE  AsULong(AsInt((m % IntRange) + 1)) > m
<1> DEFINE a == m % IntRange
           half == IntRange \div 2
<1>1. /\ IntRange \in Nat \ {0} /\ ULongRange \in Nat \ {0}
      /\ ULongRange >= IntRange
      /\ half \in Nat \ {0} /\ IntRange = half + half
  BY MachineAssumption, Half
<1>2. a \in Nat /\ a + 1 < IntRange
  BY <1>1, ModRange
<1>3. (a + 1) % IntRange = a + 1
  BY <1>1, <1>2, ModSmall
<1> HIDE DEF a, half
<1>4. AsInt(m) = IF a < half THEN a ELSE a - IntRange
  BY DEF AsInt, a, half
<1>5. AsInt(a + 1) = IF a + 1 < half THEN a + 1 ELSE a + 1 - IntRange
  BY <1>1, <1>2, <1>3 DEF AsInt, half
<1>6. CASE a + 1 < half
  <2>1. m = a % ULongRange
    BY <1>1, <1>2, <1>4, <1>6 DEF AsULong
  <2>2. m = a
    BY <1>1, <1>2, <2>1, ModSmall
  <2>3. AsULong(AsInt(a + 1)) = a + 1
    BY <1>1, <1>2, <1>5, <1>6, ModSmall DEF AsULong
  <2> QED
    BY <1>2, <2>2, <2>3 DEF a
<1>7. CASE a + 1 = half
  <2>1. m = a % ULongRange
    BY <1>1, <1>2, <1>4, <1>7 DEF AsULong
  <2>2. m = a
    BY <1>1, <1>2, <2>1, ModSmall
  <2>3. AsULong(AsInt(a + 1)) = ULongRange - half
    BY <1>1, <1>2, <1>5, <1>7, ModNegative DEF AsULong
  <2> QED
    BY <1>1, <1>2, <1>7, <2>2, <2>3 DEF a
<1>8. CASE a + 1 > half
  <2>1. m = (a - IntRange) % ULongRange
    <3>1. AsInt(m) = a - IntRange
      BY <1>1, <1>2, <1>4, <1>8
    <3> QED
      BY <3>1 DEF AsULong
  <2>2. m = a - IntRange + ULongRange
    <3>1. /\ a - IntRange \in Int /\ a - IntRange < 0
          /\ -ULongRange <= a - IntRange
      BY <1>1, <1>2
    <3> QED
      BY <1>1, <2>1, <3>1, ModNegative
  <2>3. AsULong(AsInt(a + 1)) = a + 1 - IntRange + ULongRange
    BY <1>1, <1>2, <1>5, <1>8, ModNegative DEF AsULong
  <2> QED
    BY <1>1, <1>2, <2>2, <2>3 DEF a
<1> QED
  BY <1>1, <1>2, <1>6, <1>7, <1>8 DEF a

(* So does it see the size -1 of a file whose stream has failed.            *)
LEMMA FailedSizeSeen ==
    ASSUME NEW m \in Nat, m = AsULong(AsInt(m)), (m % IntRange) + 1 < IntRange
    PROVE  AsULong(AsInt(-1)) > m
<1> DEFINE a == m % IntRange
           half == IntRange \div 2
<1>1. /\ IntRange \in Nat \ {0} /\ ULongRange \in Nat \ {0}
      /\ ULongRange >= IntRange
      /\ half \in Nat \ {0} /\ IntRange = half + half
  BY MachineAssumption, Half
<1>2. a \in Nat /\ a + 1 < IntRange
  BY <1>1, ModRange
<1>3. AsInt(m) = IF a < half THEN a ELSE a - IntRange
  BY DEF AsInt
<1>4. (-1) % IntRange = IntRange - 1
  BY <1>1, ModNegative
<1> HIDE DEF a
<1>5. AsULong(AsInt(m)) = IF a < half THEN a ELSE a - IntRange + ULongRange
  BY <1>1, <1>2, <1>3, Widened
<1>6. AsULong(AsInt(-1)) = ULongRange - 1
  <2>1. AsInt(-1) = IF IntRange - 1 < half THEN IntRange - 1
                    ELSE IntRange - 1 - IntRange
    BY <1>4 DEF AsInt
  <2> HIDE DEF half
  <2>2. AsInt(-1) = -1
    BY <1>1, <2>1
  <2>3. (-1) % ULongRange = ULongRange - 1
    BY <1>1, ModNegative
  <2> QED
    BY <2>2, <2>3 DEF AsULong
<1> HIDE DEF half
<1> QED
  BY <1>1, <1>2, <1>5, <1>6

(* How the thread comes to a message and past its size check.               *)
LEMMA Passage ==
    ASSUME TypeOK, [Next]_vars
    PROVE  LET checked == {"duration", "disk", "write", "body"}
           IN  /\ running_' => running_
               /\ pc' = "size" => pc = "size" \/ running_
               /\ pc' \in checked => pc \in checked \/ CheckSize \/ SplitReopen
<1>1. CASE Quiet
  <2>1. running_' => running_
    BY <1>1, QuietSteps
  <2>2. CASE SomeMsg
    BY <2>2 DEF SomeMsg, NextMsg
  <2>3. CASE ~SomeMsg /\ ~CheckSize
    <3>1. pc' = "size" => pc = "size"
      BY <1>1, <2>3
         DEF Quiet, Loop, Taken, ListDone, Abandon, CheckDuration, CheckSpace,
             StopFlag, Tick, vars
    <3>2. pc' = "duration" => pc = "duration"
      BY <1>1, <2>3
         DEF Quiet, Loop, Taken, ListDone, Abandon, CheckDuration, CheckSpace,
             StopFlag, Tick, vars
    <3> QED
      BY <1>1, <2>1, <3>1, <3>2, QuietSteps
  <2>4. CASE CheckSize
    BY <2>1, <2>4 DEF CheckSize
  <2> QED
    BY <2>2, <2>3, <2>4
<1>2. CASE Open \/ SplitReopen
  BY <1>2, StartWritingLemma DEF Open, SplitReopen
<1>3. CASE \/ SplitClose \/ StopClose \/ SplitRename \/ StopRename
           \/ SplitPrune
  BY <1>3 DEF SplitClose, StopClose, SplitRename, StopRename, SplitPrune
<1>4. CASE WriteBegin \/ WriteEnd \/ WriteFail
  BY <1>4 DEF WriteBegin, WriteEnd, WriteFail
<1> QED
  BY <1>1, <1>2, <1>3, <1>4, NextCases

(* The current file is the one before, or one just opened, still empty.     *)
LEMMA CurrentRecords ==
    ASSUME TypeOK, Fresh, Stream, [Next]_vars, pc' # "open"
    PROVE  LET new == files'[Current'].recs
           IN  \/ new = <<>> /\ pc \in {"open", "reopen"}
               \/ /\ pc # "open" /\ ~SplitReopen /\ Current' = Current
                  /\ \/ WriteEnd /\ new = Append(files[Current].recs,
                                                 Len(handled))
                     \/ ~WriteEnd /\ new = files[Current].recs
<1>1. CASE WriteEnd
  <2>1. pc # "open" /\ Current \in 1..Len(files) /\ files[Current] \in File
    BY <1>1, CurrentFile DEF WriteEnd
  <2>2. /\ Len(files') = Len(files)
        /\ files'[Current].recs = Append(files[Current].recs, Len(handled))
    BY <1>1, <2>1, WriteEndLemma DEF Replaced, File
  <2> QED
    BY <1>1, <2>1, <2>2 DEF Current, WriteEnd, SplitReopen
<1>2. CASE ~WriteEnd /\ Len(files') = Len(files)
  <2>1. pc # "open" /\ ~SplitReopen
    <3>1. Open \/ SplitReopen => Len(files') = Len(files) + 1 /\ Len(files) \in Nat
      BY StartWritingLemma, LenProperties DEF Open, SplitReopen, Added, TypeOK
    <3>2. ~Open /\ ~SplitReopen
      BY <1>2, <3>1
    <3> QED
      BY <3>2, NextCases, QuietSteps
         DEF SplitReopen, SplitClose, StopClose, SplitRename, StopRename,
             SplitPrune, WriteBegin, WriteEnd, WriteFail
  <2>2. Current \in 1..Len(files) /\ Current' = Current
    BY <1>2, <2>1, CurrentFile DEF Current
  <2> QED
    BY <1>2, <2>1, <2>2, RecordsKept
<1>3. CASE ~WriteEnd /\ Len(files') # Len(files)
  <2>1. pc \in {"open", "reopen"} /\ Current' = Len(files) + 1
    BY <1>3, OldFiles DEF Current
  <2> QED
    BY <1>3, <2>1, RecordsKept
<1> QED
  BY <1>1, <1>2, <1>3

LEMMA SizeAskedType == ASSUME TypeOK PROVE SizeAsked \in Nat
<1>1. options_.max_size \in Nat /\ IntRange \in Nat \ {0}
  BY MachineAssumption DEF TypeOK, OptionRecord
<1> QED
  BY <1>1, ModRange DEF SizeAsked

LEMMA SizeBoundInductive ==
    ASSUME TypeOK, options_ \in Options, Fresh, Stream, SizeBound, [Next]_vars
    PROVE  SizeBound'
<1> DEFINE checked == {"duration", "disk", "write", "body"}
<1>1. UNCHANGED options_
  BY PrunedSame DEF SplitPrune, config
<1>2. options_.max_size \in Nat /\ IntRange \in Nat \ {0}
  BY MachineAssumption DEF TypeOK, OptionRecord
<1>3. SUFFICES ASSUME SizeLimited, pc' # "open"
               PROVE  SizeBound'
  BY <1>1 DEF SizeBound, SizeLimited, SizeAsked
<1> PICK asked \in Nat : asked = SizeAsked
  BY SizeAskedType
<1>4. SizeAsked' = asked
  BY <1>1 DEF SizeAsked
<1> PICK new \in Seq(Nat) : new = files'[Current'].recs
  <2>1. TypeOK'
    BY TypeInductive
  <2>2. files'[Current'] \in File
    BY <1>3, <2>1, EmptySeq, ElementOfSeq DEF TypeOK, Current
  <2> QED
    BY <2>2 DEF File
<1>5. SUFFICES
         /\ options_.split => Len(new) <= asked + 1
         /\ options_.split /\ pc' \in checked => Len(new) <= asked
         /\ ~options_.split => \/ Len(new) <= asked + 1
                               \/ (Len(new) = asked + 2 /\ ~running_')
         /\ ~options_.split /\ pc' = "size" => Len(new) <= asked + 1
         /\ ~options_.split /\ pc' \in checked =>
               Len(new) <= asked \/ (Len(new) = asked + 1 /\ ~running_')
  BY <1>1, <1>4 DEF SizeBound
<1>6. CASE new = <<>>
  BY <1>6, EmptySeq
<1>7. CASE pc # "open" /\ WriteEnd
           /\ new = Append(files[Current].recs, Len(handled))
  <2>1. files[Current].recs \in Seq(Nat) /\ Len(handled) \in Nat
    BY <1>7, CurrentFile, LenProperties DEF File, TypeOK
  <2>2. Len(new) = Len(files[Current].recs) + 1
    BY <1>7, <2>1, AppendProperties
  <2>3. pc = "body" /\ pc' = "next" /\ running_' = running_
    BY <1>7 DEF WriteEnd
  <2> QED
    BY <1>3, <1>7, <2>1, <2>2, <2>3, LenProperties DEF SizeBound
<1>8. CASE pc # "open" /\ ~WriteEnd /\ ~SplitReopen /\ new = files[Current].recs
  <2>1. /\ options_.split => Len(new) <= asked + 1
        /\ options_.split /\ pc \in checked => Len(new) <= asked
        /\ ~options_.split => \/ Len(new) <= asked + 1
                              \/ (Len(new) = asked + 2 /\ ~running_)
        /\ ~options_.split /\ pc = "size" => Len(new) <= asked + 1
        /\ ~options_.split /\ pc \in checked =>
              Len(new) <= asked \/ (Len(new) = asked + 1 /\ ~running_)
    BY <1>3, <1>8 DEF SizeBound
  <2>2. CASE CheckSize
    <3>1. Len(new) = asked + 1 => SizeExceeded
      <4>1. AsULong(AsInt(asked + 1)) > options_.max_size
        BY <1>2, <1>3, SizeSeen, RecordAssumption DEF SizeLimited, SizeAsked
      <4>2. AsULong(AsInt(-1)) > options_.max_size
        BY <1>2, <1>3, FailedSizeSeen, RecordAssumption
           DEF SizeLimited, SizeAsked
      <4> QED
        BY <1>3, <1>8, <4>1, <4>2
           DEF SizeExceeded, GetSize, FileSize, SizeLimited
    <3>2. /\ pc = "size"
          /\ \/ SizeExceeded /\ options_.split /\ pc' = "close"
             \/ SizeExceeded /\ ~options_.split /\ running_' = FALSE
             \/ ~SizeExceeded
          /\ pc' \in {"close", "duration"}
      BY <2>2 DEF CheckSize
    <3> QED
      BY <2>1, <3>1, <3>2, LenProperties
  <2>3. CASE ~CheckSize
    <3>1. /\ running_' => running_
          /\ pc' = "size" => pc = "size" \/ running_
          /\ pc' \in checked => pc \in checked
      BY <1>8, <2>3, Passage
    <3>2. Len(new) \in Nat
      BY LenProperties
    <3> HIDE DEF checked
    <3> QED
      BY <2>1, <3>1, <3>2
  <2> QED
    BY <2>2, <2>3
<1> QED
  BY <1>3, <1>6, <1>7, <1>8, CurrentRecords

-----------------------------------------------------------------------------
(* Times *)

LEMMA HandledKept ==
    ASSUME TypeOK, [Next]_vars
    PROVE  /\ \/ UNCHANGED handled
              \/ /\ pc' = "size" /\ running_
                 /\ Len(handled') = Len(handled) + 1
           /\ \A p \in 1..Len(handled) : handled'[p] = handled[p]
<1>1. CASE SomeMsg
  BY <1>1, AppendProperties DEF SomeMsg, NextMsg, TypeOK
<1>2. CASE ~SomeMsg
  <2>1. CASE Quiet
    BY <1>2, <2>1
       DEF Quiet, Loop, Taken, ListDone, Abandon, CheckSize, CheckDuration,
           CheckSpace, StopFlag, Tick, vars, history
  <2>2. CASE ~Quiet
    BY <2>2, NextCases
       DEF Open, SplitReopen, SplitClose, StopClose, SplitRename, StopRename,
           SplitPrune, WriteBegin, WriteEnd, WriteFail, history
  <2> QED
    BY <2>1, <2>2
<1> QED
  BY <1>1, <1>2

(* Every record stands for a message that was handled.                      *)
LEMMA RecordsHandled ==
    ASSUME TypeOK, Accounted, NEW i \in 1..Len(files), NEW p \in RecordsOf(i)
    PROVE  p \in 1..Len(handled)
<1>1. p \in Through
  BY DEF Accounted, InOnePlace
<1> QED
  BY <1>1, LenProperties DEF Through, TypeOK

(* A file keeps the start it was opened with; a new one has the current one *)
LEMMA StartsKept ==
    ASSUME TypeOK, Fresh, Stream, [Next]_vars
    PROVE  \A i \in 1..Len(files) : files'[i].start = files[i].start
<1>1. CASE Open \/ SplitReopen
  BY <1>1, StartWritingLemma DEF Open, SplitReopen, Added
<1>2. CASE SplitPrune
  <2>1. \A i \in 1..Len(files) : files[i] \in File
    BY ElementOfSeq DEF TypeOK
  <2> QED
    BY <1>2, <2>1, CheckNumSplitsLemma DEF SplitPrune, File
<1>3. CASE ~Open /\ ~SplitReopen /\ ~SplitPrune
  BY <1>3, OtherSteps
<1> QED
  BY <1>1, <1>2, <1>3

(* A message that passes CheckDuration is in its window, or it is the last. *)
LEMMA DurationPassed ==
    ASSUME TypeOK, Fresh, CheckDuration, pc' = "disk",
           options_.max_duration > 0
    PROVE  \/ InWindow(Len(handled))
           \/ ~options_.split /\ running_' = FALSE
<1>1. Len(handled) \in 1..Len(handled)
  BY EmptySeq, LenProperties DEF CheckDuration, Fresh, Working, TypeOK
<1>2. /\ handled[Len(handled)].time \in Nat /\ start_time_ \in Nat
      /\ options_.max_duration \in Nat
  BY <1>1, ElementOfSeq, RecordAssumption DEF TypeOK, OptionRecord
<1> QED
  BY <1>2 DEF CheckDuration, DurationExceeded, Message, InWindow

(* What the thread records next has passed CheckDuration.                   *)
LEMMA PassedInductive ==
    ASSUME TypeOK, Fresh, Stream, options_.max_duration > 0,
           pc \in {"disk", "write", "body"} =>
              InWindow(Len(handled)) \/ (~options_.split /\ ~running_),
           [Next]_vars
    PROVE  pc' \in {"disk", "write", "body"} =>
              InWindow(Len(handled))' \/ (~options_.split' /\ ~running_')
<1>1. SUFFICES ASSUME pc' \in {"disk", "write", "body"}
               PROVE  InWindow(Len(handled))' \/ (~options_.split' /\ ~running_')
  OBVIOUS
<1>2. UNCHANGED options_
  BY PrunedSame DEF SplitPrune, config
<1>3. /\ ~SomeMsg /\ ~Open /\ ~SplitReopen /\ ~SplitPrune /\ UNCHANGED handled
      /\ CheckDuration \/ pc \in {"disk", "write", "body"}
  <2>1. ~Open /\ ~SplitReopen /\ ~SplitPrune
    BY <1>1 DEF Open, SplitReopen, SplitPrune
  <2>2. ~SomeMsg /\ UNCHANGED handled
    BY <1>1, HandledKept DEF SomeMsg, NextMsg
  <2>3. CASE Quiet
    BY <1>1, <2>1, <2>2, <2>3, QuietSteps
       DEF Quiet, Loop, Taken, ListDone, Abandon, CheckSize,
           CheckSpace, StopFlag, Tick, vars
  <2>4. CASE ~Quiet
    BY <1>1, <2>1, <2>2, <2>4, NextCases
       DEF SplitClose, StopClose, SplitRename, StopRename, WriteBegin,
           WriteEnd, WriteFail
  <2> QED
    BY <2>3, <2>4
<1>4. UNCHANGED start_time_ /\ (running_' => running_)
  BY <1>3, OtherSteps, Passage
<1>5. InWindow(Len(handled))' <=> InWindow(Len(handled))
  BY <1>2, <1>3, <1>4 DEF InWindow
<1>6. CASE CheckDuration /\ pc' = "disk"
  BY <1>2, <1>5, <1>6, DurationPassed
<1>7. CASE pc \in {"disk", "write", "body"}
  BY <1>2, <1>4, <1>5, <1>7
<1> QED
  BY <1>1, <1>3, <1>6, <1>7 DEF CheckDuration

LEMMA DurationBoundInductive ==
    ASSUME TypeOK, Fresh, Stream, OneFile, Accounted, DurationBound,
           [Next]_vars
    PROVE  DurationBound'
<1>1. UNCHANGED options_ /\ (running_' => running_)
  BY PrunedSame, Passage DEF SplitPrune, config
<1>2. SUFFICES ASSUME options_.max_duration > 0, pc' # "open"
               PROVE  DurationBound'
  BY <1>1 DEF DurationBound
<1>3. pc' # "reopen" => files'[Current'].start = start_time_'
  <2>1. CASE Open \/ SplitReopen
    <3>1. StartWriting /\ bag_ = ClosedBag /\ UNCHANGED start_time_
      BY <2>1 DEF Open, SplitReopen, Stream, Recording
    <3> QED
      BY <3>1, StreamOpened
  <2>2. CASE SplitPrune
    BY <2>2 DEF SplitPrune
  <2>3. CASE ~Open /\ ~SplitReopen /\ ~SplitPrune
    <3>1. /\ pc # "open" /\ (pc' # "reopen" => pc # "reopen")
          /\ Current' = Current /\ UNCHANGED start_time_
      BY <1>2, <2>3, OtherSteps DEF Current
    <3>2. files'[Current].start = files[Current].start
      BY <3>1, CurrentFile, StartsKept
    <3> QED
      BY <1>2, <3>1, <3>2 DEF DurationBound
  <2> QED
    BY <2>1, <2>2, <2>3
<1>4. pc' \in {"disk", "write", "body"} =>
          InWindow(Len(handled))' \/ (~options_.split' /\ ~running_')
  <2>1. pc \in {"disk", "write", "body"} =>
            InWindow(Len(handled)) \/ (~options_.split /\ ~running_)
    BY <1>2 DEF DurationBound
  <2> QED
    BY <1>2, <2>1, PassedInductive
<1>5. ASSUME ~options_.split, NEW p \in RecordsOf(Current)'
      PROVE  InWindow(p)' \/ (p = Len(handled') /\ ~running_')
  <2>1. PICK k \in 1..Len(files'[Current'].recs) :
            p = files'[Current'].recs[k]
    BY <1>5 DEF RecordsOf
  <2>2. pc # "open" /\ Current' = Current /\ files[Current] \in File
    <3>1. files'[Current'].recs # <<>>
      BY <2>1, EmptySeq
    <3> QED
      BY <1>2, <3>1, CurrentRecords, CurrentFile
  <2>3. UNCHANGED start_time_
    <3>1. ~SplitPrune /\ ~Open /\ ~SplitReopen
      BY <1>5, <2>2 DEF OneFile, SplitPrune, Open, SplitReopen
    <3> QED
      BY <3>1, OtherSteps
  <2>4. CASE p \in RecordsOf(Current)
    <3>1. p \in 1..Len(handled) /\ Len(handled) \in Nat
      BY <2>2, <2>4, CurrentFile, RecordsHandled, LenProperties DEF TypeOK
    <3>2. InWindow(p)' <=> InWindow(p)
      BY <1>1, <2>3, <3>1, HandledKept DEF InWindow
    <3>3. InWindow(p) \/ (p = Len(handled) /\ ~running_)
      BY <1>2, <1>5, <2>2, <2>4 DEF DurationBound
    <3> QED
      BY <1>1, <3>2, <3>3, HandledKept
  <2>5. CASE p \notin RecordsOf(Current)
    <3>1. p = Len(handled) /\ WriteEnd
      <4>1. files'[Current].recs # files[Current].recs
        BY <2>1, <2>2, <2>5 DEF RecordsOf
      <4>2. /\ WriteEnd
            /\ files'[Current].recs = Append(files[Current].recs, Len(handled))
        BY <1>2, <2>1, <2>2, <4>1, CurrentRecords, EmptySeq
      <4>3. files[Current].recs \in Seq(Nat) /\ Len(handled) \in Nat
        BY <2>2, LenProperties DEF File, TypeOK
      <4> QED
        BY <2>1, <2>2, <2>5, <4>2, <4>3, AppendProperties, LenProperties
           DEF RecordsOf
    <3>2. /\ InWindow(Len(handled)) \/ (~options_.split /\ ~running_)
          /\ UNCHANGED <<handled, running_>>
      BY <1>2, <3>1 DEF WriteEnd, DurationBound, history
    <3>3. InWindow(p)' <=> InWindow(p)
      BY <1>1, <2>3, <3>2 DEF InWindow
    <3> QED
      BY <3>1, <3>2, <3>3
  <2> QED
    BY <2>4, <2>5
<1> QED
  BY <1>1, <1>3, <1>4, <1>5 DEF DurationBound

-----------------------------------------------------------------------------
(* Limits *)

\* The limits of one file.
SizeWithin(i) == SizeLimited => Len(files[i].recs) <= SizeAsked + 1
TimesWithin(i) ==
    options_.max_duration > 0 => \A p \in RecordsOf(i) :
        handled[p].time <= files[i].start + options_.max_duration

LEMMA LimitsSplit ==
    SplitWithinLimits <=>
        (options_.split =>
            \A i \in 1..Len(files) : SizeWithin(i) /\ TimesWithin(i))
BY DEF SplitWithinLimits, SizeWithin, TimesWithin

(* A file that keeps its records keeps its limits.                          *)
LEMMA LimitsKept ==
    ASSUME TypeOK, Fresh, Stream, Accounted, [Next]_vars,
           NEW i \in 1..Len(files), SizeWithin(i), TimesWithin(i),
           files'[i].recs = files[i].recs
    PROVE  SizeWithin(i)' /\ TimesWithin(i)'
<1>1. UNCHANGED options_
  BY PrunedSame DEF SplitPrune, config
<1>2. SizeWithin(i)'
  BY <1>1 DEF SizeWithin, SizeLimited, SizeAsked
<1>3. ASSUME options_.max_duration > 0, NEW p \in RecordsOf(i)'
      PROVE  handled'[p].time <= files'[i].start + options_.max_duration
  <2>1. p \in RecordsOf(i)
    BY <1>3 DEF RecordsOf
  <2>2. handled'[p] = handled[p] /\ files'[i].start = files[i].start
    BY <2>1, RecordsHandled, HandledKept, StartsKept
  <2> QED
    BY <1>3, <2>1, <2>2 DEF TimesWithin
<1> QED
  BY <1>1, <1>2, <1>3 DEF TimesWithin

LEMMA SplitWithinLimitsInductive ==
    ASSUME TypeOK, Fresh, Stream, Accounted, SizeBound, DurationBound,
           SplitWithinLimits, [Next]_vars
    PROVE  SplitWithinLimits'
<1>1. UNCHANGED options_
  BY PrunedSame DEF SplitPrune, config
<1>2. /\ SizeAsked \in Nat /\ options_.max_duration \in Nat
      /\ Len(files) \in Nat
  BY SizeAskedType, LenProperties DEF TypeOK, OptionRecord
<1>3. ASSUME options_.split, NEW i \in 1..Len(files')
      PROVE  SizeWithin(i)' /\ TimesWithin(i)'
  <2>1. CASE i \in 1..Len(files) /\ files'[i].recs = files[i].recs
    BY <1>3, <2>1, LimitsSplit, LimitsKept
  <2>2. CASE i \in 1..Len(files) /\ files'[i].recs # files[i].recs
    <3>1. WriteEnd
      BY <2>2, RecordsKept
    <3>2. /\ i = Current /\ files[i] \in File /\ Len(handled) \in Nat
          /\ files'[i].recs = Append(files[i].recs, Len(handled))
          /\ pc = "body" /\ UNCHANGED handled
      <4>1. Current \in 1..Len(files) /\ files[Current] \in File
        BY <3>1, CurrentFile DEF WriteEnd
      <4> QED
        BY <2>2, <3>1, <4>1, WriteEndLemma, LenProperties
           DEF Replaced, WriteEnd, File, TypeOK, history
    <3>3. /\ Len(files'[i].recs) = Len(files[i].recs) + 1
          /\ \A k \in 1..Len(files[i].recs) :
                files'[i].recs[k] = files[i].recs[k]
          /\ files'[i].recs[Len(files[i].recs) + 1] = Len(handled)
      BY <3>2, AppendProperties DEF File
    <3>4. SizeWithin(i)'
      <4>1. SizeLimited => Len(files[i].recs) <= SizeAsked
        BY <1>3, <3>2 DEF SizeBound
      <4>2. Len(files[i].recs) \in Nat
        BY <3>2, LenProperties DEF File
      <4> QED
        BY <1>1, <1>2, <3>3, <4>1, <4>2
           DEF SizeWithin, SizeLimited, SizeAsked
    <3>5. ASSUME options_.max_duration > 0, NEW p \in RecordsOf(i)'
          PROVE  handled'[p].time <= files'[i].start + options_.max_duration
      <4>1. files'[i].start = files[i].start
        BY <2>2, StartsKept
      <4>2. CASE p \in RecordsOf(i)
        BY <1>3, <2>2, <3>2, <3>5, <4>1, <4>2, LimitsSplit DEF TimesWithin
      <4>3. CASE p = Len(handled)
        BY <1>3, <3>2, <3>5, <4>1, <4>3 DEF DurationBound, InWindow
      <4>4. PICK k \in 1..Len(files'[i].recs) : p = files'[i].recs[k]
        BY <3>5 DEF RecordsOf
      <4>5. Len(files[i].recs) \in Nat
        BY <3>2, LenProperties DEF File
      <4>6. CASE k \in 1..Len(files[i].recs)
        BY <3>3, <4>2, <4>4, <4>6 DEF RecordsOf
      <4> QED
        BY <3>3, <4>3, <4>4, <4>5, <4>6
    <3> QED
      BY <1>1, <3>4, <3>5 DEF TimesWithin
  <2>3. CASE i \notin 1..Len(files)
    <3>1. files'[i].recs = <<>>
      <4>1. ~WriteEnd
        BY <1>2, <2>3, WriteEndLemma DEF Replaced
      <4> QED
        BY <1>2, <2>3, <4>1, RecordsKept
    <3>2. SizeWithin(i)'
      BY <1>1, <1>2, <3>1, EmptySeq DEF SizeWithin, SizeAsked
    <3>3. RecordsOf(i)' = {}
      BY <3>1, EmptySeq DEF RecordsOf
    <3> QED
      BY <3>2, <3>3 DEF TimesWithin
  <2> QED
    BY <2>1, <2>2, <2>3
<1>4. (options_.split =>
           \A i \in 1..Len(files) : SizeWithin(i) /\ TimesWithin(i))'
  BY <1>1, <1>3
<1> QED
  BY <1>4, LimitsSplit, PTL

LEMMA LimitStopsHolds ==
    ASSUME TypeOK, Fresh, SizeBound, DurationBound
    PROVE  LimitStops
<1>1. SUFFICES ASSUME ~options_.split, files # <<>>
               PROVE  LimitStops
  BY DEF LimitStops
<1>2. pc # "open" /\ SizeAsked \in Nat
  BY <1>1, SizeAskedType DEF Fresh
<1>3. Len(files[Current].recs) \in Nat
  BY <1>2, CurrentFile, LenProperties DEF File
<1>4. SizeLimited => Len(files[Current].recs) <= SizeAsked + 2
  BY <1>1, <1>2, <1>3 DEF SizeBound
<1> QED
  BY <1>1, <1>2, <1>4 DEF LimitStops, DurationBound, InWindow

-----------------------------------------------------------------------------
(* What makes the thread clear running_ (for the process it is a part of) *)

\* A file could not be opened, or a stream or a file has failed.
Broken == \/ \E i \in 1..Len(files) : files[i].name = "none"
          \/ bag_.open /\ ~bag_.good
          \/ \E i \in 1..Len(files) :
                files[i].damaged /\ (pc = "body" => i < Len(files))

\* A limit that ends the recording was crossed.
TooLong == ~options_.split /\ options_.max_size > 0
           /\ Len(handled) >= SizeAsked + 2
TooLate == ~options_.split /\ options_.max_duration > 0
           /\ \E i \in 1..Len(handled) :
                 handled[i].time > start_time_ + options_.max_duration

\* Only WriteEnd repairs a file, and a file that is not there never appears.
LEMMA FailuresKept ==
    ASSUME TypeOK, Fresh, Stream, [Next]_vars, NEW i \in 1..Len(files)
    PROVE  /\ i \in 1..Len(files')
           /\ files[i].name = "none" => files'[i].name = "none"
           /\ files[i].damaged => \/ files'[i].damaged
                                  \/ WriteEnd /\ i = Current
<1> DEFINE f == files[i]
<1>1. f \in File /\ Len(files) \in Nat
  BY ElementOfSeq, LenProperties DEF TypeOK
<1>2. CASE Quiet \/ WriteFail
  BY <1>2, QuietSteps DEF WriteFail
<1>3. CASE Open \/ SplitReopen
  BY <1>1, <1>3, StartWritingLemma DEF Open, SplitReopen, Added
<1>4. CASE SplitClose \/ StopClose
  <2>1. CloseBag /\ pc # "open"
    BY <1>4 DEF SplitClose, StopClose
  <2> QED
    BY <1>1, <2>1, CloseBagLemma DEF Replaced, File
<1>5. CASE SplitRename \/ StopRename
  <2>1. RenameToTarget /\ pc # "open"
    BY <1>5 DEF SplitRename, StopRename
  <2> QED
    BY <1>1, <2>1, RenameLemma DEF Replaced, File
<1>6. CASE SplitPrune
  BY <1>1, <1>6, CheckNumSplitsLemma DEF SplitPrune, File
<1>7. CASE WriteBegin
  <2>1. /\ Len(files') = Len(files)
        /\ i = Current => files'[i] = [f EXCEPT !.damaged = TRUE]
        /\ i # Current => files'[i] = f
    BY <1>7, WriteBeginLemma DEF Replaced
  <2>2. [f EXCEPT !.damaged = TRUE].name = f.name
    BY <1>1 DEF File
  <2>3. [f EXCEPT !.damaged = TRUE].damaged
    BY <1>1 DEF File
  <2>4. files'[i].name = f.name /\ (f.damaged => files'[i].damaged)
    BY <2>1, <2>2, <2>3
  <2> QED
    BY <2>1, <2>4
<1>8. CASE WriteEnd
  <2>1. /\ Len(files') = Len(files)
        /\ \A j \in 1..Len(files) : j # Current => files'[j] = files[j]
        /\ files[Current] \in File => files'[Current].name = files[Current].name
    BY <1>8, WriteEndLemma DEF Replaced, File
  <2> QED
    BY <1>1, <1>8, <2>1
<1> QED
  BY <1>2, <1>3, <1>4, <1>5, <1>6, <1>7, <1>8, NextCases

LEMMA HealthyInductive ==
    ASSUME TypeOK, Fresh, Stream, Healthy, [Next]_vars
    PROVE  Healthy'
<1> SUFFICES ASSUME bag_'.good, pc' # "body"
             PROVE  ~files'[Current'].damaged
  BY DEF Healthy
<1>1. CASE Quiet
  <2>1. pc # "body"
    BY <1>1, QuietSteps
  <2> QED
    BY <1>1, <2>1, QuietSteps DEF Healthy, Current
<1>2. CASE Open \/ SplitReopen
  <2>1. StartWriting /\ bag_ = ClosedBag
    BY <1>2 DEF Open, SplitReopen, Fresh, Stream, Recording
  <2>2. files' = Append(files, NewFile(start_time_))
    <3>1. ~BrokenBag.good /\ ~ClosedBag.good
      BY <2>1 DEF BrokenBag, ClosedBag
    <3>2. bag_' # BrokenBag /\ bag_' # bag_
      BY <2>1, <3>1
    <3> QED
      BY <2>1, <3>2 DEF StartWriting
  <2>3. /\ NewFile(start_time_) \in File /\ files \in Seq(File)
        /\ ~NewFile(start_time_).damaged
    BY EmptySeq DEF NewFile, File, Names, TypeOK
  <2> QED
    BY <2>2, <2>3, AppendProperties DEF Current
<1>3. CASE SplitClose \/ StopClose \/ WriteFail
  <2>1. ~bag_'.good
    BY <1>3 DEF SplitClose, StopClose, WriteFail, CloseBag, ClosedBag, TypeOK
  <2> QED
    BY <2>1
<1>4. CASE SplitRename \/ StopRename \/ SplitPrune
  BY <1>4 DEF SplitRename, StopRename, SplitPrune, Stream, Recording, ClosedBag
<1>5. CASE WriteBegin
  BY <1>5 DEF WriteBegin
<1>6. CASE WriteEnd
  <2>1. pc # "open"
    BY <1>6 DEF WriteEnd
  <2> QED
    BY <1>6, <2>1, WriteEndLemma, CurrentFile DEF Replaced, File, Current
<1> QED
  BY <1>1, <1>2, <1>3, <1>4, <1>5, <1>6, NextCases

LEMMA BrokenKept ==
    ASSUME TypeOK, Fresh, Stream, Healthy, [Next]_vars, Broken
    PROVE  Broken'
<1> USE FailuresKept
<1>0. Len(files) \in Nat /\ Len(files') \in Nat
  BY LenProperties, TypeInductive DEF TypeOK
<1>1. CASE \E i \in 1..Len(files) : files[i].name = "none"
  BY <1>1 DEF Broken
<1>2. ASSUME NEW i \in 1..Len(files), files[i].damaged,
             pc = "body" => i < Len(files)
      PROVE  Broken'
  <2>1. files'[i].damaged /\ i \in 1..Len(files')
    BY <1>2 DEF WriteEnd, Current
  <2>2. pc' = "body" => i < Len(files')
    <3>1. CASE WriteBegin
      <4>1. i # Current
        BY <1>2, <3>1 DEF WriteBegin, Healthy
      <4> QED
        BY <1>0, <2>1, <3>1, <4>1, WriteBeginLemma DEF Replaced, Current
    <3>2. CASE ~WriteBegin
      <4>1. pc' = "body" => pc = "body" /\ Quiet
        BY <3>2, NextCases, QuietSteps
           DEF Open, SplitReopen, SplitClose, StopClose, SplitRename,
               StopRename, SplitPrune, WriteEnd, WriteFail
      <4> QED
        BY <1>2, <4>1, QuietSteps
    <3> QED
      BY <3>1, <3>2
  <2> QED
    BY <2>1, <2>2 DEF Broken
<1>3. CASE bag_.open /\ ~bag_.good
  <2>1. CASE SplitClose \/ StopClose
    <3>1. /\ Current \in 1..Len(files) /\ pc' # "body" /\ pc # "body"
          /\ files[Current].name = "none" \/ files[Current].damaged
      BY <1>3, <2>1, CurrentFile DEF SplitClose, StopClose, Stream, Recording
    <3> QED
      BY <1>1, <1>2, <3>1
  <2>2. CASE ~(SplitClose \/ StopClose)
    <3>1. bag_'.open /\ ~bag_'.good
      <4>1. ~Open /\ ~SplitReopen /\ ~WriteBegin /\ ~WriteEnd
        BY <1>3
           DEF Open, SplitReopen, WriteBegin, WriteEnd, Fresh, Stream,
               Recording, ClosedBag
      <4> QED
        BY <1>3, <2>2, <4>1, NextCases, QuietSteps
           DEF SplitRename, StopRename, SplitPrune, WriteFail, TypeOK
    <3> QED
      BY <3>1 DEF Broken
  <2> QED
    BY <2>1, <2>2
<1> QED
  BY <1>1, <1>2, <1>3 DEF Broken

LEMMA LimitsCrossedKept ==
    ASSUME TypeOK, Fresh, Stream, OneFile, [Next]_vars, TooLong \/ TooLate
    PROVE  TooLong' \/ TooLate'
<1>1. ~Open /\ ~SplitReopen /\ ~SplitPrune
  <2>1. ~options_.split /\ Len(handled) # 0
    BY SizeAskedType DEF TooLong, TooLate
  <2> QED
    BY <2>1, EmptySeq DEF Open, SplitReopen, SplitPrune, OneFile, Fresh
<1>2. UNCHANGED <<options_, start_time_>>
  BY <1>1, OtherSteps
<1>3. /\ Len(handled) \in Nat /\ Len(handled') \in Nat
      /\ Len(handled') >= Len(handled)
      /\ \A p \in 1..Len(handled) : handled'[p] = handled[p]
  BY HandledKept, LenProperties, TypeInductive DEF TypeOK
<1>4. CASE TooLong
  <2>1. SizeAsked' = SizeAsked /\ SizeAsked \in Nat
    BY <1>2, SizeAskedType DEF SizeAsked
  <2> QED
    BY <1>2, <1>3, <1>4, <2>1 DEF TooLong
<1>5. CASE TooLate
  BY <1>2, <1>3, <1>5 DEF TooLate
<1> QED
  BY <1>4, <1>5

\* A file whose size is found to exceed --size holds more records than that,
\* whatever is left of both numbers in an int.
LEMMA SizeExceededMeans ==
    ASSUME NEW n \in Nat, NEW m \in Nat, m = AsULong(AsInt(m)),
           AsULong(AsInt(n)) > m
    PROVE  n > m % IntRange
<1> DEFINE low == n % IntRange
           a == m % IntRange
           half == IntRange \div 2
<1>1. /\ IntRange \in Nat \ {0} /\ ULongRange \in Nat \ {0}
      /\ ULongRange >= IntRange
      /\ half \in Nat \ {0} /\ IntRange = half + half
  BY MachineAssumption, Half
<1>2. a \in Nat /\ a < IntRange /\ low \in Nat /\ low < IntRange
  BY <1>1, ModRange
<1>3. n >= low
  BY <1>1
<1>4. /\ AsInt(m) = IF a < half THEN a ELSE a - IntRange
      /\ AsInt(n) = IF low < half THEN low ELSE low - IntRange
  BY DEF AsInt
<1> HIDE DEF a, low
<1>5. AsULong(AsInt(m)) = IF a < half THEN a ELSE a - IntRange + ULongRange
  BY <1>2, <1>4, Widened
<1>6. AsULong(AsInt(n)) = IF low < half THEN low ELSE low - IntRange + ULongRange
  BY <1>2, <1>4, Widened
<1> HIDE DEF half
<1>7. low > a
  BY <1>1, <1>2, <1>5, <1>6
<1> QED
  BY <1>2, <1>3, <1>7 DEF a

LEMMA UpTo ==
    ASSUME NEW k \in Nat
    PROVE  IsFiniteSet(1..k) /\ Cardinality(1..k) = k
<1>1. 1 \in Int /\ k \in Int
  OBVIOUS
<1>2. /\ IsFiniteSet(1..k)
      /\ Cardinality(1..k) = IF 1 > k THEN 0 ELSE k - 1 + 1
  BY <1>1, FS_Interval, Zenon
<1> QED
  BY <1>2

\* The current file holds fewer records than there were messages.
LEMMA FewerRecords ==
    ASSUME TypeOK, Fresh, Accounted, pc = "size"
    PROVE  Len(files[Current].recs) < Len(handled)
<1> DEFINE recs == files[Current].recs
           n == Len(recs)
           m == Len(handled) - 1
<1>1. /\ Current \in 1..Len(files) /\ recs \in Seq(Nat) /\ n \in Nat
      /\ Len(handled) \in Nat /\ m \in Nat
  <2>1. Current \in 1..Len(files) /\ files[Current] \in File
    BY CurrentFile
  <2>2. recs \in Seq(Nat)
    BY <2>1 DEF File
  <2>3. n \in Nat
    BY <2>2, LenProperties
  <2>4. Len(handled) \in Nat /\ Len(handled) # 0
    BY LenProperties, EmptySeq DEF Fresh, Working, TypeOK
  <2> QED
    BY <2>1, <2>2, <2>3, <2>4
<1>2. \A k \in 1..n : recs[k] \in 1..m
  <2>1. \A k \in 1..n : recs[k] \in RecordsOf(Current)
    BY DEF RecordsOf
  <2>2. RecordsOf(Current) \subseteq Through
    BY <1>1 DEF Accounted, InOnePlace
  <2> QED
    BY <2>1, <2>2 DEF Through
<1>3. \A k, l \in 1..n : k < l => recs[k] < recs[l]
  BY <1>1 DEF Accounted, InOnePlace
<1> DEFINE place == [k \in 1..n |-> recs[k]]
<1>4. place \in Injection(1..n, 1..m)
  <2>1. \A k, l \in 1..n : recs[k] = recs[l] => k = l
    BY <1>1, <1>2, <1>3
  <2> QED
    BY <1>2, <2>1 DEF Injection, IsInjective
<1> HIDE DEF n, m, place, recs
<1>5. /\ IsFiniteSet(1..m)
      /\ Cardinality(1..n) = n /\ Cardinality(1..m) = m
  BY <1>1, UpTo
<1>6. n <= m
  BY <1>4, <1>5, FS_Injection
<1> QED
  BY <1>1, <1>6 DEF n, m, recs

\* The thread clears running_ only when something has failed, or at a limit.
LEMMA ThreadStops ==
    ASSUME TypeOK, Fresh, Stream, Accounted, options_ \in Options,
           [Next]_vars, ~StopFlag, running_, ~running_'
    PROVE  Broken' \/ TooLong' \/ TooLate'
<1>1. Open \/ SplitReopen \/ CheckSize \/ CheckDuration \/ WriteFail
  BY NextCases
     DEF Quiet, Loop, Taken, ListDone, Abandon, SomeMsg, NextMsg, CheckSpace,
         Tick, vars, SplitClose, StopClose, SplitRename, StopRename,
         SplitPrune, WriteBegin, WriteEnd
<1>2. CASE Open \/ SplitReopen
  <2> DEFINE f == NewFile(start_time_)
             none == [f EXCEPT !.name = "none"]
  <2>1. StartWriting
    BY <1>2 DEF Open, SplitReopen
  <2>2. none \in File /\ none.name = "none"
    BY EmptySeq DEF NewFile, File, Names, TypeOK
  <2>3. CASE files' = Append(files, none)
    <3> HIDE DEF none
    <3>1. Added(none) /\ Len(files) \in Nat
      BY <2>2, <2>3, AddFile, LenProperties DEF TypeOK
    <3>2. /\ Len(files) + 1 \in 1..Len(files')
          /\ files'[Len(files) + 1].name = "none"
      BY <2>2, <3>1 DEF Added
    <3> QED
      BY <3>2 DEF Broken
  <2>4. CASE bag_' = BrokenBag
    BY <2>4 DEF BrokenBag, Broken, TypeOK
  <2> QED
    BY <2>1, <2>3, <2>4 DEF StartWriting
<1>3. CASE CheckSize
  <2>1. /\ SizeExceeded /\ ~options_.split /\ pc = "size"
        /\ UNCHANGED <<options_, handled>>
    BY <1>3 DEF CheckSize, config, history
  <2>2. CASE ~bag_.good
    <3>1. /\ Current \in 1..Len(files) /\ UNCHANGED files /\ pc' = "duration"
          /\ files[Current].name = "none" \/ files[Current].damaged
      BY <1>3, <2>1, <2>2, CurrentFile DEF CheckSize, Stream, Recording
    <3> QED
      BY <3>1 DEF Broken
  <2>3. CASE bag_.good
    <3> DEFINE n == Len(files[Current].recs)
    <3>1. /\ options_.max_size \in Nat
          /\ n \in Nat /\ SizeAsked \in Nat /\ Len(handled) \in Nat
      BY <2>1, SizeAskedType, CurrentFile, LenProperties
         DEF File, OptionRecord, TypeOK
    <3>2. n > SizeAsked
      BY <2>1, <2>3, <3>1, SizeExceededMeans, RecordAssumption
         DEF SizeExceeded, GetSize, FileSize, SizeAsked
    <3>3. n < Len(handled)
      BY <2>1, FewerRecords
    <3> HIDE DEF n
    <3>4. Len(handled) >= SizeAsked + 2
      BY <3>1, <3>2, <3>3
    <3> QED
      BY <2>1, <3>4 DEF TooLong, SizeExceeded, SizeAsked
  <2> QED
    BY <2>2, <2>3
<1>4. CASE CheckDuration
  <2>1. /\ DurationExceeded /\ ~options_.split
        /\ UNCHANGED <<options_, handled, start_time_>>
    BY <1>4 DEF CheckDuration, config, history
  <2>2. Len(handled) \in 1..Len(handled)
    BY <1>4, EmptySeq, LenProperties DEF CheckDuration, Fresh, Working, TypeOK
  <2> QED
    BY <2>1, <2>2 DEF TooLate, DurationExceeded, Message
<1>5. CASE WriteFail
  <2>1. /\ bag_'.open = bag_.open /\ ~bag_'.good /\ UNCHANGED files
        /\ pc' = "next" /\ pc \in {"write", "body"}
        /\ pc = "write" => ~bag_.good
    BY <1>5 DEF WriteFail, TypeOK
  <2>2. CASE bag_.open
    BY <2>1, <2>2 DEF Broken
  <2>3. CASE ~bag_.open
    <3>1. /\ Current \in 1..Len(files)
          /\ files[Current].name = "none" \/ files[Current].damaged
      BY <2>1, <2>3, CurrentFile DEF Stream, Recording, TypeOK
    <3> QED
      BY <2>1, <3>1 DEF Broken
  <2> QED
    BY <2>2, <2>3
<1> QED
  BY <1>1, <1>2, <1>3, <1>4, <1>5

-----------------------------------------------------------------------------
(* The theorems *)

LEMMA InvInit == Init => IInv
<1> SUFFICES ASSUME Init
             PROVE  IInv
  OBVIOUS
<1>1. TypeOK /\ options_ \in Options
  BY TypeInit DEF Init
<1>2. /\ pc = "open" /\ files = <<>> /\ bag_ = ClosedBag
      /\ current_files_ = <<>> /\ handled = <<>> /\ dropped = {}
      /\ Len(files) = 0 /\ Len(handled) = 0
  BY EmptySeq DEF Init
<1>3. Fresh /\ Stream /\ OneFile
  BY <1>2 DEF Fresh, Stream, OneFile, Working, Recording
<1>4. OneActive /\ HeaderCounts /\ Retention
  BY <1>2 DEF OneActive, HeaderCounts, Retention, Pruned
<1>5. Accounted
  <2>1. Through = {} /\ 1..Len(files) = {}
    BY <1>2 DEF Through
  <2> QED
    BY <1>2, <2>1 DEF Accounted, InOnePlace, TornIsLast
<1>6. Window /\ SizeBound /\ DurationBound
  BY <1>2 DEF Window, SizeBound, DurationBound
<1>7. SplitWithinLimits /\ LimitStops
  BY <1>2 DEF SplitWithinLimits, LimitStops
<1> QED
  BY <1>1, <1>3, <1>4, <1>5, <1>6, <1>7 DEF IInv

LEMMA InvInductive == IInv /\ [Next]_vars => IInv'
<1> SUFFICES ASSUME IInv, [Next]_vars
             PROVE  IInv'
  OBVIOUS
<1> USE DEF IInv
<1>1. TypeOK' /\ Fresh' /\ Stream' /\ OneFile'
  BY TypeInductive, FreshInductive, StreamInductive, OneFileInductive
<1>2. (options_ \in Options)'
  BY PrunedSame DEF SplitPrune, config
<1>3. OneActive' /\ HeaderCounts' /\ Accounted'
  BY OneActiveInductive, HeaderCountsInductive, AccountedInductive
<1>4. Window' /\ Retention'
  BY WindowInductive, RetentionInductive
<1>5. SizeBound' /\ DurationBound' /\ SplitWithinLimits'
  BY SizeBoundInductive, DurationBoundInductive, SplitWithinLimitsInductive
<1>6. LimitStops'
  BY <1>1, <1>5, LimitStopsHolds, PTL
<1> QED
  BY <1>1, <1>2, <1>3, <1>4, <1>5, <1>6

LEMMA Invariance == Spec => []IInv
BY InvInit, InvInductive, PTL DEF Spec

\* The variables keep their types, and the thread has a file to work on at
\* every step after the first.
THEOREM TypeCorrect == Spec => []TypeOK
BY Invariance, PTL DEF IInv

\* Whatever splits, fails or stops, only the file the thread works on can be
\* under its temporary name.
THEOREM OneActiveCorrect == Spec => []OneActive
BY Invariance, PTL DEF IInv

\* An undamaged bag carries the number of its records in its header, however
\* many files were closed and opened before it.
THEOREM HeaderCountsCorrect == Spec => []HeaderCounts
BY Invariance, PTL DEF IInv

\* Every message DoWrite is through with was recorded once or dropped, and
\* the records are in the order in which the messages came, across splits.
THEOREM AccountedCorrect == Spec => []Accounted
BY Invariance, PTL DEF IInv

\* Pruning deletes the oldest bags, and only as many as --max-splits says,
\* whatever its value.
THEOREM RetentionCorrect == Spec => []Retention
BY Invariance, PTL DEF IInv

\* With --split every file keeps the limits of --size and --duration.  The
\* width of an int is any even number, and so is a limit beyond it.
THEOREM SplitWithinLimitsCorrect == Spec => []SplitWithinLimits
BY Invariance, PTL DEF IInv

\* Without --split the file ends one message after a limit was crossed.
THEOREM LimitStopsCorrect == Spec => []LimitStops
BY Invariance, PTL DEF IInv

\* No step of DoWrite or Stop changes a bag that has its final name, except
\* that pruning may delete it.
THEOREM FinishedBagIsFinalCorrect == Spec => FinishedBagIsFinal
<1> DEFINE Kept == \A i \in 1..Len(files) :
                       files[i].name = "bag" =>
                           \/ files'[i] = files[i]
                           \/ files'[i] = [files[i] EXCEPT !.name = "deleted"]
<1>1. IInv /\ [Next]_vars => [Kept]_vars
  <2> SUFFICES ASSUME IInv, [Next]_vars
               PROVE  Kept
    OBVIOUS
  <2> QED
    BY OldFiles DEF IInv, Deleted
<1> QED
  BY <1>1, Invariance, PTL DEF Spec, FinishedBagIsFinal
=============================================================================
