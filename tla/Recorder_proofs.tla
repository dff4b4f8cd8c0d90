--------------------------- MODULE Recorder_proofs ---------------------------
(***************************************************************************)
(* The recording process for any number of subscribers, any bounds and     *)
(* options: its parts are used as they are specified, nothing that a       *)
(* subscriber receives is lost in the middle, and stopping is clean.       *)
(***************************************************************************)
EXTENDS Recorder, SequenceTheorems, FiniteSetTheorems, TLAPS

\* What is proved of the queue and of the record thread.
QueueProofs == INSTANCE SyncQueue_proofs WITH
             Putters <- Subscribers, Takers <- {RecordThreadId},
             Stoppers <- 1..HandlerDepth, Items <- OutgoingMessage,
             None <- NoMsg, max_size_ <- MAX_TASK_COUNT, MaxPuts <- AllMsgs

ThreadProofs == INSTANCE RecordThread_proofs WITH
             Msgs <- OutgoingMessage, MaxMsgs <- AllMsgs

-----------------------------------------------------------------------------
(* The inductive invariant *)

\* Everything the queue has accepted.
Stream == delivered \o queue_

\* The places in a sequence of messages of those that come from s.
From(seq, s) == {j \in 1..Len(seq) : seq[j].from = s}

\* The number of a message is its place among those of its subscriber.
Numbered(seq) ==
    \A i \in 1..Len(seq) :
        seq[i].n = Cardinality({j \in From(seq, seq[i].from) : j <= i})
InOrder == Numbered(Stream)

\* A subscriber has a message in hand; the messages before that one.
InHand(s) == om[s] # NoMsg \/ putting[s] # NoMsg
Before(s) == IF InHand(s) THEN received[s] - 1 ELSE received[s]
SentBy(s) == From(Stream, s)

\* A subscriber puts its messages one after the other.  When one is lost, none
\* will be accepted any more.
Flow ==
    \A s \in Subscribers :
        /\ om[s] # NoMsg => om[s].from = s /\ om[s].n = received[s]
        /\ putting[s] # NoMsg => putting[s].from = s /\ putting[s].n = received[s]
        /\ Cardinality(SentBy(s)) <= Before(s)
        /\ \/ Cardinality(SentBy(s)) = Before(s)
           \/ need_stop_
           \/ ~running_ /\ putting[s] = NoMsg

\* No message is stamped with a time to come.
Stamped == /\ clock <= MaxTime
           /\ \A i \in 1..Len(Stream) : Stream[i].time <= clock
           /\ \A s \in Subscribers : /\ om[s] # NoMsg => om[s].time <= clock
                                     /\ putting[s] # NoMsg => putting[s].time <= clock

\* The record thread is inside Take when its program is, and handles what it
\* took in the order in which it was delivered.
TakerInStep == /\ taking = IF pc = "take" THEN {RecordThreadId} ELSE {}
               /\ Len(handled) <= Len(delivered)
               /\ \A i \in 1..Len(handled) : handled[i] = delivered[i]

\* At most one of the handlers waits for the record thread or finishes its
\* file, and the thread is joined only by it.
Finishing == {"joining", "close", "rename"}
HandlersInStep ==
    /\ joined => need_stop_
    /\ joined => pc = "finished" \/ \E i \in 1..Depth : frames[i] \in Finishing
    /\ \A i \in 1..Depth :
          /\ frames[i] \in {"notify", "join"} \union Finishing => need_stop_
          /\ frames[i] = "joining" => ~joined
          /\ frames[i] = "close" => joined /\ pc = "done"
          /\ frames[i] = "rename" => joined /\ pc = "closed"
          /\ \A j \in 1..Depth :
                frames[i] \in Finishing /\ frames[j] \in Finishing => i = j
    /\ \A i \in 1..HandlerDepth :
          stop_pc[i] # "idle" => i \in 1..Depth /\ frames[i] = "notify"

\* What there is to know as long as there was one signal at most.
FewSignals ==
    /\ Depth <= signals
    /\ signals = 0 => ~joined /\ (running_ \/ GaveUp)
    /\ signals = 1 => /\ frames = <<>> => joined
                      /\ frames # <<>> /\ joined => frames[1] \in Finishing

Ending == proc = "exited" => joined /\ frames = <<>>

IInv == /\ Queue!TypeOK /\ Queue!StopLeavesNobodyAsleep
        /\ ThreadProofs!IInv /\ ThreadProofs!Healthy
        /\ TypeOK /\ TakerInStep
        /\ Flow /\ InOrder /\ Stamped
        /\ HandlersInStep /\ FewSignals /\ Ending /\ OneSignalIsClean

-----------------------------------------------------------------------------
(* The components, as they are named here and in what is proved of them *)

LEMMA QueueFacts == QueueProofs!QueueAssumption
<1>1. Cardinality(Subscribers) \in Nat
  BY RecorderAssumption, FS_CardinalityType
<1> QED
  BY <1>1, RecorderAssumption DEF QueueProofs!QueueAssumption, AllMsgs

LEMMA ThreadFacts == /\ ThreadProofs!MachineAssumption
                     /\ ThreadProofs!RecordAssumption
<1>1. Cardinality(Subscribers) \in Nat
  BY RecorderAssumption, FS_CardinalityType
<1>2. AllMsgs \in Nat
  BY <1>1, RecorderAssumption DEF AllMsgs
<1>3. \A m \in OutgoingMessage : m.time \in Nat
  BY RecorderAssumption DEF OutgoingMessage
<1>4. \A o \in Options :
         o.max_size = ThreadProofs!AsULong(ThreadProofs!AsInt(o.max_size))
  BY SizeAssumption
     DEF ThreadProofs!AsULong, ThreadProofs!AsInt, Thread!AsULong, Thread!AsInt
<1>5. Options \subseteq ThreadProofs!OptionRecord
  BY SizeAssumption DEF ThreadProofs!OptionRecord, Thread!OptionRecord
<1> QED
  BY <1>2, <1>3, <1>4, <1>5, RecorderAssumption, SizeAssumption
     DEF ThreadProofs!MachineAssumption, ThreadProofs!RecordAssumption

LEMMA SameQueue ==
    /\ QueueProofs!Init <=> Queue!Init
    /\ QueueProofs!TypeOK <=> Queue!TypeOK
    /\ QueueProofs!StopLeavesNobodyAsleep <=> Queue!StopLeavesNobodyAsleep
    /\ QueueProofs!vars = Queue!vars
BY DEF QueueProofs!Init, QueueProofs!TypeOK, QueueProofs!StopPC,
       QueueProofs!StopLeavesNobodyAsleep, QueueProofs!vars,
       Queue!Init, Queue!TypeOK, Queue!StopPC,
       Queue!StopLeavesNobodyAsleep, Queue!vars

LEMMA SameQueueSteps == Queue!Next <=> QueueProofs!Next
<1>1. \A t : Queue!Produce(t) <=> QueueProofs!Produce(t)
  BY DEF Queue!Produce, Queue!PutCall, QueueProofs!Produce, QueueProofs!PutCall
<1>2. \A t : Queue!Add(t) <=> QueueProofs!Add(t)
  BY DEF Queue!Add, Queue!AddBlock, Queue!AddStopped, Queue!AddPush,
         Queue!NotFull, Queue!AfterNotifyOne,
         QueueProofs!Add, QueueProofs!AddBlock, QueueProofs!AddStopped,
         QueueProofs!AddPush, QueueProofs!NotFull, QueueProofs!AfterNotifyOne
<1>3. \A t : Queue!TakeCall(t) <=> QueueProofs!TakeCall(t)
  BY DEF Queue!TakeCall, QueueProofs!TakeCall
<1>4. \A t : Queue!Take(t) <=> QueueProofs!Take(t)
  BY DEF Queue!Take, Queue!TakeBlock, Queue!TakeStopped, Queue!TakeAll,
         Queue!NotEmpty, Queue!AfterNotifyOne,
         QueueProofs!Take, QueueProofs!TakeBlock, QueueProofs!TakeStopped,
         QueueProofs!TakeAll, QueueProofs!NotEmpty, QueueProofs!AfterNotifyOne
<1>5. \A s : Queue!StopSet(s) <=> QueueProofs!StopSet(s)
  BY DEF Queue!StopSet, QueueProofs!StopSet
<1>6. \A s : Queue!StopNotify(s) <=> QueueProofs!StopNotify(s)
  BY DEF Queue!StopNotify, Queue!StopNotifyFull, Queue!StopNotifyEmpty,
         QueueProofs!StopNotify, QueueProofs!StopNotifyFull,
         QueueProofs!StopNotifyEmpty
<1>7. Queue!SpuriousWake <=> QueueProofs!SpuriousWake
  BY DEF Queue!SpuriousWake, QueueProofs!SpuriousWake
<1> QED
  BY <1>1, <1>2, <1>3, <1>4, <1>5, <1>6, <1>7 DEF Queue!Next, QueueProofs!Next

LEMMA SameThread ==
    /\ ThreadProofs!Init <=> Thread!Init
    /\ ThreadProofs!vars = Thread!vars
    /\ ThreadProofs!Accounted <=> Thread!Accounted
    /\ GaveUp <=> \/ ThreadProofs!Broken
                  \/ ThreadProofs!TooLong
                  \/ ThreadProofs!TooLate
<1>1. ThreadProofs!Init <=> Thread!Init
  BY DEF ThreadProofs!Init, ThreadProofs!ClosedBag, Thread!Init,
         Thread!ClosedBag
<1>2. ThreadProofs!vars = Thread!vars
  BY DEF ThreadProofs!vars, ThreadProofs!config, ThreadProofs!disk,
         ThreadProofs!history, Thread!vars, Thread!config, Thread!disk,
         Thread!history
<1>3. ThreadProofs!Accounted <=> Thread!Accounted
  BY DEF ThreadProofs!Accounted, ThreadProofs!InOnePlace,
         ThreadProofs!TornIsLast, ThreadProofs!RecordsOf, ThreadProofs!Through,
         Thread!Accounted, Thread!InOnePlace, Thread!TornIsLast,
         Thread!RecordsOf, Thread!Through
<1>4. GaveUp <=> \/ ThreadProofs!Broken
                \/ ThreadProofs!TooLong
                \/ ThreadProofs!TooLate
  BY DEF GaveUp, ThreadProofs!Broken, ThreadProofs!TooLong,
         ThreadProofs!TooLate, ThreadProofs!SizeAsked, Thread!SizeAsked
<1> QED
  BY <1>1, <1>2, <1>3, <1>4

LEMMA SameOpening ==
    /\ Thread!Open <=> ThreadProofs!Open
    /\ Thread!SplitReopen <=> ThreadProofs!SplitReopen
    /\ Thread!CheckSpace <=> ThreadProofs!CheckSpace
<1>1. Thread!StartWriting <=> ThreadProofs!StartWriting
  BY DEF Thread!StartWriting, Thread!NewFile, Thread!OpenBag,
         Thread!BrokenBag, ThreadProofs!StartWriting, ThreadProofs!NewFile,
         ThreadProofs!OpenBag, ThreadProofs!BrokenBag
<1>2. \A ok : Thread!CheckDisk(ok) <=> ThreadProofs!CheckDisk(ok)
  BY DEF Thread!CheckDisk, ThreadProofs!CheckDisk
<1> QED
  BY <1>1, <1>2
     DEF Thread!Open, Thread!SplitReopen, Thread!CheckSpace, Thread!config,
         Thread!disk, Thread!history,
         ThreadProofs!Open, ThreadProofs!SplitReopen, ThreadProofs!CheckSpace,
         ThreadProofs!config, ThreadProofs!disk, ThreadProofs!history

LEMMA SameDoWrite == Thread!DoWrite <=> ThreadProofs!DoWrite
<1> USE DEF Thread!Current, ThreadProofs!Current, Thread!config, Thread!disk,
            Thread!history, ThreadProofs!config, ThreadProofs!disk,
            ThreadProofs!history
<1>1. Thread!CloseBag <=> ThreadProofs!CloseBag
  BY DEF Thread!CloseBag, Thread!ClosedBag, ThreadProofs!CloseBag,
         ThreadProofs!ClosedBag
<1>2. Thread!CheckSize <=> ThreadProofs!CheckSize
  BY DEF Thread!CheckSize, Thread!SizeExceeded, Thread!GetSize,
         Thread!FileSize, Thread!AsULong, Thread!AsInt,
         ThreadProofs!CheckSize, ThreadProofs!SizeExceeded,
         ThreadProofs!GetSize, ThreadProofs!FileSize, ThreadProofs!AsULong,
         ThreadProofs!AsInt
<1>3. Thread!CheckDuration <=> ThreadProofs!CheckDuration
  BY DEF Thread!CheckDuration, Thread!DurationExceeded, Thread!Message,
         ThreadProofs!CheckDuration, ThreadProofs!DurationExceeded,
         ThreadProofs!Message
<1>4. Thread!SplitClose <=> ThreadProofs!SplitClose
  BY <1>1 DEF Thread!SplitClose, ThreadProofs!SplitClose
<1>5. Thread!SplitRename <=> ThreadProofs!SplitRename
  BY DEF Thread!SplitRename, Thread!RenameToTarget, ThreadProofs!SplitRename,
         ThreadProofs!RenameToTarget
<1>6. Thread!SplitPrune <=> ThreadProofs!SplitPrune
  BY DEF Thread!SplitPrune, Thread!CheckNumSplits, Thread!Unlink,
         ThreadProofs!SplitPrune, ThreadProofs!CheckNumSplits,
         ThreadProofs!Unlink
<1>7. /\ Thread!WriteBegin <=> ThreadProofs!WriteBegin
      /\ Thread!WriteEnd <=> ThreadProofs!WriteEnd
      /\ Thread!WriteFail <=> ThreadProofs!WriteFail
  BY DEF Thread!WriteBegin, Thread!WriteEnd, Thread!WriteFail,
         ThreadProofs!WriteBegin, ThreadProofs!WriteEnd,
         ThreadProofs!WriteFail
<1> QED
  BY <1>2, <1>3, <1>4, <1>5, <1>6, <1>7, SameOpening
     DEF Thread!DoWrite, ThreadProofs!DoWrite

LEMMA SameThreadSteps ==
    /\ Thread!Loop <=> ThreadProofs!Loop
    /\ Thread!Taken <=> ThreadProofs!Taken
    /\ Thread!ListDone <=> ThreadProofs!ListDone
    /\ Thread!Abandon <=> ThreadProofs!Abandon
    /\ \A m : Thread!NextMsg(m) <=> ThreadProofs!NextMsg(m)
    /\ Thread!StopFlag <=> ThreadProofs!StopFlag
    /\ Thread!StopClose <=> ThreadProofs!StopClose
    /\ Thread!StopRename <=> ThreadProofs!StopRename
    /\ Thread!Tick <=> ThreadProofs!Tick
<1> USE DEF Thread!Current, ThreadProofs!Current, Thread!config, Thread!disk,
            Thread!history, ThreadProofs!config, ThreadProofs!disk,
            ThreadProofs!history
<1>1. /\ Thread!Loop <=> ThreadProofs!Loop
      /\ Thread!Taken <=> ThreadProofs!Taken
      /\ Thread!ListDone <=> ThreadProofs!ListDone
      /\ Thread!Abandon <=> ThreadProofs!Abandon
  BY DEF Thread!Loop, Thread!Taken, Thread!ListDone, Thread!Abandon,
         ThreadProofs!Loop, ThreadProofs!Taken, ThreadProofs!ListDone,
         ThreadProofs!Abandon
<1>2. \A m : Thread!NextMsg(m) <=> ThreadProofs!NextMsg(m)
  BY DEF Thread!NextMsg, ThreadProofs!NextMsg
<1>3. /\ Thread!StopFlag <=> ThreadProofs!StopFlag
      /\ Thread!Tick <=> ThreadProofs!Tick
  BY DEF Thread!StopFlag, Thread!Tick, ThreadProofs!StopFlag,
         ThreadProofs!Tick
<1>4. Thread!StopClose <=> ThreadProofs!StopClose
  BY DEF Thread!StopClose, Thread!CloseBag, Thread!ClosedBag,
         ThreadProofs!StopClose, ThreadProofs!CloseBag, ThreadProofs!ClosedBag
<1>5. Thread!StopRename <=> ThreadProofs!StopRename
  BY DEF Thread!StopRename, Thread!RenameToTarget, ThreadProofs!StopRename,
         ThreadProofs!RenameToTarget
<1> QED
  BY <1>1, <1>2, <1>3, <1>4, <1>5

LEMMA SameThreadNext == ThreadProofs!Next <=> Thread!Next
<1>1. ThreadProofs!SomeMsg <=> Thread!SomeMsg
  BY SameThreadSteps DEF ThreadProofs!SomeMsg, Thread!SomeMsg
<1>2. ThreadProofs!Finished <=> Thread!Finished
  BY DEF ThreadProofs!Finished, ThreadProofs!vars, ThreadProofs!config,
         ThreadProofs!disk, ThreadProofs!history, Thread!Finished,
         Thread!vars, Thread!config, Thread!disk, Thread!history
<1> QED
  BY <1>1, <1>2, SameThreadSteps, SameDoWrite, SameOpening
     DEF ThreadProofs!Next, Thread!Next

-----------------------------------------------------------------------------
(* Sequences of messages *)

LEMMA UpTo ==
    ASSUME NEW k \in Nat
    PROVE  IsFiniteSet(1..k) /\ Cardinality(1..k) = k
<1>1. 1 \in Int /\ k \in Int
  OBVIOUS
<1>2. /\ IsFiniteSet(1..k)
      /\ Cardinality(1..k) = IF 1 > k THEN 0 ELSE k - 1 + 1
  BY <1>1, FS_Interval, Zenon
<1> QED
  BY <1>2

LEMMA FromFinite ==
    ASSUME NEW seq \in Seq(OutgoingMessage), NEW s
    PROVE  /\ IsFiniteSet(From(seq, s))
           /\ Cardinality(From(seq, s)) \in Nat
<1>1. Len(seq) \in Nat
  BY LenProperties
<1>2. IsFiniteSet(1..Len(seq))
  BY <1>1, UpTo
<1>3. IsFiniteSet(From(seq, s))
  BY <1>2, FS_Subset DEF From
<1> QED
  BY <1>3, FS_CardinalityType

LEMMA PlaceFinite ==
    ASSUME NEW seq \in Seq(OutgoingMessage), NEW i, NEW s
    PROVE  /\ IsFiniteSet({j \in From(seq, s) : j <= i})
           /\ Cardinality({j \in From(seq, s) : j <= i}) \in Nat
           /\ Cardinality({j \in From(seq, s) : j <= i})
                  <= Cardinality(From(seq, s))
<1>1. IsFiniteSet(From(seq, s))
  BY FromFinite
<1>2. {j \in From(seq, s) : j <= i} \in SUBSET From(seq, s)
  OBVIOUS
<1> QED
  BY <1>1, <1>2, FS_Subset, FS_CardinalityType

LEMMA AppendFrom ==
    ASSUME NEW seq \in Seq(OutgoingMessage), NEW m \in OutgoingMessage,
           NEW s
    PROVE  /\ From(Append(seq, m), s) =
                  IF m.from = s THEN From(seq, s) \union {Len(seq) + 1}
                  ELSE From(seq, s)
           /\ Cardinality(From(Append(seq, m), s)) =
                  IF m.from = s THEN Cardinality(From(seq, s)) + 1
                  ELSE Cardinality(From(seq, s))
<1>1. /\ Len(seq) \in Nat /\ Len(Append(seq, m)) = Len(seq) + 1
      /\ \A i \in 1..Len(seq) : Append(seq, m)[i] = seq[i]
      /\ Append(seq, m)[Len(seq) + 1] = m
  BY AppendProperties, LenProperties
<1>2. From(Append(seq, m), s) =
         IF m.from = s THEN From(seq, s) \union {Len(seq) + 1}
         ELSE From(seq, s)
  BY <1>1 DEF From
<1>3. Len(seq) + 1 \notin From(seq, s)
  BY <1>1 DEF From
<1> QED
  BY <1>2, <1>3, FromFinite, FS_AddElement

\* A message with the next number keeps a sequence numbered.
LEMMA AppendNumbered ==
    ASSUME NEW seq \in Seq(OutgoingMessage), NEW m \in OutgoingMessage,
           Numbered(seq), m.n = Cardinality(From(seq, m.from)) + 1
    PROVE  Numbered(Append(seq, m))
<1> DEFINE new == Append(seq, m)
<1>1. /\ Len(seq) \in Nat /\ Len(new) = Len(seq) + 1
      /\ \A i \in 1..Len(seq) : new[i] = seq[i]
      /\ new[Len(seq) + 1] = m
  BY AppendProperties, LenProperties
<1> HIDE DEF new
<1>2. \A s : From(new, s) = IF m.from = s
                            THEN From(seq, s) \union {Len(seq) + 1}
                            ELSE From(seq, s)
  BY AppendFrom DEF new
<1>3. ASSUME NEW i \in 1..Len(seq)
      PROVE  new[i].n = Cardinality({j \in From(new, new[i].from) : j <= i})
  <2>1. {j \in From(new, new[i].from) : j <= i}
          = {j \in From(seq, seq[i].from) : j <= i}
    BY <1>1, <1>2
  <2> QED
    BY <1>1, <2>1 DEF Numbered
<1>4. m.n = Cardinality({j \in From(new, m.from) : j <= Len(seq) + 1})
  <2>1. From(new, m.from) \subseteq 1..(Len(seq) + 1)
    BY <1>1 DEF From
  <2>2. {j \in From(new, m.from) : j <= Len(seq) + 1} = From(new, m.from)
    BY <1>1, <2>1
  <2> QED
    BY <2>2, AppendFrom DEF new
<1>5. \A i \in 1..Len(new) : i \in 1..Len(seq) \/ i = Len(seq) + 1
  BY <1>1
<1>6. Numbered(new)
  BY <1>1, <1>3, <1>4, <1>5 DEF Numbered
<1> QED
  BY <1>6 DEF new

\* What begins a numbered sequence is numbered.
LEMMA PrefixNumbered ==
    ASSUME NEW seq \in Seq(OutgoingMessage), NEW pre \in Seq(OutgoingMessage),
           Len(pre) <= Len(seq), \A i \in 1..Len(pre) : pre[i] = seq[i],
           Numbered(seq)
    PROVE  Numbered(pre)
<1>1. Len(pre) \in Nat /\ Len(seq) \in Nat
  BY LenProperties
<1>2. ASSUME NEW i \in 1..Len(pre)
      PROVE  pre[i].n = Cardinality({j \in From(pre, pre[i].from) : j <= i})
  <2>1. {j \in From(pre, pre[i].from) : j <= i}
          = {j \in From(seq, seq[i].from) : j <= i}
    BY <1>1 DEF From
  <2> QED
    BY <1>1, <2>1 DEF Numbered
<1> QED
  BY <1>2 DEF Numbered

\* No two messages of a numbered sequence have both subscriber and number in
\* common.
LEMMA NoRepetition ==
    ASSUME NEW seq \in Seq(OutgoingMessage), Numbered(seq),
           NEW i \in 1..Len(seq), NEW j \in 1..Len(seq), i < j,
           seq[i].from = seq[j].from
    PROVE  seq[i].n # seq[j].n
<1> DEFINE s == seq[j].from
           S(k) == {x \in From(seq, s) : x <= k}
<1>1. Len(seq) \in Nat
  BY LenProperties
<1>2. S(i) \subseteq S(j) /\ j \in S(j) /\ j \notin S(i)
  BY <1>1 DEF From
<1>3. IsFiniteSet(S(j)) /\ Cardinality(S(i)) # Cardinality(S(j))
  BY <1>2, PlaceFinite, FS_Subset
<1>4. seq[i].n = Cardinality(S(i)) /\ seq[j].n = Cardinality(S(j))
  BY DEF Numbered
<1> QED
  BY <1>3, <1>4

\* There are no more messages than the subscribers may receive, and fewer
\* while one of them has another to send.
LEMMA StreamShort ==
    ASSUME NEW seq \in Seq(OutgoingMessage), Numbered(seq)
    PROVE  /\ Len(seq) \in Nat /\ AllMsgs \in Nat /\ Len(seq) <= AllMsgs
           /\ \A s \in Subscribers :
                 Cardinality(From(seq, s)) < MsgsPerSub => Len(seq) < AllMsgs
<1> DEFINE N == Len(seq)
           Pairs == Subscribers \X (1..MsgsPerSub)
           label == [i \in 1..N |-> <<seq[i].from, seq[i].n>>]
<1>1. N \in Nat
  BY LenProperties
<1>2. IsFiniteSet(1..N) /\ Cardinality(1..N) = N
  BY <1>1, UpTo
<1>3. IsFiniteSet(Pairs) /\ Cardinality(Pairs) = AllMsgs /\ AllMsgs \in Nat
  <2>1. IsFiniteSet(1..MsgsPerSub) /\ Cardinality(1..MsgsPerSub) = MsgsPerSub
    BY RecorderAssumption, UpTo
  <2> QED
    BY <2>1, RecorderAssumption, FS_Product, FS_CardinalityType DEF AllMsgs
<1>4. \A i \in 1..N : seq[i] \in OutgoingMessage
  BY <1>1, ElementOfSeq
<1>5. \A i \in 1..N : label[i] \in Pairs
  BY <1>4 DEF OutgoingMessage
<1>6. \A i, j \in 1..N : label[i] = label[j] => i = j
  BY <1>1, NoRepetition
<1>7. N <= AllMsgs
  <2>1. label \in Injection(1..N, Pairs)
    BY <1>5, <1>6 DEF Injection, IsInjective
  <2> HIDE DEF label, Pairs, N
  <2> QED
    BY <1>2, <1>3, <2>1, FS_Injection
<1>8. ASSUME NEW s \in Subscribers, Cardinality(From(seq, s)) < MsgsPerSub
      PROVE  N < AllMsgs
  <2> DEFINE free == <<s, MsgsPerSub>>
  <2>1. ASSUME NEW i \in 1..N, seq[i].from = s
        PROVE  seq[i].n # MsgsPerSub
    <3> DEFINE place == Cardinality({j \in From(seq, s) : j <= i})
    <3>1. seq[i].n = place
      BY <2>1 DEF Numbered
    <3>2. /\ place \in Nat /\ place <= Cardinality(From(seq, s))
          /\ Cardinality(From(seq, s)) \in Nat
      BY PlaceFinite, FromFinite
    <3> HIDE DEF place
    <3> QED
      BY <1>8, <3>1, <3>2, RecorderAssumption
  <2>2. \A i \in 1..N : label[i] \in Pairs \ {free}
    BY <1>5, <2>1
  <2>3. label \in Injection(1..N, Pairs \ {free})
    BY <1>6, <2>2 DEF Injection, IsInjective
  <2>4. free \in Pairs
    BY <1>8, FromFinite, RecorderAssumption
  <2> HIDE DEF label, Pairs, N, free
  <2>5. /\ IsFiniteSet(Pairs \ {free})
        /\ Cardinality(Pairs \ {free}) = AllMsgs - 1
    BY <1>3, <2>4, FS_RemoveElement
  <2>6. N <= AllMsgs - 1
    BY <1>2, <2>3, <2>5, FS_Injection
  <2> QED
    BY <1>1, <1>3, <2>6
<1> QED
  BY <1>1, <1>3, <1>7, <1>8

-----------------------------------------------------------------------------
(* The steps of the process *)

LEMMA StepCases ==
    ASSUME [Next]_vars
    PROVE  \/ proc = "up" /\ \E s \in Subscribers :
                                \/ Receive(s) \/ CheckRunning(s) \/ Put(s)
           \/ proc = "up" /\ RecordStep
           \/ proc = "up" /\ MainStep
           \/ proc = "up" /\ HandlerStep
           \/ proc = "up" /\ (Signal \/ Tick \/ Wakeup)
           \/ UNCHANGED vars
BY DEF Next, Running, Stay

\* What DoWrite and the first opening of a file do not do.
LEMMA WriteSteps ==
    ASSUME Thread!Open \/ Thread!DoWrite
    PROVE  /\ UNCHANGED <<options_, clock, handled>>
           /\ ~running_ => ~running_'
           /\ pc' # pc
           /\ pc \notin {"take", "next", "done", "closed", "finished"}
           /\ pc' \notin {"take", "done", "closed", "finished"}
<1> USE DEF Thread!config, Thread!disk, Thread!history
<1>1. CASE Thread!Open \/ Thread!SplitReopen
  BY <1>1 DEF Thread!Open, Thread!SplitReopen, Thread!StartWriting
<1>2. CASE Thread!CheckSize \/ Thread!CheckDuration
  BY <1>2 DEF Thread!CheckSize, Thread!CheckDuration
<1>3. CASE Thread!SplitClose \/ Thread!SplitRename \/ Thread!SplitPrune
  BY <1>3 DEF Thread!SplitClose, Thread!SplitRename, Thread!SplitPrune
<1>4. CASE Thread!CheckSpace
  BY <1>4 DEF Thread!CheckSpace
<1>5. CASE Thread!WriteBegin \/ Thread!WriteEnd \/ Thread!WriteFail
  BY <1>5 DEF Thread!WriteBegin, Thread!WriteEnd, Thread!WriteFail
<1> QED
  BY <1>1, <1>2, <1>3, <1>4, <1>5 DEF Thread!DoWrite

\* What the steps of the record thread do not do.
LEMMA RecordSteps ==
    ASSUME RecordStep
    PROVE  /\ UNCHANGED <<subs, control, options_, clock, need_stop_, putting,
                          stop_pc>>
           /\ ~running_ => ~running_'
           /\ pc \notin {"done", "closed", "finished"}
           /\ pc' \notin {"closed", "finished"}
           /\ running_' # running_ => Thread!Open \/ Thread!DoWrite
<1>1. UNCHANGED <<subs, control>>
  BY DEF RecordStep
<1> USE DEF Thread!config, Thread!disk, Thread!history
<1>2. CASE RecordLoop
  BY <1>1, <1>2 DEF RecordLoop, Thread!Loop, Queue!TakeCall, queueVars
<1>3. CASE RecordTake
  <2>1. UNCHANGED <<need_stop_, putting, stop_pc>> /\ pc = "take"
    BY <1>3 DEF RecordTake, Queue!Take, Queue!TakeBlock, Queue!TakeStopped,
                Queue!TakeAll
  <2>2. UNCHANGED threadVars \/ Thread!Taken
    BY <1>3 DEF RecordTake
  <2> QED
    BY <1>1, <2>1, <2>2 DEF threadVars, Thread!Taken
<1>4. CASE RecordNext
  <2>1. /\ UNCHANGED queueVars
        /\ \/ Thread!ListDone \/ Thread!Abandon
           \/ Thread!NextMsg(Head(Remaining))
    BY <1>4 DEF RecordNext
  <2> QED
    BY <1>1, <2>1
       DEF queueVars, Thread!ListDone, Thread!Abandon, Thread!NextMsg
<1>5. CASE (Thread!Open \/ Thread!DoWrite) /\ UNCHANGED queueVars
  BY <1>1, <1>5, WriteSteps DEF queueVars
<1> QED
  BY <1>2, <1>3, <1>4, <1>5 DEF RecordStep

\* Only these steps accept a message: what was accepted stays, in its order.
LEMMA StreamSteps ==
    ASSUME Queue!TypeOK, [Next]_vars
    PROVE  /\ Stream \in Seq(OutgoingMessage)
           /\ \/ Stream' = Stream
              \/ \E s \in Subscribers : Put(s) /\ Queue!AddPush(s)
           /\ \A s \in Subscribers :
                 Put(s) /\ Queue!AddPush(s) =>
                    /\ putting[s] \in OutgoingMessage
                    /\ Stream' = Append(Stream, putting[s])
<1>1. /\ delivered \in Seq(OutgoingMessage)
      /\ queue_ \in Seq(OutgoingMessage)
      /\ Stream \in Seq(OutgoingMessage)
  BY ConcatProperties DEF Queue!TypeOK, Stream
<1>2. ASSUME UNCHANGED <<queue_, delivered>>
      PROVE  Stream' = Stream
  BY <1>2 DEF Stream
<1>3. ASSUME NEW s \in Subscribers, Receive(s) \/ CheckRunning(s)
      PROVE  Stream' = Stream
  BY <1>2, <1>3 DEF Receive, CheckRunning, Queue!PutCall, queueVars
<1>4. ASSUME NEW s \in Subscribers, Put(s)
      PROVE  Stream' = Stream \/ Queue!AddPush(s)
  BY <1>2, <1>4 DEF Put, Queue!Add, Queue!AddBlock, Queue!AddStopped
<1>10. ASSUME NEW s \in Subscribers, Put(s), Queue!AddPush(s)
       PROVE  /\ putting[s] \in OutgoingMessage
              /\ Stream' = Append(Stream, putting[s])
  <2> DEFINE x == putting[s]
  <2>1. x \in OutgoingMessage
    BY <1>10 DEF Put, Queue!Add, Queue!TypeOK
  <2>2. Append(queue_, x) = queue_ \o <<x>> /\ <<x>> \in Seq(OutgoingMessage)
    BY <1>1, <2>1, AppendIsConcat
  <2>3. delivered \o (queue_ \o <<x>>) = Stream \o <<x>>
    BY <1>1, <2>2, ConcatAssociative DEF Stream
  <2>4. Stream \o <<x>> = Append(Stream, x)
    BY <1>1, <2>1, AppendIsConcat
  <2>5. Stream' = delivered \o Append(queue_, x)
    BY <1>10 DEF Queue!AddPush, Stream
  <2> QED
    BY <2>1, <2>2, <2>3, <2>4, <2>5
<1>5. ASSUME RecordStep
      PROVE  Stream' = Stream
  <2>1. CASE Queue!TakeAll(RecordThreadId)
    BY <1>1, <2>1, ConcatEmptySeq DEF Queue!TakeAll, Stream
  <2>2. CASE ~Queue!TakeAll(RecordThreadId)
    BY <1>1, <1>2, <1>5, <2>2
       DEF RecordStep, RecordLoop, Queue!TakeCall, RecordTake, Queue!Take,
           Queue!TakeBlock, Queue!TakeStopped, RecordNext, queueVars
  <2> QED
    BY <2>1, <2>2
<1>6. ASSUME MainStep \/ Signal \/ Tick
      PROVE  Stream' = Stream
  BY <1>1, <1>2, <1>6 DEF MainStep, Signal, Tick, queueVars
<1>7. ASSUME Wakeup
      PROVE  Stream' = Stream
  BY <1>1, <1>2, <1>7 DEF Wakeup, Queue!SpuriousWake
<1>8. ASSUME HandlerStep
      PROVE  Stream' = Stream
  <2>1. UNCHANGED <<queue_, delivered>>
    BY <1>8 DEF HandlerStep, ClearRunning, StopQueue, Queue!StopSet,
                NotifyQueue, Queue!StopNotify, Queue!StopNotifyFull,
                Queue!StopNotifyEmpty, JoinBegin, JoinEnd, StopWritingClose,
                StopWritingRename, queueVars
  <2> QED
    BY <1>1, <1>2, <2>1
<1>9. ASSUME UNCHANGED vars
      PROVE  Stream' = Stream
  BY <1>1, <1>2, <1>9 DEF vars, queueVars
<1> QED
  BY <1>1, <1>3, <1>4, <1>5, <1>6, <1>7, <1>8, <1>9, <1>10, StepCases

-----------------------------------------------------------------------------
(* The parts are used as they are specified *)

\* What a subscriber is about to put is not the last message there is room for.
LEMMA RoomForOneMore ==
    ASSUME Queue!TypeOK, TypeOK, Flow, InOrder, NEW s \in Subscribers, InHand(s)
    PROVE  Len(Stream) \in Nat /\ Len(Stream) < AllMsgs
<1>1. Stream \in Seq(OutgoingMessage)
  BY ConcatProperties DEF Queue!TypeOK, Stream
<1>2. /\ Cardinality(From(Stream, s)) \in Nat
      /\ Cardinality(From(Stream, s)) <= received[s] - 1
      /\ received[s] \in 0..MsgsPerSub
  BY <1>1, FromFinite DEF Flow, Before, SentBy, TypeOK
<1>3. Cardinality(From(Stream, s)) < MsgsPerSub
  BY <1>2, RecorderAssumption
<1> QED
  BY <1>1, <1>3, StreamShort DEF InOrder

LEMMA QueueSimulation ==
    ASSUME IInv, [Next]_vars
    PROVE  [Queue!Next]_(Queue!vars)
<1> USE DEF IInv
<1>1. ASSUME UNCHANGED queueVars
      PROVE  UNCHANGED Queue!vars
  BY <1>1 DEF queueVars, Queue!vars
<1>2. ASSUME NEW s \in Subscribers, Receive(s)
      PROVE  UNCHANGED Queue!vars
  BY <1>1, <1>2 DEF Receive
<1>3. ASSUME NEW s \in Subscribers, CheckRunning(s)
      PROVE  [Queue!Next]_(Queue!vars)
  <2>1. CASE Queue!PutCall(s, om[s])
    <3>1. om[s] \in OutgoingMessage /\ InHand(s)
      BY <1>3 DEF CheckRunning, InHand, TypeOK
    <3>2. Len(delivered) + Len(queue_) < AllMsgs
      BY <3>1, RoomForOneMore, ConcatProperties DEF Stream, Queue!TypeOK
    <3> QED
      BY <2>1, <3>1, <3>2 DEF Queue!Produce, Queue!Next
  <2> QED
    BY <1>1, <1>3, <2>1 DEF CheckRunning
<1>4. ASSUME NEW s \in Subscribers, Put(s)
      PROVE  Queue!Next
  BY <1>4 DEF Put, Queue!Next
<1>5. CASE RecordStep
  BY <1>1, <1>5
     DEF RecordStep, RecordLoop, RecordTake, RecordNext, Queue!Next
<1>6. CASE MainStep \/ Signal \/ Tick
  BY <1>1, <1>6 DEF MainStep, Signal, Tick
<1>7. CASE Wakeup
  BY <1>7 DEF Wakeup, Queue!Next
<1>8. CASE HandlerStep
  <2>1. frames # <<>> => Depth \in 1..HandlerDepth
    <3>1. /\ frames \in Seq(HandlerPC) /\ Depth \in Nat
          /\ Depth <= HandlerDepth
      BY LenProperties DEF TypeOK, Depth
    <3>2. frames # <<>> => Depth # 0
      BY <3>1, EmptySeq DEF Depth
    <3> QED
      BY <3>1, <3>2 DEF HandlerDepth
  <2>2. CASE StopQueue \/ NotifyQueue
    BY <2>1, <2>2 DEF StopQueue, NotifyQueue, At, Queue!Next
  <2>3. CASE ~StopQueue /\ ~NotifyQueue
    BY <1>1, <1>8, <2>3 DEF HandlerStep, ClearRunning, JoinBegin, JoinEnd,
                            StopWritingClose, StopWritingRename
  <2> QED
    BY <2>2, <2>3
<1>9. CASE UNCHANGED vars
  BY <1>1, <1>9 DEF vars
<1> QED
  BY <1>2, <1>3, <1>4, <1>5, <1>6, <1>7, <1>8, <1>9, StepCases

\* What the record thread looks at next was put by now, and is not counted yet.
LEMMA NextRemaining ==
    ASSUME Queue!TypeOK, TakerInStep, InOrder, Stamped,
           Len(handled) \in Nat, Remaining # <<>>
    PROVE  /\ Len(handled) + 1 \in 1..Len(delivered)
           /\ Head(Remaining) = delivered[Len(handled) + 1]
           /\ Head(Remaining) \in OutgoingMessage
           /\ Head(Remaining).time <= clock
           /\ Len(handled) < AllMsgs
<1>1. /\ Len(handled) \in Nat /\ Len(delivered) \in Nat
      /\ Len(handled) <= Len(delivered)
      /\ Len(queue_) \in Nat /\ Stream \in Seq(OutgoingMessage)
      /\ delivered \in Seq(OutgoingMessage)
  BY LenProperties, ConcatProperties DEF Queue!TypeOK, TakerInStep, Stream
<1>2. Len(handled) < Len(delivered)
  BY <1>1 DEF Remaining
<1>3. Head(Remaining) = delivered[Len(handled) + 1]
  BY <1>1, <1>2 DEF Remaining
<1>4. /\ Len(Stream) = Len(delivered) + Len(queue_)
      /\ Stream[Len(handled) + 1] = delivered[Len(handled) + 1]
  BY <1>1, <1>2, ConcatProperties DEF Stream, Queue!TypeOK
<1>5. Len(Stream) <= AllMsgs /\ AllMsgs \in Nat
  BY <1>1, StreamShort DEF InOrder
<1> QED
  BY <1>1, <1>2, <1>3, <1>4, <1>5, ElementOfSeq DEF Stamped

LEMMA ThreadSimulation ==
    ASSUME IInv, [Next]_vars
    PROVE  [Thread!Next]_(Thread!vars)
<1> USE DEF IInv
<1>1. ASSUME UNCHANGED threadVars
      PROVE  UNCHANGED Thread!vars
  BY <1>1 DEF threadVars, Thread!vars, Thread!config, Thread!disk,
              Thread!history
<1>2. ASSUME NEW s \in Subscribers, Receive(s) \/ CheckRunning(s) \/ Put(s)
      PROVE  UNCHANGED Thread!vars
  BY <1>1, <1>2 DEF Receive, CheckRunning, Put
<1>3. CASE RecordStep
  <2>1. CASE RecordNext
    <3>1. CASE Remaining # <<>> /\ Thread!NextMsg(Head(Remaining))
      <4>1. Len(handled) \in Nat
        BY LenProperties DEF ThreadProofs!IInv, ThreadProofs!TypeOK
      <4> QED
        BY <3>1, <4>1, NextRemaining DEF Thread!SomeMsg, Thread!Next
    <3> QED
      BY <2>1, <3>1 DEF RecordNext, Thread!Next
  <2>2. CASE RecordLoop \/ RecordTake
    BY <1>1, <2>2 DEF RecordLoop, RecordTake, Thread!Next
  <2> QED
    BY <1>3, <2>1, <2>2 DEF RecordStep, Thread!Next
<1>4. CASE MainStep \/ Signal \/ Wakeup
  BY <1>1, <1>4 DEF MainStep, Signal, Wakeup
<1>5. CASE Tick
  BY <1>5 DEF Tick, Thread!Next
<1>6. CASE HandlerStep
  BY <1>1, <1>6
     DEF HandlerStep, ClearRunning, StopQueue, NotifyQueue, JoinBegin,
         JoinEnd, StopWritingClose, StopWritingRename, Thread!Next
<1>7. CASE UNCHANGED vars
  BY <1>1, <1>7 DEF vars
<1> QED
  BY <1>2, <1>3, <1>4, <1>5, <1>6, <1>7, StepCases

\* What is proved of the parts holds of them here.
LEMMA PartsInductive ==
    ASSUME IInv, [Next]_vars
    PROVE  /\ Queue!TypeOK' /\ Queue!StopLeavesNobodyAsleep'
           /\ ThreadProofs!IInv' /\ ThreadProofs!Healthy'
<1>1. [QueueProofs!Next]_(QueueProofs!vars)
  BY QueueSimulation, SameQueueSteps DEF Queue!vars, QueueProofs!vars
<1>2. [ThreadProofs!Next]_(ThreadProofs!vars)
  BY ThreadSimulation, SameThreadNext
     DEF Thread!vars, Thread!config, Thread!disk, Thread!history,
         ThreadProofs!vars, ThreadProofs!config, ThreadProofs!disk,
         ThreadProofs!history
<1>3. QueueProofs!TypeOK /\ QueueProofs!StopLeavesNobodyAsleep
  BY SameQueue DEF IInv
<1>4. QueueProofs!TypeOK' /\ QueueProofs!StopLeavesNobodyAsleep'
  BY <1>1, <1>3, QueueFacts, QueueProofs!TypeInductive,
     QueueProofs!StopInductive
<1>5. Queue!TypeOK' /\ Queue!StopLeavesNobodyAsleep'
  BY <1>4, SameQueue, PTL
<1>6. ThreadProofs!IInv'
  BY <1>2, ThreadFacts, ThreadProofs!InvInductive DEF IInv
<1>7. ThreadProofs!Healthy'
  BY <1>2, ThreadFacts, ThreadProofs!HealthyInductive
     DEF IInv, ThreadProofs!IInv
<1> QED
  BY <1>5, <1>6, <1>7

-----------------------------------------------------------------------------
(* What never goes back, and who clears running_ *)

LEMMA GaveUpKept ==
    ASSUME IInv, [Next]_vars, GaveUp
    PROVE  GaveUp'
<1>1. [ThreadProofs!Next]_(ThreadProofs!vars)
  BY ThreadSimulation, SameThreadNext
     DEF Thread!vars, Thread!config, Thread!disk, Thread!history,
         ThreadProofs!vars, ThreadProofs!config, ThreadProofs!disk,
         ThreadProofs!history
<1>2. \/ ThreadProofs!Broken'
      \/ ThreadProofs!TooLong' \/ ThreadProofs!TooLate'
  <2>1. CASE ThreadProofs!Broken
    BY <1>1, <2>1, ThreadFacts, ThreadProofs!BrokenKept
       DEF IInv, ThreadProofs!IInv
  <2>2. CASE ThreadProofs!TooLong \/ ThreadProofs!TooLate
    BY <1>1, <2>2, ThreadFacts, ThreadProofs!LimitsCrossedKept
       DEF IInv, ThreadProofs!IInv
  <2> QED
    BY <2>1, <2>2, SameThread
<1> QED
  BY <1>2, SameThread, PTL

\* Only a signal, a failure or a limit makes the flag go, and nothing sets it.
LEMMA RunningSteps ==
    ASSUME IInv, [Next]_vars
    PROVE  /\ ~running_ => ~running_'
           /\ running_ /\ ~running_' => ClearRunning \/ GaveUp'
<1>1. ~running_' /\ running_ => \/ ClearRunning
                                \/ RecordStep /\ (Thread!Open \/ Thread!DoWrite)
  BY StepCases, RecordSteps
     DEF Receive, CheckRunning, Put, MainStep, HandlerStep, ClearRunning,
         Thread!StopFlag, StopQueue, NotifyQueue, JoinBegin, JoinEnd,
         StopWritingClose, Thread!StopClose, StopWritingRename,
         Thread!StopRename, Signal, Tick, Thread!Tick, Wakeup, vars,
         threadVars
<1>2. ~running_ => ~running_'
  BY StepCases, RecordSteps
     DEF Receive, CheckRunning, Put, MainStep, HandlerStep, ClearRunning,
         Thread!StopFlag, StopQueue, NotifyQueue, JoinBegin, JoinEnd,
         StopWritingClose, Thread!StopClose, StopWritingRename,
         Thread!StopRename, Signal, Tick, Thread!Tick, Wakeup, vars,
         threadVars
<1>3. ASSUME running_, ~running_', Thread!Open \/ Thread!DoWrite
      PROVE  GaveUp'
  <2>1. [ThreadProofs!Next]_(ThreadProofs!vars)
    BY <1>3, SameOpening, SameDoWrite DEF ThreadProofs!Next
  <2>2. ~ThreadProofs!StopFlag
    BY <1>3, WriteSteps DEF ThreadProofs!StopFlag
  <2>3. \/ ThreadProofs!Broken'
        \/ ThreadProofs!TooLong' \/ ThreadProofs!TooLate'
    BY <1>3, <2>1, <2>2, ThreadFacts, ThreadProofs!ThreadStops
       DEF IInv, ThreadProofs!IInv
  <2> QED
    BY <2>3, SameThread, PTL
<1> QED
  BY <1>1, <1>2, <1>3

LEMMA NeedStopKept ==
    ASSUME IInv, [Next]_vars
    PROVE  /\ need_stop_ => need_stop_'
           /\ need_stop_ \in BOOLEAN /\ need_stop_' \in BOOLEAN
<1>1. need_stop_ => need_stop_'
  BY QueueSimulation
     DEF Queue!Next, Queue!Produce, Queue!PutCall, Queue!Add, Queue!AddBlock,
         Queue!AddStopped, Queue!AddPush, Queue!TakeCall, Queue!Take,
         Queue!TakeBlock, Queue!TakeStopped, Queue!TakeAll, Queue!StopSet,
         Queue!StopNotify, Queue!StopNotifyFull, Queue!StopNotifyEmpty,
         Queue!SpuriousWake, Queue!vars
<1> QED
  BY <1>1, PartsInductive DEF IInv, Queue!TypeOK

LEMMA ClockKept ==
    ASSUME IInv, [Next]_vars
    PROVE  /\ clock \in Nat /\ clock' \in Nat /\ clock <= clock'
           /\ clock' <= MaxTime
<1>1. clock \in Nat
  BY DEF IInv, ThreadProofs!IInv, ThreadProofs!TypeOK
<1>2. clock' = clock \/ (clock < MaxTime /\ clock' = clock + 1)
  BY StepCases, RecordSteps
     DEF Receive, CheckRunning, Put, MainStep, HandlerStep, ClearRunning,
         Thread!StopFlag, StopQueue, NotifyQueue, JoinBegin, JoinEnd,
         StopWritingClose, Thread!StopClose, StopWritingRename,
         Thread!StopRename, Signal, Tick, Thread!Tick, Wakeup, vars,
         threadVars, Thread!config
<1> QED
  BY <1>1, <1>2, RecorderAssumption DEF IInv, Stamped

-----------------------------------------------------------------------------
(* What the subscribers put *)

LEMMA SubscriberSteps ==
    ASSUME [Next]_vars
    PROVE  \/ UNCHANGED <<om, received, putting>>
           \/ \E s \in Subscribers : Receive(s) \/ CheckRunning(s) \/ Put(s)
BY StepCases, RecordSteps
   DEF subs, queueVars, vars, MainStep, Signal, Tick, Wakeup,
       Queue!SpuriousWake, HandlerStep, ClearRunning, StopQueue,
       Queue!StopSet, NotifyQueue, Queue!StopNotify, Queue!StopNotifyFull,
       Queue!StopNotifyEmpty, JoinBegin, JoinEnd, StopWritingClose,
       StopWritingRename

\* A message is queued with its subscriber's next number.
LEMMA PushedInOrder ==
    ASSUME Queue!TypeOK, TypeOK, Flow, NEW s \in Subscribers,
           Put(s), Queue!AddPush(s)
    PROVE  /\ putting[s].from = s
           /\ putting[s].n = Cardinality(SentBy(s)) + 1
<1>1. putting[s] # NoMsg /\ ~need_stop_
  BY DEF Put, Queue!Add, Queue!AddPush
<1>2. /\ putting[s].from = s /\ putting[s].n = received[s]
      /\ Cardinality(SentBy(s)) = received[s] - 1
      /\ received[s] \in Nat
  BY <1>1 DEF Flow, Before, InHand, TypeOK
<1> QED
  BY <1>2

LEMMA InOrderInductive ==
    ASSUME IInv, [Next]_vars
    PROVE  InOrder'
<1> USE DEF IInv
<1>1. CASE Stream' = Stream
  BY <1>1 DEF InOrder, Numbered, From
<1>2. ASSUME NEW s \in Subscribers, Put(s), Queue!AddPush(s)
      PROVE  InOrder'
  <2>1. /\ Stream \in Seq(OutgoingMessage)
        /\ putting[s] \in OutgoingMessage
        /\ Stream' = Append(Stream, putting[s])
    BY <1>2, StreamSteps
  <2>2. /\ putting[s].from = s
        /\ putting[s].n = Cardinality(From(Stream, s)) + 1
    BY <1>2, PushedInOrder DEF SentBy
  <2>3. Numbered(Append(Stream, putting[s]))
    BY <2>1, <2>2, AppendNumbered DEF InOrder
  <2>4. Numbered(Stream')
    BY <2>1, <2>3
  <2> QED
    BY <2>4 DEF InOrder
<1> QED
  BY <1>1, <1>2, StreamSteps

\* What Flow says of one subscriber.
FlowOf(s) ==
    /\ om[s] # NoMsg => om[s].from = s /\ om[s].n = received[s]
    /\ putting[s] # NoMsg => putting[s].from = s /\ putting[s].n = received[s]
    /\ Cardinality(SentBy(s)) <= Before(s)
    /\ \/ Cardinality(SentBy(s)) = Before(s)
       \/ need_stop_
       \/ ~running_ /\ putting[s] = NoMsg

LEMMA FlowKept ==
    ASSUME IInv, [Next]_vars, NEW s \in Subscribers,
           UNCHANGED <<om[s], received[s], putting[s]>>,
           Cardinality(SentBy(s))' = Cardinality(SentBy(s))
    PROVE  FlowOf(s)'
BY RunningSteps, NeedStopKept DEF IInv, Flow, FlowOf, Before, InHand

LEMMA FlowInductive ==
    ASSUME IInv, [Next]_vars
    PROVE  Flow'
<1> SUFFICES ASSUME NEW s \in Subscribers
             PROVE  FlowOf(s)'
  BY DEF Flow, FlowOf
<1> DEFINE sent == Cardinality(SentBy(s))
<1>1. /\ om \in [Subscribers -> OutgoingMessage \union {NoMsg}]
      /\ received \in [Subscribers -> 0..MsgsPerSub]
      /\ putting \in [Subscribers -> OutgoingMessage \union {NoMsg}]
      /\ om[s] = NoMsg \/ putting[s] = NoMsg
      /\ NoMsg \notin OutgoingMessage /\ MsgsPerSub \in Nat
      /\ received[s] \in Nat
  BY RecorderAssumption DEF IInv, TypeOK, Queue!TypeOK
<1>2. sent \in Nat
  BY StreamSteps, FromFinite DEF IInv, SentBy
<1>3. FlowOf(s)
  BY DEF IInv, Flow, FlowOf
<1>4. Stream' = Stream => (sent)' = sent
  BY DEF SentBy, From
<1>5. ASSUME NEW t \in Subscribers, Put(t), Queue!AddPush(t)
      PROVE  (sent)' = IF t = s THEN sent + 1 ELSE sent
  <2>1. /\ Stream \in Seq(OutgoingMessage)
        /\ putting[t] \in OutgoingMessage
        /\ Stream' = Append(Stream, putting[t])
    BY <1>5, StreamSteps DEF IInv
  <2>2. putting[t].from = t
    BY <1>5, PushedInOrder DEF IInv
  <2>3. Cardinality(From(Append(Stream, putting[t]), s)) =
           IF t = s THEN sent + 1 ELSE sent
    BY <2>1, <2>2, AppendFrom DEF SentBy
  <2>4. (sent)' = Cardinality(From(Stream', s))
    BY DEF SentBy
  <2> QED
    BY <2>1, <2>3, <2>4
<1> HIDE DEF sent
<1>6. putting'[s] = putting[s] => (sent)' = sent
  <2>1. ASSUME Queue!AddPush(s), Put(s)
        PROVE  putting'[s] # putting[s]
    BY <1>1, <2>1 DEF Put, Queue!Add, Queue!AddPush
  <2> QED
    BY <1>4, <1>5, <2>1, StreamSteps DEF IInv
<1>7. CASE UNCHANGED <<om[s], received[s], putting[s]>>
  <2>1. (sent)' = sent
    BY <1>6, <1>7
  <2> QED
    BY <1>7, <2>1, FlowKept DEF sent
<1>8. CASE Receive(s)
  <2>1. /\ om[s] = NoMsg /\ putting[s] = NoMsg
        /\ om'[s].from = s /\ om'[s].n = received'[s]
        /\ received'[s] = received[s] + 1
        /\ UNCHANGED <<putting, need_stop_, running_>>
    BY <1>1, <1>8 DEF Receive, queueVars, threadVars
  <2>2. om'[s] # NoMsg
    <3>1. om'[s] = [from |-> s, n |-> received[s] + 1, time |-> clock]
      BY <1>1, <1>8 DEF Receive
    <3>2. clock \in 0..MaxTime /\ received[s] + 1 \in 1..MsgsPerSub
      BY <1>1, <1>8, ClockKept, RecorderAssumption DEF Receive, IInv, Stamped
    <3>3. om'[s] \in OutgoingMessage
      BY <3>1, <3>2 DEF OutgoingMessage
    <3> QED
      BY <1>1, <3>3
  <2>3. (sent)' = sent
    BY <1>6, <2>1
  <2>4. Before(s)' = Before(s)
    BY <1>1, <2>1, <2>2 DEF Before, InHand
  <2> QED
    BY <1>3, <2>1, <2>3, <2>4 DEF FlowOf, sent
<1>9. CASE CheckRunning(s)
  <2>1. /\ om[s] # NoMsg /\ putting[s] = NoMsg /\ om'[s] = NoMsg
        /\ UNCHANGED <<received, need_stop_, running_>>
        /\ Stream' = Stream
    BY <1>1, <1>9
       DEF CheckRunning, Queue!PutCall, queueVars, threadVars, Stream
  <2>2. (sent)' = sent
    BY <1>4, <2>1
  <2>3. CASE running_
    <3>1. putting'[s] = om[s]
      BY <1>1, <1>9, <2>3 DEF CheckRunning, Queue!PutCall
    <3>2. Before(s)' = Before(s)
      BY <2>1, <3>1 DEF Before, InHand
    <3> QED
      BY <1>3, <2>1, <2>2, <2>3, <3>1, <3>2 DEF FlowOf, sent
  <2>4. CASE ~running_
    <3>1. putting'[s] = NoMsg
      BY <1>9, <2>1, <2>4 DEF CheckRunning, queueVars
    <3>2. Before(s) = received[s] - 1 /\ Before(s)' = received[s]
      BY <2>1, <3>1 DEF Before, InHand
    <3> QED
      BY <1>1, <1>2, <1>3, <2>1, <2>2, <2>4, <3>1, <3>2 DEF FlowOf, sent
  <2> QED
    BY <2>3, <2>4
<1>10. CASE Put(s)
  <2>1. /\ om[s] = NoMsg /\ putting[s] # NoMsg
        /\ UNCHANGED <<om, received, need_stop_, running_>>
    BY <1>1, <1>10
       DEF Put, Queue!Add, Queue!AddBlock, Queue!AddStopped, Queue!AddPush,
           threadVars, subs
  <2>2. CASE Queue!AddBlock(s)
    BY <1>7, <2>1, <2>2 DEF Queue!AddBlock
  <2>3. CASE Queue!AddStopped(s)
    <3>1. putting'[s] = NoMsg /\ need_stop_ /\ Stream' = Stream
      BY <1>1, <2>3 DEF Queue!AddStopped, Stream
    <3>2. Before(s) = received[s] - 1 /\ Before(s)' = received[s]
      BY <2>1, <3>1 DEF Before, InHand
    <3> QED
      BY <1>1, <1>2, <1>3, <1>4, <2>1, <3>1, <3>2 DEF FlowOf, sent
  <2>4. CASE Queue!AddPush(s)
    <3>1. putting'[s] = NoMsg /\ ~need_stop_
      BY <1>1, <2>4 DEF Queue!AddPush
    <3>2. Before(s) = received[s] - 1 /\ Before(s)' = received[s]
      BY <2>1, <3>1 DEF Before, InHand
    <3>3. sent = Before(s)
      BY <1>3, <2>1, <3>1 DEF FlowOf, sent
    <3>4. (sent)' = sent + 1
      BY <1>5, <1>10, <2>4
    <3> QED
      BY <1>1, <1>2, <1>3, <2>1, <3>1, <3>2, <3>3, <3>4 DEF FlowOf, sent
  <2> QED
    BY <1>10, <2>2, <2>3, <2>4 DEF Put, Queue!Add
<1>11. ASSUME NEW t \in Subscribers, t # s,
              Receive(t) \/ CheckRunning(t) \/ Put(t)
       PROVE  UNCHANGED <<om[s], received[s], putting[s]>>
  BY <1>1, <1>11
     DEF Receive, CheckRunning, Put, Queue!PutCall, Queue!Add,
         Queue!AddBlock, Queue!AddStopped, Queue!AddPush, queueVars, subs
<1> QED
  BY <1>7, <1>8, <1>9, <1>10, <1>11, SubscriberSteps

LEMMA StampedInductive ==
    ASSUME IInv, [Next]_vars
    PROVE  Stamped'
<1>1. /\ clock \in Nat /\ clock' \in Nat /\ clock <= clock'
      /\ clock' <= MaxTime
  BY ClockKept
<1>2. /\ Stream \in Seq(OutgoingMessage) /\ Len(Stream) \in Nat
      /\ \A i \in 1..Len(Stream) : Stream[i] \in OutgoingMessage
  BY StreamSteps, ElementOfSeq, LenProperties DEF IInv
<1>3. \A m \in OutgoingMessage : m.time \in Nat
  BY RecorderAssumption DEF OutgoingMessage
<1>4. \A m \in OutgoingMessage : m.time <= clock => m.time <= clock'
  BY <1>1, <1>3
<1>5. \A i \in 1..Len(Stream') : Stream'[i].time <= clock'
  <2>1. CASE Stream' = Stream
    BY <1>2, <1>4, <2>1 DEF IInv, Stamped
  <2>2. ASSUME NEW s \in Subscribers, Put(s), Queue!AddPush(s)
        PROVE  \A i \in 1..Len(Stream') : Stream'[i].time <= clock'
    <3>1. /\ putting[s] \in OutgoingMessage
          /\ Stream' = Append(Stream, putting[s])
      BY <2>2, StreamSteps DEF IInv
    <3>2. putting[s].time <= clock
      BY <2>2 DEF Put, Queue!Add, IInv, Stamped
    <3>3. /\ Len(Stream') = Len(Stream) + 1
          /\ \A i \in 1..Len(Stream) : Stream'[i] = Stream[i]
          /\ Stream'[Len(Stream) + 1] = putting[s]
      BY <1>2, <3>1, AppendProperties
    <3>4. ASSUME NEW i \in 1..Len(Stream')
          PROVE  /\ Stream'[i] \in OutgoingMessage
                 /\ Stream'[i].time <= clock
      BY <1>2, <3>1, <3>2, <3>3, <3>4 DEF IInv, Stamped
    <3> QED
      BY <1>4, <3>4
  <2> QED
    BY <2>1, <2>2, StreamSteps DEF IInv
<1>6. ASSUME NEW s \in Subscribers
      PROVE  /\ om'[s] # NoMsg => om'[s].time <= clock'
             /\ putting'[s] # NoMsg => putting'[s].time <= clock'
  <2>1. /\ om \in [Subscribers -> OutgoingMessage \union {NoMsg}]
        /\ putting \in [Subscribers -> OutgoingMessage \union {NoMsg}]
        /\ om[s] # NoMsg => om[s].time <= clock'
        /\ putting[s] # NoMsg => putting[s].time <= clock'
    BY <1>4 DEF IInv, TypeOK, Queue!TypeOK, Stamped
  <2>2. CASE UNCHANGED <<om, received, putting>>
    BY <2>1, <2>2
  <2>3. ASSUME NEW t \in Subscribers, Receive(t) \/ CheckRunning(t) \/ Put(t)
        PROVE  \/ om'[s] = om[s] \/ om'[s] = NoMsg
               \/ om'[s].time = clock
    BY <2>1, <2>3 DEF Receive, CheckRunning, Put, subs
  <2>4. ASSUME NEW t \in Subscribers, Receive(t) \/ CheckRunning(t) \/ Put(t)
        PROVE  \/ putting'[s] = putting[s] \/ putting'[s] = NoMsg
               \/ om[s] # NoMsg /\ putting'[s] = om[s]
    BY <2>1, <2>4
       DEF Receive, CheckRunning, Put, Queue!PutCall, Queue!Add,
           Queue!AddBlock, Queue!AddStopped, Queue!AddPush, queueVars
  <2> QED
    BY <1>1, <2>1, <2>2, <2>3, <2>4, SubscriberSteps
<1> QED
  BY <1>1, <1>5, <1>6 DEF Stamped

-----------------------------------------------------------------------------
(* What the record thread takes and handles *)

LEMMA TakerInductive ==
    ASSUME IInv, [Next]_vars
    PROVE  TakerInStep'
<1> DEFINE inside == IF pc = "take" THEN {RecordThreadId} ELSE {}
<1> USE DEF IInv
<1>1. /\ delivered \in Seq(OutgoingMessage)
      /\ queue_ \in Seq(OutgoingMessage)
      /\ handled \in Seq(OutgoingMessage)
      /\ Len(delivered) \in Nat /\ Len(handled) \in Nat
      /\ Len(queue_) \in Nat
  BY LenProperties DEF Queue!TypeOK, ThreadProofs!IInv, ThreadProofs!TypeOK
<1>2. ASSUME pc' = pc, UNCHANGED <<taking, handled, delivered>>
      PROVE  TakerInStep'
  BY <1>2 DEF TakerInStep
<1>3. CASE RecordStep
  <2>1. CASE RecordLoop
    <3>1. /\ pc = "loop" /\ pc' = (IF running_ THEN "take" ELSE "done")
          /\ UNCHANGED <<handled, delivered>>
          /\ taking' = IF running_ THEN taking \union {RecordThreadId}
                       ELSE taking
      BY <2>1 DEF RecordLoop, Thread!Loop, Thread!history, Queue!TakeCall,
                  queueVars
    <3> QED
      BY <3>1 DEF TakerInStep
  <2>2. CASE RecordTake
    <3>1. pc = "take" /\ UNCHANGED handled
          /\ pc' = IF RecordThreadId \in taking' THEN "take" ELSE "next"
      BY <2>2 DEF RecordTake, Thread!Taken, Thread!history, threadVars
    <3>2. CASE Queue!TakeBlock(RecordThreadId) \/ Queue!TakeStopped(RecordThreadId)
      BY <3>1, <3>2 DEF TakerInStep, Queue!TakeBlock, Queue!TakeStopped
    <3>3. CASE Queue!TakeAll(RecordThreadId)
      <4>1. /\ delivered' = delivered \o queue_
            /\ taking' = taking \ {RecordThreadId}
        BY <3>3 DEF Queue!TakeAll
      <4>2. /\ Len(delivered') = Len(delivered) + Len(queue_)
            /\ \A i \in 1..Len(delivered) : delivered'[i] = delivered[i]
        BY <1>1, <4>1, ConcatProperties
      <4> QED
        BY <1>1, <3>1, <4>1, <4>2 DEF TakerInStep
    <3> QED
      BY <2>2, <3>2, <3>3 DEF RecordTake, Queue!Take
  <2>3. CASE RecordNext
    <3>1. pc = "next" /\ pc' # "take" /\ UNCHANGED <<taking, delivered>>
      BY <2>3 DEF RecordNext, Thread!ListDone, Thread!Abandon,
                  Thread!NextMsg, queueVars
    <3>2. CASE UNCHANGED handled
      BY <3>1, <3>2 DEF TakerInStep
    <3>3. CASE Remaining # <<>> /\ Thread!NextMsg(Head(Remaining))
      <4>1. /\ Len(handled) + 1 \in 1..Len(delivered)
            /\ Head(Remaining) = delivered[Len(handled) + 1]
            /\ Head(Remaining) \in OutgoingMessage
        BY <1>1, <3>3, NextRemaining
      <4>2. handled' = Append(handled, Head(Remaining))
        BY <3>3 DEF Thread!NextMsg
      <4>3. /\ Len(handled') = Len(handled) + 1
            /\ \A i \in 1..Len(handled) : handled'[i] = handled[i]
            /\ handled'[Len(handled) + 1] = Head(Remaining)
        BY <1>1, <4>1, <4>2, AppendProperties
      <4> QED
        BY <1>1, <3>1, <4>1, <4>3 DEF TakerInStep
    <3> QED
      BY <2>3, <3>2, <3>3 DEF RecordNext, Thread!ListDone, Thread!Abandon,
                              Thread!history
  <2>4. CASE (Thread!Open \/ Thread!DoWrite) /\ UNCHANGED queueVars
    BY <2>4, WriteSteps DEF TakerInStep, queueVars
  <2> QED
    BY <1>3, <2>1, <2>2, <2>3, <2>4 DEF RecordStep
<1>4. ASSUME NEW s \in Subscribers, Receive(s) \/ CheckRunning(s) \/ Put(s)
      PROVE  pc' = pc /\ UNCHANGED <<taking, handled, delivered>>
  BY <1>4 DEF Receive, CheckRunning, Put, Queue!PutCall, Queue!Add,
              Queue!AddBlock, Queue!AddStopped, Queue!AddPush, queueVars,
              threadVars
<1>5. CASE MainStep \/ Signal \/ Tick \/ Wakeup
  BY <1>2, <1>5 DEF MainStep, Signal, Tick, Thread!Tick, Thread!history,
                    Wakeup, Queue!SpuriousWake, queueVars, threadVars
<1>6. CASE HandlerStep
  <2>1. UNCHANGED <<taking, handled, delivered>>
    BY <1>6 DEF HandlerStep, ClearRunning, Thread!StopFlag, StopQueue,
                Queue!StopSet, NotifyQueue, Queue!StopNotify,
                Queue!StopNotifyFull, Queue!StopNotifyEmpty, JoinBegin,
                JoinEnd, StopWritingClose, Thread!StopClose,
                StopWritingRename, Thread!StopRename, Thread!history,
                queueVars, threadVars
  <2>2. \/ pc' = pc
        \/ pc # "take" /\ pc' # "take"
    BY <1>6 DEF HandlerStep, ClearRunning, Thread!StopFlag, StopQueue,
                NotifyQueue, JoinBegin, JoinEnd, StopWritingClose,
                Thread!StopClose, StopWritingRename, Thread!StopRename,
                threadVars
  <2> QED
    BY <2>1, <2>2 DEF TakerInStep
<1>7. CASE UNCHANGED vars
  BY <1>2, <1>7 DEF vars, queueVars, threadVars
<1> QED
  BY <1>2, <1>3, <1>4, <1>5, <1>6, <1>7, StepCases

-----------------------------------------------------------------------------
(* The signal handlers *)

LEMMA FrameMoves ==
    ASSUME TypeOK, frames # <<>>, NEW step \in HandlerPC, GoTo(step)
    PROVE  /\ Depth \in 1..HandlerDepth /\ frames' \in Seq(HandlerPC)
           /\ Depth' = Depth /\ frames' # <<>>
           /\ frames'[Depth] = step
           /\ \A i \in 1..Depth : i # Depth => frames'[i] = frames[i]
<1>1. /\ frames \in Seq(HandlerPC) /\ Depth \in Nat
      /\ Depth <= HandlerDepth
  BY LenProperties DEF TypeOK, Depth
<1>2. Depth # 0
  BY <1>1, EmptySeq DEF Depth
<1>3. frames' = [frames EXCEPT ![Depth] = step]
  BY DEF GoTo
<1>4. /\ frames' \in Seq(HandlerPC) /\ Len(frames') = Len(frames)
      /\ frames'[Depth] = step
      /\ \A i \in 1..Depth : i # Depth => frames'[i] = frames[i]
  BY <1>1, <1>2, <1>3, ExceptSeq DEF Depth
<1>5. frames' # <<>>
  BY <1>1, <1>2, <1>4, EmptySeq DEF Depth
<1> QED
  BY <1>1, <1>2, <1>4, <1>5 DEF Depth, HandlerDepth

LEMMA FrameReturns ==
    ASSUME TypeOK, frames # <<>>, frames' = SubSeq(frames, 1, Depth - 1)
    PROVE  /\ Depth \in 1..HandlerDepth /\ frames' \in Seq(HandlerPC)
           /\ Depth' = Depth - 1
           /\ \A i \in 1..(Depth - 1) : frames'[i] = frames[i]
           /\ Depth = 1 <=> frames' = <<>>
<1>1. /\ frames \in Seq(HandlerPC) /\ Depth \in Nat
      /\ Depth <= HandlerDepth
  BY LenProperties DEF TypeOK, Depth
<1>2. Depth # 0
  BY <1>1, EmptySeq DEF Depth
<1>3. /\ frames' \in Seq(HandlerPC) /\ Len(frames') = Depth - 1
      /\ \A i \in 1..(Depth - 1) : frames'[i] = frames[i]
  <2> DEFINE n == Depth - 1
  <2>1. /\ 1 \in Int /\ n \in Int /\ n \in Nat
        /\ \A i \in 1..n : frames[i] \in HandlerPC
    BY <1>1, <1>2, ElementOfSeq DEF Depth
  <2> HIDE DEF n
  <2>2. /\ SubSeq(frames, 1, n) \in Seq(HandlerPC)
        /\ Len(SubSeq(frames, 1, n)) = n
        /\ \A i \in 1..n : SubSeq(frames, 1, n)[i] = frames[i]
    <3>1. SubSeq(frames, 1, n) \in Seq(HandlerPC)
      BY <1>1, <2>1
    <3>2. Len(SubSeq(frames, 1, n)) = n
      BY <1>1, <2>1
    <3>3. \A i \in 1..n : SubSeq(frames, 1, n)[i] = frames[i]
      BY <1>1, <2>1
    <3> QED
      BY <3>1, <3>2, <3>3
  <2>3. frames' = SubSeq(frames, 1, n)
    BY DEF n
  <2>4. /\ frames' \in Seq(HandlerPC) /\ Len(frames') = n
        /\ \A i \in 1..n : frames'[i] = frames[i]
    BY <2>1, <2>2, <2>3
  <2> QED
    BY <2>4 DEF n
<1>4. Depth' = Depth - 1
  BY <1>3 DEF Depth
<1>5. Depth = 1 <=> frames' = <<>>
  BY <1>1, <1>3, EmptySeq
<1> QED
  BY <1>1, <1>2, <1>3, <1>4, <1>5 DEF HandlerDepth

LEMMA FrameBegins ==
    ASSUME TypeOK, Signal
    PROVE  /\ Depth \in Nat /\ Depth < HandlerDepth
           /\ frames' \in Seq(HandlerPC) /\ frames' # <<>>
           /\ Depth' = Depth + 1
           /\ frames'[Depth + 1] = "flag"
           /\ \A i \in 1..Depth : frames'[i] = frames[i]
BY AppendProperties, LenProperties DEF TypeOK, Signal, Depth, HandlerPC

\* Away from the handlers and the record thread's last steps nothing changes
\* that they depend on.
LEMMA OtherSteps ==
    ASSUME IInv, [Next]_vars, ~HandlerStep, ~Signal
    PROVE  /\ UNCHANGED <<frames, hung, signals, joined, need_stop_, stop_pc>>
           /\ frames # <<>> => main' = main
           /\ joined => pc' = pc
           /\ pc \in {"done", "closed", "finished"} => pc' = pc
           /\ pc' \in {"closed", "finished"} => pc' = pc
           /\ main = "starting" \/ main' # "starting"
           /\ \/ proc' = proc
              \/ RunReturns /\ frames = <<>> /\ UNCHANGED <<threadVars, main>>
<1>1. joined => pc \in {"done", "closed", "finished"}
  BY DEF IInv, TypeOK
<1>2. CASE RecordStep
  BY <1>1, <1>2, RecordSteps DEF control
<1>3. CASE \E s \in Subscribers : Receive(s) \/ CheckRunning(s) \/ Put(s)
  BY <1>3 DEF Receive, CheckRunning, Put, Queue!PutCall, Queue!Add,
              Queue!AddBlock, Queue!AddStopped, Queue!AddPush, queueVars,
              threadVars, control
<1>4. CASE MainStep
  BY <1>4 DEF MainStep, RunThreadStarted, DoSubscribe, RunReturns, queueVars,
              threadVars
<1>5. CASE Tick \/ Wakeup \/ UNCHANGED vars
  BY <1>5 DEF Tick, Thread!Tick, Wakeup, Queue!SpuriousWake, vars, queueVars,
              threadVars, control
<1> QED
  BY <1>2, <1>3, <1>4, <1>5, StepCases

LEMMA TypeInductive ==
    ASSUME IInv, [Next]_vars
    PROVE  TypeOK'
<1> USE DEF IInv
<1>1. /\ om' \in [Subscribers -> OutgoingMessage \union {NoMsg}]
      /\ received' \in [Subscribers -> 0..MsgsPerSub]
      /\ \A s \in Subscribers : om'[s] = NoMsg \/ putting'[s] = NoMsg
  <2>1. CASE UNCHANGED <<om, received, putting>>
    BY <2>1 DEF TypeOK
  <2>2. ASSUME NEW s \in Subscribers, Receive(s)
        PROVE  <1>1!:
    <3>1. clock \in 0..MaxTime
      BY ClockKept, RecorderAssumption DEF Stamped
    <3>2. received[s] + 1 \in 1..MsgsPerSub
      BY <2>2, RecorderAssumption DEF Receive, TypeOK
    <3>3. [from |-> s, n |-> received[s] + 1, time |-> clock]
             \in OutgoingMessage
      BY <3>1, <3>2 DEF OutgoingMessage
    <3> QED
      BY <2>2, <3>2, <3>3 DEF Receive, TypeOK, queueVars
  <2>3. ASSUME NEW s \in Subscribers, CheckRunning(s)
        PROVE  <1>1!:
    BY <2>3 DEF CheckRunning, Queue!PutCall, queueVars, TypeOK, Queue!TypeOK
  <2>4. ASSUME NEW s \in Subscribers, Put(s)
        PROVE  <1>1!:
    BY <2>4 DEF Put, Queue!Add, Queue!AddBlock, Queue!AddStopped,
                Queue!AddPush, subs, TypeOK, Queue!TypeOK
  <2> QED
    BY <2>1, <2>2, <2>3, <2>4, SubscriberSteps
<1>2. subscribed' \subseteq Subscribers
  <2>1. UNCHANGED subscribed \/ DoSubscribe
    BY StepCases, RecordSteps
       DEF Receive, CheckRunning, Put, subs, MainStep, RunThreadStarted,
           RunReturns, HandlerStep, Signal, Tick, Wakeup, vars
  <2> QED
    BY <2>1 DEF DoSubscribe, TypeOK
<1>3. /\ main' \in {"starting", "subscribing", "polling"}
      /\ proc' \in {"up", "exited", "aborted"}
  BY StepCases, RecordSteps
     DEF Receive, CheckRunning, Put, control, MainStep, RunThreadStarted,
         DoSubscribe, RunReturns, HandlerStep, ClearRunning, StopQueue,
         NotifyQueue, JoinBegin, JoinEnd, StopWritingClose,
         StopWritingRename, Signal, Tick, Wakeup, vars, TypeOK
<1>4. CASE Signal
  <2>1. /\ frames' \in Seq(HandlerPC) /\ Depth' <= HandlerDepth
        /\ signals' \in 0..MaxSignals
        /\ joined' = joined /\ pc' = pc /\ frames' # <<>>
    <3>1. /\ signals < MaxSignals /\ signals' = signals + 1
          /\ joined' = joined /\ pc' = pc
      BY <1>4, Zenon DEF Signal, threadVars
    <3> QED
      BY <1>4, <3>1, FrameBegins, RecorderAssumption DEF TypeOK, HandlerDepth
  <2>2. hung' \in BOOLEAN
    BY <1>4, Zenon DEF Signal
  <2> QED
    BY <1>1, <1>2, <1>3, <2>1, <2>2 DEF TypeOK
<1>5. CASE HandlerStep
  <2>1. /\ frames # <<>> /\ signals' = signals
        /\ hung' = FALSE
    BY <1>5 DEF HandlerStep, ClearRunning, StopQueue, NotifyQueue, JoinBegin,
                JoinEnd, StopWritingClose, StopWritingRename, At, TypeOK
  <2>2. frames' \in Seq(HandlerPC) /\ Depth' <= HandlerDepth
    <3>1. CASE \E step \in HandlerPC : GoTo(step)
      BY <2>1, <3>1, FrameMoves DEF HandlerDepth
    <3>2. CASE StopWritingRename
      BY <2>1, <3>2, FrameReturns DEF StopWritingRename, HandlerDepth
    <3>3. CASE UNCHANGED frames
      BY <3>3 DEF TypeOK, Depth
    <3> QED
      BY <1>5, <3>1, <3>2, <3>3
         DEF HandlerStep, ClearRunning, StopQueue, NotifyQueue, JoinBegin,
             JoinEnd, StopWritingClose, HandlerPC
  <2>3. /\ joined' \in BOOLEAN
        /\ joined' => pc' \in {"done", "closed", "finished"}
    <3>1. CASE ClearRunning \/ StopQueue \/ NotifyQueue \/ JoinBegin
      BY <3>1 DEF ClearRunning, Thread!StopFlag, StopQueue, NotifyQueue,
                  JoinBegin, threadVars, TypeOK
    <3>2. CASE JoinEnd
      BY <3>2 DEF JoinEnd, threadVars
    <3>3. CASE StopWritingClose
      BY <3>3 DEF StopWritingClose, Thread!StopClose, TypeOK
    <3>4. CASE StopWritingRename
      BY <3>4 DEF StopWritingRename, Thread!StopRename, TypeOK
    <3> QED
      BY <1>5, <3>1, <3>2, <3>3, <3>4 DEF HandlerStep
  <2> QED
    BY <1>1, <1>2, <1>3, <2>1, <2>2, <2>3 DEF TypeOK
<1>6. CASE ~Signal /\ ~HandlerStep
  <2>1. /\ UNCHANGED <<frames, hung, signals, joined>>
        /\ joined => pc' = pc
    BY <1>6, OtherSteps
  <2>2. Depth' = Depth
    BY <2>1 DEF Depth
  <2> QED
    BY <1>1, <1>2, <1>3, <2>1, <2>2 DEF TypeOK
<1> QED
  BY <1>4, <1>5, <1>6

LEMMA HandlersInductive ==
    ASSUME IInv, [Next]_vars
    PROVE  HandlersInStep'
<1> USE DEF IInv
<1>1. /\ frames \in Seq(HandlerPC) /\ Depth \in Nat
      /\ Depth <= HandlerDepth /\ HandlerDepth \in Nat
  BY LenProperties DEF TypeOK, Depth, HandlerDepth
<1>2. /\ stop_pc \in [1..HandlerDepth -> {"idle", "not_full", "not_empty"}]
      /\ need_stop_ \in BOOLEAN
  BY DEF Queue!TypeOK, Queue!StopPC
<1>3. CASE ~Signal /\ ~HandlerStep
  <2>1. /\ UNCHANGED <<frames, joined, need_stop_, stop_pc>>
        /\ joined => pc' = pc
        /\ pc \in {"done", "closed", "finished"} => pc' = pc
    BY <1>3, OtherSteps
  <2>2. Depth' = Depth
    BY <2>1 DEF Depth
  <2> QED
    BY <2>1, <2>2 DEF HandlersInStep
<1>4. CASE Signal
  <2>1. UNCHANGED <<joined, need_stop_, stop_pc, pc>>
    BY <1>4 DEF Signal, queueVars, threadVars
  <2>2. /\ Depth' = Depth + 1 /\ frames'[Depth + 1] = "flag"
        /\ \A i \in 1..Depth : frames'[i] = frames[i]
    BY <1>4, FrameBegins
  <2> QED
    BY <1>1, <2>1, <2>2 DEF HandlersInStep, Finishing
<1>5. CASE ClearRunning
  <2>1. frames # <<>> /\ frames[Depth] = "flag" /\ GoTo("queue")
    BY <1>5 DEF ClearRunning, At
  <2>2. UNCHANGED <<joined, need_stop_, stop_pc, pc>>
    BY <1>5 DEF ClearRunning, Thread!StopFlag, queueVars
  <2>3. /\ Depth \in 1..HandlerDepth /\ Depth' = Depth
        /\ frames'[Depth] = "queue"
        /\ \A i \in 1..Depth : i # Depth => frames'[i] = frames[i]
    BY <2>1, FrameMoves DEF HandlerPC
  <2> QED
    BY <1>1, <2>1, <2>2, <2>3 DEF HandlersInStep, Finishing
<1>6. CASE StopQueue
  <2>1. frames # <<>> /\ frames[Depth] = "queue" /\ GoTo("notify")
    BY <1>6 DEF StopQueue, At
  <2>2. /\ UNCHANGED <<joined, pc>> /\ need_stop_'
        /\ stop_pc' = [stop_pc EXCEPT ![Depth] = "not_full"]
    BY <1>6 DEF StopQueue, Queue!StopSet, threadVars
  <2>3. /\ Depth \in 1..HandlerDepth /\ Depth' = Depth
        /\ frames'[Depth] = "notify"
        /\ \A i \in 1..Depth : i # Depth => frames'[i] = frames[i]
    BY <2>1, FrameMoves DEF HandlerPC
  <2> QED
    BY <1>1, <1>2, <2>1, <2>2, <2>3 DEF HandlersInStep, Finishing
<1>7. CASE NotifyQueue
  <2>1. /\ frames # <<>> /\ frames[Depth] = "notify"
        /\ \/ stop_pc'[Depth] = "idle" /\ GoTo("join")
           \/ stop_pc'[Depth] # "idle" /\ GoTo("notify")
    BY <1>7 DEF NotifyQueue, At
  <2>2. /\ UNCHANGED <<joined, pc, need_stop_>>
        /\ \A i \in 1..HandlerDepth : i # Depth => stop_pc'[i] = stop_pc[i]
    BY <1>2, <1>7 DEF NotifyQueue, Queue!StopNotify, Queue!StopNotifyFull,
                Queue!StopNotifyEmpty, threadVars
  <2>3. /\ Depth \in 1..HandlerDepth /\ Depth' = Depth
        /\ \/ stop_pc'[Depth] = "idle" /\ frames'[Depth] = "join"
           \/ stop_pc'[Depth] # "idle" /\ frames'[Depth] = "notify"
        /\ \A i \in 1..Depth : i # Depth => frames'[i] = frames[i]
    BY <2>1, FrameMoves DEF HandlerPC
  <2> QED
    BY <1>1, <2>1, <2>2, <2>3 DEF HandlersInStep, Finishing
<1>8. CASE JoinBegin
  <2>1. frames # <<>> /\ frames[Depth] = "join"
    BY <1>8 DEF JoinBegin, At
  <2>2. UNCHANGED <<joined, pc, need_stop_, stop_pc>>
    BY <1>8 DEF JoinBegin, queueVars, threadVars
  <2>3. CASE UNCHANGED frames
    <3>1. Depth' = Depth
      BY <2>3 DEF Depth
    <3> QED
      BY <2>2, <2>3, <3>1 DEF HandlersInStep
  <2>4. CASE ~CannotJoin /\ GoTo("joining")
    <3>1. /\ Depth \in 1..HandlerDepth /\ Depth' = Depth
          /\ frames'[Depth] = "joining"
          /\ \A i \in 1..Depth : i # Depth => frames'[i] = frames[i]
      BY <2>1, <2>4, FrameMoves DEF HandlerPC
    <3>2. ~joined /\ \A i \in 1..Depth : frames[i] \notin Finishing
      <4>1. ~joined /\ \A i \in 1..(Depth - 1) : frames[i] # "joining"
        BY <2>4 DEF CannotJoin
      <4> QED
        BY <1>1, <2>1, <3>1, <4>1 DEF HandlersInStep, Finishing
    <3> QED
      BY <1>1, <2>1, <2>2, <3>1, <3>2 DEF HandlersInStep, Finishing
  <2> QED
    BY <1>8, <2>3, <2>4 DEF JoinBegin
<1>9. CASE JoinEnd
  <2>1. frames # <<>> /\ frames[Depth] = "joining" /\ GoTo("close")
    BY <1>9 DEF JoinEnd, At
  <2>2. UNCHANGED <<pc, need_stop_, stop_pc>> /\ joined' /\ pc = "done"
    BY <1>9 DEF JoinEnd, queueVars, threadVars
  <2>3. /\ Depth \in 1..HandlerDepth /\ Depth' = Depth
        /\ frames'[Depth] = "close"
        /\ \A i \in 1..Depth : i # Depth => frames'[i] = frames[i]
    BY <2>1, FrameMoves DEF HandlerPC
  <2>4. \A i \in 1..Depth : i # Depth => frames[i] \notin Finishing
    BY <2>1, <2>3 DEF HandlersInStep, Finishing
  <2> QED
    BY <1>1, <2>1, <2>2, <2>3, <2>4 DEF HandlersInStep, Finishing
<1>10. CASE StopWritingClose
  <2>1. frames # <<>> /\ frames[Depth] = "close" /\ GoTo("rename")
    BY <1>10 DEF StopWritingClose, At
  <2>2. UNCHANGED <<joined, need_stop_, stop_pc>> /\ pc' = "closed"
    BY <1>10 DEF StopWritingClose, Thread!StopClose, queueVars
  <2>3. /\ Depth \in 1..HandlerDepth /\ Depth' = Depth
        /\ frames'[Depth] = "rename"
        /\ \A i \in 1..Depth : i # Depth => frames'[i] = frames[i]
    BY <2>1, FrameMoves DEF HandlerPC
  <2>4. \A i \in 1..Depth : i # Depth => frames[i] \notin Finishing
    BY <2>1, <2>3 DEF HandlersInStep, Finishing
  <2> QED
    BY <1>1, <2>1, <2>2, <2>3, <2>4 DEF HandlersInStep, Finishing
<1>11. CASE StopWritingRename
  <2>1. /\ frames # <<>> /\ frames[Depth] = "rename"
        /\ frames' = SubSeq(frames, 1, Depth - 1)
    BY <1>11 DEF StopWritingRename, At
  <2>2. UNCHANGED <<joined, need_stop_, stop_pc>> /\ pc' = "finished"
    BY <1>11 DEF StopWritingRename, Thread!StopRename, queueVars
  <2>3. /\ Depth \in 1..HandlerDepth /\ Depth' = Depth - 1
        /\ \A i \in 1..(Depth - 1) : frames'[i] = frames[i]
    BY <2>1, FrameReturns
  <2>4. \A i \in 1..Depth : i # Depth => frames[i] \notin Finishing
    BY <2>1, <2>3 DEF HandlersInStep, Finishing
  <2> QED
    BY <1>1, <2>1, <2>2, <2>3, <2>4 DEF HandlersInStep, Finishing
<1> QED
  BY <1>3, <1>4, <1>5, <1>6, <1>7, <1>8, <1>9, <1>10, <1>11 DEF HandlerStep

\* With one signal at most, only one handler runs, and it is the one that joins.
LEMMA SignalsInductive ==
    ASSUME IInv, [Next]_vars
    PROVE  FewSignals'
<1> USE DEF IInv
<1>1. Depth \in Nat /\ signals \in Nat /\ (frames = <<>> <=> Depth = 0)
  BY LenProperties, EmptySeq, RecorderAssumption DEF TypeOK, Depth
<1>2. /\ GaveUp => GaveUp'
      /\ running_ /\ ~running_' => ClearRunning \/ GaveUp'
  BY GaveUpKept, RunningSteps
<1>3. running_ \in BOOLEAN
  BY DEF ThreadProofs!IInv, ThreadProofs!TypeOK
<1>4. CASE ~Signal /\ ~HandlerStep
  <2>1. UNCHANGED <<frames, signals, joined>>
    BY <1>4, OtherSteps
  <2>2. Depth' = Depth
    BY <2>1 DEF Depth
  <2>3. ~ClearRunning
    BY <2>1, FrameMoves DEF ClearRunning, At, HandlerPC
  <2> QED
    BY <1>1, <1>2, <1>3, <2>1, <2>2, <2>3 DEF FewSignals
<1>5. CASE Signal
  <2>1. /\ signals' = signals + 1 /\ UNCHANGED joined
        /\ Depth' = Depth + 1 /\ frames' # <<>>
    BY <1>5, FrameBegins DEF Signal
  <2> QED
    BY <1>1, <2>1 DEF FewSignals
<1>6. CASE HandlerStep
  <2>1. /\ frames # <<>> /\ signals' = signals
        /\ joined => joined'
        /\ joined' => joined \/ JoinEnd
    BY <1>6 DEF HandlerStep, ClearRunning, StopQueue, NotifyQueue, JoinBegin,
                JoinEnd, StopWritingClose, StopWritingRename, At
  <2>2. signals # 0
    BY <1>1, <2>1 DEF FewSignals
  <2>3. CASE StopWritingRename
    <3>1. /\ Depth' = Depth - 1 /\ Depth' \in Nat
          /\ (Depth = 1 <=> frames' = <<>>)
          /\ frames[Depth] = "rename"
      BY <1>1, <2>1, <2>3, FrameReturns DEF StopWritingRename, At
    <3>2. joined'
      BY <1>1, <2>1, <3>1 DEF HandlersInStep
    <3>3. signals = 1 => frames' = <<>>
      BY <1>1, <2>1, <3>1 DEF FewSignals
    <3> QED
      BY <1>1, <2>1, <2>2, <3>1, <3>2, <3>3 DEF FewSignals
  <2>4. CASE UNCHANGED frames
    <3>1. Depth' = Depth
      BY <2>4 DEF Depth
    <3>2. ~JoinEnd
      BY <2>1, <2>4, FrameMoves DEF JoinEnd, At, HandlerPC
    <3> QED
      BY <1>1, <2>1, <2>2, <2>4, <3>1, <3>2 DEF FewSignals
  <2>5. ASSUME NEW step \in HandlerPC, GoTo(step),
               step \in {"close", "rename"} \/ frames[Depth] \notin Finishing
        PROVE  FewSignals'
    <3>1. /\ Depth' = Depth /\ frames' # <<>> /\ frames'[Depth] = step
          /\ Depth \in 1..HandlerDepth
      BY <2>1, <2>5, FrameMoves
    <3>2. signals = 1 => Depth = 1
      BY <1>1, <2>1, <3>1 DEF FewSignals
    <3>3. signals = 1 /\ joined' => frames'[1] \in Finishing
      <4>1. CASE step \in {"close", "rename"}
        BY <3>1, <3>2, <4>1 DEF Finishing
      <4>2. CASE frames[Depth] \notin Finishing
        <5>1. ~JoinEnd
          BY <4>2 DEF JoinEnd, At, Finishing
        <5> QED
          BY <2>1, <3>1, <3>2, <4>2, <5>1 DEF FewSignals
      <4> QED
        BY <2>5, <4>1, <4>2
    <3> QED
      BY <1>1, <2>1, <2>2, <3>1, <3>3 DEF FewSignals
  <2> QED
    BY <1>6, <2>3, <2>4, <2>5
       DEF HandlerStep, ClearRunning, StopQueue, NotifyQueue, JoinBegin,
           JoinEnd, StopWritingClose, HandlerPC, At, Finishing
<1> QED
  BY <1>4, <1>5, <1>6

\* Only JoinBegin and RunReturns end the process.
LEMMA ProcSteps ==
    ASSUME IInv, [Next]_vars, proc' # proc
    PROVE  /\ proc = "up"
           /\ \/ RunReturns /\ frames = <<>> /\ UNCHANGED <<threadVars, main>>
              \/ JoinBegin /\ CannotJoin /\ proc' = "aborted"
                 /\ UNCHANGED <<threadVars, main>>
           /\ UNCHANGED <<frames, signals, joined>>
<1>1. CASE HandlerStep
  BY <1>1, StepCases
     DEF HandlerStep, ClearRunning, StopQueue, NotifyQueue, JoinBegin,
         JoinEnd, StopWritingClose, StopWritingRename, vars, control
<1>2. CASE ~HandlerStep
  <2>1. ~Signal
    BY DEF Signal
  <2> QED
    BY <1>2, <2>1, OtherSteps, StepCases DEF vars, control
<1> QED
  BY <1>1, <1>2

\* A process that is gone takes no step.
LEMMA GoneSteps ==
    ASSUME [Next]_vars, proc # "up"
    PROVE  UNCHANGED vars
BY StepCases

LEMMA EndingInductive ==
    ASSUME IInv, [Next]_vars
    PROVE  Ending'
<1>1. CASE proc' = proc
  BY <1>1, GoneSteps DEF IInv, Ending, vars, control
<1>2. CASE proc' # proc
  BY <1>2, ProcSteps DEF RunReturns, IInv, Ending
<1> QED
  BY <1>1, <1>2

\* Only a signal makes the main thread hang, and it never comes back.
LEMMA HungSteps ==
    ASSUME IInv, [Next]_vars, ~Signal
    PROVE  hung' = hung /\ (hung => main' = main)
<1>1. hung => frames # <<>>
  BY DEF IInv, TypeOK
<1>2. CASE HandlerStep
  BY <1>2 DEF HandlerStep
<1> QED
  BY <1>1, <1>2, OtherSteps

\* A handler that has to wait for the call it interrupts has interrupted
\* another handler, or the main thread in one of its few calls that lock.
LEMMA HangsCleanly ==
    ASSUME IInv, [Next]_vars, Signal, hung'
    PROVE  signals' >= 2 \/ main' = "subscribing" \/ GaveUp'
<1>1. Depth \in Nat /\ signals \in Nat /\ (frames = <<>> <=> Depth = 0)
  BY LenProperties, EmptySeq, RecorderAssumption DEF IInv, TypeOK, Depth
<1>2. GaveUp => GaveUp'
  BY GaveUpKept
<1>3. signals' = signals + 1 /\ main' = main /\ Locking
  BY DEF Signal
<1>4. signals = 0 => frames = <<>> /\ (running_ \/ GaveUp)
  BY <1>1 DEF IInv, FewSignals
<1> QED
  BY <1>1, <1>2, <1>3, <1>4 DEF Locking, At

LEMMA CleanInductive ==
    ASSUME IInv, [Next]_vars
    PROVE  OneSignalIsClean'
<1> USE DEF IInv
<1>1. Depth \in Nat /\ signals \in Nat /\ (frames = <<>> <=> Depth = 0)
  BY LenProperties, EmptySeq, RecorderAssumption DEF TypeOK, Depth
<1>2. GaveUp => GaveUp'
  BY GaveUpKept
<1>3. proc' = "aborted" => signals' >= 2 \/ main' = "starting" \/ GaveUp'
  <2>1. CASE proc' = proc
    <3>1. proc # "up" => UNCHANGED vars
      BY GoneSteps
    <3> QED
      BY <1>2, <2>1, <3>1 DEF OneSignalIsClean, vars, control, TypeOK
  <2>2. CASE RunReturns /\ frames = <<>> /\ UNCHANGED <<main, signals>>
    BY <1>1, <1>2, <2>2 DEF RunReturns, FewSignals
  <2>3. CASE JoinBegin /\ CannotJoin /\ UNCHANGED <<main, signals>>
    <3>1. frames # <<>> /\ frames[Depth] = "join"
      BY <2>3 DEF JoinBegin, At
    <3>2. signals = 1 => Depth = 1 /\ ~joined
      BY <1>1, <3>1 DEF FewSignals, Finishing
    <3>3. signals # 0
      BY <1>1, <3>1 DEF FewSignals
    <3> QED
      BY <1>1, <2>3, <3>2, <3>3 DEF CannotJoin
  <2> QED
    BY <2>1, <2>2, <2>3, ProcSteps
<1>4. hung' => signals' >= 2 \/ main' = "subscribing" \/ GaveUp'
  <2>1. CASE Signal
    BY <2>1, HangsCleanly
  <2>2. CASE ~Signal
    <3>1. signals' = signals
      BY <2>2, OtherSteps DEF HandlerStep
    <3> QED
      BY <1>2, <2>2, <3>1, HungSteps DEF OneSignalIsClean
  <2> QED
    BY <2>1, <2>2
<1> QED
  BY <1>3, <1>4 DEF OneSignalIsClean

-----------------------------------------------------------------------------
(* The theorems *)

LEMMA InvInit == Init => IInv
<1> SUFFICES ASSUME Init
             PROVE  IInv
  OBVIOUS
<1>1. /\ Queue!Init /\ Thread!Init
      /\ frames = <<>> /\ Depth = 0 /\ signals = 0 /\ ~joined
      /\ hung = FALSE
      /\ main = "starting" /\ proc = "up" /\ subscribed = {}
      /\ \A s \in Subscribers : om[s] = NoMsg /\ received[s] = 0
  BY EmptySeq DEF Init, Depth
<1>2. Queue!TypeOK /\ Queue!StopLeavesNobodyAsleep
  <2>1. QueueProofs!TypeOK
    BY <1>1, SameQueue, QueueFacts, QueueProofs!TypeInit
  <2>2. Queue!StopLeavesNobodyAsleep
    BY <1>1 DEF Queue!Init, Queue!StopLeavesNobodyAsleep
  <2> QED
    BY <2>1, <2>2, SameQueue
<1>3. ThreadProofs!IInv /\ ThreadProofs!Healthy
  <2>1. ThreadProofs!Init
    BY <1>1, SameThread
  <2>2. ThreadProofs!IInv
    BY <2>1, ThreadFacts, ThreadProofs!InvInit
  <2> QED
    BY <2>1, <2>2 DEF ThreadProofs!Init, ThreadProofs!ClosedBag,
                      ThreadProofs!Healthy
<1>4. /\ delivered = <<>> /\ queue_ = <<>> /\ handled = <<>>
      /\ Len(delivered) = 0 /\ Len(handled) = 0 /\ taking = {}
      /\ Stream = <<>> /\ Len(Stream) = 0
      /\ \A s \in Subscribers : putting[s] = NoMsg
      /\ \A i \in 1..HandlerDepth : stop_pc[i] = "idle"
  BY <1>1, EmptySeq, ConcatEmptySeq DEF Queue!Init, Thread!Init, Stream
<1>5. running_ /\ pc = "open" /\ clock = 0
  BY <1>1 DEF Thread!Init
<1>6. TypeOK
  <2>1. <<>> \in Seq(HandlerPC)
    BY EmptySeq
  <2>2. /\ om \in [Subscribers -> OutgoingMessage \union {NoMsg}]
        /\ received \in [Subscribers -> 0..MsgsPerSub]
        /\ signals \in 0..MaxSignals
    BY <1>1, RecorderAssumption DEF Init
  <2>3. frames \in Seq(HandlerPC) /\ Depth <= HandlerDepth
    BY <1>1, <2>1 DEF HandlerDepth
  <2>4. joined \in BOOLEAN
    BY DEF Init
  <2> QED
    BY <1>1, <2>2, <2>3, <2>4 DEF TypeOK
<1>7. TakerInStep /\ InOrder /\ Stamped
  BY <1>1, <1>4, <1>5, RecorderAssumption
     DEF TakerInStep, InOrder, Numbered, Stamped
<1>8. Flow
  <2>1. \A s \in Subscribers : SentBy(s) = {}
    BY <1>4 DEF SentBy, From
  <2>2. \A s \in Subscribers : Before(s) = 0
    BY <1>1, <1>4 DEF Before, InHand
  <2>3. \A s \in Subscribers : Cardinality(SentBy(s)) = 0
    BY <2>1, FS_EmptySet
  <2> QED
    BY <1>1, <1>4, <2>2, <2>3 DEF Flow
<1>9. HandlersInStep /\ FewSignals /\ Ending
  BY <1>1, <1>4, <1>5 DEF HandlersInStep, FewSignals, Ending
<1>10. OneSignalIsClean
  BY <1>1 DEF OneSignalIsClean
<1> QED
  BY <1>2, <1>3, <1>6, <1>7, <1>8, <1>9, <1>10 DEF IInv

LEMMA InvInductive == IInv /\ [Next]_vars => IInv'
<1> SUFFICES ASSUME IInv, [Next]_vars
             PROVE  IInv'
  OBVIOUS
<1>1. /\ Queue!TypeOK' /\ Queue!StopLeavesNobodyAsleep'
      /\ ThreadProofs!IInv' /\ ThreadProofs!Healthy'
  BY PartsInductive
<1>2. TypeOK' /\ TakerInStep'
  BY TypeInductive, TakerInductive
<1>3. Flow' /\ InOrder' /\ Stamped'
  BY FlowInductive, InOrderInductive, StampedInductive
<1>4. HandlersInStep' /\ FewSignals'
  BY HandlersInductive, SignalsInductive
<1>5. Ending' /\ OneSignalIsClean'
  BY EndingInductive, CleanInductive
<1> QED
  BY <1>1, <1>2, <1>3, <1>4, <1>5 DEF IInv

LEMMA Invariance == Spec => []IInv
BY InvInit, InvInductive, PTL DEF Spec

\* The variables keep their types, whatever the threads and signals do; a
\* joined record thread has ended, and no subscriber has two messages in hand.
THEOREM TypeCorrect == Spec => []TypeOK
BY Invariance, PTL DEF IInv

\* Whatever comes out of the queue, and whoever clears running_ or stops the
\* writing, the record thread's part is what its specification allows.
THEOREM ThreadCorrect == Spec => ThreadAsSpecified
<1>1. Init => Thread!Init
  BY DEF Init
<1> QED
  BY <1>1, Invariance, ThreadSimulation, PTL
     DEF Spec, ThreadAsSpecified, Thread!Spec

\* With one signal at most, after Run has its thread, and nothing that fails,
\* the process is never aborted: not by a second join, nor by a thread that
\* nobody has joined; and once the topics are subscribed to, its handler never
\* waits for a mutex of the call that it interrupts.
THEOREM OneSignalIsCleanCorrect == Spec => []OneSignalIsClean
BY Invariance, PTL DEF IInv

LEMMA CleanExitHolds == IInv => CleanExit
<1> SUFFICES ASSUME IInv, proc = "exited"
             PROVE  /\ \A i \in 1..Len(files) : files[i].name # "active"
                    /\ Thread!Accounted
                    /\ not_full_ = {} /\ not_empty_ = {}
  BY DEF CleanExit
<1>1. joined /\ frames = <<>> /\ Depth = 0
  BY EmptySeq DEF IInv, Ending, Depth
<1>2. pc = "finished" /\ need_stop_
  BY <1>1 DEF IInv, HandlersInStep
<1>3. \A i \in 1..Len(files) : files[i].name # "active"
  <2>1. /\ \A i \in 1..(Len(files) - 1) : files[i].name # "active"
        /\ files[Len(files)].name # "active"
    BY <1>2 DEF IInv, ThreadProofs!IInv, ThreadProofs!OneActive,
                ThreadProofs!Stream, ThreadProofs!Current
  <2>2. Len(files) \in Nat
    BY LenProperties DEF IInv, ThreadProofs!IInv, ThreadProofs!TypeOK
  <2> QED
    BY <2>1, <2>2
<1>4. Thread!Accounted
  BY SameThread DEF IInv, ThreadProofs!IInv
<1>5. \A i \in 1..HandlerDepth : stop_pc[i] = "idle"
  BY <1>1 DEF IInv, HandlersInStep
<1>6. not_full_ = {} /\ not_empty_ = {}
  BY <1>2, <1>5 DEF IInv, Queue!StopLeavesNobodyAsleep
<1> QED
  BY <1>3, <1>4, <1>6

\* A process that exits leaves every file under its final name, each message
\* it took recorded or counted as dropped, and no thread asleep in the queue.
THEOREM CleanExitCorrect == Spec => []CleanExit
BY Invariance, CleanExitHolds, PTL

LEMMA NoGapsHolds == IInv => NoGaps
<1> SUFFICES ASSUME IInv, NEW s \in Subscribers,
                    NEW i \in 1..Len(handled), handled[i].from = s
             PROVE  handled[i].n =
                       Cardinality({j \in {k \in 1..Len(handled) :
                                               handled[k].from = s} : j <= i})
  BY DEF NoGaps
<1>1. /\ handled \in Seq(OutgoingMessage)
      /\ delivered \in Seq(OutgoingMessage)
      /\ queue_ \in Seq(OutgoingMessage)
      /\ Len(handled) \in Nat /\ Len(delivered) \in Nat
      /\ Len(queue_) \in Nat
  BY LenProperties
     DEF IInv, ThreadProofs!IInv, ThreadProofs!TypeOK, Queue!TypeOK
<1>2. /\ Stream \in Seq(OutgoingMessage)
      /\ Len(Stream) = Len(delivered) + Len(queue_)
      /\ \A j \in 1..Len(delivered) : Stream[j] = delivered[j]
  BY <1>1, ConcatProperties DEF Stream
<1>3. /\ Len(handled) <= Len(Stream)
      /\ \A j \in 1..Len(handled) : handled[j] = Stream[j]
  <2>1. /\ Len(handled) <= Len(delivered)
        /\ \A j \in 1..Len(handled) : handled[j] = delivered[j]
    BY DEF IInv, TakerInStep
  <2>2. Len(handled) <= Len(Stream)
    BY <1>1, <1>2, <2>1
  <2>3. \A j \in 1..Len(handled) : j \in 1..Len(delivered)
    BY <1>1, <2>1
  <2> QED
    BY <1>2, <2>1, <2>2, <2>3
<1>4. Numbered(handled)
  BY <1>1, <1>2, <1>3, PrefixNumbered DEF IInv, InOrder
<1> QED
  BY <1>4 DEF Numbered, From

\* What is recorded of each subscriber has no gap: whatever is cut off when the
\* queue is stopped or running_ is cleared is the end, never the middle.
THEOREM NoGapsCorrect == Spec => []NoGaps
BY Invariance, NoGapsHolds, PTL

=============================================================================
