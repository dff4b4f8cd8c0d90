------------------------------ MODULE Recorder ------------------------------
(***************************************************************************)
(* The recording process (src/src/record): subscriber threads that call    *)
(* MsgHandler, the queue between them and the record thread, the record    *)
(* thread itself, the main thread in Recorder::Run, and the handler of     *)
(* SIGINT and SIGTERM, which calls Recorder::Stop on the main thread.      *)
(*                                                                         *)
(* Queue and Thread are the components; this module says who takes which   *)
(* of their steps, and when.  A behaviour begins when Run has set running_ *)
(* and start_time_ and the record thread may run, although record_thread_  *)
(* is not assigned yet.                                                    *)
(***************************************************************************)
EXTENDS Integers, Sequences, FiniteSets

CONSTANTS Subscribers,    \* one callback thread for each PublishSubscribe
          RecordThreadId, \* the one thread that takes from the queue
          NoMsg,          \* not a message
          MAX_TASK_COUNT, \* capacity of outmsg_queueu_
          MsgsPerSub,     \* bound on the messages each subscriber receives
          MaxSignals,     \* bound on the signals delivered
          Options, MaxTime, DiskPeriod, CanFail, \* see RecordThread
          IntRange, ULongRange                   \* see MachineInt

\* SIGINT and SIGTERM: each is blocked while its own handler runs.
HandlerDepth == 2

VARIABLES
    queue_, need_stop_, not_full_, not_empty_, putting, taking, list, stop_pc,
    delivered,                                             \* see SyncQueue
    options_, clock, running_, pc, rotation, start_time_, files, bag_,
    current_files_, writing_enabled_, check_disk_next_, handled,
    dropped,                                               \* see RecordThread
    om,          \* the OutgoingMessage each subscriber has stamped, not yet put
    received,    \* how many messages each subscriber has received
    subscribed,  \* subscribers whose callbacks may run
    main,        \* where Run is: starting, subscribing or polling
    frames,      \* the signal handlers running on the main thread, innermost
                 \* last, each with the step of Stop it takes next
    hung,        \* a handler waits for a mutex that the call it has
                 \* interrupted holds
    signals,     \* how many signals were delivered
    joined,      \* record_thread_ has been joined
    proc         \* the process: up, exited or aborted

OutgoingMessage == [from : Subscribers, n : 1..MsgsPerSub, time : 0..MaxTime]
AllMsgs == Cardinality(Subscribers) * MsgsPerSub

Queue == INSTANCE SyncQueue WITH
             Putters <- Subscribers, Takers <- {RecordThreadId},
             Stoppers <- 1..HandlerDepth, Items <- OutgoingMessage,
             None <- NoMsg, max_size_ <- MAX_TASK_COUNT, MaxPuts <- AllMsgs

Thread == INSTANCE RecordThread WITH
             Msgs <- OutgoingMessage, MaxMsgs <- AllMsgs

ASSUME RecorderAssumption ==
    /\ IsFiniteSet(Subscribers)
    /\ NoMsg \notin OutgoingMessage
    /\ MAX_TASK_COUNT \in Nat \ {0}
    /\ MsgsPerSub \in Nat /\ MaxSignals \in Nat
    /\ MaxTime \in Nat /\ DiskPeriod \in Nat /\ CanFail \in BOOLEAN

\* See MachineInt and RecordThread.
ASSUME SizeAssumption ==
    /\ IntRange \in Nat \ {0} /\ ULongRange \in Nat
    /\ IntRange % 2 = 0 /\ ULongRange >= IntRange
    /\ ULongRange % IntRange = 0
    /\ Options \subseteq Thread!OptionRecord
    /\ \A o \in Options : o.max_size = Thread!AsULong(Thread!AsInt(o.max_size))

queueVars == <<queue_, need_stop_, not_full_, not_empty_, putting, taking,
               list, stop_pc, delivered>>
threadVars == <<options_, clock, running_, pc, rotation, start_time_, files,
                bag_, current_files_, writing_enabled_, check_disk_next_,
                handled, dropped>>
subs == <<om, received, subscribed>>
control == <<main, frames, hung, signals, joined, proc>>
vars == <<queueVars, threadVars, subs, control>>

Init == /\ Queue!Init
        /\ Thread!Init
        /\ om = [s \in Subscribers |-> NoMsg]
        /\ received = [s \in Subscribers |-> 0]
        /\ subscribed = {}
        /\ main = "starting"
        /\ frames = <<>>
        /\ hung = FALSE
        /\ signals = 0
        /\ joined = FALSE
        /\ proc = "up"

-----------------------------------------------------------------------------
(* Subscriber threads: MsgHandler *)

\* The message is stamped before running_ is read and before it is queued.
Receive(s) ==
    /\ s \in subscribed
    /\ om[s] = NoMsg /\ putting[s] = NoMsg
    /\ received[s] < MsgsPerSub
    /\ om' = [om EXCEPT ![s] = [from |-> s, n |-> received[s] + 1,
                                time |-> clock]]
    /\ received' = [received EXCEPT ![s] = @ + 1]
    /\ UNCHANGED <<queueVars, threadVars, subscribed, control>>

\* Mutant of CheckRunning: a message is dropped when the queue is full.
CheckRunningTryPut(s) ==
    /\ om[s] # NoMsg
    /\ \/ running_ /\ Len(queue_) < MAX_TASK_COUNT /\ Queue!PutCall(s, om[s])
       \/ ~(running_ /\ Len(queue_) < MAX_TASK_COUNT) /\ UNCHANGED queueVars
    /\ om' = [om EXCEPT ![s] = NoMsg]
    /\ UNCHANGED <<threadVars, received, subscribed, control>>

\* if (running_) outmsg_queueu_.Put(om): the flag may change before the Put.
CheckRunning(s) ==
    /\ om[s] # NoMsg
    /\ \/ running_ /\ Queue!PutCall(s, om[s])
       \/ ~running_ /\ UNCHANGED queueVars
    /\ om' = [om EXCEPT ![s] = NoMsg]
    /\ UNCHANGED <<threadVars, received, subscribed, control>>

Put(s) == /\ Queue!Add(s)
          /\ UNCHANGED <<threadVars, subs, control>>

-----------------------------------------------------------------------------
(* The record thread *)

\* What is left of the list that Take filled: list[Len(handled) + 1 .. ].
Remaining == SubSeq(delivered, Len(handled) + 1, Len(delivered))

RecordLoop ==
    /\ Thread!Loop
    /\ \/ running_ /\ Queue!TakeCall(RecordThreadId)
       \/ ~running_ /\ UNCHANGED queueVars

\* Mutant of RecordTake: what was taken is not looked at.
RecordTakeDiscards ==
    /\ pc = "take"
    /\ Queue!Take(RecordThreadId)
    /\ pc' = IF RecordThreadId \in taking' THEN "take" ELSE "loop"
    /\ UNCHANGED <<options_, clock, running_, rotation, start_time_, files,
                   bag_, current_files_, writing_enabled_, check_disk_next_,
                   handled, dropped>>

RecordTake ==
    /\ pc = "take"
    /\ Queue!Take(RecordThreadId)
    /\ \/ RecordThreadId \in taking' /\ UNCHANGED threadVars
       \/ RecordThreadId \notin taking' /\ Thread!Taken

\* Mutant of RecordNext: running_ is not read between two messages.
RecordNextRegardless ==
    /\ pc = "next"
    /\ \/ Remaining = <<>> /\ pc' = "loop" /\ UNCHANGED handled
       \/ /\ Remaining # <<>> /\ pc' = "size"
          /\ handled' = Append(handled, Head(Remaining))
    /\ UNCHANGED <<queueVars, options_, clock, running_, rotation, start_time_,
                   files, bag_, current_files_, writing_enabled_,
                   check_disk_next_, dropped>>

RecordNext ==
    /\ \/ Remaining = <<>> /\ Thread!ListDone
       \/ Remaining # <<>> /\ (Thread!Abandon \/ Thread!NextMsg(Head(Remaining)))
    /\ UNCHANGED queueVars

RecordStep == /\ \/ RecordLoop \/ RecordTake \/ RecordNext
                 \/ (Thread!Open \/ Thread!DoWrite) /\ UNCHANGED queueVars
              /\ UNCHANGED <<subs, control>>

-----------------------------------------------------------------------------
(* The main thread: Run, while no handler interrupts it *)

\* record_thread_ is assigned.
RunThreadStarted ==
    /\ main = "starting" /\ main' = "subscribing"
    /\ UNCHANGED <<subscribed, proc>>

\* DoSubscribe; a topic without a handler is skipped.
DoSubscribe ==
    /\ main = "subscribing"
    /\ \/ /\ \E s \in Subscribers \ subscribed :
                subscribed' = subscribed \union {s}
          /\ UNCHANGED main
       \/ main' = "polling" /\ UNCHANGED subscribed
    /\ UNCHANGED proc

\* while (running_) sleep ends, and main returns.  Destroying a joinable
\* record_thread_ calls std::terminate.
RunReturns ==
    /\ main = "polling" /\ ~running_
    /\ proc' = IF joined THEN "exited" ELSE "aborted"
    /\ UNCHANGED <<main, subscribed>>

MainStep == /\ frames = <<>>
            /\ RunThreadStarted \/ DoSubscribe \/ RunReturns
            /\ UNCHANGED <<queueVars, threadVars, om, received, frames, hung,
                           signals, joined>>

-----------------------------------------------------------------------------
(* The signal handler: ProgExit calls Recorder::Stop *)

Depth == Len(frames)
At(step) == frames # <<>> /\ frames[Depth] = step
GoTo(step) == frames' = [frames EXCEPT ![Depth] = step]

\* Whether the main thread may hold a mutex that is not recursive and that a
\* handler needs: the logger's, in DoSubscribe, after Run has returned, before
\* Stop clears running_ and in Bag::Close; or the queue's, in queue_.Stop.
Locking ==
    \/ /\ frames = <<>>
       /\ \/ main = "subscribing"
          \/ main = "polling" /\ ~running_
    \/ \E step \in {"flag", "queue", "notify", "close"} : At(step)

\* SIGINT or SIGTERM, on the main thread.
Signal == /\ signals < MaxSignals /\ Depth < HandlerDepth /\ ~hung
          /\ signals' = signals + 1
          /\ frames' = Append(frames, "flag")
          /\ hung' \in IF Locking THEN BOOLEAN ELSE {FALSE}
          /\ UNCHANGED <<queueVars, threadVars, subs, main, joined, proc>>

\* Mutant of ClearRunning: Stop forgets to stop the queue.
ClearRunningOnly == /\ At("flag") /\ GoTo("join")
                    /\ Thread!StopFlag
                    /\ UNCHANGED <<queueVars, joined, proc>>

ClearRunning == /\ At("flag") /\ GoTo("queue")
                /\ Thread!StopFlag
                /\ UNCHANGED <<queueVars, joined, proc>>

StopQueue == /\ At("queue") /\ GoTo("notify")
             /\ Queue!StopSet(Depth)
             /\ UNCHANGED <<threadVars, joined, proc>>

\* Mutant of NotifyQueue: the taker is not notified.
NotifyQueuePutters == /\ At("notify") /\ GoTo("join")
                      /\ Queue!StopNotifyFull(Depth)
                      /\ UNCHANGED <<threadVars, joined, proc>>

NotifyQueue == /\ At("notify")
               /\ Queue!StopNotify(Depth)
               /\ GoTo(IF stop_pc'[Depth] = "idle" THEN "join" ELSE "notify")
               /\ UNCHANGED <<threadVars, joined, proc>>

\* No thread object yet, one already joined, or one that an outer handler is
\* joining: a null pointer is dereferenced, or join throws; nobody catches it.
CannotJoin == \/ main = "starting"
              \/ joined
              \/ \E i \in 1..(Depth - 1) : frames[i] = "joining"

JoinBegin == /\ At("join")
             /\ \/ CannotJoin /\ proc' = "aborted" /\ UNCHANGED frames
                \/ ~CannotJoin /\ GoTo("joining") /\ UNCHANGED proc
             /\ UNCHANGED <<queueVars, threadVars, joined>>

\* Mutant of JoinEnd: Stop does not wait for the record thread.
JoinEndEarly == /\ At("joining") /\ GoTo("close")
                /\ joined' = TRUE
                /\ UNCHANGED <<queueVars, threadVars, proc>>

\* Mutant of JoinEnd: Stop returns without StopWriting.
JoinEndReturns == /\ At("joining")
                  /\ pc = "done"
                  /\ joined' = TRUE
                  /\ frames' = SubSeq(frames, 1, Depth - 1)
                  /\ UNCHANGED <<queueVars, threadVars, proc>>

\* Mutant of JoinEnd: the thread is waited for, but not joined.
JoinEndUnjoined == /\ At("joining") /\ GoTo("close")
                   /\ pc = "done"
                   /\ UNCHANGED <<queueVars, threadVars, joined, proc>>

JoinEnd == /\ At("joining") /\ GoTo("close")
           /\ pc = "done"
           /\ joined' = TRUE
           /\ UNCHANGED <<queueVars, threadVars, proc>>

StopWritingClose == /\ At("close") /\ GoTo("rename")
                    /\ Thread!StopClose
                    /\ UNCHANGED <<queueVars, joined, proc>>

StopWritingRename == /\ At("rename")
                     /\ Thread!StopRename
                     /\ frames' = SubSeq(frames, 1, Depth - 1)
                     /\ UNCHANGED <<queueVars, joined, proc>>

HandlerStep == /\ ~hung
               /\ \/ ClearRunning \/ StopQueue \/ NotifyQueue \/ JoinBegin
                  \/ JoinEnd \/ StopWritingClose \/ StopWritingRename
               /\ UNCHANGED <<subs, main, hung, signals>>

-----------------------------------------------------------------------------

Tick == Thread!Tick /\ UNCHANGED <<queueVars, subs, control>>

Wakeup == Queue!SpuriousWake /\ UNCHANGED <<threadVars, subs, control>>

Gone == proc # "up" \/ hung
Stay == Gone /\ UNCHANGED vars

Running == \/ \E s \in Subscribers : Receive(s) \/ CheckRunning(s) \/ Put(s)
           \/ RecordStep \/ MainStep \/ HandlerStep
           \/ Signal \/ Tick \/ Wakeup

Next == \/ proc = "up" /\ Running
        \/ Stay

Spec == Init /\ [][Next]_vars

Alive(step) == ~Gone /\ step

\* Every thread that is not blocked is scheduled, unless the main thread hangs:
\* then the others may go on until they need the mutex that it holds.
\* Messages, signals, the clock and spurious wakeups come as they please.
Fairness == /\ \A s \in Subscribers :
                  WF_vars(Alive(CheckRunning(s))) /\ WF_vars(Alive(Put(s)))
            /\ WF_vars(Alive(RecordStep))
            /\ WF_vars(Alive(MainStep))
            /\ WF_vars(Alive(HandlerStep))

FairSpec == Spec /\ Fairness

-----------------------------------------------------------------------------
(* Properties *)

HandlerPC == {"flag", "queue", "notify", "join", "joining", "close", "rename"}

\* The types of the control state of the process; a joined record thread has
\* ended, and a subscriber is never between stamping and putting two messages.
TypeOK == /\ om \in [Subscribers -> OutgoingMessage \union {NoMsg}]
          /\ received \in [Subscribers -> 0..MsgsPerSub]
          /\ subscribed \subseteq Subscribers
          /\ main \in {"starting", "subscribing", "polling"}
          /\ frames \in Seq(HandlerPC) /\ Depth <= HandlerDepth
          /\ hung \in BOOLEAN /\ (hung => frames # <<>>)
          /\ signals \in 0..MaxSignals
          /\ joined \in BOOLEAN
          /\ joined => pc \in {"done", "closed", "finished"}
          /\ \A s \in Subscribers : om[s] = NoMsg \/ putting[s] = NoMsg
          /\ proc \in {"up", "exited", "aborted"}

\* The process exits normally only with every bag finished: no temporary name
\* is left, the last message is recorded or accounted for, and nobody is
\* asleep in the queue.
CleanExit ==
    proc = "exited" =>
        /\ \A i \in 1..Len(files) : files[i].name # "active"
        /\ Thread!Accounted
        /\ not_full_ = {} /\ not_empty_ = {}

\* The recorder stopped by itself: a limit without --split, or a failed file.
GaveUp == \/ \E i \in 1..Len(files) : files[i].name = "none"
          \/ bag_.open /\ ~bag_.good
          \/ \E i \in 1..Len(files) :
                files[i].damaged /\ (pc = "body" => i < Len(files))
          \/ /\ ~options_.split /\ options_.max_size > 0
             /\ Len(handled) >= Thread!SizeAsked + 2
          \/ /\ ~options_.split /\ options_.max_duration > 0
             /\ \E i \in 1..Len(handled) :
                   handled[i].time > start_time_ + options_.max_duration

\* One signal, once the record thread exists, stops a healthy recorder
\* cleanly, wherever the threads are: it is never why the process aborts, nor,
\* once the topics are subscribed to, why its main thread hangs.
OneSignalIsClean ==
    /\ proc = "aborted" => signals >= 2 \/ main = "starting" \/ GaveUp
    /\ hung => signals >= 2 \/ main = "subscribing" \/ GaveUp

\* What the record thread handles of each subscriber is a prefix of what that
\* subscriber received, in order: Stop may cut it short, never tear a gap.
NoGaps ==
    \A s \in Subscribers :
        LET mine == {i \in 1..Len(handled) : handled[i].from = s}
        IN  \A i \in mine :
               handled[i].n = Cardinality({j \in mine : j <= i})

\* The record thread and Stop take the steps of RecordThread and no others, so
\* that what is proved of these holds in the recorder.
ThreadAsSpecified == Thread!Spec

\* A signal handler that has begun comes to its end, or the process does,
\* unless a signal has landed in a call that holds a mutex its handler needs.
StopCompletes == frames # <<>> ~> (frames = <<>> \/ Gone)

\* Once running_ is cleared, by whatever cause, the process goes away, with
\* the same exception.
ProcessEnds == ~running_ ~> Gone

\* A message accepted by the queue is handled, unless recording stops or the
\* main thread hangs with the logger's mutex, before it has cleared running_.
AcceptedIsHandled ==
    \A k \in 1..AllMsgs :
        Len(delivered) + Len(queue_) >= k ~>
            (Len(handled) >= k \/ ~running_ \/ hung)

-----------------------------------------------------------------------------
(* What the usage text says, and the code does not do *)

\* "--size=SIZE  record a bag of maximum size SIZE MB", "--duration=DURATION
\* record a bag of maximum duration": when the process is gone without having
\* been interrupted, a limit has ended it and the bag is there.
LimitLeavesABag ==
    proc # "up" /\ signals = 0 =>
        \A i \in 1..Len(files) : files[i].name \in {"bag", "deleted"}

\* "--duration=DURATION  record a bag of maximum duration DURATION in seconds":
\* with --split no bag holds two messages further apart than that.
SpanWithinDuration ==
    options_.split /\ options_.max_duration > 0 =>
        \A i \in 1..Len(files) : \A p, q \in Thread!RecordsOf(i) :
            handled[p].time - handled[q].time <= options_.max_duration
=============================================================================
