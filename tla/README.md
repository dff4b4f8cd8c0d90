# A TLA+ model of msgbag

msgbag records messages of a publish/subscribe system into bag files and plays
them back.  This directory holds TLA+ modules of its core, TLC configurations
that check them on small instances, and theorems proved with TLAPS.
File references are relative to the repository's `src/` directory.

## 1. Inventory

### Threads and how they meet

    subscriber threads          main thread             record thread
    MsgHandler                  Recorder::Run           DoRecordSingleThread
      stamp the message           subscribe               open a bag
      if (running_)               while (running_)        while (running_)
        queue.Put ----+             sleep                   queue.Take(list)
                      |                                     for each message
                      +--> SyncQueue (capacity 100) ---->     DoWrite: split, prune, write

    SIGINT, SIGTERM: ProgExit -> Recorder::Stop, on the interrupted thread
      running_ = false; queue.Stop(); record_thread_->join(); StopWriting()

A bag is written to `<name>.bag.active` and renamed to `<name>.bag` when it is
finished.  Playing is the work of a single thread:

    Player::Publish                       TimerQueue::Run -> EventLoop::Loop
      Bag::Open(Read) for each bag          while (true)
      View: merge the records                 read(timerfd)  <-- fires, or was closed
      AddTimer for each record                HandleEvent: run what has expired
      timer_queue_.Run() ------------->         DoPublish
                                              Reset: arm the timerfd, or close it

    SIGINT, SIGTERM: ProgExit -> Player::Stop, on the same thread: close(timerfd)

### Components

| component | state | operations | what is hard | what makes it correct |
|---|---|---|---|---|
| `SyncQueue<T>` (`src/common/sync_queue.h`) | `queue_`, `need_stop_`, two wait sets | `Put`, `Take(list&)`, `Stop` | one `notify_one` for a drained queue; `Stop` notifies after unlocking; spurious wakeups | a bounded FIFO channel; no lost wakeup; `Stop` releases everyone |
| record thread (`src/record/recorder.cpp`) | the bag, the file names, `start_time_`, `running_`, disk state | `DoWrite` with `CheckSize`, `CheckDuration`, `CheckNumSplits`, `CheckDisk` | several splits within one message; failing opens and writes, some of them unseen; stamps out of order | each message in one place, limits kept, pruning never deletes too much, a finished bag is final |
| recording process (`recorder.cpp`, `recorder.h`, `record.cpp`) | all of the above, the main thread, handler frames | `MsgHandler`, `Run`, `Stop` | signals at any moment, twice, nested, inside a call that holds a mutex; a recorder that stops by itself | it exits with its bags finished; `Stop` ends, unless its own thread holds a mutex it needs |
| bag file (`src/storage/bag.cpp`) | bytes on disk, the reader's offset | `Open`, `Write`, `Close`, the index scan | a crash inside any write; arithmetic at the end of the file | whole records only in a bag that opens, nothing lost that was complete |
| `ThreadPool` (`src/common/thread_pool.*`), unused by the programs today | a `SyncQueue<Task>`, threads, `running_`, a `once_flag` | `AddTask`, `Stop` | a worker that adds to a full pool; `Stop` called by several threads | a task runs at most once, none after `Stop` has returned; `Stop` returns |
| `TimerQueue`, `EventLoop` (`src/common`) | ordered timers, a timerfd, `running_` | `AddTimer`, `Run`, `HandleEvent`, `Reset`, `Stop` | a timer due exactly now; a relative timerfd and a clock that is set; the fd closed at any moment and more than once | timers run in order, each once, none early; the loop ends |
| `Player` (`src/play`) | bags, a view, a timer queue | `Publish`, `DoPublish`, `Stop` | a signal before there is a logger or a player, or inside a log call; an empty view, over which `GetBeginTime` is undefined | every record played once, in order; the process ends |
| `View`, `Query` (`src/storage`) | queries, iterators | `AddQuery`, `UpdateQueries` | records with equal stamps, a bag without records | exactly the records of all bags, in time order |
| `Buffer` (`src/common/buffer.*`) | a vector with a read and a write index | `append`, `retrieve`, `prepend`, `unwrite`, `shrink`, `readFd` | index arithmetic when bytes move or the vector grows | a byte queue, indices ordered, room for prepending kept |
| header codec (`util.cpp:867-906`) | | `WriteHeader`, `ReadHeader` | a header cut or overwritten in part | what is written reads back |
| command line (`src/record/record.cpp`) | | `ParseOption` | the order of words, a product that overflows | options the recorder can honour |
| `Timestamp` (`src/common/timestamp.*`) | nanoseconds | arithmetic, comparison | overflow of `TIME_MAX` | order of time |
| `PublishSubscribe`, `MsgbagConf`, `Singleton`, logger, handler maps, protobuf files, spdlog, tests | | | | not modelled, see section 6 |

Every hazard found while reading is in `PROJECT.json` under `hazards`, at its
line, with the properties that would catch it going wrong.

## 2. Modules

| module | models | builds on |
|---|---|---|
| `Channel` | abstract: a bounded FIFO channel with bulk receive and close | |
| `SyncQueue` | `sync_queue.h` | implements `Channel` |
| `SyncQueue_proofs` | theorems about `SyncQueue` | `SyncQueue` |
| `RecordThread` | `DoRecordSingleThread`, `DoWrite` and what they call | extends `MachineInt` |
| `RecordThread_proofs` | theorems about `RecordThread` | `RecordThread` |
| `Recorder` | `MsgHandler`, `Run`, `Stop`, signals | instances `Queue` of `SyncQueue` and `Thread` of `RecordThread` |
| `Recorder_proofs` | theorems about `Recorder` | `Recorder`, instances of `SyncQueue_proofs` and `RecordThread_proofs` |
| `MachineInt` | what an `int` and an unsigned 64 bit number make of a size | |
| `CommandLine` | `ParseOption` of the record program, as operators | `MachineInt` |
| `HeaderCodec` | `WriteHeader`, `ReadHeader` and the `Buffer` calls in them, as operators | |
| `BagFile` | a bag on disk, crashes and `Bag::Open(Read)` | extends `HeaderCodec` |
| `BagFile_proofs` | theorems about `BagFile` and the operators of `HeaderCodec` | `BagFile`, `NumberLemmas` |
| `NumberLemmas` | induction and recursion on the natural numbers, as lemmas | |
| `Playback` | abstract: records printed in the order of their stamps | |
| `TimerQueue` | `timer_queue.cpp`, `event_loop.cpp`, the timerfd | |
| `Player` | `play.cpp`, `player.cpp`, the merge of `view.cpp`, signals, the clock | instances `Timers` of `TimerQueue`; implements `Playback` |
| `Player_proofs` | theorems about `Player` | `Player`, `NumberLemmas` |
| `TaskPool` | abstract: tasks begun at most once, by so many threads | |
| `ThreadPool` | `thread_pool.cpp` | instance `Queue` of `SyncQueue`; implements `TaskPool` |
| `ThreadPool_proofs` | theorems about `ThreadPool` | `ThreadPool` |
| `ByteQueue` | abstract: a queue of bytes that can be written at both ends | |
| `Buffer` | `buffer.h`, `buffer.cpp` | implements `ByteQueue` |
| `Buffer_proofs` | theorems about `Buffer` | `Buffer` |
| `MC*` | instances for TLC | |

Each `MC` module with its `.cfg` is one instance; several configurations share
an `MC` module.  Operators named as mutants in a comment are plausible wrong
versions of the definition that follows them; they are used to see that each
property can fail.

### SyncQueue

One action is one critical section of `mutex_`.  A thread that waits on a
condition variable is in its wait set; leaving it (notified, or spuriously) it
is inside `Put` or `Take` again and evaluates the predicate of
`wait(lock, pred)`.  `notify_one` removes any one waiter.  `Stop` is three
actions, because it releases the mutex before it notifies.  `delivered` is a
history variable.  A capacity of 100 is replaced by a constant.
The same module is the queue of messages in `Recorder` and the queue of tasks in
`ThreadPool`.

### RecordThread

`pc` is the step of `DoWrite` that comes next; each file-system operation and
each read or write of the shared `running_` is a step of its own, so that a
crash (any reachable state is one a crash can leave behind) and another
thread's write to `running_` fall between them.  Files are kept in the order of
their opening with their name (`active`, `bag`, `deleted`, or `none` if the open
failed), the records counted in them, the count in their header, whether a failed
operation has damaged them, and which counted record is torn.  Sizes are counted in records, times in clock
units.  `bag_` keeps what the code's `Bag` object carries from one file to the
next: whether the stream is open and good, and `msg_count_`.  The outer `if` and
the `while` of `CheckDuration` test the same condition and are one test that
comes back after each split.  In `Open`, the two threads of file creation, the
opening and the first disk check are one step.  Names are never reused, as
`split_count_` is part of them, and only the first file is opened without
`--split`.

`Bag::Write` looks at the stream before it writes and before it asks for the
file's size.  What it wrote is still in the stream's buffer then, and is flushed
by the `seekp` of `UpdateFileInfo` (`bag.cpp:269`), which throws nothing: a
failed flush is noticed by the next `Write` only.  So a failure in one of the
first four writes of a record, or in a body too large for the buffer, ends the
recording (`WriteFail`), while one in the last write leaves a torn record that
is counted, with `running_` set (`WriteEnd`).  The size is -1 from then on: with
`--size` and `--split` the next message splits, the header is not rewritten, and
recording recovers in a new file; otherwise the next `Write` throws.  The flush
of a new file's header fails unseen in the same way (`StartWriting`).
`Accounted` says what is kept nevertheless: each message is in one place, and a
torn record is the last of a damaged file.

`CheckSize` compares `GetSize`, an `int`, with `max_size`, an unsigned 64 bit
number that `ParseOption` computed as an `int`.  `MachineInt` gives both
conversions for an `int` of `IntRange` values.  A limit that overflowed to a
negative number becomes a huge one, and so does the size of a file that has
passed half the range of `int`; the two meet, so that such a bag splits where
the number of the command line said, up to the range of an `int`
(`SplitWithinLimits`).

### CommandLine

`ParseOption` is a fold over the words of a command line.  The result is the
options with which the program goes on, or that it exits, or that it aborts:
`--split` as the last word passes a null pointer to a `stringstream`.
`--max-splits` in front of `--split` is ignored.  `--size` refuses zero only:
the comparison `max_size <= 0` is unsigned, so that a negative size is accepted,
and the message says "must be 0 or positive".  `MCRecordThread` starts the
record thread from the options of every command line it enumerates, so that no
combination is checked that the program cannot be started with and none is
forgotten.

### Recorder

Subscribers stamp a message, read `running_`, and put; these are three steps.
The record thread's `Take` is the queue's.  A signal pushes a frame on the main
thread, which goes on only when the frames are gone.  The steps of a frame are
those of `Recorder::Stop`.  Joining a thread that is not there, joined already,
or being joined by an outer frame aborts the process: `std::thread::join` throws
`std::system_error`, or a null pointer is dereferenced.  Returning from `Run`
with a joinable record thread aborts as well (`std::terminate` in the
destructor).

The handler logs (`record.cpp:366`, `recorder.cpp:378` and 95, `bag.cpp:260`)
and locks the queue's mutex (`sync_queue.h:52-56`).  Neither mutex is recursive.
`Locking` names where the main thread may hold one of them: the logger's in
`DoSubscribe` and after `Run`, and in a handler the logger's at its beginning and
while the bag is closed, the queue's in `queue_.Stop`.  A signal that lands there
may hang the main thread for good (`hung`).  That is the exception in
`OneSignalIsClean`, which allows one signal to hang the process while topics are
being subscribed to, and in the liveness properties.  While the main thread is
hung the model lets the other threads go on, as they do until they need that
mutex, but forces none to.

Assumptions: the handlers run on the main thread (the kernel prefers it for a
signal sent to the process); `SIGINT` and `SIGTERM` are each blocked while their
own handler runs, so that two frames are the most; the clock does not go back.
Of what is not safe in a signal handler only these two mutexes are modelled: a
signal inside `malloc` or a stream of the standard library is left out.

### HeaderCodec and BagFile

Records are kept as lengths: the file is its number of bytes and the layout of
the records in it.  `UpdateFileInfo` seeks after every write, which flushes the
stream, so that a dead writer, or one whose disk was full, leaves a prefix of
what it wrote, cut at any byte.  Nothing is synchronized with the disk: what a
machine that stops leaves behind is not modelled.  The reader runs when the
writer has ended.

A file that ends inside a topic line makes `getline` set `eofbit`.  `tellg` then
gives -1, which the unsigned `offset_` turns into the largest number and the
subtraction in `CheckEnoughDataToRead` into one byte more than the file has.
Unless the body is longer than that, a record with a cut topic and a body of
zeros is inserted (`TopicTorn`).  `Open` throws after the loop, because the
stream has failed, and `Player` exits, so that the torn record is not played:
`ReadsWholeRecords` allows it as the last record of a refused bag and nowhere
else.

The header record is kept byte by byte, because `Close` writes it a second time
over the first one, with values of other lengths, and a process can die inside.
What is left is then a mixture of the two.  `HeaderCodec` has the two headers as
`WriteHeaderRecord` builds them and one pass of the loop of `ReadHeader`, with
the index arithmetic of `Buffer`: `retrieve` of everything that is there, or
more, sets both indices back to the front, while `peekInt32` and
`retrieveAsString` do not ask whether the bytes exist.  `BagFile` runs that loop
field by field.  Over a header written in full it finds every field
(`ReadsWholeRecords`).  Over a torn one it may run past the end of the vector,
the outcome `undefined`, or read zeros for ever; both are reachable, and the
properties allow them there and nowhere else (`RefusedOnlyIfTorn`, `OpenEnds`).

`WriteHeader` and `peekInt32` are recursive functions, one value for each turn of
the code's loop, so that induction can say what they compute.

Lengths are written low byte first: `appendInt32` stores the host's order,
though its comment speaks of network order (`buffer.h:167`).  No property
depends on which of the two it is.

### Buffer

A buffer is a record of its vector and its two indices, and each method is a
function from buffers to buffers, so that other modules can use it too.  The
machine calls them in every order with every data from a set.  Assertions are
off in a release build: `retrieve` of too much retrieves everything, as the code
does then, while the bounds of `unwrite`, `hasWritten` and `prepend` are kept by
the callers and are guards.  The assertion of `makeSpace`,
`kCheapPrepend < readerIndex_`, follows from the conditions before it.

### TimerQueue and Player

The thread inside `Run` blocks in `read`; `pc` is where it is.  The timerfd is
whether it is open, how many ticks are left, and whether it has fired.  It
counts a relative time, while expirations are compared with the time of day:
`Tick` moves both, `SetClock` only the time of day.  The kernel starts to count
after the program has read the clock, so that a timer fires at least one tick
(`Lag`) after the expiration it was armed for, unless the clock was set.
`GetExpired` leaves the timers that expire exactly now.  An event that finds
nothing expired closes the timerfd and goes on; the next `read` fails and the
loop ends.  A `read` that is interrupted by a handler which closes the
descriptor is restarted and fails too (`SA_RESTART`, as `signal` installs it).

`Player` is `main`, `Publish` and the signal handler on the one thread of the
process.  `ParseOptions` of the play program has an empty branch for each option
but `--help`, so that the options keep their defaults: all topics, no time
range, no second lap.  `GetRecords` is the merge of the bags in a `View`; equal
stamps are ordered by the addresses of their timers, which is any order.  A
signal pushes a frame; the handler logs first.  If the call it has interrupted
is inside the logger, which locks a mutex that is not recursive, the thread may
hang (`hung`).  Before there is a logger, the handler dereferences a null
pointer; before there is a player, it has no effect.

Nothing is published.  The call of `publisher_` in `DoPublish` is commented out
(`player.cpp:157-161`), against the usage text, "Play back the contents of one or
more bag files" (`play.cpp:44-47`); what remains prints the topic.  The
properties speak of what was printed (`printed`), that is of when and in which
order `DoPublish` is called.

`Publish` asks the View for its first time before it asks whether there is a
record (`player.cpp:75`, `view.cpp:27`).  Over an empty View that dereferences
the end of a multimap, which is undefined: with libstdc++ it reads the count
kept beside the end node, and the player goes on to "No messages to play".  The
model stops in the phase `undefined` there and claims nothing.  As the last
record of a bag is never read, a bag with one record is such a case.

A timerfd that the handler closes while bags are being opened frees its number,
and the next `Bag::Open` gets it.  The timer queue then works on the descriptor
of a bag.  Numbers of descriptors are not modelled; a closed timerfd stays
closed.

`ImplementsPlayback` says that what is printed is an initial part of the
records in the order of their stamps, each once and none before its time,
whatever signals and clock do.  `Playback`'s clock is mapped to the latest time
the clock has shown, and its records are those of the view from the moment when
the timers are created: only then is it decided when each of them is due.

### ThreadPool

Workers and clients are the threads of a `SyncQueue`; a worker is a taker, and a
putter while the task it runs adds a task.  `RunThread` reads `running_` once
for each turn of its loop and once for each task of the list it took.  `Stop` is
`std::call_once`: the first caller stops the queue, clears `running_` and joins,
the others wait.  A task does not stop its own pool: it would join itself.
`ImplementsTaskPool` maps the detailed state to sets of tasks that are accepted,
running and done.  When tasks that add tasks run on all workers and the queue is
full, nobody empties it (`Wedged`): `AcceptedAreBegun` names this as the only
way in which an accepted task is never begun though nobody stops the pool.

## 3. Runs

| run | instance | checks |
|---|---|---|
| `sync_queue` | 3 putters, 2 takers, 1 stopper that may stop again, 2 items, capacity 2, 3 accepted puts | `TypeOK`, `NoLostWakeup`, `StopLeavesNobodyAsleep`, `ImplementsChannel`, `QueueDrained`, `StopReleasesEveryone` |
| `record_thread` | the options of every command line of up to 4 of 11 words, an `int` of 4 values, 4 messages with stamps 1 and 4, failures seen and unseen, disk states | `TypeOK`, `Accounted`, `HeaderCounts`, `SplitWithinLimits`, `LimitStops`, `Retention`, `OneActive`, `FinishedBagIsFinal` |
| `recorder_stop` | 2 subscribers with 2 messages each, queue of 2, up to 2 signals, failures, three kinds of options | `TypeOK`, `CleanExit`, `OneSignalIsClean`, `NoGaps`, `ThreadAsSpecified` |
| `recorder_live` | 2 subscribers with 1 message each, queue of 1, 2 signals, failures | `StopCompletes`, `ProcessEnds`, `AcceptedIsHandled` |
| `bag_file` | a header of 17 bytes with two fields, 3 records with topics of 1 and 2 and bodies of 0, 1, 3 and 30 bytes, cut at every byte, the second header included | `TypeOK`, `ReadsWholeRecords`, `LosesAtMostTheLast`, `RefusedOnlyIfTorn`, `OpenEnds` |
| `buffer` | a vector of at most 7 bytes, 2 of them reserved, data of up to 3 bytes, sizes 0, 1 and 3 | `TypeOK`, `ImplementsByteQueue`, `GrowsOnlyWhenFull`, `PrependRoomKept` |
| `playback` | no bag, an empty bag, a bag that is refused, equal stamps in a bag, two bags that interleave; 2 signals; the clock set back once and forward at will | `TypeOK`, `PrintsAll`, `ImplementsPlayback`, `Ends` |
| `thread_pool` | 2 workers, a client with 2 tasks that add 2 tasks each, a queue of 2, 2 calls of `Stop` | `TypeOK`, `ImplementsTaskPool`, `AcceptedAreBegun`, `StopReturns` |
| `keep_max_splits` | as `record_thread`, without failures | refutes `AtMostMaxSplits` |
| `recorder_limit` | `--size` without `--split`, no signals | refutes `LimitLeavesABag` |
| `recorder_span` | `--split --duration`, two subscribers | refutes `SpanWithinDuration` |
| `bag_file_closed` | as `bag_file`, bodies of 0, 1 and 3 bytes | refutes `ClosedBagReadsBack` |

Why the bounds are enough.  Three putters on two slots are the least for which
one drain leaves a putter asleep beside free slots; two takers compete for one
notification; two items show a change of order.  With `max_duration = 1` and a
clock up to 4 one message can be three windows late, so that one `DoWrite`
splits three times and prunes with `max_splits` 1 and 2; four messages exceed
`max_size = 1` by three, with and without `--split`.  Two subscribers on a queue
smaller than their messages block in `Put`; two signals nest, follow each other,
or come before the record thread exists.  Record lengths down to an empty body
let the file be cut inside and at both edges of every field; a body of 30 bytes
is longer than some files that end in its topic line, so that a torn topic takes
both ways.  A buffer of seven
bytes with two reserved takes every branch of `makeSpace`, with moved bytes that
overlap their copy, with and without bytes prepended before.  `recorder_stop`
sets `min_space = 0`, which switches the disk check off: its states are in
`record_thread`, and `ThreadAsSpecified` ties the two together.

Command lines of four words hold `--split`, `--max-splits` and both limits in
every order.  An `int` of four values has one size that fits, one that is
negative and one that wraps to zero; with `--split` four messages cross the
negative one.  `SizeAsked + 1 < IntRange` in the properties leaves out a limit
so close to 4 GB that the size has wrapped before it is seen to be exceeded.  A header of 17 bytes has two fields of different lengths, the
first of which grows when it is rewritten, and padding behind them, so that a
torn rewrite mixes lengths with text.  Three records in two bags interleave and
tie; the bounds of the clock let the timerfd be early, late and exact.  Two
workers on two slots can both be blocked by tasks that add two tasks each, and
one list holds two tasks, so that `running_` is read between them.

### What the refuting runs show

- `recorder_limit`: reaching `--size` or `--duration` without `--split` only
  clears `running_`.  Nobody joins the record thread or finishes the bag; `Run`
  returns, and the process aborts in the destructor of `std::thread`.  The file
  stays `.bag.active`.
- `keep_max_splits`: the file being written is not counted by
  `CheckNumSplits`, so that `--max-splits=N` leaves N+1 bags.
- `recorder_span`: messages are stamped before they are queued; two subscribers
  can queue in the opposite order, and an old message lands in the next bag.
- `bag_file_closed`: `CheckEnoughDataToRead` compares with `>`, so that the
  record that ends at the end of the file is never read.

A second signal aborts the process too (`OneSignalIsClean` excludes it); no text
of the repository promises otherwise, so it is listed as a hazard only.

## 4. Fairness

`SyncQueue!Fairness`: a thread inside `Put`, `Take` or `Stop` that is not asleep
is scheduled, and takers come back for more.  `Recorder!Fairness`: each
subscriber with a message in hand, the record thread, the main thread and the
innermost handler take a step when they can, as long as the main thread is not
hung.  This is what the operating
system's scheduler and a mutex that is held for a bounded time give.  Messages,
signals, ticks and spurious wakeups are never forced.  A single putter may be
overtaken for ever by others, because `notify_one` wakes any waiter: no property
claims otherwise.

`Player!Fairness`: the thread of the process is scheduled, in `main` and in a
handler, and time passes.  Signals are not forced and nobody has to set the
clock; `Ends` holds with a clock set forward as often as one likes.
`ThreadPool!Fairness`: a client that is inside `AddTask`, a worker and a thread
that has called `Stop` are scheduled when they are not blocked, and tasks end.
Nobody has to add a task or to stop the pool.  `BagFile!FairSpec`: the reading
process is scheduled.

## 5. Proofs

Every theorem has the form `Spec => []Invariant` or `Spec => Property`.  Where
the property is not inductive there is an `IInv` that is, proved action by action
or conjunct by conjunct.  TLC finds no violation of these invariants on the
instances of section 3 (of `RecordThread`'s without `options_ \in Options`, which
is costly to evaluate and of which no step changes anything).

### SyncQueue_proofs

For any finite or infinite sets of threads and items and any positive capacity:
`TypeCorrect`, `NoLostWakeupCorrect`, `StopCorrect` and `Refinement`
(`ImplementsChannel`).  `TypeOK` is inductive as it stands.  `NoLostWakeup` is
not: a drain moves everything and notifies one putter, and the argument that an
awake thread always remains needs `TypeOK` (who sleeps is inside a call) and,
case by case, who was woken.  Assumed: `QueueAssumption`, a positive capacity,
and `None` distinct from every item.

### Buffer_proofs

For every reserved room, every default and initial size and every set of data:
`TypeCorrect`, `Refinement` (`ImplementsByteQueue`), `NoNeedlessGrowth`
(`GrowsOnlyWhenFull`) and `RoomKept` (`PrependRoomKept`).  `TypeOK` is not
inductive: `retrieve` of everything sets both indices to `kCheapPrepend`, which
lies within the vector only if the vector was never smaller.  `IInv` adds that.
There is one lemma for each method, which says what it does to the content, the
size and the room in front.  Assumed: `BufferAssumption`, what is written are
sequences of bytes, and sizes are natural numbers (an overflow of `size_t` is not
modelled).

### RecordThread_proofs

For all options, messages, clocks and failures, every property of the run
`record_thread`: `TypeCorrect`, `OneActiveCorrect`, `HeaderCountsCorrect`,
`AccountedCorrect`, `RetentionCorrect`, `SplitWithinLimitsCorrect`,
`LimitStopsCorrect` and the action property `FinishedBagIsFinalCorrect`.

One invariant carries them all.  `Stream` says for each step of `DoWrite` what
the stream, the `Bag` object's count and the current file have to do with each
other; without it nothing is known of the header written by `close`.  `Window`
says that `current_files_` holds the youngest files pruning has seen, which
`Retention` needs at the moment of a deletion.  `SizeBound` and `DurationBound`
state the two limits at every step and not only between messages, with the
excess that one message, or a stop that is not seen yet, may cause.  Assumed:
`RecordAssumption`; its part on sizes, that a limit is what `ParseOption` has
made of an `int`, is `record.cpp:276`, and without it `SplitWithinLimits` is
false.  What is known of `MachineInt` are lemmas on `%`.

### Recorder_proofs

For any finite set of subscribers, any numbers of messages and signals and any
options: `ThreadCorrect` (each step of the process is a step, or none, of
`RecordThread`; its invariants and step lemmas, and those of `SyncQueue`, whose
own actions the process takes, are cited, not repeated), `TypeCorrect`, `OneSignalIsCleanCorrect`, `CleanExitCorrect` and
`NoGapsCorrect`.

`NoGaps` speaks of what was handled; its reason is in the queue.  `InOrder` says
that in everything the queue has accepted the number of a message is its place
among those of its subscriber, and `Flow` that a subscriber that has lost a
message will put no other.  `HandlersInStep` says which handler holds the record
thread, `FewSignals` what a single signal leaves behind; `HangsCleanly` follows
a thread that hangs to a second signal, to `DoSubscribe` or to a recorder that
has given up.  `Healthy`, that a good
stream has left no trace of a failure in its file, is an invariant of the record
thread that only the recorder needs.

An attempt to prove `OneSignalIsClean` showed that `GaveUp`, the cases in which
the recorder ends by itself, had left out a file that was damaged by a write; it
is one of them now.

### BagFile_proofs

For any lengths of the version line, the header, its names and values, of topics
and messages, for any number of records and a crash at any byte:
`TypeCorrect`, `ReadsWholeRecordsCorrect`, `LosesAtMostTheLastCorrect` and
`RefusedOnlyIfTornCorrect`.

The first half is about the header's bytes: what `WriteHeader` has appended
stays (`AppendedPrefix`), where a field lies in the record (`FieldBytes`), that
`peekInt32` of a length is that length (`IntAtLemma`) and that a pass of
`ReadHeader` finds the name and moves to the next field (`TextLemma`,
`FieldStep`).  In `IInv`, `HeaderPlace` says that over a header written in full
`ReadHeader` stands before one of its fields and has found those before;
`Contiguous` and `SizeWritten` say where each record lies and how far the file
goes at each write; `ReaderPlace` that the offset is the end of the last record
inserted, or the end of the file when at most the last record is missed, and
that only a refused bag can have given a torn record.  That
no header is there while the file ends with the version line is part of it:
`Open` then reads zeros and must find the empty header in them.

Assumed: `HeaderAssumption`, `BagFileAssumption` (a topic has a character) and
`HeaderFits`: all fields are shorter than the header record and than 256 bytes.
`bag.cpp:94-100` writes four of them, with values of 20 digits at most: 136
bytes.

The library's induction theorems take operators, which the installed provers
cannot instantiate.  `NumberLemmas` states induction for sets and recursion for
functions, from the well-foundedness of `<`; that is what the recursive
functions of `HeaderCodec` are reasoned about with.

### Player_proofs

For any bags, any clock and any number of signals: `TypeCorrect`,
`PrintsAllCorrect` and `Refinement` (`ImplementsPlayback`).

`Placed` says that while playing each record has a timer, or a timer that is due
to run, or was printed; `Due` that what is due comes before what is left, and
its time has come, even if the clock was set back since.  These two carry the
refinement.  `PrintsAll` needs `Undisturbed` too: without signals and with a clock
that was not set back the timerfd never fires before a timer has expired, so
that the branch of `Reset` that closes it is reached with the last timer only.
Assumed: `HorizonAssumption` and `BagListsAssumption`: stamps are integers, and
`Horizon` lies beyond the last timer.

`ImplementsPlayback` once failed to be provable: it had the records of the view
due at their stamps before `Publish` computed `diff`, which is right only if the
bags begin at time 1, as all bags of the run then did.  The mapping was
corrected, and the bags of `MCPlayer` begin before, at and after it.

### ThreadPool_proofs

For any finite set of workers, any clients and whatever tasks the tasks add:
`TypeCorrect` and `Refinement` (`ImplementsTaskPool`).  `Distinct` says that a
task is in one place (with the thread that offers it, in the queue, or delivered
to one worker's list), `Progress` that a worker has begun what lies before its
position in its list and nothing behind it, and `Stopped` that nobody returns
from `Stop` before the workers were joined.  Assumed: `PoolAssumption`.

### Only model-checked

The liveness properties: `QueueDrained`, `StopReleasesEveryone`, `StopCompletes`,
`ProcessEnds`, `AcceptedIsHandled`, `OpenEnds`, `Ends`, `AcceptedAreBegun` and
`StopReturns`.  TLAPS proves nothing of fairness and `ENABLED`.  `CommandLine` is
evaluated by TLC for every command line of a bounded length, and no theorem
speaks of it: the theorems about the record thread hold for any options that
satisfy `RecordAssumption`, and TLC checks that those of every such command line
do.

## 6. Not modelled

- `PublishSubscribe`: a wrapper of a library outside the repository.
- `MsgbagConf`, the handler maps, protobuf definitions: read once or pure data;
  their results are constants here.
- `Singleton`, spdlog: third-party code, or of no influence on the state
  modelled.  The logger appears where it matters: a handler that logs while the
  thread it interrupts holds the logger's mutex.
- `Timestamp`: times are integers.  Comparison and `AddTime` are arithmetic;
  `TimeDifference` goes through a `double`, but one rounded difference is added
  to all stamps alike, which keeps their order.  The rest is formatting.
- `Bag` in append mode, which nothing uses; compression and chunk options, which
  the code stores and ignores; `-o`, `-O` and the making of file names.
- `SyncQueue::Take(T&)`, which calls a member that `std::list` does not have.
- Repeating timers and timers added from a callback: every caller adds timers
  with interval 0 before `Run`.  `CancelTimer` has an empty body.
- A second lap, the choice of topics (`TopicQuery`), a time range, pausing and
  the terminal in `play`: no option reaches them.
- `ThreadPool::AddTask` after the pool is destroyed, and a task that stops its
  own pool.

## 7. Plan

Done: every component of section 2, and a proof of every safety property that a
passing run checks.  Left:

1. Lemmas that are of use outside their modules: that `HeaderCodec` reads back
   any header, stated apart from `BagFile`, and what the merge of `View` gives.
2. The steps that the liveness properties rest on, as far as they are safety:
   that each fair action, when taken, brings `Ends` and `OpenEnds` nearer.
3. `CommandLine`: that what it returns for any words satisfies
   `RecordAssumption`.
