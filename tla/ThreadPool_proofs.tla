-------------------------- MODULE ThreadPool_proofs --------------------------
(***************************************************************************)
(* ThreadPool for any number of workers, clients and tasks, and whatever   *)
(* the tasks add: type correctness, and the pool implements TaskPool.      *)
(***************************************************************************)
EXTENDS ThreadPool, SequenceTheorems, FiniteSetTheorems, TLAPS

Threads == Clients \union Workers

-----------------------------------------------------------------------------
(* The inductive invariant *)

QueueTypes == /\ queue_ \in Seq(Task) /\ delivered \in Seq(Task)
              /\ list \in [Workers -> Seq(Task)]
              /\ putting \in [Threads -> Task \union {NoTask}]

Members(s) == {s[i] : i \in 1..Len(s)}
NoRepeats(s) == \A i, j \in 1..Len(s) : s[i] = s[j] => i = j

\* A task is in one place only: with the thread that offers it, in the queue,
\* or delivered to the list of one worker.
Distinct ==
    /\ NoRepeats(queue_)
    /\ \A w \in Workers : NoRepeats(list[w])
    /\ \A w \in Workers : Members(list[w]) \subseteq Members(delivered)
    /\ \A v, w \in Workers : v # w =>
          Members(list[v]) \intersect Members(list[w]) = {}
    /\ Members(queue_) \intersect Members(delivered) = {}
    /\ \A t \in Threads : putting[t] # NoTask =>
          /\ putting[t] \notin Members(queue_) \union Members(delivered)
          /\ \A u \in Threads : u # t => putting[u] # putting[t]

\* The tasks there are have been passed to AddTask.
Numbered ==
    /\ Members(queue_) \union Members(delivered) \subseteq 1..added
    /\ \A t \in Threads : putting[t] # NoTask => putting[t] \in 1..added

\* A worker that goes through its list has begun none of the tasks ahead, and
\* has begun the one it runs.  Inside Take it has an empty list.
Progress ==
    /\ begun \subseteq Members(delivered)
    /\ \A w \in Workers : worker[w] \in {"next", "task", "adding"} =>
          \A k \in pos[w]..Len(list[w]) :
              list[w][k] \in begun <=> k = pos[w] /\ w \in Running
    /\ \A w \in Workers : worker[w] = "take" => list[w] = <<>>

\* Nobody returns from Stop before the flag is cleared and the workers joined.
Stopped == /\ \A s \in Stoppers : stopping[s] = "join" => ~running_
           /\ \A s \in Stoppers : stopping[s] = "returned" => flag_ = "set"
           /\ flag_ = "set" => /\ ~running_
                               /\ \A w \in Workers : worker[w] = "exited"

IInv == TypeOK /\ QueueTypes /\ Distinct /\ Numbered /\ Progress /\ Stopped

-----------------------------------------------------------------------------
(* What a step does to the queue *)

\* Thread t offers the next task to the queue.
Offers(t) == /\ putting[t] = NoTask /\ added < MaxTasks
             /\ added' = added + 1
             /\ putting' = [putting EXCEPT ![t] = added + 1]
             /\ UNCHANGED <<queue_, delivered, list>>

\* The queue accepts the task that t offers.
Pushes(t) == /\ putting[t] # NoTask
             /\ queue_' = Append(queue_, putting[t])
             /\ putting' = [putting EXCEPT ![t] = NoTask]
             /\ UNCHANGED <<delivered, list, added>>

\* The queue is stopped, and the task that t offers is lost.
Loses(t) == /\ putting[t] # NoTask
            /\ putting' = [putting EXCEPT ![t] = NoTask]
            /\ UNCHANGED <<queue_, delivered, list, added>>

\* Worker w begins a turn with an empty list ...
Clears(w) == /\ list' = [list EXCEPT ![w] = <<>>]
             /\ UNCHANGED <<queue_, delivered, putting, added>>

\* ... and gets everything there is in the queue.
Drains(w) == /\ list' = [list EXCEPT ![w] = queue_]
             /\ queue_' = <<>>
             /\ delivered' = delivered \o queue_
             /\ UNCHANGED <<putting, added>>

Keeps == UNCHANGED <<queue_, delivered, list, putting, added>>

QueueStep == \/ Keeps
             \/ \E t \in Threads : Offers(t) \/ Pushes(t) \/ Loses(t)
             \/ \E w \in Workers : Clears(w) \/ Drains(w)

\* A step of Put on thread t: it waits, or it returns.
LEMMA AddLemma ==
    ASSUME NEW t, Queue!Add(t)
    PROVE  /\ Keeps \/ Pushes(t) \/ Loses(t) \/ added' # added
           /\ taking' = taking
           /\ putting[t] # NoTask
           /\ \/ putting' = putting
              \/ putting' = [putting EXCEPT ![t] = NoTask]
BY DEF Queue!Add, Queue!AddBlock, Queue!AddStopped, Queue!AddPush,
       Keeps, Pushes, Loses

\* A step of Take on worker w: it waits, or it returns, with or without tasks.
LEMMA TakeLemma ==
    ASSUME NEW w, Queue!Take(w)
    PROVE  /\ w \in taking /\ putting' = putting
           /\ \/ taking' = taking /\ UNCHANGED <<queue_, delivered, list>>
              \/ taking' = taking \ {w} /\ UNCHANGED <<queue_, delivered, list>>
              \/ /\ taking' = taking \ {w}
                 /\ list' = [list EXCEPT ![w] = queue_]
                 /\ queue_' = <<>> /\ delivered' = delivered \o queue_
BY DEF Queue!Take, Queue!TakeBlock, Queue!TakeStopped, Queue!TakeAll

\* The steps that do not touch the queue, the lists or what is offered.
LEMMA StopStepLemma ==
    ASSUME NEW s, StopStep(s) \/ StopCalled(s)
    PROVE  Keeps /\ UNCHANGED <<taking, worker, pos, to_add, begun, finished>>
BY DEF StopStep, StopCalled, StopCall, StopWaits, StopQueue, StopNotifies,
       ClearRunning, JoinAll, Queue!StopSet, Queue!StopNotify,
       Queue!StopNotifyFull, Queue!StopNotifyEmpty, queueVars, history, Keeps

LEMMA WakeLemma ==
    ASSUME Wakeup \/ Quiet \/ UNCHANGED vars
    PROVE  /\ Keeps
           /\ UNCHANGED <<taking, running_, worker, pos, to_add, flag_,
                          stopping, begun, finished>>
BY DEF Wakeup, Quiet, Queue!SpuriousWake, vars, queueVars, history, Keeps

\* What the steps of a worker do, one by one.
LEMMA WorkerLemma ==
    ASSUME NEW w \in Workers, WorkerStep(w)
    PROVE  /\ UNCHANGED <<running_, flag_, stopping>>
           /\ \/ /\ worker[w] = "loop" /\ GoTo(w, "take") /\ Clears(w)
                 /\ w \notin taking /\ taking' = taking \union {w}
                 /\ UNCHANGED <<pos, to_add, begun, finished>>
              \/ /\ worker[w] = "loop" /\ GoTo(w, "exited") /\ Keeps
                 /\ UNCHANGED <<taking, pos, to_add, begun, finished>>
              \/ /\ worker[w] = "take" /\ GoTo(w, "take") /\ Keeps
                 /\ w \in taking
                 /\ UNCHANGED <<taking, pos, to_add, begun, finished>>
              \/ /\ worker[w] = "take" /\ GoTo(w, "next")
                 /\ Keeps \/ Drains(w)
                 /\ w \in taking /\ taking' = taking \ {w}
                 /\ UNCHANGED <<pos, to_add, begun, finished>>
              \/ /\ worker[w] = "next" /\ Keeps
                 /\ ListEnds(w) \/ ListDropped(w) \/ TaskBegins(w)
                 /\ UNCHANGED <<taking, finished>>
              \/ /\ worker[w] = "task" /\ GoTo(w, "adding") /\ Offers(w)
                 /\ to_add[w] > 0 /\ to_add' = [to_add EXCEPT ![w] = @ - 1]
                 /\ UNCHANGED <<taking, pos, begun, finished>>
              \/ /\ worker[w] = "adding" /\ GoTo(w, "adding")
                 /\ Keeps \/ Pushes(w) \/ Loses(w)
                 /\ UNCHANGED <<taking, pos, to_add, begun, finished>>
              \/ /\ worker[w] = "adding" /\ GoTo(w, "task")
                 /\ Keeps \/ Pushes(w) \/ Loses(w)
                 /\ putting'[w] = NoTask
                 /\ UNCHANGED <<taking, pos, to_add, begun, finished>>
              \/ /\ worker[w] = "task" /\ GoTo(w, "next") /\ Keeps
                 /\ to_add[w] = 0
                 /\ finished' = finished \union {Current(w)}
                 /\ pos' = [pos EXCEPT ![w] = @ + 1]
                 /\ UNCHANGED <<taking, to_add, begun>>
<1>1. UNCHANGED <<running_, flag_, stopping>>
  BY DEF WorkerStep
<1>2. CASE Loop(w)
  BY <1>1, <1>2 DEF Loop, Queue!TakeCall, queueVars, history, Keeps, Clears
<1>3. CASE Take(w)
  <2>1. /\ worker[w] = "take" /\ Queue!Take(w)
        /\ GoTo(w, IF w \in taking' THEN "take" ELSE "next")
        /\ UNCHANGED <<added, pos, to_add, begun, finished>>
    BY <1>3 DEF Take, history
  <2>2. CASE taking' = taking /\ UNCHANGED <<queue_, delivered, list>>
    <3>1. w \in taking /\ w \in taking' /\ putting' = putting
      BY <2>1, <2>2, TakeLemma
    <3> QED
      BY <1>1, <2>1, <2>2, <3>1 DEF Keeps, GoTo
  <2>3. CASE taking' = taking \ {w}
    <3>1. /\ w \in taking /\ w \notin taking' /\ putting' = putting
          /\ Keeps \/ Drains(w)
      BY <2>1, <2>3, TakeLemma DEF Keeps, Drains
    <3> QED
      BY <1>1, <2>1, <2>3, <3>1 DEF GoTo
  <2> QED
    BY <2>1, <2>2, <2>3, TakeLemma
<1>4. CASE NextTask(w)
  BY <1>1, <1>4 DEF NextTask, queueVars, Keeps
<1>5. CASE TaskAdds(w)
  BY <1>1, <1>5
     DEF TaskAdds, Pass, Queue!PutCall, history, Offers
<1>6. CASE TaskPuts(w)
  <2>1. /\ worker[w] = "adding" /\ Queue!Add(w)
        /\ GoTo(w, IF putting'[w] = NoTask THEN "task" ELSE "adding")
        /\ UNCHANGED <<added, pos, to_add, begun, finished>>
    BY <1>6 DEF TaskPuts, history
  <2>2. taking' = taking /\ (Keeps \/ Pushes(w) \/ Loses(w))
    BY <2>1, AddLemma
  <2> QED
    BY <1>1, <2>1, <2>2 DEF GoTo
<1>7. CASE TaskEnds(w)
  BY <1>1, <1>7 DEF TaskEnds, queueVars, Keeps
<1> QED
  BY <1>2, <1>3, <1>4, <1>5, <1>6, <1>7 DEF WorkerStep

LEMMA ClientLemma ==
    ASSUME NEW c \in Clients, AddTask(c) \/ AddTaskPut(c)
    PROVE  /\ Offers(c) \/ Keeps \/ Pushes(c) \/ Loses(c)
           /\ UNCHANGED <<taking, running_, worker, pos, to_add, flag_,
                          stopping, begun, finished>>
<1>1. CASE AddTask(c)
  BY <1>1 DEF AddTask, Pass, Queue!PutCall, history, Offers
<1>2. CASE AddTaskPut(c)
  <2>1. /\ Queue!Add(c)
        /\ UNCHANGED <<running_, added, worker, pos, to_add, flag_, stopping,
                       begun, finished>>
    BY <1>2 DEF AddTaskPut, history
  <2> QED
    BY <2>1, AddLemma
<1> QED
  BY <1>1, <1>2

LEMMA NextCases ==
    ASSUME [Next]_vars
    PROVE  \/ \E c \in Clients : AddTask(c) \/ AddTaskPut(c)
           \/ \E w \in Workers : WorkerStep(w)
           \/ \E s \in Stoppers : StopStep(s) \/ StopCalled(s)
           \/ Wakeup \/ Quiet \/ UNCHANGED vars
BY DEF Next

LEMMA QueueSteps ==
    ASSUME [Next]_vars
    PROVE  QueueStep
<1>1. ASSUME NEW c \in Clients, AddTask(c) \/ AddTaskPut(c)
      PROVE  QueueStep
  BY <1>1, ClientLemma DEF QueueStep, Threads
<1>2. ASSUME NEW w \in Workers, WorkerStep(w)
      PROVE  QueueStep
  BY <1>2, WorkerLemma DEF QueueStep, Threads
<1>3. ASSUME NEW s \in Stoppers, StopStep(s) \/ StopCalled(s)
      PROVE  QueueStep
  BY <1>3, StopStepLemma DEF QueueStep
<1>4. CASE Wakeup \/ Quiet \/ UNCHANGED vars
  BY <1>4, WakeLemma DEF QueueStep
<1> QED
  BY <1>1, <1>2, <1>3, <1>4, NextCases

-----------------------------------------------------------------------------
(* Types *)

LEMMA QueueTypesInductive ==
    ASSUME QueueTypes, added \in 0..MaxTasks, QueueStep
    PROVE  QueueTypes' /\ added' \in 0..MaxTasks
<1> USE PoolAssumption DEF QueueTypes
<1>1. CASE Keeps
  BY <1>1 DEF Keeps
<1>2. ASSUME NEW t \in Threads, Offers(t)
      PROVE  QueueTypes' /\ added' \in 0..MaxTasks
  <2>1. added + 1 \in Task /\ added' \in 0..MaxTasks
    BY <1>2 DEF Offers, Task
  <2>2. putting' \in [Threads -> Task \union {NoTask}]
    BY <1>2, <2>1 DEF Offers
  <2> QED
    BY <1>2, <2>1, <2>2 DEF Offers
<1>3. ASSUME NEW t \in Threads, Pushes(t) \/ Loses(t)
      PROVE  QueueTypes' /\ added' \in 0..MaxTasks
  <2>1. putting[t] \in Task
    BY <1>3 DEF Pushes, Loses
  <2>2. queue_' \in Seq(Task)
    <3>1. CASE Pushes(t)
      BY <2>1, <3>1, AppendProperties DEF Pushes
    <3>2. CASE Loses(t)
      BY <3>2 DEF Loses
    <3> QED
      BY <1>3, <3>1, <3>2
  <2>3. putting' \in [Threads -> Task \union {NoTask}]
    BY <1>3 DEF Pushes, Loses
  <2> QED
    BY <1>3, <2>2, <2>3 DEF Pushes, Loses
<1>4. ASSUME NEW w \in Workers, Clears(w)
      PROVE  QueueTypes' /\ added' \in 0..MaxTasks
  <2>1. list' \in [Workers -> Seq(Task)]
    BY <1>4, EmptySeq DEF Clears
  <2> QED
    BY <1>4, <2>1 DEF Clears
<1>5. ASSUME NEW w \in Workers, Drains(w)
      PROVE  QueueTypes' /\ added' \in 0..MaxTasks
  <2>1. list' \in [Workers -> Seq(Task)]
    BY <1>5 DEF Drains
  <2>2. delivered' \in Seq(Task) /\ queue_' \in Seq(Task)
    BY <1>5, ConcatProperties, EmptySeq DEF Drains
  <2> QED
    BY <1>5, <2>1, <2>2 DEF Drains
<1> QED
  BY <1>1, <1>2, <1>3, <1>4, <1>5 DEF QueueStep

\* A worker offers a task only while it runs one.
Offering == \A w \in Workers : putting[w] # NoTask => worker[w] = "adding"

\* Where the workers are and what they run, as far as TypeOK says.
WorkerTypes ==
    /\ worker \in [Workers -> WorkerPC]
    /\ pos \in [Workers -> Nat \ {0}]
    /\ to_add \in [Workers -> Nat]
    /\ begun \subseteq Task /\ finished \subseteq begun
    /\ taking = {w \in Workers : worker[w] = "take"}
    /\ Offering
    /\ \A w \in Running : pos[w] <= Len(list[w])

LEMMA TypeParts ==
    TypeOK <=> /\ running_ \in BOOLEAN /\ added \in 0..MaxTasks
               /\ flag_ \in {"unset", "setting", "set"}
               /\ stopping \in [Stoppers -> StoppingPC]
               /\ WorkerTypes
BY DEF TypeOK, WorkerTypes, Offering

\* Taking the next task, or none, off the list.
LEMMA NextTaskTypes ==
    ASSUME WorkerTypes, QueueTypes, NEW w \in Workers, worker[w] = "next",
           Keeps, UNCHANGED <<taking, finished>>,
           ListEnds(w) \/ ListDropped(w) \/ TaskBegins(w)
    PROVE  WorkerTypes'
<1> USE DEF WorkerTypes, WorkerPC, Running, Offering
<1>1. CASE ListEnds(w)
  BY <1>1 DEF ListEnds, GoTo, Keeps
<1>2. CASE ListDropped(w)
  BY <1>2 DEF ListDropped, GoTo, Keeps
<1>3. CASE TaskBegins(w)
  <2>1. pos[w] \in 1..Len(list[w])
    BY <1>3, LenProperties DEF TaskBegins, QueueTypes
  <2>2. Current(w) \in Task
    BY <2>1, ElementOfSeq DEF Current, QueueTypes
  <2>3. Adds[Current(w)] \in Nat
    BY <2>2, PoolAssumption
  <2>4. to_add' \in [Workers -> Nat]
    BY <1>3, <2>3 DEF TaskBegins
  <2>5. begun' \subseteq Task /\ finished' \subseteq begun'
    BY <1>3, <2>2 DEF TaskBegins
  <2>6. /\ worker' \in [Workers -> WorkerPC] /\ worker'[w] = "task"
        /\ \A v \in Workers : v # w => worker'[v] = worker[v]
        /\ UNCHANGED <<pos, list, putting>>
    BY <1>3 DEF TaskBegins, GoTo, Keeps
  <2>7. taking' = {v \in Workers : worker'[v] = "take"}
    BY <2>6
  <2>8. \A v \in Running' : pos'[v] <= Len(list'[v])
    BY <2>1, <2>6
  <2> QED
    BY <2>4, <2>5, <2>6, <2>7, <2>8
<1> QED
  BY <1>1, <1>2, <1>3

LEMMA WorkerTypesInductive ==
    ASSUME WorkerTypes, QueueTypes, Progress, [Next]_vars
    PROVE  WorkerTypes'
<1> USE DEF WorkerTypes, WorkerPC, Running
<1>1. ASSUME NEW c \in Clients, AddTask(c) \/ AddTaskPut(c)
      PROVE  WorkerTypes'
  <2>1. /\ UNCHANGED <<list, taking, worker, pos, to_add, begun, finished>>
        /\ \A w \in Workers : putting'[w] = putting[w]
    BY <1>1, ClientLemma, PoolAssumption
       DEF Offers, Keeps, Pushes, Loses, QueueTypes, Threads
  <2> QED
    BY <2>1 DEF Offering
<1>2. ASSUME NEW w \in Workers, WorkerStep(w)
      PROVE  WorkerTypes'
  <2> USE DEF GoTo
  <2>1. CASE /\ worker[w] = "loop" /\ GoTo(w, "take") /\ Clears(w)
             /\ w \notin taking /\ taking' = taking \union {w}
             /\ UNCHANGED <<pos, to_add, begun, finished>>
    BY <2>1 DEF Clears, QueueTypes, Offering
  <2>2. CASE /\ worker[w] = "loop" /\ GoTo(w, "exited") /\ Keeps
             /\ UNCHANGED <<taking, pos, to_add, begun, finished>>
    BY <2>2 DEF Keeps, Offering
  <2>3. CASE /\ worker[w] = "take" /\ GoTo(w, "take") /\ Keeps
             /\ w \in taking
             /\ UNCHANGED <<taking, pos, to_add, begun, finished>>
    BY <2>3 DEF Keeps, Offering
  <2>4. CASE /\ worker[w] = "take" /\ GoTo(w, "next")
             /\ Keeps \/ Drains(w)
             /\ w \in taking /\ taking' = taking \ {w}
             /\ UNCHANGED <<pos, to_add, begun, finished>>
    <3>1. /\ putting' = putting
          /\ \A v \in Workers : v # w => list'[v] = list[v]
      BY <2>4 DEF Keeps, Drains, QueueTypes
    <3> QED
      BY <2>4, <3>1 DEF Offering
  <2>5. CASE /\ worker[w] = "next" /\ Keeps
             /\ ListEnds(w) \/ ListDropped(w) \/ TaskBegins(w)
             /\ UNCHANGED <<taking, finished>>
    BY <2>5, NextTaskTypes
  <2>6. CASE /\ worker[w] = "task" /\ GoTo(w, "adding") /\ Offers(w)
             /\ to_add[w] > 0 /\ to_add' = [to_add EXCEPT ![w] = @ - 1]
             /\ UNCHANGED <<taking, pos, begun, finished>>
    <3>1. to_add' \in [Workers -> Nat]
      BY <2>6
    <3>2. \A v \in Workers : v # w => putting'[v] = putting[v]
      BY <2>6 DEF Offers, QueueTypes, Threads
    <3>3. list' = list /\ worker'[w] = "adding"
      BY <2>6 DEF Offers
    <3>4. Offering'
      BY <2>6, <3>2 DEF Offering
    <3> QED
      BY <2>6, <3>1, <3>3, <3>4
  <2>7. CASE /\ worker[w] = "adding" /\ GoTo(w, "adding")
             /\ Keeps \/ Pushes(w) \/ Loses(w)
             /\ UNCHANGED <<taking, pos, to_add, begun, finished>>
    <3>1. /\ list' = list
          /\ \A v \in Workers : v # w => putting'[v] = putting[v]
      BY <2>7 DEF Keeps, Pushes, Loses, QueueTypes, Threads
    <3>2. Offering'
      BY <2>7, <3>1 DEF Offering
    <3> QED
      BY <2>7, <3>1, <3>2
  <2>8. CASE /\ worker[w] = "adding" /\ GoTo(w, "task")
             /\ Keeps \/ Pushes(w) \/ Loses(w)
             /\ putting'[w] = NoTask
             /\ UNCHANGED <<taking, pos, to_add, begun, finished>>
    <3>1. /\ list' = list
          /\ \A v \in Workers : v # w => putting'[v] = putting[v]
      BY <2>8 DEF Keeps, Pushes, Loses, QueueTypes, Threads
    <3>2. Offering'
      BY <2>8, <3>1 DEF Offering
    <3> QED
      BY <2>8, <3>1, <3>2
  <2>9. CASE /\ worker[w] = "task" /\ GoTo(w, "next") /\ Keeps
             /\ to_add[w] = 0
             /\ finished' = finished \union {Current(w)}
             /\ pos' = [pos EXCEPT ![w] = @ + 1]
             /\ UNCHANGED <<taking, to_add, begun>>
    <3>1. w \in Running /\ pos[w] \in pos[w]..Len(list[w])
      BY <2>9, LenProperties DEF QueueTypes
    <3>2. Current(w) \in begun
      BY <2>9, <3>1 DEF Progress, Current
    <3>3. pos' \in [Workers -> Nat \ {0}]
      BY <2>9
    <3> QED
      BY <2>9, <3>2, <3>3 DEF Keeps, Offering
  <2> QED
    BY <1>2, <2>1, <2>2, <2>3, <2>4, <2>5, <2>6, <2>7, <2>8, <2>9,
       WorkerLemma
<1>3. ASSUME NEW s \in Stoppers, StopStep(s) \/ StopCalled(s)
      PROVE  WorkerTypes'
  BY <1>3, StopStepLemma DEF Keeps, Offering
<1>4. CASE Wakeup \/ Quiet \/ UNCHANGED vars
  BY <1>4, WakeLemma DEF Keeps, Offering
<1> QED
  BY <1>1, <1>2, <1>3, <1>4, NextCases

LEMMA TypeInductive ==
    ASSUME TypeOK, QueueTypes, Progress, [Next]_vars
    PROVE  TypeOK'
<1>1. WorkerTypes' /\ added' \in 0..MaxTasks
  BY TypeParts, WorkerTypesInductive, QueueTypesInductive, QueueSteps
<1>2. /\ running_' \in BOOLEAN /\ flag_' \in {"unset", "setting", "set"}
      /\ stopping' \in [Stoppers -> StoppingPC]
  <2>1. ASSUME NEW s \in Stoppers, StopStep(s) \/ StopCalled(s)
        PROVE  /\ running_' \in BOOLEAN /\ flag_' \in {"unset", "setting", "set"}
               /\ stopping' \in [Stoppers -> StoppingPC]
    BY <2>1 DEF StopStep, StopCalled, StopCall, StopWaits, StopQueue,
                StopNotifies, ClearRunning, JoinAll, StopTo, TypeOK, StoppingPC
  <2> QED
    BY <2>1, NextCases, ClientLemma, WorkerLemma, WakeLemma DEF TypeOK
<1> QED
  BY <1>1, <1>2 DEF TypeOK, WorkerTypes, Offering

-----------------------------------------------------------------------------
(* Each task is in one place *)

LEMMA MembersOfAppend ==
    ASSUME NEW s \in Seq(Task), NEW x \in Task
    PROVE  /\ Members(Append(s, x)) = Members(s) \union {x}
           /\ NoRepeats(s) /\ x \notin Members(s) => NoRepeats(Append(s, x))
<1>1. /\ Append(s, x) \in Seq(Task) /\ Len(Append(s, x)) = Len(s) + 1
      /\ Append(s, x)[Len(s) + 1] = x /\ Len(s) \in Nat
      /\ \A i \in 1..Len(s) : Append(s, x)[i] = s[i]
  BY AppendProperties, LenProperties
<1>2. Members(Append(s, x)) = Members(s) \union {x}
  BY <1>1 DEF Members
<1>3. NoRepeats(s) /\ x \notin Members(s) => NoRepeats(Append(s, x))
  BY <1>1 DEF NoRepeats, Members
<1> QED
  BY <1>2, <1>3

LEMMA MembersOfConcat ==
    ASSUME NEW s \in Seq(Task), NEW t \in Seq(Task)
    PROVE  Members(s \o t) = Members(s) \union Members(t)
<1>1. /\ Len(s \o t) = Len(s) + Len(t) /\ Len(s) \in Nat /\ Len(t) \in Nat
      /\ \A i \in 1..(Len(s) + Len(t)) :
            (s \o t)[i] = IF i <= Len(s) THEN s[i] ELSE t[i - Len(s)]
  BY ConcatProperties, LenProperties
<1>2. \A i \in 1..Len(s) : (s \o t)[i] = s[i] /\ i \in 1..Len(s \o t)
  BY <1>1
<1>3. \A i \in 1..Len(t) :
          (s \o t)[Len(s) + i] = t[i] /\ Len(s) + i \in 1..Len(s \o t)
  BY <1>1
<1>4. Members(s \o t) \subseteq Members(s) \union Members(t)
  BY <1>1 DEF Members
<1>5. Members(s) \union Members(t) \subseteq Members(s \o t)
  BY <1>2, <1>3 DEF Members
<1> QED
  BY <1>4, <1>5

LEMMA NoMembers == Members(<<>>) = {} /\ NoRepeats(<<>>)
BY EmptySeq DEF Members, NoRepeats

LEMMA DistinctInductive ==
    ASSUME QueueTypes, Distinct, Numbered, added \in Nat, QueueStep
    PROVE  Distinct' /\ Numbered'
<1> USE PoolAssumption DEF QueueTypes
<1> DEFINE there == Members(queue_) \union Members(delivered)
<1>1. CASE Keeps
  <2>1. UNCHANGED <<queue_, delivered, list, putting, added>>
    BY <1>1 DEF Keeps
  <2> QED
    BY <2>1 DEF Distinct, Numbered
<1>2. ASSUME NEW t \in Threads, Offers(t)
      PROVE  Distinct' /\ Numbered'
  <2>1. /\ UNCHANGED <<queue_, delivered, list>> /\ putting'[t] = added'
        /\ \A u \in Threads : u # t => putting'[u] = putting[u]
        /\ added' = added + 1 /\ added' # NoTask
    BY <1>2 DEF Offers
  <2>2. added' \notin there /\ \A u \in Threads : putting[u] # added'
    BY <2>1 DEF Numbered
  <2>3. ASSUME NEW u \in Threads, putting'[u] # NoTask
        PROVE  /\ putting'[u] \notin there
               /\ \A v \in Threads : v # u => putting'[v] # putting'[u]
    <3>1. CASE u = t
      BY <2>1, <2>2, <3>1
    <3>2. CASE u # t
      BY <2>1, <2>2, <2>3, <3>2 DEF Distinct
    <3> QED
      BY <3>1, <3>2
  <2>4. Distinct'
    BY <2>1, <2>3 DEF Distinct
  <2>5. Numbered'
    BY <2>1 DEF Numbered
  <2> QED
    BY <2>4, <2>5
<1>3. ASSUME NEW t \in Threads, Pushes(t)
      PROVE  Distinct' /\ Numbered'
  <2> PICK x \in Task : x = putting[t] /\ x # NoTask
    BY <1>3 DEF Pushes
  <2>1. /\ x \notin there /\ x \in 1..added /\ queue_' = Append(queue_, x)
        /\ \A u \in Threads : u # t => putting[u] # x
    BY <1>3 DEF Pushes, Distinct, Numbered
  <2>2. Members(queue_') = Members(queue_) \union {x} /\ NoRepeats(queue_')
    BY <2>1, MembersOfAppend DEF Distinct
  <2>3. /\ UNCHANGED <<delivered, list, added>> /\ putting'[t] = NoTask
        /\ \A u \in Threads : u # t => putting'[u] = putting[u]
    BY <1>3 DEF Pushes
  <2>4. \A u \in Threads : putting'[u] # NoTask =>
            /\ putting'[u] \notin there \union {x}
            /\ \A v \in Threads : v # u => putting'[v] # putting'[u]
    BY <2>1, <2>3 DEF Distinct
  <2>5. Distinct'
    <3>1. Members(delivered') = Members(delivered)
      BY <2>3
    <3>2. \A w \in Workers : list'[w] = list[w]
      BY <2>3
    <3> QED
      BY <2>1, <2>2, <2>4, <3>1, <3>2 DEF Distinct
  <2>6. Numbered'
    <3>1. Members(delivered') = Members(delivered)
      BY <2>3
    <3> QED
      BY <2>1, <2>2, <2>3, <3>1 DEF Numbered
  <2> QED
    BY <2>5, <2>6
<1>4. ASSUME NEW t \in Threads, Loses(t)
      PROVE  Distinct' /\ Numbered'
  <2>1. /\ UNCHANGED <<queue_, delivered, list, added>>
        /\ putting'[t] = NoTask
        /\ \A u \in Threads : u # t => putting'[u] = putting[u]
    BY <1>4 DEF Loses
  <2>2. \A u \in Threads : putting'[u] # NoTask =>
            /\ putting'[u] \notin there
            /\ \A v \in Threads : v # u => putting'[v] # putting'[u]
    BY <2>1 DEF Distinct
  <2>3. Distinct'
    BY <2>1, <2>2 DEF Distinct
  <2>4. Numbered'
    BY <2>1 DEF Numbered
  <2> QED
    BY <2>3, <2>4
<1>5. ASSUME NEW w \in Workers, Clears(w)
      PROVE  Distinct' /\ Numbered'
  <2>1. /\ UNCHANGED <<queue_, delivered, putting, added>>
        /\ list'[w] = <<>>
        /\ \A v \in Workers : v # w => list'[v] = list[v]
    BY <1>5 DEF Clears
  <2>2. Members(list'[w]) = {} /\ NoRepeats(list'[w])
    BY <2>1, NoMembers
  <2>3. /\ Members(queue_') = Members(queue_)
        /\ Members(delivered') = Members(delivered) /\ NoRepeats(queue_')
        /\ \A v \in Workers : v # w => /\ Members(list'[v]) = Members(list[v])
                                       /\ NoRepeats(list'[v])
    BY <2>1 DEF Distinct
  <2>4. Numbered'
    BY <2>1, <2>3 DEF Numbered
  <2> QED
    BY <2>1, <2>2, <2>3, <2>4 DEF Distinct
<1>6. ASSUME NEW w \in Workers, Drains(w)
      PROVE  Distinct' /\ Numbered'
  <2>1. /\ UNCHANGED <<putting, added>> /\ queue_' = <<>>
        /\ list'[w] = queue_ /\ delivered' = delivered \o queue_
        /\ \A v \in Workers : v # w => list'[v] = list[v]
    BY <1>6 DEF Drains
  <2>2. Members(queue_') = {} /\ NoRepeats(queue_')
    BY <2>1, NoMembers
  <2>3. Members(delivered') = there
    BY <2>1, MembersOfConcat
  <2>4. /\ Members(list'[w]) = Members(queue_) /\ NoRepeats(list'[w])
        /\ \A v \in Workers : v # w => /\ Members(list'[v]) = Members(list[v])
                                       /\ NoRepeats(list'[v])
    BY <2>1 DEF Distinct
  <2>5. Numbered'
    BY <2>1, <2>2, <2>3 DEF Numbered
  <2>6. \A u, v \in Workers : u # v =>
            Members(list'[u]) \intersect Members(list'[v]) = {}
    BY <2>4 DEF Distinct
  <2> QED
    BY <2>1, <2>2, <2>3, <2>4, <2>5, <2>6 DEF Distinct
<1> QED
  BY <1>1, <1>2, <1>3, <1>4, <1>5, <1>6 DEF QueueStep

-----------------------------------------------------------------------------
(* What has been begun *)

LEMMA StoppedInductive ==
    ASSUME TypeOK, Stopped, [Next]_vars
    PROVE  Stopped'
<1>1. ASSUME NEW c \in Clients, AddTask(c) \/ AddTaskPut(c)
      PROVE  Stopped'
  BY <1>1, ClientLemma DEF Stopped
<1>2. ASSUME NEW w \in Workers, WorkerStep(w)
      PROVE  Stopped'
  <2>1. worker[w] # "exited"
    BY <1>2 DEF WorkerStep, Loop, Take, NextTask, TaskAdds, TaskPuts, TaskEnds
  <2> QED
    BY <1>2, <2>1, WorkerLemma DEF Stopped
<1>3. ASSUME NEW s \in Stoppers, StopStep(s) \/ StopCalled(s)
      PROVE  Stopped'
  <2> USE DEF Stopped, TypeOK
  <2>1. worker' = worker
    BY <1>3, StopStepLemma
  <2>2. CASE StopCalled(s)
    BY <2>1, <2>2 DEF StopCalled, StopCall, StopTo
  <2>3. CASE StopWaits(s)
    BY <2>1, <2>3 DEF StopWaits, StopTo
  <2>4. CASE StopQueue(s) \/ StopNotifies(s)
    BY <2>1, <2>4 DEF StopQueue, StopNotifies, StopTo
  <2>5. CASE ClearRunning(s)
    BY <2>1, <2>5 DEF ClearRunning, StopTo
  <2>6. CASE JoinAll(s)
    BY <2>1, <2>6 DEF JoinAll, StopTo
  <2> QED
    BY <1>3, <2>2, <2>3, <2>4, <2>5, <2>6 DEF StopStep
<1>4. CASE Wakeup \/ Quiet \/ UNCHANGED vars
  BY <1>4, WakeLemma DEF Stopped
<1> QED
  BY <1>1, <1>2, <1>3, <1>4, NextCases

\* The worker with a list in hand.
AtList(w) == worker[w] \in {"next", "task", "adding"}

\* What Progress says of one worker.
Ahead(w) == /\ AtList(w) => \A k \in pos[w]..Len(list[w]) :
                               list[w][k] \in begun <=>
                                   k = pos[w] /\ w \in Running
            /\ worker[w] = "take" => list[w] = <<>>

LEMMA ProgressParts ==
    Progress <=> /\ begun \subseteq Members(delivered)
                 /\ \A w \in Workers : Ahead(w)
BY DEF Progress, Ahead, AtList

\* A worker that nothing happens to.
LEMMA AheadKept ==
    ASSUME NEW w \in Workers, Ahead(w), begun' = begun,
           worker'[w] = worker[w], list'[w] = list[w], pos'[w] = pos[w]
    PROVE  Ahead(w)'
BY DEF Ahead, AtList, Running

LEMMA TaskBeginsProgress ==
    ASSUME TypeOK, QueueTypes, Distinct, Progress, NEW w \in Workers,
           worker[w] = "next", Keeps, TaskBegins(w)
    PROVE  Progress'
<1> PICK x \in Task : x = Current(w)
  BY LenProperties, ElementOfSeq DEF TaskBegins, TypeOK, QueueTypes, Current
<1>1. /\ begun' = begun \union {x} /\ UNCHANGED <<pos, list, delivered>>
      /\ worker'[w] = "task" /\ pos[w] \in 1..Len(list[w])
      /\ x = list[w][pos[w]] /\ Len(list[w]) \in Nat
      /\ \A v \in Workers : v # w => worker'[v] = worker[v]
  BY LenProperties DEF TaskBegins, GoTo, Keeps, Current, TypeOK, QueueTypes
<1>2. x \in Members(list[w]) /\ x \in Members(delivered)
  BY <1>1 DEF Members, Distinct
<1>3. ASSUME NEW v \in Workers, v # w
      PROVE  Ahead(v)'
  <2>1. \A k \in 1..Len(list[v]) : list[v][k] # x
    BY <1>2, <1>3 DEF Distinct, Members
  <2>2. pos[v] \in Nat \ {0} /\ Ahead(v)
    BY ProgressParts DEF TypeOK
  <2>3. \A k \in pos[v]..Len(list[v]) :
            list'[v][k] \in begun' <=> list[v][k] \in begun
    BY <1>1, <2>1, <2>2
  <2> QED
    BY <1>1, <1>3, <2>2, <2>3 DEF Ahead, AtList, Running
<1>4. Ahead(w)'
  <2>1. w \in Running' /\ w \notin Running
    BY <1>1 DEF Running
  <2>2. \A k \in pos[w]..Len(list[w]) : k # pos[w] =>
            list[w][k] \notin begun /\ list[w][k] # x
    <3>1. \A k \in pos[w]..Len(list[w]) : k \in 1..Len(list[w])
      BY <1>1
    <3> QED
      BY <1>1, <2>1, <3>1 DEF Progress, Distinct, NoRepeats
  <2>3. \A k \in pos[w]..Len(list[w]) :
            list[w][k] \in begun' <=> k = pos[w]
    BY <1>1, <2>2
  <2> QED
    BY <1>1, <2>1, <2>3 DEF Ahead, AtList
<1>5. begun' \subseteq Members(delivered')
  <2>1. Members(delivered') = Members(delivered)
    BY <1>1
  <2> QED
    BY <1>1, <1>2, <2>1 DEF Progress
<1>6. \A v \in Workers : Ahead(v)'
  BY <1>3, <1>4
<1> QED
  BY <1>5, <1>6 DEF Progress, Ahead, AtList

LEMMA ProgressInductive ==
    ASSUME TypeOK, QueueTypes, Distinct, Progress, [Next]_vars
    PROVE  Progress'
<1>0. /\ begun \subseteq Members(delivered)
      /\ \A w \in Workers : Ahead(w)
      /\ worker \in [Workers -> WorkerPC]
      /\ pos \in [Workers -> Nat \ {0}]
  BY ProgressParts DEF TypeOK
<1>1. ASSUME UNCHANGED <<list, delivered, worker, pos, begun>>
      PROVE  Progress'
  <2>1. Members(delivered') = Members(delivered)
    BY <1>1
  <2>2. \A w \in Workers : Ahead(w)'
    BY <1>0, <1>1, AheadKept
  <2> QED
    BY <1>0, <1>1, <2>1, <2>2 DEF Progress, Ahead, AtList
<1>2. ASSUME NEW c \in Clients, AddTask(c) \/ AddTaskPut(c)
      PROVE  Progress'
  BY <1>1, <1>2, ClientLemma DEF Offers, Keeps, Pushes, Loses
<1>3. ASSUME NEW w \in Workers, WorkerStep(w)
      PROVE  Progress'
  <2>1. ASSUME worker[w] = "next", Keeps, TaskBegins(w)
        PROVE  Progress'
    BY <2>1, TaskBeginsProgress
  <2>2. ASSUME ~(worker[w] = "next" /\ Keeps /\ TaskBegins(w))
        PROVE  /\ begun' = begun
               /\ \A v \in Workers : v # w => /\ worker'[v] = worker[v]
                                              /\ list'[v] = list[v]
                                              /\ pos'[v] = pos[v]
    BY <1>0, <1>3, <2>2, WorkerLemma
       DEF GoTo, Clears, Drains, Keeps, Offers, Pushes, Loses, ListEnds,
           ListDropped, QueueTypes
  <2>3. ASSUME ~(worker[w] = "next" /\ Keeps /\ TaskBegins(w))
        PROVE  begun' \subseteq Members(delivered')
    <3>1. delivered' = delivered \/ Drains(w)
      BY <1>3, <2>3, WorkerLemma
         DEF Clears, Keeps, Offers, Pushes, Loses
    <3>2. Members(delivered) \subseteq Members(delivered')
      BY <3>1, MembersOfConcat DEF Drains, QueueTypes
    <3> QED
      BY <1>0, <2>2, <2>3, <3>2
  <2>4. ASSUME ~(worker[w] = "next" /\ Keeps /\ TaskBegins(w))
        PROVE  Ahead(w)'
    <3> USE DEF Ahead, AtList, Running, GoTo
    <3>1. CASE worker[w] = "loop" /\ GoTo(w, "take") /\ Clears(w)
      BY <1>0, <3>1 DEF Clears, QueueTypes
    <3>2. CASE \/ worker'[w] = "exited"
               \/ worker'[w] = "loop"
      BY <3>2
    <3>3. CASE /\ worker[w] = "take" /\ GoTo(w, "take") /\ Keeps
      BY <1>0, <3>3 DEF Keeps
    <3>4. CASE worker[w] = "take" /\ GoTo(w, "next") /\ Keeps
      <4>1. list'[w] = <<>> /\ worker'[w] = "next"
        BY <1>0, <3>4 DEF Keeps
      <4>2. pos'[w] \in Nat \ {0}
        BY <1>0, <1>3, <3>4, WorkerLemma
      <4> QED
        BY <4>1, <4>2, EmptySeq
    <3>5. CASE worker[w] = "take" /\ GoTo(w, "next") /\ Drains(w)
      <4>1. list'[w] = queue_ /\ worker'[w] = "next" /\ begun' = begun
        BY <1>0, <2>2, <2>4, <3>5 DEF Drains, QueueTypes
      <4>2. pos'[w] \in Nat \ {0}
        BY <1>0, <1>3, <3>5, WorkerLemma
      <4>3. \A k \in 1..Len(queue_) : queue_[k] \notin begun
        BY <1>0 DEF Distinct, Members
      <4> QED
        BY <4>1, <4>2, <4>3
    <3>6. CASE /\ worker[w] \in {"task", "adding"}
               /\ worker'[w] \in {"task", "adding"} /\ pos' = pos
               /\ begun' = begun /\ list' = list
      BY <1>0, <3>6
    <3>7. CASE /\ worker[w] = "task" /\ GoTo(w, "next") /\ Keeps
               /\ pos' = [pos EXCEPT ![w] = @ + 1] /\ begun' = begun
      <4>1. /\ pos'[w] = pos[w] + 1 /\ worker'[w] = "next" /\ list' = list
            /\ pos[w] \in Nat /\ Len(list[w]) \in Nat
        BY <1>0, <3>7, LenProperties DEF Keeps, QueueTypes
      <4>2. \A k \in pos[w]..Len(list[w]) :
                list[w][k] \in begun <=> k = pos[w]
        BY <1>0, <3>7
      <4> QED
        BY <3>7, <4>1, <4>2
    <3> QED
      BY <1>0, <1>3, <2>4, <3>1, <3>2, <3>3, <3>4, <3>5, <3>6, <3>7,
         WorkerLemma
         DEF ListEnds, ListDropped, Keeps, Offers, Pushes, Loses
  <2>5. ASSUME ~(worker[w] = "next" /\ Keeps /\ TaskBegins(w))
        PROVE  Progress'
    <3>1. \A v \in Workers : Ahead(v)'
      BY <1>0, <2>2, <2>4, <2>5, AheadKept
    <3> QED
      BY <2>3, <2>5, <3>1 DEF Progress, Ahead, AtList
  <2> QED
    BY <2>1, <2>5
<1>4. ASSUME NEW s \in Stoppers, StopStep(s) \/ StopCalled(s)
      PROVE  Progress'
  BY <1>1, <1>4, StopStepLemma DEF Keeps
<1>5. CASE Wakeup \/ Quiet \/ UNCHANGED vars
  BY <1>1, <1>5, WakeLemma DEF Keeps
<1> QED
  BY <1>2, <1>3, <1>4, <1>5, NextCases

-----------------------------------------------------------------------------
(* The theorem of types *)

LEMMA InvInit == Init => IInv
<1> SUFFICES ASSUME Init
             PROVE  IInv
  OBVIOUS
<1> USE PoolAssumption DEF Init, Queue!Init
<1>1. QueueTypes
  BY EmptySeq DEF QueueTypes, Threads
<1>2. /\ Members(queue_) = {} /\ NoRepeats(queue_) /\ Members(delivered) = {}
      /\ \A w \in Workers : Members(list[w]) = {} /\ NoRepeats(list[w])
  BY NoMembers
<1>3. \A t \in Threads : putting[t] = NoTask
  BY DEF Threads
<1>4. Running = {}
  BY DEF Running
<1>5. TypeOK
  BY <1>3, <1>4 DEF TypeOK, WorkerPC, StoppingPC, Threads
<1>6. Distinct
  BY <1>2, <1>3 DEF Distinct
<1>7. Numbered
  BY <1>2, <1>3 DEF Numbered
<1>8. Progress
  BY DEF Progress
<1>9. Stopped
  BY DEF Stopped
<1> QED
  BY <1>1, <1>5, <1>6, <1>7, <1>8, <1>9 DEF IInv

LEMMA InvInductive == IInv /\ [Next]_vars => IInv'
<1> SUFFICES ASSUME IInv, [Next]_vars
             PROVE  IInv'
  OBVIOUS
<1>1. added \in Nat
  BY PoolAssumption DEF IInv, TypeOK
<1> QED
  BY <1>1, TypeInductive, QueueTypesInductive, QueueSteps, DistinctInductive,
     ProgressInductive, StoppedInductive DEF IInv, TypeOK

LEMMA Invariance == Spec => []IInv
BY InvInit, InvInductive, PTL DEF Spec

\* However workers, clients and stoppers interleave, a worker that runs a task
\* runs one of its list, waits inside Take or Put exactly when its program is
\* there, and no task ends that was not begun.
THEOREM TypeCorrect == Spec => []TypeOK
BY Invariance, PTL DEF IInv

-----------------------------------------------------------------------------
(* The refinement *)

\* What the abstract pool calls accepted and running.
Waiting == Accepted \ begun
Busy == {Current(w) : w \in Running}
SomeReturned == \E s \in Stoppers : stopping[s] = "returned"

LEMMA AcceptedMembers ==
    Accepted = Members(delivered) \union Members(queue_)
BY DEF Accepted, InQueue, Members

\* A worker that runs a task has begun it, and nobody else runs it.
LEMMA BusyLemma ==
    ASSUME IInv, NEW w \in Running
    PROVE  /\ Current(w) \in begun /\ Current(w) \in Task
           /\ \A v \in Running : Current(v) = Current(w) => v = w
<1> USE DEF IInv, TypeOK, QueueTypes
<1>1. \A v \in Running : /\ v \in Workers /\ pos[v] \in 1..Len(list[v])
                         /\ Current(v) \in Members(list[v])
                         /\ Len(list[v]) \in Nat
                         /\ worker[v] \in {"next", "task", "adding"}
  BY LenProperties DEF Running, Current, Members
<1>2. Current(w) \in begun
  BY <1>1 DEF Progress, Current
<1>3. \A v \in Running : Current(v) = Current(w) => v = w
  BY <1>1 DEF Distinct
<1> QED
  BY <1>2, <1>3

\* As long as somebody is idle, fewer tasks run than there are workers.
LEMMA FewerThanWorkers ==
    ASSUME NEW w \in Workers, w \notin Running
    PROVE  Cardinality(Busy) < Cardinality(Workers)
<1> DEFINE run == [v \in Running |-> Current(v)]
<1>1. /\ IsFiniteSet(Running)
      /\ Cardinality(Running) <= Cardinality(Workers)
      /\ Cardinality(Running) # Cardinality(Workers)
  BY FS_Subset, PoolAssumption DEF Running
<1>2. run \in Surjection(Running, Busy)
  BY DEF Surjection, Busy
<1>3. IsFiniteSet(Busy) /\ Cardinality(Busy) <= Cardinality(Running)
  BY <1>1, <1>2, FS_Surjection
<1>4. /\ Cardinality(Busy) \in Nat /\ Cardinality(Running) \in Nat
      /\ Cardinality(Workers) \in Nat
  BY <1>1, <1>3, FS_CardinalityType, PoolAssumption
<1> QED
  BY <1>1, <1>3, <1>4

\* The workers run what they ran before.
LEMMA BusyKept ==
    ASSUME Running' = Running,
           \A v \in Running : list'[v] = list[v] /\ pos'[v] = pos[v]
    PROVE  Busy' = Busy
<1>1. \A v \in Running : Current(v)' = Current(v)
  BY DEF Current
<1> QED
  BY <1>1 DEF Busy

LEMMA PushAccepts ==
    ASSUME IInv, NEW t \in Threads, Pushes(t), Busy' = Busy,
           UNCHANGED <<begun, finished, stopping>>
    PROVE  \E x \in Task : Pool!Accept(x)
<1> PICK x \in Task : x = putting[t] /\ x # NoTask
  BY PoolAssumption DEF IInv, QueueTypes, Pushes
<1>1. /\ queue_' = Append(queue_, x) /\ queue_ \in Seq(Task)
      /\ UNCHANGED delivered /\ x \notin Accepted
  BY AcceptedMembers DEF IInv, QueueTypes, Distinct, Pushes
<1>2. Accepted' = Accepted \union {x}
  <2>1. Members(queue_') = Members(queue_) \union {x}
    BY <1>1, MembersOfAppend
  <2>2. Members(delivered') = Members(delivered)
    BY <1>1
  <2>3. Accepted' = Members(delivered') \union Members(queue_')
    BY DEF Accepted, InQueue, Members
  <2> QED
    BY <2>1, <2>2, <2>3, AcceptedMembers
<1>3. begun \subseteq Accepted /\ finished \subseteq begun
  BY AcceptedMembers DEF IInv, Progress, TypeOK
<1>4. Busy \subseteq begun
  BY BusyLemma DEF Busy
<1>5. x \notin Waiting \union (Busy \union finished)
  BY <1>1, <1>3, <1>4 DEF Waiting
<1>6. Waiting' = Waiting \union {x}
  BY <1>1, <1>2, <1>3 DEF Waiting
<1> QED
  BY <1>5, <1>6 DEF Pool!Accept, Waiting, Busy

LEMMA AcceptedKept ==
    ASSUME queue_' = queue_, delivered' = delivered
    PROVE  Accepted' = Accepted
BY DEF Accepted, InQueue

\* The instance of TaskPool has a Cardinality of its own.
LEMMA PoolCardinality ==
    ASSUME NEW S PROVE Pool!Cardinality(S) = Cardinality(S)
BY DEF Pool!Cardinality, Cardinality

LEMMA TaskBeginsBegins ==
    ASSUME IInv, IInv', NEW w \in Workers, worker[w] = "next", Keeps,
           TaskBegins(w), UNCHANGED <<finished, stopping>>
    PROVE  \E x \in Task : Pool!Begin(x)
<1> USE DEF IInv, TypeOK, QueueTypes
<1> PICK x \in Task : x = Current(w)
  BY LenProperties, ElementOfSeq DEF TaskBegins, Current
<1>1. /\ pos[w] \in pos[w]..Len(list[w]) /\ pos[w] \in 1..Len(list[w])
      /\ w \notin Running /\ running_
  BY LenProperties DEF TaskBegins, Running
<1>2. x \notin begun /\ x \in Accepted
  <2>1. x \in Members(list[w])
    BY <1>1 DEF Current, Members
  <2>2. x \in Members(delivered)
    BY <2>1 DEF Distinct
  <2> QED
    BY <1>1, <2>2, AcceptedMembers DEF Progress, Current
<1>3. /\ UNCHANGED <<pos, list>> /\ begun' = begun \union {x}
      /\ Running' = Running \union {w}
  BY DEF TaskBegins, Keeps, GoTo, Running
<1>4. \A v \in Workers : Current(v)' = Current(v)
  BY <1>3 DEF Current
<1>5. Busy' = Busy \union {x}
  <2>1. Running' \subseteq Workers
    BY DEF Running
  <2> QED
    BY <1>3, <1>4, <2>1 DEF Busy
<1>6. Accepted' = Accepted
  BY AcceptedKept DEF Keeps
<1>7. Waiting' = Waiting \ {x} /\ x \in Waiting
  BY <1>2, <1>3, <1>6 DEF Waiting
<1>8. ~SomeReturned
  BY <1>1 DEF Stopped, SomeReturned
<1>9. Cardinality(Busy) < Cardinality(Workers)
  BY <1>1, FewerThanWorkers
<1>10. SomeReturned' = SomeReturned
  BY DEF SomeReturned
<1> HIDE DEF IInv, TypeOK, QueueTypes
<1>11. Cardinality({Current(v) : v \in Running}) < Cardinality(Workers)
  BY <1>9 DEF Busy
<1>12. Pool!Begin(x)
  <2>1. x \in Accepted \ begun /\ ~SomeReturned
    BY <1>7, <1>8 DEF Waiting
  <2>2. /\ (Accepted \ begun)' = (Accepted \ begun) \ {x}
        /\ {Current(v) : v \in Running}' = {Current(v) : v \in Running} \union {x}
    BY <1>5, <1>7 DEF Waiting, Busy
  <2>3. UNCHANGED <<finished, SomeReturned>>
    BY <1>10
  <2> QED
    BY <1>11, <2>1, <2>2, <2>3, PoolCardinality DEF Pool!Begin, SomeReturned
<1> QED
  BY <1>12

LEMMA TaskEndsFinishes ==
    ASSUME IInv, NEW w \in Workers, worker[w] = "task", GoTo(w, "next"), Keeps,
           finished' = finished \union {Current(w)},
           pos' = [pos EXCEPT ![w] = @ + 1], UNCHANGED <<begun, stopping>>
    PROVE  \E x \in Task : Pool!Finish(x)
<1> USE DEF IInv, TypeOK
<1>1. w \in Running
  BY DEF Running
<1> PICK x \in Task : x = Current(w)
  BY <1>1, BusyLemma
<1>2. \A v \in Running : v # w => Current(v) # x
  BY <1>1, BusyLemma
<1>3. /\ Running' = Running \ {w} /\ UNCHANGED list
      /\ \A v \in Workers : v # w => pos'[v] = pos[v]
  BY DEF GoTo, Running, Keeps
<1>4. \A v \in Running' : Current(v)' = Current(v)
  BY <1>3 DEF Current, Running
<1>5. Busy' = Busy \ {x} /\ x \in Busy
  <2> DEFINE R == Running \ {w}
  <2>1. Busy' = {Current(v) : v \in R}
    BY <1>3, <1>4 DEF Busy
  <2>2. \A v \in R : Current(v) # x
    BY <1>2
  <2> QED
    BY <1>1, <2>1, <2>2 DEF Busy
<1>6. Waiting' = Waiting
  BY AcceptedKept DEF Waiting, Keeps
<1> QED
  BY <1>5, <1>6 DEF Pool!Finish, Waiting, Busy

LEMMA StopStepSimulates ==
    ASSUME IInv, NEW s \in Stoppers, StopStep(s) \/ StopCalled(s)
    PROVE  [Pool!Next]_(Pool!vars)
<1> USE DEF IInv, TypeOK
<1>1. /\ Waiting' = Waiting /\ Busy' = Busy
      /\ UNCHANGED <<worker, finished>>
  <2>1. /\ UNCHANGED <<queue_, delivered, list, worker, pos, begun, finished>>
    BY StopStepLemma DEF Keeps
  <2>2. Running' = Running
    BY <2>1 DEF Running
  <2> QED
    BY <2>1, <2>2, AcceptedKept, BusyKept DEF Waiting
<1>2. ASSUME stopping'[s] # "returned", stopping[s] # "returned",
             \A r \in Stoppers : r # s => stopping'[r] = stopping[r]
      PROVE  UNCHANGED Pool!vars
  <2>1. SomeReturned' = SomeReturned
    BY <1>2 DEF SomeReturned
  <2> QED
    BY <1>1, <2>1 DEF Pool!vars, Waiting, Busy, SomeReturned
<1>3. CASE JoinAll(s) \/ StopWaits(s)
  <2>1. Running = {}
    BY <1>3 DEF JoinAll, StopWaits, Stopped, Running
  <2>2. Busy = {}
    BY <2>1 DEF Busy
  <2>3. SomeReturned'
    BY <1>3 DEF JoinAll, StopWaits, StopTo, SomeReturned
  <2> QED
    BY <1>1, <2>2, <2>3
       DEF Pool!Next, Pool!StopReturns, Waiting, Busy, SomeReturned
<1>4. CASE StopCalled(s) \/ StopQueue(s) \/ StopNotifies(s) \/ ClearRunning(s)
  <2>1. /\ stopping'[s] # "returned" /\ stopping[s] # "returned"
        /\ \A r \in Stoppers : r # s => stopping'[r] = stopping[r]
    BY <1>4
       DEF StopCalled, StopCall, StopQueue, StopNotifies, ClearRunning, StopTo
  <2> QED
    BY <1>2, <2>1
<1> QED
  BY <1>3, <1>4 DEF StopStep

LEMMA StepSimulation ==
    ASSUME IInv, IInv', [Next]_vars
    PROVE  [Pool!Next]_(Pool!vars)
<1>1. ASSUME Waiting' = Waiting, Busy' = Busy, UNCHANGED <<finished, stopping>>
      PROVE  UNCHANGED Pool!vars
  <2>1. SomeReturned' = SomeReturned
    BY <1>1 DEF SomeReturned
  <2> QED
    BY <1>1, <2>1 DEF Pool!vars, Waiting, Busy, SomeReturned
<1>2. ASSUME NEW t \in Threads, Pushes(t), Busy' = Busy,
             UNCHANGED <<begun, finished, stopping>>
      PROVE  [Pool!Next]_(Pool!vars)
  BY <1>2, PushAccepts DEF Pool!Next
<1>3. ASSUME NEW t, Offers(t) \/ Loses(t) \/ Keeps, Busy' = Busy,
             UNCHANGED <<begun, finished, stopping>>
      PROVE  UNCHANGED Pool!vars
  <2>1. Waiting' = Waiting
    BY <1>3, AcceptedKept DEF Waiting, Offers, Loses, Keeps
  <2> QED
    BY <1>1, <1>3, <2>1
<1>4. ASSUME NEW c \in Clients, AddTask(c) \/ AddTaskPut(c)
      PROVE  [Pool!Next]_(Pool!vars)
  <2>1. /\ Offers(c) \/ Keeps \/ Pushes(c) \/ Loses(c)
        /\ UNCHANGED <<list, worker, pos, begun, finished, stopping>>
    BY <1>4, ClientLemma DEF Offers, Keeps, Pushes, Loses
  <2>2. Busy' = Busy
    BY <2>1, BusyKept DEF Running
  <2> QED
    BY <1>2, <1>3, <2>1, <2>2 DEF Threads
<1>5. ASSUME NEW w \in Workers, WorkerStep(w)
      PROVE  [Pool!Next]_(Pool!vars)
  <2> USE DEF IInv, TypeOK, QueueTypes, GoTo
  <2>1. UNCHANGED stopping
    BY <1>5, WorkerLemma
  <2>2. CASE /\ worker[w] = "loop" /\ GoTo(w, "take") /\ Clears(w)
             /\ UNCHANGED <<pos, begun, finished>>
    <3>1. /\ Running' = Running /\ w \notin Running
          /\ \A v \in Running : list'[v] = list[v]
      BY <2>2 DEF Running, Clears
    <3>2. Busy' = Busy
      BY <2>2, <3>1, BusyKept
    <3>3. Waiting' = Waiting
      BY <2>2, AcceptedKept DEF Waiting, Clears
    <3> QED
      BY <1>1, <2>1, <2>2, <3>2, <3>3
  <2>3. CASE /\ worker[w] \in {"loop", "take"}
             /\ worker'[w] \notin {"task", "adding"}
             /\ \A v \in Workers : v # w => worker'[v] = worker[v]
             /\ Keeps /\ UNCHANGED <<pos, begun, finished>>
    <3>1. Running' = Running /\ list' = list
      BY <2>3 DEF Running, Keeps
    <3>2. Busy' = Busy
      BY <2>3, <3>1, BusyKept
    <3> QED
      BY <1>3, <2>1, <2>3, <3>2
  <2>4. CASE /\ worker[w] = "take" /\ GoTo(w, "next") /\ Drains(w)
             /\ UNCHANGED <<pos, begun, finished>>
    <3>1. /\ Running' = Running /\ w \notin Running
          /\ \A v \in Running : list'[v] = list[v]
      BY <2>4 DEF Running, Drains
    <3>2. Busy' = Busy
      BY <2>4, <3>1, BusyKept
    <3>3. Accepted' = Accepted
      <4>1. /\ Members(delivered') = Members(delivered) \union Members(queue_)
            /\ Members(queue_') = {}
        BY <2>4, MembersOfConcat, NoMembers DEF Drains
      <4>2. Accepted' = Members(delivered') \union Members(queue_')
        BY DEF Accepted, InQueue, Members
      <4> QED
        BY <4>1, <4>2, AcceptedMembers
    <3> QED
      BY <1>1, <2>1, <2>4, <3>2, <3>3 DEF Waiting
  <2>5. CASE /\ worker[w] = "next" /\ Keeps /\ TaskBegins(w)
             /\ UNCHANGED finished
    BY <2>1, <2>5, TaskBeginsBegins DEF Pool!Next
  <2>6. CASE /\ worker[w] = "next" /\ Keeps
             /\ ListEnds(w) \/ ListDropped(w)
             /\ UNCHANGED finished
    <3>1. /\ Running' = Running /\ list' = list /\ begun' = begun
          /\ \A v \in Running : pos'[v] = pos[v]
      BY <2>6 DEF Running, Keeps, ListEnds, ListDropped
    <3>2. Busy' = Busy
      BY <3>1, BusyKept
    <3> QED
      BY <1>3, <2>1, <2>6, <3>1, <3>2
  <2>7. CASE /\ worker[w] \in {"task", "adding"}
             /\ GoTo(w, "task") \/ GoTo(w, "adding")
             /\ Keeps \/ Offers(w) \/ Pushes(w) \/ Loses(w)
             /\ UNCHANGED <<pos, begun, finished>>
    <3>1. Running' = Running /\ list' = list
      BY <2>7 DEF Running, Keeps, Offers, Pushes, Loses
    <3>2. Busy' = Busy
      BY <2>7, <3>1, BusyKept
    <3> QED
      BY <1>2, <1>3, <2>1, <2>7, <3>2 DEF Threads
  <2>8. CASE /\ worker[w] = "task" /\ GoTo(w, "next") /\ Keeps
             /\ finished' = finished \union {Current(w)}
             /\ pos' = [pos EXCEPT ![w] = @ + 1] /\ UNCHANGED begun
    BY <2>1, <2>8, TaskEndsFinishes DEF Pool!Next
  <2> QED
    BY <1>5, <2>2, <2>3, <2>4, <2>5, <2>6, <2>7, <2>8, WorkerLemma
<1>6. ASSUME NEW s \in Stoppers, StopStep(s) \/ StopCalled(s)
      PROVE  [Pool!Next]_(Pool!vars)
  BY <1>6, StopStepSimulates
<1>7. CASE Wakeup \/ Quiet \/ UNCHANGED vars
  <2>1. Keeps /\ UNCHANGED <<worker, pos, begun, finished, stopping>>
    BY <1>7, WakeLemma
  <2>2. Busy' = Busy
    BY <2>1, BusyKept DEF Running, Keeps
  <2> QED
    BY <1>3, <2>1, <2>2
<1> QED
  BY <1>4, <1>5, <1>6, <1>7, NextCases

\* The pool begins each task it accepted at most once, on one of its workers,
\* and neither runs nor begins a task after some Stop has returned.
THEOREM Refinement == Spec => ImplementsTaskPool
<1>1. Init => Pool!Init
  BY DEF Init, Queue!Init, Pool!Init, Accepted, InQueue, Running
<1>2. IInv /\ IInv' /\ [Next]_vars => [Pool!Next]_(Pool!vars)
  BY StepSimulation
<1> QED
  BY <1>1, <1>2, Invariance, PTL DEF Spec, ImplementsTaskPool, Pool!Spec
=============================================================================
