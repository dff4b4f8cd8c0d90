----------------------------- MODULE ThreadPool -----------------------------
(***************************************************************************)
(* ThreadPool (src/src/common/thread_pool.cpp): workers that run the tasks *)
(* they take from a SyncQueue.  Any thread may add a task, a running task  *)
(* may add one too, and any number of threads may call Stop, the           *)
(* destructor among them; std::call_once lets one of them stop the pool    *)
(* while the others wait.  A task does not call Stop: it would join the    *)
(* thread it runs on.                                                      *)
(***************************************************************************)
EXTENDS Naturals, Sequences, FiniteSets

CONSTANTS Workers,         \* the threads of thread_group_
          Clients,         \* threads that call AddTask
          Stoppers,        \* threads that call Stop, once each
          NoTask,          \* not a task
          Adds,            \* how many tasks each task adds while it runs
          MAX_TASK_COUNT,  \* capacity of queue_
          ClientTasks,     \* bound: clients pass none but the first tasks
          MaxTasks         \* bound on the calls of AddTask

\* A task is known by the number of the AddTask it was passed to.
Task == 1..MaxTasks

ASSUME PoolAssumption == /\ Workers # {} /\ IsFiniteSet(Workers)
                         /\ Workers \intersect Clients = {}
                         /\ MAX_TASK_COUNT \in Nat \ {0}
                         /\ MaxTasks \in Nat /\ ClientTasks \in Nat
                         /\ Adds \in [Task -> Nat]
                         /\ NoTask \notin Nat

VARIABLES
    queue_, need_stop_, not_full_, not_empty_, putting, taking, list, stop_pc,
    delivered,  \* see SyncQueue
    running_,   \* the flag of the pool
    added,      \* how many calls of AddTask there were
    worker,     \* where RunThread is on each worker
    pos,        \* the position of each worker in its list
    to_add,     \* how many tasks the task on each worker has still to add
    flag_,      \* the once_flag: not set, being set or set
    stopping,   \* where Stop is on each stopper
    begun, finished  \* history: the tasks begun and those that have ended

Queue == INSTANCE SyncQueue WITH
             Putters <- Clients \union Workers, Takers <- Workers,
             Items <- Task, None <- NoTask, max_size_ <- MAX_TASK_COUNT,
             MaxPuts <- MaxTasks

queueVars == <<queue_, need_stop_, not_full_, not_empty_, putting, taking,
               list, stop_pc, delivered>>
history == <<begun, finished>>
vars == <<queueVars, running_, added, worker, pos, to_add, flag_, stopping, history>>

WorkerPC == {"loop", "take", "next", "task", "adding", "exited"}
StoppingPC == {"idle", "waiting", "queue", "notify", "flag", "join", "returned"}

\* Start: running_ is set before the first thread is created.
Init == /\ Queue!Init
        /\ running_ = TRUE
        /\ added = 0
        /\ worker = [w \in Workers |-> "loop"]
        /\ pos = [w \in Workers |-> 1]
        /\ to_add = [w \in Workers |-> 0]
        /\ flag_ = "unset"
        /\ stopping = [s \in Stoppers |-> "idle"]
        /\ begun = {}
        /\ finished = {}

-----------------------------------------------------------------------------
(* AddTask *)

\* The next task is passed to AddTask on thread t.
Pass(t) == /\ added < MaxTasks
           /\ added' = added + 1
           /\ Queue!PutCall(t, added')

AddTask(c) == /\ added < ClientTasks
              /\ Pass(c)
              /\ UNCHANGED <<running_, worker, pos, to_add, flag_, stopping, history>>

AddTaskPut(c) == /\ Queue!Add(c)
                 /\ UNCHANGED <<running_, added, worker, pos, to_add, flag_, stopping,
                                history>>

-----------------------------------------------------------------------------
(* RunThread *)

GoTo(w, step) == worker' = [worker EXCEPT ![w] = step]
Current(w) == list[w][pos[w]]

\* Each turn has a list of its own.
Loop(w) == /\ worker[w] = "loop"
           /\ \/ running_ /\ Queue!TakeCall(w) /\ GoTo(w, "take")
              \/ ~running_ /\ GoTo(w, "exited") /\ UNCHANGED queueVars
           /\ UNCHANGED <<added, pos, to_add, history>>

\* A queue that is stopped leaves the list empty.
Take(w) == /\ worker[w] = "take"
           /\ Queue!Take(w)
           /\ GoTo(w, IF w \in taking' THEN "take" ELSE "next")
           /\ UNCHANGED <<added, pos, to_add, history>>

ListEnds(w) == /\ pos[w] > Len(list[w])
               /\ GoTo(w, "loop")
               /\ pos' = [pos EXCEPT ![w] = 1]
               /\ UNCHANGED <<to_add, begun>>

\* The pool is stopped: the rest of the list is dropped.
ListDropped(w) == /\ pos[w] <= Len(list[w]) /\ ~running_
                  /\ GoTo(w, "exited")
                  /\ UNCHANGED <<pos, to_add, begun>>

\* Mutant of TaskBegins: the first task of a list is left out.
TaskBeginsSecond(w) == /\ pos[w] < Len(list[w]) /\ running_
                       /\ GoTo(w, "task")
                       /\ pos' = [pos EXCEPT ![w] = @ + 1]
                       /\ begun' = begun \union {list[w][pos[w] + 1]}
                       /\ UNCHANGED to_add

TaskBegins(w) == /\ pos[w] <= Len(list[w]) /\ running_
                 /\ GoTo(w, "task")
                 /\ begun' = begun \union {Current(w)}
                 /\ to_add' = [to_add EXCEPT ![w] = Adds[Current(w)]]
                 /\ UNCHANGED pos

\* for (auto &task : list), running_ read before each task.
NextTask(w) == /\ worker[w] = "next"
               /\ ListEnds(w) \/ ListDropped(w) \/ TaskBegins(w)
               /\ UNCHANGED <<queueVars, added, finished>>

\* The task runs; to add a task it waits in Put like anybody else.
TaskAdds(w) == /\ worker[w] = "task" /\ to_add[w] > 0
               /\ Pass(w)
               /\ to_add' = [to_add EXCEPT ![w] = @ - 1]
               /\ GoTo(w, "adding")
               /\ UNCHANGED <<pos, history>>

\* Mutant of TaskPuts: AddTask does not wait while the queue is full.
TaskPutsNoWait(w) == /\ worker[w] = "adding"
                     /\ Queue!Add(w)
                     /\ GoTo(w, "task")
                     /\ UNCHANGED <<added, pos, to_add, history>>

TaskPuts(w) == /\ worker[w] = "adding"
               /\ Queue!Add(w)
               /\ GoTo(w, IF putting'[w] = NoTask THEN "task" ELSE "adding")
               /\ UNCHANGED <<added, pos, to_add, history>>

TaskEnds(w) == /\ worker[w] = "task" /\ to_add[w] = 0
               /\ finished' = finished \union {Current(w)}
               /\ pos' = [pos EXCEPT ![w] = @ + 1]
               /\ GoTo(w, "next")
               /\ UNCHANGED <<queueVars, added, to_add, begun>>

WorkerStep(w) == /\ \/ Loop(w) \/ Take(w) \/ NextTask(w)
                    \/ TaskAdds(w) \/ TaskPuts(w) \/ TaskEnds(w)
                 /\ UNCHANGED <<running_, flag_, stopping>>

-----------------------------------------------------------------------------
(* Stop *)

StopTo(s, step) == stopping' = [stopping EXCEPT ![s] = step]

\* Mutant of StopCall: a plain flag instead of the once_flag.
StopCallPlain(s) ==
    /\ stopping[s] = "idle"
    /\ \/ flag_ = "unset" /\ flag_' = "setting" /\ StopTo(s, "queue")
       \/ flag_ # "unset" /\ UNCHANGED flag_ /\ StopTo(s, "returned")
    /\ UNCHANGED <<queueVars, running_>>

\* call_once: the first caller stops the pool, the others wait for it.
StopCall(s) ==
    /\ stopping[s] = "idle"
    /\ \/ flag_ = "unset" /\ flag_' = "setting" /\ StopTo(s, "queue")
       \/ flag_ # "unset" /\ UNCHANGED flag_ /\ StopTo(s, "waiting")
    /\ UNCHANGED <<queueVars, running_>>

StopWaits(s) == /\ stopping[s] = "waiting" /\ flag_ = "set"
                /\ StopTo(s, "returned")
                /\ UNCHANGED <<queueVars, running_, flag_>>

\* Mutant of StopQueue: the queue is not stopped.
StopQueueSkipped(s) == /\ stopping[s] = "queue"
                       /\ StopTo(s, "flag")
                       /\ UNCHANGED <<queueVars, running_, flag_>>

StopQueue(s) == /\ stopping[s] = "queue"
                /\ Queue!StopSet(s)
                /\ StopTo(s, "notify")
                /\ UNCHANGED <<running_, flag_>>

StopNotifies(s) ==
    /\ stopping[s] = "notify"
    /\ Queue!StopNotify(s)
    /\ StopTo(s, IF stop_pc'[s] = "idle" THEN "flag" ELSE "notify")
    /\ UNCHANGED <<running_, flag_>>

ClearRunning(s) == /\ stopping[s] = "flag"
                   /\ running_' = FALSE
                   /\ StopTo(s, "join")
                   /\ UNCHANGED <<queueVars, flag_>>

\* Every worker is joined; thread_group_ is cleared and the flag set.
JoinAll(s) == /\ stopping[s] = "join"
              /\ \A w \in Workers : worker[w] = "exited"
              /\ flag_' = "set"
              /\ StopTo(s, "returned")
              /\ UNCHANGED <<queueVars, running_>>

StopStep(s) == /\ \/ StopWaits(s) \/ StopQueue(s) \/ StopNotifies(s)
                  \/ ClearRunning(s) \/ JoinAll(s)
               /\ UNCHANGED <<added, worker, pos, to_add, history>>

StopCalled(s) == StopCall(s) /\ UNCHANGED <<added, worker, pos, to_add, history>>

-----------------------------------------------------------------------------
Wakeup == /\ Queue!SpuriousWake
          /\ UNCHANGED <<running_, added, worker, pos, to_add, flag_, stopping,
                         history>>

\* All Stops have returned, and nobody adds a task.
Quiet == /\ \A s \in Stoppers : stopping[s] = "returned"
         /\ added >= ClientTasks
         /\ UNCHANGED vars

Next == \/ \E c \in Clients : AddTask(c) \/ AddTaskPut(c)
        \/ \E w \in Workers : WorkerStep(w)
        \/ \E s \in Stoppers : StopCalled(s) \/ StopStep(s)
        \/ Wakeup
        \/ Quiet

Spec == Init /\ [][Next]_vars

\* Threads that are not blocked are scheduled, and tasks end.  Nobody has to
\* add a task or to stop the pool.
Fairness == /\ \A c \in Clients : WF_vars(AddTaskPut(c))
            /\ \A w \in Workers : WF_vars(WorkerStep(w))
            /\ \A s \in Stoppers : WF_vars(StopStep(s))

FairSpec == Spec /\ Fairness

-----------------------------------------------------------------------------
(* Properties *)

Running == {w \in Workers : worker[w] \in {"task", "adding"}}
InQueue == {queue_[i] : i \in 1..Len(queue_)}
Accepted == {delivered[i] : i \in 1..Len(delivered)} \union InQueue

\* The types; a worker is inside Take, or inside Put, exactly when its program
\* is, and a worker that runs a task runs one of its list.
TypeOK == /\ running_ \in BOOLEAN
          /\ added \in 0..MaxTasks
          /\ worker \in [Workers -> WorkerPC]
          /\ pos \in [Workers -> Nat \ {0}]
          /\ to_add \in [Workers -> Nat]
          /\ flag_ \in {"unset", "setting", "set"}
          /\ stopping \in [Stoppers -> StoppingPC]
          /\ begun \subseteq Task /\ finished \subseteq begun
          /\ taking = {w \in Workers : worker[w] = "take"}
          /\ \A w \in Workers : putting[w] # NoTask => worker[w] = "adding"
          /\ \A w \in Running : pos[w] <= Len(list[w])

\* A task accepted by the queue is begun at most once, and when any Stop has
\* returned, the one that stops the pool or one that waited for it, no task is
\* running and none is begun any more.
Pool == INSTANCE TaskPool WITH
            Threads <- Cardinality(Workers),
            accepted <- Accepted \ begun,
            running <- {Current(w) : w \in Running},
            done <- finished,
            stopped <- \E s \in Stoppers : stopping[s] = "returned"
ImplementsTaskPool == Pool!Spec

\* Every worker is inside AddTask: each runs a task that adds a task to a full
\* queue, which nobody is left to empty.
Wedged == /\ \A w \in Workers : worker[w] = "adding"
          /\ Len(queue_) = MAX_TASK_COUNT

\* The accepted tasks are begun, all of them, unless the pool is stopped or has
\* run into the one deadlock it has: tasks that add tasks on all threads at once.
AcceptedAreBegun ==
    ~(Accepted \subseteq begun) ~>
        (Accepted \subseteq begun \/ need_stop_ \/ Wedged)

\* Every Stop returns, even when the pool is wedged and when it is called by
\* several threads at the same time.
Stopping == {s \in Stoppers : stopping[s] \notin {"idle", "returned"}}
StopReturns == Stopping # {} ~> Stopping = {}
=============================================================================
