----------------------------- MODULE SyncQueue -----------------------------
(***************************************************************************)
(* SyncQueue<T> (src/src/common/sync_queue.h): a bounded queue guarded by  *)
(* one mutex and two condition variables.  Any number of threads call Put, *)
(* any number call Take(std::list<T>&), any number call Stop.              *)
(*                                                                         *)
(* One action is one critical section.  A thread that waits on a condition *)
(* variable is a member of its wait set; it leaves the set when notified,  *)
(* or spuriously, and then evaluates the predicate of wait(lock, pred)     *)
(* again before it goes on.  Stop releases the mutex before it notifies,   *)
(* so its three steps are three actions.                                   *)
(***************************************************************************)
EXTENDS Naturals, Sequences, FiniteSets

CONSTANTS Putters,    \* threads that call Put
          Takers,     \* threads that call Take, in a loop
          Stoppers,   \* threads (or signal handler frames) that call Stop
          Items,      \* what is put
          None,       \* not an item: the thread is not inside Put
          max_size_,  \* the capacity given to the constructor
          MaxPuts     \* bound on the number of items ever accepted

ASSUME QueueAssumption == /\ max_size_ \in Nat \ {0}
                          /\ MaxPuts \in Nat
                          /\ None \notin Items

VARIABLES queue_,      \* the std::list, oldest first
          need_stop_,  \* the stop flag
          not_full_,   \* threads waiting on not_full_
          not_empty_,  \* threads waiting on not_empty_
          putting,     \* the argument of each thread's Put in progress
          taking,      \* threads inside Take
          list,        \* the std::list each taker passed to Take
          stop_pc,     \* what each Stop in progress does next
          delivered    \* history: every item ever moved to a list, in order

vars == <<queue_, need_stop_, not_full_, not_empty_, putting, taking, list,
          stop_pc, delivered>>

StopPC == {"idle", "not_full", "not_empty"}

Init == /\ queue_ = <<>>
        /\ need_stop_ = FALSE
        /\ not_full_ = {}
        /\ not_empty_ = {}
        /\ putting = [t \in Putters |-> None]
        /\ taking = {}
        /\ list = [t \in Takers |-> <<>>]
        /\ stop_pc = [s \in Stoppers |-> "idle"]
        /\ delivered = <<>>

\* Mutant of NotFull: one slot too many.
NotFullOffByOne == Len(queue_) <= max_size_

NotFull == Len(queue_) < max_size_
NotEmpty == queue_ # <<>>

\* The wait sets notify_one can leave behind: any one waiter wakes up.
AfterNotifyOne(S) == IF S = {} THEN {S} ELSE {S \ {t} : t \in S}

-----------------------------------------------------------------------------
(* Put *)

PutCall(t, x) ==
    /\ putting[t] = None
    /\ putting' = [putting EXCEPT ![t] = x]
    /\ UNCHANGED <<queue_, need_stop_, not_full_, not_empty_, taking, list,
                   stop_pc, delivered>>

\* Mutant of AddBlock: the predicate of the wait leaves out need_stop_.
AddBlockUnstoppable(t) ==
    /\ ~NotFull
    /\ not_full_' = not_full_ \union {t}
    /\ UNCHANGED <<queue_, need_stop_, not_empty_, putting, taking, list,
                   stop_pc, delivered>>

\* The predicate is false: the thread joins the waiters of not_full_.
AddBlock(t) ==
    /\ ~need_stop_ /\ ~NotFull
    /\ not_full_' = not_full_ \union {t}
    /\ UNCHANGED <<queue_, need_stop_, not_empty_, putting, taking, list,
                   stop_pc, delivered>>

\* Put returns and the item is gone: the caller is not told.
AddStopped(t) ==
    /\ need_stop_
    /\ putting' = [putting EXCEPT ![t] = None]
    /\ UNCHANGED <<queue_, need_stop_, not_full_, not_empty_, taking, list,
                   stop_pc, delivered>>

\* Mutant of AddPush: not_empty_ is not notified.
AddPushSilent(t) ==
    /\ ~need_stop_ /\ NotFull
    /\ queue_' = Append(queue_, putting[t])
    /\ putting' = [putting EXCEPT ![t] = None]
    /\ UNCHANGED <<need_stop_, not_full_, not_empty_, taking, list, stop_pc,
                   delivered>>

AddPush(t) ==
    /\ ~need_stop_ /\ NotFull
    /\ queue_' = Append(queue_, putting[t])
    /\ not_empty_' \in AfterNotifyOne(not_empty_)
    /\ putting' = [putting EXCEPT ![t] = None]
    /\ UNCHANGED <<need_stop_, not_full_, taking, list, stop_pc, delivered>>

Add(t) == /\ putting[t] # None
          /\ t \notin not_full_
          /\ AddBlock(t) \/ AddStopped(t) \/ AddPush(t)

-----------------------------------------------------------------------------
(* Take *)

\* The caller passes a fresh, empty list.
TakeCall(t) ==
    /\ t \notin taking
    /\ taking' = taking \union {t}
    /\ list' = [list EXCEPT ![t] = <<>>]
    /\ UNCHANGED <<queue_, need_stop_, not_full_, not_empty_, putting,
                   stop_pc, delivered>>

TakeBlock(t) ==
    /\ ~need_stop_ /\ ~NotEmpty
    /\ not_empty_' = not_empty_ \union {t}
    /\ UNCHANGED <<queue_, need_stop_, not_full_, putting, taking, list,
                   stop_pc, delivered>>

\* The list stays empty, and what is queued stays queued for ever.
TakeStopped(t) ==
    /\ need_stop_
    /\ taking' = taking \ {t}
    /\ UNCHANGED <<queue_, need_stop_, not_full_, not_empty_, putting, list,
                   stop_pc, delivered>>

\* Mutant of TakeAll: not_full_ is not notified.
TakeAllSilent(t) ==
    /\ ~need_stop_ /\ NotEmpty
    /\ list' = [list EXCEPT ![t] = queue_]
    /\ queue_' = <<>>
    /\ delivered' = delivered \o queue_
    /\ taking' = taking \ {t}
    /\ UNCHANGED <<need_stop_, not_full_, not_empty_, putting, stop_pc>>

\* Mutant of TakeAll: the queue is copied to the list, not moved.
TakeAllCopies(t) ==
    /\ ~need_stop_ /\ NotEmpty
    /\ list' = [list EXCEPT ![t] = queue_]
    /\ delivered' = delivered \o queue_
    /\ not_full_' \in AfterNotifyOne(not_full_)
    /\ taking' = taking \ {t}
    /\ UNCHANGED <<queue_, need_stop_, not_empty_, putting, stop_pc>>

\* The whole queue moves to the caller's list, yet one putter is notified.
TakeAll(t) ==
    /\ ~need_stop_ /\ NotEmpty
    /\ list' = [list EXCEPT ![t] = queue_]
    /\ queue_' = <<>>
    /\ delivered' = delivered \o queue_
    /\ not_full_' \in AfterNotifyOne(not_full_)
    /\ taking' = taking \ {t}
    /\ UNCHANGED <<need_stop_, not_empty_, putting, stop_pc>>

Take(t) == /\ t \in taking
           /\ t \notin not_empty_
           /\ TakeBlock(t) \/ TakeStopped(t) \/ TakeAll(t)

-----------------------------------------------------------------------------
(* Stop *)

StopSet(s) ==
    /\ stop_pc[s] = "idle"
    /\ need_stop_' = TRUE
    /\ stop_pc' = [stop_pc EXCEPT ![s] = "not_full"]
    /\ UNCHANGED <<queue_, not_full_, not_empty_, putting, taking, list,
                   delivered>>

StopNotifyFull(s) ==
    /\ stop_pc[s] = "not_full"
    /\ not_full_' = {}
    /\ stop_pc' = [stop_pc EXCEPT ![s] = "not_empty"]
    /\ UNCHANGED <<queue_, need_stop_, not_empty_, putting, taking, list,
                   delivered>>

\* Mutant of StopNotifyEmpty: notify_one instead of notify_all.
StopNotifyOneEmpty(s) ==
    /\ stop_pc[s] = "not_empty"
    /\ not_empty_' \in AfterNotifyOne(not_empty_)
    /\ stop_pc' = [stop_pc EXCEPT ![s] = "idle"]
    /\ UNCHANGED <<queue_, need_stop_, not_full_, putting, taking, list,
                   delivered>>

StopNotifyEmpty(s) ==
    /\ stop_pc[s] = "not_empty"
    /\ not_empty_' = {}
    /\ stop_pc' = [stop_pc EXCEPT ![s] = "idle"]
    /\ UNCHANGED <<queue_, need_stop_, not_full_, putting, taking, list,
                   delivered>>

StopNotify(s) == StopNotifyFull(s) \/ StopNotifyEmpty(s)

\* A condition variable may wake a waiter that nobody notified.
SpuriousWake ==
    /\ \/ /\ \E t \in not_full_ : not_full_' = not_full_ \ {t}
          /\ UNCHANGED not_empty_
       \/ /\ \E t \in not_empty_ : not_empty_' = not_empty_ \ {t}
          /\ UNCHANGED not_full_
    /\ UNCHANGED <<queue_, need_stop_, putting, taking, list, stop_pc,
                   delivered>>

-----------------------------------------------------------------------------
(* Putters put while the bound allows, takers take in a loop, and anybody *)
(* may stop the queue at any moment, more than once.                      *)

Produce(t) == /\ Len(delivered) + Len(queue_) < MaxPuts
              /\ \E x \in Items : PutCall(t, x)

Next == \/ \E t \in Putters : Produce(t) \/ Add(t)
        \/ \E t \in Takers : TakeCall(t) \/ Take(t)
        \/ \E s \in Stoppers : StopSet(s) \/ StopNotify(s)
        \/ SpuriousWake

Spec == Init /\ [][Next]_vars

\* A thread inside Put, Take or Stop that is not asleep goes on, and a taker
\* calls Take again.  Nobody has to call Put or Stop.
Fairness == /\ \A t \in Putters : WF_vars(Add(t))
            /\ \A t \in Takers : WF_vars(TakeCall(t)) /\ WF_vars(Take(t))
            /\ \A s \in Stoppers : WF_vars(StopNotify(s))

FairSpec == Spec /\ Fairness

-----------------------------------------------------------------------------
(* Properties *)

\* The queue keeps to its capacity, and only threads inside a call sleep.
TypeOK == /\ queue_ \in Seq(Items) /\ Len(queue_) <= max_size_
          /\ need_stop_ \in BOOLEAN
          /\ putting \in [Putters -> Items \union {None}]
          /\ not_full_ \subseteq {t \in Putters : putting[t] # None}
          /\ taking \subseteq Takers
          /\ not_empty_ \subseteq taking
          /\ list \in [Takers -> Seq(Items)]
          /\ stop_pc \in [Stoppers -> StopPC]
          /\ delivered \in Seq(Items)

\* Threads inside Put, or inside Take, that hold or contend for the mutex.
AwakePutters == {t \in Putters : putting[t] # None} \ not_full_
AwakeTakers == taking \ not_empty_

\* No wakeup is lost before Stop: while a taker sleeps on a queue that holds
\* items, another taker is awake inside Take and will fetch them; while a
\* putter sleeps on an empty queue, another putter is awake inside Put.  (With
\* one notify_one per drained queue a putter may well sleep beside free slots:
\* the next drain wakes it.)
NoLostWakeup ==
    ~need_stop_ =>
        /\ not_empty_ # {} /\ NotEmpty => AwakeTakers # {}
        /\ not_full_ # {} /\ ~NotEmpty => AwakePutters # {}

\* Stop leaves nobody asleep: after need_stop_ is set, a thread sleeps only
\* until a Stop still in progress reaches the notify_all that wakes it.  No
\* thread can have gone to sleep between the flag and the notification.
StopLeavesNobodyAsleep ==
    need_stop_ =>
        /\ not_full_ # {} => \E s \in Stoppers : stop_pc[s] = "not_full"
        /\ not_empty_ # {} => \E s \in Stoppers : stop_pc[s] # "idle"

\* The queue is a bounded FIFO channel: what Put accepted is what Take hands
\* over, in the order of acceptance, without loss or duplication until Stop,
\* and never more than max_size_ items in between.
Abstract == INSTANCE Channel WITH Items <- Items, Capacity <- max_size_,
                sent <- delivered \o queue_, received <- delivered,
                open <- ~need_stop_
ImplementsChannel == Abstract!Spec

\* What is queued is handed to a taker eventually, unless the queue is stopped.
QueueDrained == NotEmpty ~> (~NotEmpty \/ need_stop_)

\* After Stop every Put and every Take in progress returns: each is back from
\* its call at some later moment (a stopped taker may well call again).
StopReleasesEveryone ==
    /\ \A t \in Putters : need_stop_ ~> (putting[t] = None)
    /\ \A t \in Takers : need_stop_ ~> (t \notin taking)
=============================================================================
