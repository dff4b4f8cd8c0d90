-------------------------- MODULE SyncQueue_proofs --------------------------
(***************************************************************************)
(* SyncQueue for any number of threads, any capacity and any items: type   *)
(* correctness, no lost wakeup, Stop leaves nobody asleep, and the queue   *)
(* implements the bounded FIFO channel.                                    *)
(***************************************************************************)
EXTENDS SyncQueue, SequenceTheorems, TLAPS

(* notify_one wakes one waiter if there is one, and never adds a waiter.    *)
LEMMA NotifyOneLemma ==
    ASSUME NEW S, NEW W \in AfterNotifyOne(S)
    PROVE  /\ W \subseteq S
           /\ S # {} => \E t \in S : W = S \ {t}
BY DEF AfterNotifyOne

(* A thread that leaves the wait set of not_full_ is still inside Put, and  *)
(* the same holds of Take: the case that every waking action shares.        *)
LEMMA FewerSleepers ==
    ASSUME TypeOK,
           not_full_' \subseteq not_full_, not_empty_' \subseteq not_empty_,
           UNCHANGED <<queue_, need_stop_, putting, taking, list, delivered>>,
           stop_pc' \in [Stoppers -> StopPC]
    PROVE  TypeOK'
BY DEF TypeOK

(* The type invariant: the queue stays within its capacity and only threads *)
(* inside Put or Take are in a wait set, whatever the interleaving.         *)
LEMMA TypeInductive ==
    ASSUME TypeOK, [Next]_vars
    PROVE  TypeOK'
<1> USE QueueAssumption
<1>1. ASSUME NEW t \in Putters, Produce(t)
      PROVE  TypeOK'
  <2>1. PICK x \in Items : PutCall(t, x)
    BY <1>1 DEF Produce
  <2>2. putting' \in [Putters -> Items \union {None}]
    BY <2>1 DEF PutCall, TypeOK
  <2>3. not_full_' \subseteq {u \in Putters : putting'[u] # None}
    BY <2>1 DEF PutCall, TypeOK
  <2> QED
    BY <2>1, <2>2, <2>3 DEF PutCall, TypeOK
<1>2. ASSUME NEW t \in Putters, Add(t)
      PROVE  TypeOK'
  <2>1. CASE AddBlock(t)
    BY <1>2, <2>1 DEF Add, AddBlock, TypeOK
  <2>2. CASE AddStopped(t)
    BY <1>2, <2>2 DEF Add, AddStopped, TypeOK
  <2>3. CASE AddPush(t)
    <3>1. putting[t] \in Items
      BY <1>2 DEF Add, TypeOK
    <3>2. queue_' \in Seq(Items) /\ Len(queue_') <= max_size_
      BY <2>3, <3>1 DEF AddPush, NotFull, TypeOK
    <3>3. not_empty_' \subseteq taking'
      BY <2>3, NotifyOneLemma DEF AddPush, TypeOK
    <3>4. /\ putting' \in [Putters -> Items \union {None}]
          /\ not_full_' \subseteq {u \in Putters : putting'[u] # None}
      BY <1>2, <2>3 DEF Add, AddPush, TypeOK
    <3> QED
      BY <2>3, <3>2, <3>3, <3>4 DEF AddPush, TypeOK
  <2> QED
    BY <1>2, <2>1, <2>2, <2>3 DEF Add
<1>3. ASSUME NEW t \in Takers, TakeCall(t)
      PROVE  TypeOK'
  <2>1. list' \in [Takers -> Seq(Items)]
    BY <1>3 DEF TakeCall, TypeOK
  <2> QED
    BY <1>3, <2>1 DEF TakeCall, TypeOK
<1>4. ASSUME NEW t \in Takers, Take(t)
      PROVE  TypeOK'
  <2>1. CASE TakeBlock(t)
    BY <1>4, <2>1 DEF Take, TakeBlock, TypeOK
  <2>2. CASE TakeStopped(t)
    BY <1>4, <2>2 DEF Take, TakeStopped, TypeOK
  <2>3. CASE TakeAll(t)
    <3>1. list' \in [Takers -> Seq(Items)]
      BY <2>3 DEF TakeAll, TypeOK
    <3>2. delivered' \in Seq(Items)
      BY <2>3, ConcatProperties DEF TakeAll, TypeOK
    <3>3. not_full_' \subseteq not_full_
      BY <2>3, NotifyOneLemma DEF TakeAll
    <3>4. queue_' \in Seq(Items) /\ Len(queue_') <= max_size_
      BY <2>3 DEF TakeAll
    <3> QED
      BY <1>4, <2>3, <3>1, <3>2, <3>3, <3>4 DEF Take, TakeAll, TypeOK
  <2> QED
    BY <1>4, <2>1, <2>2, <2>3 DEF Take
<1>5. ASSUME NEW s \in Stoppers, StopSet(s)
      PROVE  TypeOK'
  BY <1>5 DEF StopSet, TypeOK, StopPC
<1>6. ASSUME NEW s \in Stoppers, StopNotify(s)
      PROVE  TypeOK'
  <2>1. stop_pc' \in [Stoppers -> StopPC]
    BY <1>6 DEF StopNotify, StopNotifyFull, StopNotifyEmpty, TypeOK, StopPC
  <2> QED
    BY <1>6, <2>1, FewerSleepers
       DEF StopNotify, StopNotifyFull, StopNotifyEmpty
<1>7. CASE SpuriousWake
  BY <1>7, FewerSleepers DEF SpuriousWake, TypeOK
<1>8. CASE UNCHANGED vars
  BY <1>8 DEF vars, TypeOK
<1> QED
  BY <1>1, <1>2, <1>3, <1>4, <1>5, <1>6, <1>7, <1>8 DEF Next

(* The initial state satisfies the type invariant.                          *)
LEMMA TypeInit == Init => TypeOK
<1> SUFFICES ASSUME Init
             PROVE  TypeOK
  OBVIOUS
<1>1. <<>> \in Seq(Items) /\ Len(<<>>) = 0
  OBVIOUS
<1>2. queue_ \in Seq(Items) /\ Len(queue_) <= max_size_
  BY <1>1, QueueAssumption DEF Init
<1>3. list \in [Takers -> Seq(Items)]
  BY <1>1 DEF Init
<1> QED
  BY <1>1, <1>2, <1>3 DEF Init, TypeOK, StopPC

(* Every reachable state of the queue satisfies the type invariant.         *)
THEOREM TypeCorrect == Spec => []TypeOK
<1> QED
  BY TypeInit, TypeInductive, PTL DEF Spec

-----------------------------------------------------------------------------

(* NoLostWakeup is inductive: whoever makes the queue non-empty wakes a     *)
(* taker, whoever empties it wakes a putter, and a thread goes to sleep     *)
(* only in the state its predicate rules out.                               *)
LEMMA NoLostWakeupInductive ==
    ASSUME TypeOK, NoLostWakeup, [Next]_vars
    PROVE  NoLostWakeup'
<1> USE QueueAssumption DEF NoLostWakeup, AwakePutters, AwakeTakers, NotEmpty
<1>1. ASSUME NEW t \in Putters, Produce(t)
      PROVE  NoLostWakeup'
  <2>1. PICK x \in Items : PutCall(t, x)
    BY <1>1 DEF Produce
  <2>2. \A u \in Putters : putting[u] # None => putting'[u] # None
    BY <2>1 DEF PutCall, TypeOK
  <2> QED
    BY <2>1, <2>2 DEF PutCall
<1>2. ASSUME NEW t \in Putters, Add(t)
      PROVE  NoLostWakeup'
  <2>1. CASE AddBlock(t)
    <3>1. NotEmpty
      BY <2>1 DEF AddBlock, NotFull, TypeOK
    <3> QED
      BY <2>1, <3>1 DEF AddBlock
  <2>2. CASE AddStopped(t)
    BY <2>2 DEF AddStopped
  <2>3. CASE AddPush(t)
    <3>1. queue_' # <<>>
      BY <2>3 DEF AddPush, TypeOK
    <3>2. not_empty_ # {} => \E u \in taking : u \notin not_empty_'
      BY <2>3, NotifyOneLemma DEF AddPush, TypeOK
    <3>3. not_empty_' \subseteq not_empty_
      BY <2>3, NotifyOneLemma DEF AddPush
    <3> QED
      BY <2>3, <3>1, <3>2, <3>3 DEF AddPush
  <2> QED
    BY <1>2, <2>1, <2>2, <2>3 DEF Add
<1>3. ASSUME NEW t \in Takers, TakeCall(t)
      PROVE  NoLostWakeup'
  BY <1>3 DEF TakeCall
<1>4. ASSUME NEW t \in Takers, Take(t)
      PROVE  NoLostWakeup'
  <2>1. CASE TakeBlock(t)
    BY <2>1 DEF TakeBlock
  <2>2. CASE TakeStopped(t)
    BY <2>2 DEF TakeStopped
  <2>3. CASE TakeAll(t)
    <3>1. not_full_ # {} => \E u \in not_full_ : u \notin not_full_'
      BY <2>3, NotifyOneLemma DEF TakeAll
    <3>2. not_full_' \subseteq not_full_
      BY <2>3, NotifyOneLemma DEF TakeAll
    <3>3. not_full_ # {} => \E u \in Putters : putting[u] # None
                                               /\ u \notin not_full_'
      BY <3>1 DEF TypeOK
    <3> QED
      BY <2>3, <3>2, <3>3 DEF TakeAll
  <2> QED
    BY <1>4, <2>1, <2>2, <2>3 DEF Take
<1>5. ASSUME NEW s \in Stoppers, StopSet(s)
      PROVE  NoLostWakeup'
  BY <1>5 DEF StopSet
<1>6. ASSUME NEW s \in Stoppers, StopNotify(s)
      PROVE  NoLostWakeup'
  BY <1>6 DEF StopNotify, StopNotifyFull, StopNotifyEmpty
<1>7. CASE SpuriousWake
  BY <1>7 DEF SpuriousWake
<1>8. CASE UNCHANGED vars
  BY <1>8 DEF vars
<1> QED
  BY <1>1, <1>2, <1>3, <1>4, <1>5, <1>6, <1>7, <1>8 DEF Next

(* In no reachable state has the queue lost a wakeup that a sleeping thread *)
(* depends on, for any number of threads and any capacity.                  *)
THEOREM NoLostWakeupCorrect == Spec => []NoLostWakeup
<1>1. Init => NoLostWakeup
  BY DEF Init, NoLostWakeup
<1> QED
  BY <1>1, TypeCorrect, NoLostWakeupInductive, PTL DEF Spec

-----------------------------------------------------------------------------

(* StopLeavesNobodyAsleep is inductive: no thread joins a wait set once the *)
(* flag is set, and each notify_all empties the set it stands for.          *)
LEMMA StopInductive ==
    ASSUME TypeOK, StopLeavesNobodyAsleep, [Next]_vars
    PROVE  StopLeavesNobodyAsleep'
<1> USE DEF StopLeavesNobodyAsleep
<1>1. ASSUME NEW t \in Putters, Produce(t)
      PROVE  StopLeavesNobodyAsleep'
  BY <1>1 DEF Produce, PutCall
<1>2. ASSUME NEW t \in Putters, Add(t)
      PROVE  StopLeavesNobodyAsleep'
  BY <1>2 DEF Add, AddBlock, AddStopped, AddPush
<1>3. ASSUME NEW t \in Takers, TakeCall(t)
      PROVE  StopLeavesNobodyAsleep'
  BY <1>3 DEF TakeCall
<1>4. ASSUME NEW t \in Takers, Take(t)
      PROVE  StopLeavesNobodyAsleep'
  BY <1>4 DEF Take, TakeBlock, TakeStopped, TakeAll
<1>5. ASSUME NEW s \in Stoppers, StopSet(s)
      PROVE  StopLeavesNobodyAsleep'
  <2>1. /\ stop_pc'[s] = "not_full"
        /\ \A r \in Stoppers : stop_pc[r] # "idle" => stop_pc'[r] # "idle"
    BY <1>5 DEF StopSet, TypeOK
  <2> QED
    BY <1>5, <2>1 DEF StopSet
<1>6. ASSUME NEW s \in Stoppers, StopNotify(s)
      PROVE  StopLeavesNobodyAsleep'
  <2>1. CASE StopNotifyFull(s)
    BY <2>1 DEF StopNotifyFull, TypeOK
  <2>2. CASE StopNotifyEmpty(s)
    BY <2>2 DEF StopNotifyEmpty, TypeOK
  <2> QED
    BY <1>6, <2>1, <2>2 DEF StopNotify
<1>7. CASE SpuriousWake
  BY <1>7 DEF SpuriousWake
<1>8. CASE UNCHANGED vars
  BY <1>8 DEF vars
<1> QED
  BY <1>1, <1>2, <1>3, <1>4, <1>5, <1>6, <1>7, <1>8 DEF Next

(* Once Stop has run to its end, with no other Stop in progress, no thread  *)
(* sleeps in Put or in Take, and until then each sleeper has a notify_all   *)
(* still to come.                                                           *)
THEOREM StopCorrect == Spec => []StopLeavesNobodyAsleep
<1>1. Init => StopLeavesNobodyAsleep
  BY DEF Init, StopLeavesNobodyAsleep
<1> QED
  BY <1>1, TypeCorrect, StopInductive, PTL DEF Spec

-----------------------------------------------------------------------------

(* A putter's push is a Send of the channel.                                *)
LEMMA PushSends ==
    ASSUME TypeOK, NEW t \in Putters, putting[t] # None, AddPush(t)
    PROVE  \E x \in Items : Abstract!Send(x)
<1> DEFINE x == putting[t]
<1>1. x \in Items
  BY DEF TypeOK
<1>2. delivered \o queue_' = Append(delivered \o queue_, x)
  <2>1. /\ delivered \in Seq(Items) /\ queue_ \in Seq(Items)
        /\ queue_' = Append(queue_, x)
    BY DEF AddPush, TypeOK
  <2>2. /\ DOMAIN (delivered \o queue_') =
               DOMAIN Append(delivered \o queue_, x)
        /\ \A i \in 1..(Len(delivered) + Len(queue_) + 1) :
               (delivered \o queue_')[i] = Append(delivered \o queue_, x)[i]
    BY <1>1, <2>1
  <2> QED
    BY <1>1, <2>1, <2>2, SeqEqual, ConcatProperties, AppendProperties
<1>3. Len(delivered \o queue_) < Len(delivered) + max_size_
  BY QueueAssumption DEF AddPush, NotFull, TypeOK
<1> QED
  BY <1>1, <1>2, <1>3 DEF AddPush, Abstract!Send

(* A taker's drain is a ReceiveAll of the channel.                          *)
LEMMA DrainReceives ==
    ASSUME TypeOK, NEW t \in Takers, TakeAll(t)
    PROVE  Abstract!ReceiveAll
<1>1. delivered \in Seq(Items) /\ queue_ \in Seq(Items) /\ queue_ # <<>>
  BY DEF TakeAll, NotEmpty, TypeOK
<1>2. delivered # delivered \o queue_
  <2>1. Len(queue_) > 0 /\ Len(delivered) \in Nat
    BY <1>1
  <2> QED
    BY <1>1, <2>1, ConcatProperties
<1>3. delivered' \o queue_' = delivered \o queue_
  BY <1>1, ConcatProperties, ConcatEmptySeq DEF TakeAll
<1> QED
  BY <1>1, <1>2, <1>3 DEF TakeAll, Abstract!ReceiveAll

(* Every step of the queue is a step of the channel or leaves it unchanged. *)
LEMMA StepSimulation ==
    ASSUME TypeOK, [Next]_vars
    PROVE  [Abstract!Next]_(Abstract!vars)
<1> USE DEF Abstract!vars
<1>1. ASSUME NEW t \in Putters, Produce(t)
      PROVE  UNCHANGED Abstract!vars
  BY <1>1 DEF Produce, PutCall
<1>2. ASSUME NEW t \in Putters, Add(t)
      PROVE  [Abstract!Next]_(Abstract!vars)
  <2>1. CASE AddBlock(t)
    BY <2>1 DEF AddBlock
  <2>2. CASE AddStopped(t)
    BY <2>2 DEF AddStopped
  <2>3. CASE AddPush(t)
    BY <1>2, <2>3, PushSends DEF Add, Abstract!Next
  <2> QED
    BY <1>2, <2>1, <2>2, <2>3 DEF Add
<1>3. ASSUME NEW t \in Takers, TakeCall(t)
      PROVE  UNCHANGED Abstract!vars
  BY <1>3 DEF TakeCall
<1>4. ASSUME NEW t \in Takers, Take(t)
      PROVE  [Abstract!Next]_(Abstract!vars)
  <2>1. CASE TakeBlock(t)
    BY <2>1 DEF TakeBlock
  <2>2. CASE TakeStopped(t)
    BY <2>2 DEF TakeStopped
  <2>3. CASE TakeAll(t)
    BY <2>3, DrainReceives DEF Abstract!Next
  <2> QED
    BY <1>4, <2>1, <2>2, <2>3 DEF Take
<1>5. ASSUME NEW s \in Stoppers, StopSet(s)
      PROVE  [Abstract!Next]_(Abstract!vars)
  <2>1. CASE need_stop_
    BY <1>5, <2>1 DEF StopSet, TypeOK
  <2>2. CASE ~need_stop_
    BY <1>5, <2>2 DEF StopSet, Abstract!Next, Abstract!Close
  <2> QED
    BY <2>1, <2>2
<1>6. ASSUME NEW s \in Stoppers, StopNotify(s)
      PROVE  UNCHANGED Abstract!vars
  BY <1>6 DEF StopNotify, StopNotifyFull, StopNotifyEmpty
<1>7. CASE SpuriousWake
  BY <1>7 DEF SpuriousWake
<1>8. CASE UNCHANGED vars
  BY <1>8 DEF vars
<1> QED
  BY <1>1, <1>2, <1>3, <1>4, <1>5, <1>6, <1>7, <1>8 DEF Next

(* SyncQueue implements the bounded FIFO channel.                           *)
THEOREM Refinement == Spec => ImplementsChannel
<1>1. Init => Abstract!Init
  <2>1. <<>> \o <<>> = <<>>
    OBVIOUS
  <2> QED
    BY <2>1 DEF Init, Abstract!Init
<1>2. TypeOK /\ [Next]_vars => [Abstract!Next]_(Abstract!vars)
  BY StepSimulation
<1> QED
  BY <1>1, <1>2, TypeCorrect, PTL DEF Spec, ImplementsChannel, Abstract!Spec
=============================================================================
