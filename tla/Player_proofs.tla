--------------------------- MODULE Player_proofs ---------------------------
(***************************************************************************)
(* Player for any bags, any clock and any number of signals: type          *)
(* correctness, everything is printed unless somebody interferes, and      *)
(* playing implements Playback.                                            *)
(***************************************************************************)
EXTENDS Player, NumberLemmas

Early == {"launch", "setup", "open", "schedule"}
Playing == {"run", "closing", "done"}

\* The timer of a record, and the records that were printed.
EntryOf(r) == [when |-> r.stamp + diff, timer |-> r]
Printed == {printed[i] : i \in 1..Len(printed)}

-----------------------------------------------------------------------------
(* The inductive invariant *)

Types == /\ TypeOK
         /\ bags_ \in BagLists
         /\ diff \in Int /\ latest \in Int
         /\ signals \in Nat /\ set_backs \in Nat
         /\ signals = 0 => frames = <<>>

\* Nothing has happened before the timers are created, and nothing will if the
\* program exits before.
Beginning ==
    phase \notin Playing =>
        /\ timers_ = {} /\ expired = {} /\ printed = <<>>
        /\ clock = 1

\* The timerfd is armed by the loop, which is entered once.
Entering == /\ pc = "idle" <=> phase # "run"
            /\ phase \in Early \/ pc = "loop" =>
                  ~running_ /\ timerfd_.left = 0 /\ ~timerfd_.fired

\* The View is made when the bags were opened.
Viewed == /\ phase \notin Playing \union {"schedule"} => view = {}
          /\ phase \in Playing \union {"schedule"} =>
                view = GetRecords(bags_) /\ ~CannotPlay
          /\ phase \in {"schedule", "run"} => view # {}

\* While playing, each record is at one place: it has a timer, or its timer is
\* due to run, or it was printed.
Placed == /\ \A e \in timers_ \union expired :
                e = EntryOf(e.timer) /\ e.when \in 1..(Horizon - 1)
          /\ phase \in Playing =>
                \A r \in view : EntryOf(r) \in timers_ \union expired
                                   <=> r \notin Printed

\* What is due to run comes before what is left, and its time has come.
Due == /\ clock <= latest
       /\ \A e \in expired : /\ e.when < latest
                             /\ \A f \in timers_ : e.when < f.when

\* Some timer will have expired within so many ticks.
ExpiresWithin(ticks) == \E e \in timers_ : e.when < clock + ticks

\* As long as there are no signals and the clock is not set back, the timerfd
\* never fires before a timer has expired, and is closed with the last of them.
Undisturbed ==
    signals = 0 /\ set_backs = 0 =>
        /\ phase \in Early => timerfd_.open
        /\ pc = "loop" => timerfd_.open /\ ExpiresWithin(1)
        /\ pc = "read" => \/ timers_ = {} /\ ~timerfd_.open
                          \/ /\ timerfd_.open
                             /\ timerfd_.fired => ExpiresWithin(0)
                             /\ timerfd_.left > 0 =>
                                   ExpiresWithin(timerfd_.left)
        /\ pc \in {"log", "handle"} => timerfd_.open /\ ExpiresWithin(0)
        /\ pc = "run" => timerfd_.open
        /\ pc = "log_failed" \/ phase \in {"closing", "done"} => timers_ = {}

IInv == /\ Types /\ Beginning /\ Entering /\ Viewed /\ Placed /\ Due
        /\ Undisturbed

-----------------------------------------------------------------------------
(* The earliest of some times *)

\* The records of bags that can be opened, and the first of their stamps.
LEMMA Records ==
    ASSUME bags_ \in BagLists, ~CannotPlay
    PROVE  /\ GetRecords(bags_) \subseteq Record
           /\ \A r, q \in GetRecords(bags_) : r.stamp - q.stamp + 1 < Horizon
<1>1. /\ bags_ \in Seq({Refused} \union Seq(Int))
      /\ \A i \in DOMAIN bags_ : bags_[i] # Refused
  BY BagListsAssumption DEF CannotPlay
<1>2. \A i \in DOMAIN bags_ : i \in Nat /\ bags_[i] \in Seq(Int)
  BY <1>1
<1>3. \A i \in DOMAIN bags_ : \A k \in DOMAIN bags_[i] :
          k \in Nat /\ bags_[i][k] \in Int
  BY <1>2
<1>4. \A r \in GetRecords(bags_) :
          \E i \in DOMAIN bags_ : \E k \in DOMAIN bags_[i] :
             r = [bag |-> i, n |-> k, stamp |-> bags_[i][k]]
  BY DEF GetRecords
<1>5. GetRecords(bags_) \subseteq Record
  BY <1>2, <1>3, <1>4 DEF Record
<1>6. ASSUME NEW r \in GetRecords(bags_), NEW q \in GetRecords(bags_)
      PROVE  r.stamp - q.stamp + 1 < Horizon
  <2>1. PICK i \in DOMAIN bags_ : \E k \in DOMAIN bags_[i] :
             r = [bag |-> i, n |-> k, stamp |-> bags_[i][k]]
    BY <1>4
  <2>2. PICK k \in DOMAIN bags_[i] :
             r = [bag |-> i, n |-> k, stamp |-> bags_[i][k]]
    BY <2>1
  <2>3. PICK j \in DOMAIN bags_ : \E l \in DOMAIN bags_[j] :
             q = [bag |-> j, n |-> l, stamp |-> bags_[j][l]]
    BY <1>4
  <2>4. PICK l \in DOMAIN bags_[j] :
             q = [bag |-> j, n |-> l, stamp |-> bags_[j][l]]
    BY <2>3
  <2>5. bags_[i][k] - bags_[j][l] + 1 < Horizon
    BY <1>1, BagListsAssumption
  <2> QED
    BY <2>2, <2>4, <2>5
<1> QED
  BY <1>5, <1>6

LEMMA BeginTime ==
    ASSUME bags_ \in BagLists, ~CannotPlay, GetRecords(bags_) # {}
    PROVE  LET begin == GetBeginTime(GetRecords(bags_))
           IN  /\ begin \in Int
               /\ \E r \in GetRecords(bags_) : r.stamp = begin
               /\ \A r \in GetRecords(bags_) :
                     begin <= r.stamp /\ r.stamp - begin + 1 < Horizon
<1> DEFINE records == GetRecords(bags_)
           S == {r.stamp : r \in records}
<1>1. /\ records \subseteq Record /\ records # {}
      /\ \A r, q \in records : r.stamp - q.stamp + 1 < Horizon
  BY Records
<1>2. \A r \in records : r.stamp \in Int
  BY <1>1 DEF Record
<1> HIDE DEF records
<1>3. PICK q \in records : TRUE
  BY <1>1
<1>4. \E t \in S : \A s \in S : t <= s
  <2>1. q.stamp + 1 - Horizon \in Int
    BY <1>2, HorizonAssumption
  <2>2. \A s \in S : s \in Int /\ q.stamp + 1 - Horizon <= s
    BY <1>1, <1>2, HorizonAssumption
  <2>3. S # {}
    BY <1>3
  <2> HIDE DEF S
  <2> QED
    BY <2>1, <2>2, <2>3, LeastNumber
<1>5. /\ GetBeginTime(records) \in S
      /\ \A r \in records : GetBeginTime(records) <= r.stamp
  BY <1>4 DEF GetBeginTime
<1> QED
  BY <1>1, <1>2, <1>5 DEF records

\* The timer for which Reset arms the timerfd.
LEMMA Earliest ==
    ASSUME Types, Placed, timers_ # {}
    PROVE  /\ Timers!NextExpired \in 1..(Horizon - 1)
           /\ \E e \in timers_ : e.when = Timers!NextExpired
<1> DEFINE S == {e.when : e \in timers_}
<1>1. \A s \in S : s \in Int /\ 1 <= s
  BY HorizonAssumption DEF Placed
<1>2. S # {}
  OBVIOUS
<1>3. \E t \in S : \A s \in S : t <= s
  <2> HIDE DEF S
  <2> QED
    BY <1>1, <1>2, LeastNumber
<1>4. Timers!NextExpired \in S
  BY <1>3 DEF Timers!NextExpired
<1> QED
  BY <1>4 DEF Placed

-----------------------------------------------------------------------------
(* The invariant is inductive: the steps of main *)

LEMMA InvInit == Init => IInv
<1> SUFFICES ASSUME Init
             PROVE  IInv
  OBVIOUS
<1>1. Timers!TypeOK
  <2>1. clock \in 0..Horizon
    BY HorizonAssumption DEF Init, Timers!Init
  <2>2. timerfd_ \in [open : BOOLEAN, left : Nat, fired : BOOLEAN]
    BY DEF Init, Timers!Init
  <2> QED
    BY <2>1, <2>2 DEF Init, Timers!Init, Timers!TypeOK, Timers!LoopPC
<1>2. TypeOK
  <2>1. frames \in Seq({"log", "stop"}) /\ Depth = 0
    BY DEF Init, Depth
  <2>2. printed \in Seq(view)
    BY DEF Init
  <2> QED
    BY <1>1, <2>1, <2>2 DEF Init, Timers!Init, TypeOK, Phases
<1>3. Types
  BY <1>2 DEF Init, Timers!Init, Types
<1>4. Beginning /\ Entering /\ Viewed /\ Placed /\ Due
  BY DEF Init, Timers!Init, Beginning, Entering, Viewed, Placed, Due, Early,
         Playing
<1>5. Undisturbed
  BY DEF Init, Timers!Init, Undisturbed
<1> QED
  BY <1>3, <1>4, <1>5 DEF IInv

\* Before there are timers, main only moves on.
LEMMA LaunchSetup ==
    ASSUME IInv, Launch \/ Setup, frames = <<>>,
           UNCHANGED <<clock, bags_, signalVars, clockVars>>
    PROVE  IInv'
<1> USE DEF IInv, Launch, Setup, loopVars, signalVars, clockVars
<1>1. Types'
  BY DEF Types, TypeOK, Timers!TypeOK, Phases, Handling,
         Depth
<1>2. (Beginning /\ Entering /\ Viewed)'
  BY DEF Beginning, Entering, Viewed, Early, Playing, CannotPlay
<1>3. (Placed /\ Due)'
  BY DEF Placed, Due, Playing, EntryOf, Printed
<1>4. Undisturbed'
  BY DEF Undisturbed, ExpiresWithin, Early, Entering
<1> QED
  BY <1>1, <1>2, <1>3, <1>4

LEMMA OpenBagsKeeps ==
    ASSUME IInv, OpenBags, frames = <<>>,
           UNCHANGED <<clock, bags_, signalVars, clockVars>>
    PROVE  IInv'
<1> USE DEF IInv, OpenBags, loopVars, signalVars, clockVars
<1>1. /\ timers_ = {} /\ expired = {} /\ printed = <<>> /\ view = {}
      /\ bags_ \in BagLists
  BY DEF Beginning, Viewed, Playing, Types
<1>2. view' \subseteq Record
  BY <1>1, Records
<1>3. Types'
  BY <1>1, <1>2 DEF Types, TypeOK, Timers!TypeOK, Phases, Handling,
         Depth
<1>4. (Beginning /\ Entering /\ Viewed)'
  BY <1>1 DEF Beginning, Entering, Viewed, Early, Playing, CannotPlay
<1>5. (Placed /\ Due)'
  BY <1>1 DEF Placed, Due, Playing, EntryOf, Printed
<1>6. Undisturbed'
  BY <1>1 DEF Undisturbed, ExpiresWithin, Early, Entering
<1> QED
  BY <1>3, <1>4, <1>5, <1>6

\* The first record is due at once, and the last one before Horizon.
LEMMA CreateTimersKeeps ==
    ASSUME IInv, CreateTimers, frames = <<>>,
           UNCHANGED <<clock, bags_, signalVars, clockVars>>
    PROVE  IInv'
<1> USE DEF IInv, loopVars, signalVars, clockVars
<1> DEFINE begin == GetBeginTime(view)
<1>1. /\ timers_ = {} /\ expired = {} /\ printed = <<>> /\ clock = 1
      /\ view = GetRecords(bags_) /\ ~CannotPlay /\ view # {}
      /\ pc = "idle" /\ ~running_ /\ timerfd_.left = 0 /\ ~timerfd_.fired
      /\ phase = "schedule" /\ bags_ \in BagLists
  BY DEF CreateTimers, Beginning, Viewed, Entering, Playing, Early, Types
<1>2. /\ begin \in Int
      /\ \E r \in view : r.stamp = begin
      /\ \A r \in view : begin <= r.stamp /\ r.stamp - begin + 1 < Horizon
      /\ \A r \in view : r \in Record /\ r.stamp \in Int
  BY <1>1, BeginTime, Records DEF Record
<1> HIDE DEF begin
<1>3. /\ diff' = 1 - begin /\ diff' \in Int
      /\ timers_' = {[when |-> r.stamp + diff', timer |-> r] : r \in view}
      /\ pc' = "loop" /\ phase' = "run"
      /\ UNCHANGED <<view, printed, clock, timerfd_, running_, expired,
                     bags_, frames, hung, signals, latest, set_backs>>
  BY <1>1, <1>2 DEF CreateTimers, Timers!AddTimersAndRun, begin
<1>4. \A r \in view : r.stamp + diff' \in 1..(Horizon - 1)
  <2> SUFFICES ASSUME NEW r \in view
               PROVE  r.stamp + (1 - begin) \in 1..(Horizon - 1)
    BY <1>3
  <2>1. /\ r.stamp \in Int /\ begin \in Int /\ begin <= r.stamp
        /\ r.stamp - begin + 1 < Horizon
    BY <1>2
  <2> QED
    BY <2>1, HorizonAssumption
<1>5. Types'
  BY <1>1, <1>2, <1>3, <1>4
     DEF Types, TypeOK, Timers!TypeOK, Timers!Entry, Timers!LoopPC, Phases,
         Handling, Depth
<1>6. (Beginning /\ Entering /\ Viewed)'
  BY <1>1, <1>3
     DEF Beginning, Entering, Viewed, Early, Playing, CannotPlay
<1>7. Placed'
  BY <1>1, <1>3, <1>4 DEF Placed, EntryOf, Printed
<1>8. Due'
  BY <1>1, <1>3 DEF Due
<1>9. Undisturbed'
  <2>1. PICK r \in view : r.stamp = begin
    BY <1>2
  <2>2. r.stamp + diff' < clock + 1
    BY <1>1, <1>2, <1>3, <2>1
  <2> DEFINE e == [when |-> r.stamp + diff', timer |-> r]
  <2>3. ExpiresWithin(1)'
    <3>1. e \in timers_' /\ e.when < clock' + 1
      BY <1>3, <2>2
    <3> HIDE DEF e
    <3> QED
      BY <3>1 DEF ExpiresWithin
  <2>4. signals = 0 /\ set_backs = 0 => timerfd_.open
    BY <1>1 DEF Undisturbed, Early
  <2> QED
    BY <1>3, <2>3, <2>4 DEF Undisturbed, Early
<1> QED
  BY <1>5, <1>6, <1>7, <1>8, <1>9

LEMMA ReturnKeeps ==
    ASSUME IInv, Return, frames = <<>>,
           UNCHANGED <<clock, bags_, signalVars, clockVars>>
    PROVE  IInv'
<1> USE DEF IInv, Return, loopVars, signalVars, clockVars
<1>1. Types'
  BY DEF Types, TypeOK, Timers!TypeOK, Phases, Handling,
         Depth
<1>2. (Beginning /\ Entering /\ Viewed)'
  BY DEF Beginning, Entering, Viewed, Early, Playing, CannotPlay
<1>3. (Placed /\ Due)'
  BY DEF Placed, Due, Playing, EntryOf, Printed
<1>4. Undisturbed'
  BY DEF Undisturbed, ExpiresWithin, Early, Entering
<1> QED
  BY <1>1, <1>2, <1>3, <1>4

\* A timer that is due leaves expired, and its record is printed.
LEMMA DoPublishKeeps ==
    ASSUME IInv, DoPublish, frames = <<>>,
           UNCHANGED <<clock, bags_, signalVars, clockVars>>
    PROVE  IInv'
<1> USE DEF IInv, loopVars, signalVars, clockVars
<1>1. PICK e \in expired : Timers!RunTimer(e)
                          /\ printed' = Append(printed, e.timer)
  BY DEF DoPublish
<1>2. /\ phase = "run" /\ pc = "run" /\ expired' = expired \ {e}
      /\ printed' = Append(printed, e.timer)
      /\ UNCHANGED <<clock, timers_, timerfd_, running_, pc, phase, view, diff,
                     bags_, frames, hung, signals, latest, set_backs>>
  BY <1>1 DEF DoPublish, Timers!RunTimer
<1>3. e.timer \in view /\ printed \in Seq(view)
  BY DEF Types, TypeOK
<1>4. Printed' = Printed \union {e.timer}
  <2>1. /\ Len(printed') = Len(printed) + 1
        /\ \A i \in 1..Len(printed) : printed'[i] = printed[i]
        /\ printed'[Len(printed) + 1] = e.timer
        /\ Len(printed) \in Nat
    BY <1>2, <1>3
  <2> QED
    BY <2>1 DEF Printed
<1>5. Types'
  BY <1>2, <1>3 DEF Types, TypeOK, Timers!TypeOK, Handling, Depth
<1>6. (Beginning /\ Entering /\ Viewed)'
  BY <1>2 DEF Beginning, Entering, Viewed, Early, Playing, CannotPlay
<1>7. Placed'
  <2>1. \A f \in timers_' \union expired' :
           f = EntryOf(f.timer)' /\ f.when \in 1..(Horizon - 1)
    BY <1>2 DEF Placed, EntryOf
  <2>2. \A r \in view : EntryOf(r) \in timers_' \union expired' <=>
                        r \notin Printed \union {e.timer}
    <3>1. e = EntryOf(e.timer) /\ e \notin timers_
      BY DEF Placed, Types, TypeOK, Timers!TypeOK
    <3>2. \A r \in view : EntryOf(r) = e <=> r = e.timer
      BY <3>1 DEF EntryOf
    <3>3. \A r \in view : EntryOf(r) \in timers_ \union expired
                          <=> r \notin Printed
      BY <1>2 DEF Placed, Playing
    <3> QED
      BY <1>2, <3>1, <3>2, <3>3
  <2>3. \A r : EntryOf(r)' = EntryOf(r)
    BY <1>2 DEF EntryOf
  <2> QED
    BY <1>2, <1>4, <2>1, <2>2, <2>3 DEF Placed
<1>8. Due'
  BY <1>2 DEF Due
<1>9. Undisturbed'
  BY <1>2 DEF Undisturbed, ExpiresWithin
<1> QED
  BY <1>5, <1>6, <1>7, <1>8, <1>9

-----------------------------------------------------------------------------
(* The steps of the event loop *)

Timerfd == [open : BOOLEAN, left : Nat, fired : BOOLEAN]
ClosedFd == [open |-> FALSE, left |-> 0, fired |-> FALSE]

LEMMA FdTypes == /\ ClosedFd \in Timerfd
                 /\ \A n \in Nat : [open |-> TRUE, left |-> n, fired |-> FALSE]
                                  \in Timerfd
                 /\ [open |-> TRUE, left |-> 0, fired |-> TRUE] \in Timerfd
BY DEF Timerfd, ClosedFd

\* A tick of an armed timerfd.
LEMMA FdTicks ==
    ASSUME NEW fd \in Timerfd, NEW m \in Nat, fd.open
    PROVE  /\ [fd EXCEPT !.left = m, !.fired = TRUE] =
                   [open |-> TRUE, left |-> m, fired |-> TRUE]
           /\ [fd EXCEPT !.left = m, !.fired = FALSE] =
                   [open |-> TRUE, left |-> m, fired |-> FALSE]
<1>1. [fd EXCEPT !.left = m, !.fired = TRUE] =
          [open |-> TRUE, left |-> m, fired |-> TRUE]
  <2> DEFINE g == [fd EXCEPT !.left = m, !.fired = TRUE]
  <2>1. g \in Timerfd
    BY DEF Timerfd
  <2>2. g.open
    BY DEF Timerfd
  <2>3. g.left = m
    BY DEF Timerfd
  <2>4. g.fired
    BY DEF Timerfd
  <2> HIDE DEF g
  <2>5. g = [open |-> TRUE, left |-> m, fired |-> TRUE]
    BY <2>1, <2>2, <2>3, <2>4 DEF Timerfd
  <2> QED
    BY <2>5 DEF g
<1>2. [fd EXCEPT !.left = m, !.fired = FALSE] =
          [open |-> TRUE, left |-> m, fired |-> FALSE]
  <2> DEFINE g == [fd EXCEPT !.left = m, !.fired = FALSE]
  <2>1. g \in Timerfd
    BY DEF Timerfd
  <2>2. g.open
    BY DEF Timerfd
  <2>3. g.left = m
    BY DEF Timerfd
  <2>4. ~g.fired
    BY DEF Timerfd
  <2> HIDE DEF g
  <2>5. g = [open |-> TRUE, left |-> m, fired |-> FALSE]
    BY <2>1, <2>2, <2>3, <2>4 DEF Timerfd
  <2> QED
    BY <2>5 DEF g
<1> QED
  BY <1>1, <1>2

\* What a step of the loop, which prints nothing, leaves alone.
LoopKeeps == UNCHANGED <<clock, bags_, view, diff, printed, frames, hung,
                         signals, latest, set_backs>>

LEMMA LoopEntered ==
    ASSUME IInv, Timers!Loop, phase = "run", phase' = "run", LoopKeeps
    PROVE  IInv'
<1> USE DEF IInv, LoopKeeps, Timers!Loop
<1>1. /\ ~running_ /\ clock \in Int /\ timers_' = timers_
      /\ expired' = expired
      /\ timerfd_ \in Timerfd
  BY DEF Entering, Types, TypeOK, Timers!TypeOK, Timerfd
<1>2. /\ timerfd_.open =>
            timerfd_' = [open |-> TRUE, left |-> 2, fired |-> FALSE]
      /\ ~timerfd_.open => timerfd_' = timerfd_
  <2>1. Timers!HowMuchTimeFromNow(clock) = 1
    BY <1>1 DEF Timers!HowMuchTimeFromNow, Timers!MinDelay
  <2>2. timerfd_' = IF timerfd_.open
                    THEN [timerfd_ EXCEPT !.fired = FALSE, !.left = 2]
                    ELSE timerfd_
    BY <1>1, <2>1 DEF Timers!ResetTimerfd, Timers!Lag
  <2> QED
    BY <1>1, <2>2 DEF Timerfd
<1>3. Types'
  <2>1. timerfd_' \in Timerfd
    <3>1. CASE timerfd_.open
      BY <1>2, <3>1, FdTypes
    <3>2. CASE ~timerfd_.open
      BY <1>1, <1>2, <3>2
    <3> QED
      BY <3>1, <3>2
  <2>2. Timers!TypeOK'
    BY <1>1, <1>2, <2>1
       DEF Types, TypeOK, Timers!TypeOK, Timers!LoopPC, Timerfd
  <2> QED
    BY <1>1, <2>2 DEF Types, TypeOK, Phases, Handling, Depth
<1>4. (Beginning /\ Entering /\ Viewed)'
  BY <1>1 DEF Beginning, Entering, Viewed, Early, Playing, CannotPlay
<1>5. (Placed /\ Due)'
  BY <1>1 DEF Placed, Due, Playing, EntryOf, Printed
<1>6. Undisturbed'
  <2>1. ExpiresWithin(1) => ExpiresWithin(2)'
    BY <1>1 DEF ExpiresWithin, Placed
  <2> QED
    BY <1>2, <2>1 DEF Undisturbed, Early
<1> QED
  BY <1>3, <1>4, <1>5, <1>6

LEMMA ReadKeeps ==
    ASSUME IInv, Timers!Read \/ Timers!ReadFails \/ Timers!LogRead,
           phase = "run", phase' = "run", LoopKeeps
    PROVE  IInv'
<1> USE DEF IInv, LoopKeeps, Timers!Read, Timers!ReadFails, Timers!LogRead
<1>1. Types'
  BY DEF Types, TypeOK, Timers!TypeOK, Timers!LoopPC, Phases, Handling, Depth
<1>2. (Beginning /\ Entering /\ Viewed)'
  BY DEF Beginning, Entering, Viewed, Early, Playing, CannotPlay
<1>3. (Placed /\ Due)'
  BY DEF Placed, Due, Playing, EntryOf, Printed
<1>4. Undisturbed'
  <2>1. ExpiresWithin(0) => ExpiresWithin(0)'
    BY DEF ExpiresWithin
  <2>2. timerfd_ \in Timerfd
    BY DEF Types, TypeOK, Timers!TypeOK, Timerfd
  <2> QED
    BY <2>1, <2>2 DEF Undisturbed, Early, Timerfd
<1> QED
  BY <1>1, <1>2, <1>3, <1>4

LEMMA LogFailedKeeps ==
    ASSUME IInv, Timers!LogFailed, phase = "run", phase' = "closing", LoopKeeps
    PROVE  IInv'
<1> USE DEF IInv, LoopKeeps, Timers!LogFailed
<1>1. Types'
  BY DEF Types, TypeOK, Timers!TypeOK, Timers!LoopPC, Phases, Handling, Depth
<1>2. (Beginning /\ Entering /\ Viewed)'
  BY DEF Beginning, Entering, Viewed, Early, Playing, CannotPlay
<1>3. (Placed /\ Due)'
  BY DEF Placed, Due, Playing, EntryOf, Printed
<1>4. Undisturbed'
  BY DEF Undisturbed, Early
<1> QED
  BY <1>1, <1>2, <1>3, <1>4

\* What has expired moves from the set to the list; both together and their
\* order stay.
LEMMA HandleEventKeeps ==
    ASSUME IInv, Timers!HandleEvent, phase = "run", phase' = "run", LoopKeeps
    PROVE  IInv'
<1> USE DEF IInv, LoopKeeps
<1>1. /\ expired = {} /\ pc = "handle" /\ pc' = "run" /\ running_' = running_
      /\ expired' = {e \in timers_ : e.when < clock}
      /\ timers_' = timers_ \ expired'
      /\ timerfd_' = timerfd_ \/ timerfd_' = ClosedFd
      /\ expired' # {} => timerfd_' = timerfd_
  BY DEF Types, TypeOK, Timers!TypeOK, Timers!HandleEvent, Timers!GetExpired,
         Timers!Expired, Timers!Stop, ClosedFd
<1>2. timers_' \union expired' = timers_ \union expired
  BY <1>1
<1>3. Types'
  <2>1. timerfd_ \in Timerfd
    BY DEF Types, TypeOK, Timers!TypeOK, Timerfd
  <2>2. timerfd_' \in Timerfd
    BY <1>1, <2>1, FdTypes
  <2>3. timerfd_'.left > 0 => timerfd_'.open /\ ~timerfd_'.fired
    BY <1>1 DEF Types, TypeOK, Timers!TypeOK, ClosedFd
  <2>4. Timers!TypeOK'
    BY <1>1, <2>2, <2>3
       DEF Types, TypeOK, Timers!TypeOK, Timers!LoopPC, Timerfd
  <2> QED
    BY <1>1, <1>2, <2>4 DEF Types, TypeOK, Phases, Handling, Depth
<1>4. (Beginning /\ Entering /\ Viewed)'
  BY <1>1 DEF Beginning, Entering, Viewed, Early, Playing, CannotPlay
<1>5. Placed'
  BY <1>2 DEF Placed, Playing, EntryOf, Printed
<1>6. Due'
  <2>1. \A e \in timers_ : e.when \in Int
    BY DEF Placed
  <2>2. clock \in Int /\ latest \in Int
    BY DEF Types, TypeOK, Timers!TypeOK
  <2> QED
    BY <1>1, <2>1, <2>2 DEF Due
<1>7. Undisturbed'
  <2>1. ExpiresWithin(0) => expired' # {}
    BY <1>1 DEF ExpiresWithin, Types, TypeOK, Timers!TypeOK
  <2> QED
    BY <1>1, <2>1 DEF Undisturbed, Early
<1> QED
  BY <1>3, <1>4, <1>5, <1>6, <1>7

\* The timerfd is armed for the earliest timer that is left, or closed.
LEMMA ResetKeeps ==
    ASSUME IInv, Timers!Reset, phase = "run", phase' = "run", LoopKeeps
    PROVE  IInv'
<1> USE DEF IInv, LoopKeeps
<1>1. /\ expired = {} /\ pc = "run" /\ pc' = "read" /\ timers_' = timers_
      /\ expired' = expired /\ running_' = running_
      /\ timers_ = {} => timerfd_' = ClosedFd
      /\ timers_ # {} => Timers!ResetTimerfd(Timers!NextExpired)
  BY DEF Timers!Reset, Timers!Stop, ClosedFd
<1>2. /\ clock \in Int
      /\ timerfd_ \in Timerfd
  BY DEF Types, TypeOK, Timers!TypeOK, Timerfd
<1>3. ASSUME timers_ # {}, timerfd_.open
      PROVE  \E left \in Nat \ {0} :
                /\ timerfd_' = [open |-> TRUE, left |-> left, fired |-> FALSE]
                /\ ExpiresWithin(left)
  <2> DEFINE next == Timers!NextExpired
             left == Timers!HowMuchTimeFromNow(next) + 1
  <2>1. next \in Int /\ \E e \in timers_ : e.when = next
    BY <1>3, Earliest
  <2> HIDE DEF next
  <2>2. left \in Nat \ {0, 1} /\ next < clock + left
    BY <1>2, <2>1 DEF Timers!HowMuchTimeFromNow, Timers!MinDelay
  <2>3. timerfd_' = [open |-> TRUE, left |-> left, fired |-> FALSE]
    <3>1. timerfd_' = [timerfd_ EXCEPT !.fired = FALSE, !.left = left]
      <4>1. Timers!HowMuchTimeFromNow(next) # 0
        BY <2>2, <1>2, <2>1
           DEF Timers!HowMuchTimeFromNow, Timers!MinDelay
      <4> QED
        BY <1>1, <1>3, <4>1 DEF Timers!ResetTimerfd, Timers!Lag, next
    <3> QED
      BY <1>2, <1>3, <3>1 DEF Timerfd
  <2>4. ExpiresWithin(left)
    <3> HIDE DEF left
    <3> QED
      BY <2>1, <2>2 DEF ExpiresWithin
  <2> HIDE DEF left
  <2> QED
    BY <2>2, <2>3, <2>4
<1>4. timers_ # {} /\ ~timerfd_.open => timerfd_' = timerfd_
  BY <1>1 DEF Timers!ResetTimerfd
<1>5. Types'
  <2>1. /\ timerfd_' \in Timerfd
        /\ timerfd_'.left > 0 => timerfd_'.open /\ ~timerfd_'.fired
        /\ ~timerfd_'.open \/ timerfd_'.left > 0
    <3>1. CASE timers_ = {}
      <4>1. timerfd_' \in Timerfd
        BY <1>1, <3>1, FdTypes
      <4> QED
        BY <1>1, <3>1, <4>1 DEF ClosedFd
    <3>2. CASE timers_ # {} /\ timerfd_.open
      <4>1. PICK left \in Nat \ {0} :
               timerfd_' = [open |-> TRUE, left |-> left, fired |-> FALSE]
        BY <1>3, <3>2
      <4> QED
        BY <4>1, FdTypes
    <3>3. CASE timers_ # {} /\ ~timerfd_.open
      BY <1>2, <1>4, <3>3 DEF Types, TypeOK, Timers!TypeOK
    <3> QED
      BY <3>1, <3>2, <3>3
  <2>2. Timers!TypeOK'
    BY <1>1, <2>1 DEF Types, TypeOK, Timers!TypeOK, Timers!LoopPC, Timerfd
  <2> QED
    BY <1>1, <2>2 DEF Types, TypeOK, Phases, Handling, Depth
<1>6. (Beginning /\ Entering /\ Viewed)'
  BY <1>1 DEF Beginning, Entering, Viewed, Early, Playing, CannotPlay
<1>7. (Placed /\ Due)'
  BY <1>1 DEF Placed, Due, Playing, EntryOf, Printed
<1>8. Undisturbed'
  <2>1. \A left \in Nat : ExpiresWithin(left) => ExpiresWithin(left)'
    BY <1>1 DEF ExpiresWithin
  <2>2. CASE timers_ = {}
    BY <1>1, <2>2 DEF Undisturbed, Early, ClosedFd
  <2>3. CASE timers_ # {}
    BY <1>1, <1>3, <2>1, <2>3 DEF Undisturbed, Early
  <2> QED
    BY <2>2, <2>3
<1> QED
  BY <1>5, <1>6, <1>7, <1>8

LEMMA RunLoopKeeps ==
    ASSUME IInv, RunLoop, frames = <<>>,
           UNCHANGED <<clock, bags_, signalVars, clockVars>>
    PROVE  IInv'
<1>1. LoopKeeps /\ phase = "run"
  BY DEF RunLoop, LoopKeeps, signalVars, clockVars
<1>2. \/ Timers!Loop /\ phase' = "run"
      \/ (Timers!Read \/ Timers!ReadFails \/ Timers!LogRead) /\ phase' = "run"
      \/ Timers!LogFailed /\ phase' = "closing"
      \/ Timers!HandleEvent /\ phase' = "run"
      \/ Timers!Reset /\ phase' = "run"
  BY DEF RunLoop, Timers!LoopStep, Timers!Loop, Timers!Read, Timers!ReadFails,
         Timers!LogRead, Timers!LogFailed, Timers!HandleEvent, Timers!Reset
<1> QED
  BY <1>1, <1>2, LoopEntered, ReadKeeps, LogFailedKeeps, HandleEventKeeps,
     ResetKeeps

LEMMA MainKeeps == IInv /\ MainStep => IInv'
<1> SUFFICES ASSUME IInv, MainStep
             PROVE  IInv'
  OBVIOUS
<1>1. /\ frames = <<>>
      /\ UNCHANGED <<clock, bags_, signalVars, clockVars>>
      /\ \/ Launch \/ Setup \/ OpenBags \/ CreateTimers \/ DoPublish \/ RunLoop
         \/ Return
  BY DEF MainStep, Main
<1> QED
  BY <1>1, LaunchSetup, OpenBagsKeeps, CreateTimersKeeps, DoPublishKeeps,
     RunLoopKeeps, ReturnKeeps

-----------------------------------------------------------------------------
(* Signals and the clock *)

LEMMA SignalKeeps == IInv /\ Signal => IInv'
<1> SUFFICES ASSUME IInv, Signal
             PROVE  IInv'
  OBVIOUS
<1> USE DEF IInv, Signal, queueVars, loopVars, playVars, clockVars
<1>1. Types'
  <2>1. frames \in Seq({"log", "stop"}) /\ Len(frames) < 2
    BY DEF Types, TypeOK, Depth
  <2>2. /\ frames' = Append(frames, "log")
        /\ frames' \in Seq({"log", "stop"}) /\ Len(frames') <= 2
        /\ frames' # <<>> /\ frames'[Len(frames')] = "log"
    BY <2>1
  <2>3. Handling("log")' /\ Depth' <= 2
    BY <2>2 DEF Handling, Depth
  <2>4. Timers!TypeOK'
    BY DEF Types, TypeOK, Timers!TypeOK
  <2> QED
    BY <2>2, <2>3, <2>4 DEF Types, TypeOK
<1>2. (Beginning /\ Entering /\ Viewed)'
  BY DEF Beginning, Entering, Viewed, CannotPlay
<1>3. (Placed /\ Due)'
  BY DEF Placed, Due, EntryOf, Printed
<1>4. Undisturbed'
  <2>1. signals' # 0
    BY DEF Types
  <2> QED
    BY <2>1 DEF Undisturbed
<1> QED
  BY <1>1, <1>2, <1>3, <1>4

\* A handler leaves the timers alone and can only close the timerfd.
LEMMA HandlerKeeps == IInv /\ HandlerStep => IInv'
<1> SUFFICES ASSUME IInv, HandlerStep
             PROVE  IInv'
  OBVIOUS
<1> USE DEF IInv
<1>1. /\ phase \notin Ended /\ ~hung /\ frames # <<>>
      /\ \/ phase' = phase
         \/ phase = "launch" /\ phase' = "crashed"
      /\ \/ timerfd_' = timerfd_
         \/ timerfd_' = ClosedFd
      /\ UNCHANGED <<clock, timers_, running_, pc, expired, bags_, view, diff,
                     printed, hung, signals, latest, set_backs>>
  BY DEF HandlerStep, HandlerLog, HandlerStop, Timers!Stop, loopVars,
         clockVars, Handling, ClosedFd, Gone, Ended
<1>2. signals # 0
  BY <1>1 DEF Types
<1>3. frames' \in Seq({"log", "stop"}) /\ Len(frames') <= 2
  <2>1. frames \in Seq({"log", "stop"}) /\ Len(frames) <= 2
        /\ Len(frames) \in 1..Len(frames)
    BY <1>1 DEF Types, TypeOK, Depth
  <2>2. CASE HandlerLog
    BY <2>1, <2>2 DEF HandlerLog, Depth
  <2>3. CASE HandlerStop
    BY <2>1, <2>3 DEF HandlerStop, Depth
  <2> QED
    BY <2>2, <2>3 DEF HandlerStep
<1>4. Types'
  <2>1. /\ timerfd_' \in Timerfd
        /\ timerfd_'.left > 0 => timerfd_'.open /\ ~timerfd_'.fired
        /\ pc = "read" => ~timerfd_'.open \/ timerfd_'.fired \/ timerfd_'.left > 0
    <3>1. CASE timerfd_' = timerfd_
      BY <3>1 DEF Types, TypeOK, Timers!TypeOK, Timerfd
    <3>2. CASE timerfd_' = ClosedFd
      BY <3>2, FdTypes DEF ClosedFd
    <3> QED
      BY <1>1, <3>1, <3>2
  <2>2. Timers!TypeOK'
    BY <1>1, <2>1 DEF Types, TypeOK, Timers!TypeOK, Timerfd
  <2> QED
    BY <1>1, <1>2, <1>3, <2>2 DEF Types, TypeOK, Phases, Depth
<1>5. (Beginning /\ Entering /\ Viewed)'
  BY <1>1 DEF Beginning, Entering, Viewed, Playing, Early, CannotPlay, ClosedFd
<1>6. (Placed /\ Due)'
  BY <1>1 DEF Placed, Due, EntryOf, Printed, Playing
<1>7. Undisturbed'
  BY <1>1, <1>2 DEF Undisturbed
<1> QED
  BY <1>4, <1>5, <1>6, <1>7

\* The clock reaches Horizon at most, which is after every timer.
LEMMA TickKeeps ==
    ASSUME IInv, Tick, phase = "run", UNCHANGED <<playVars, signalVars>>
    PROVE  IInv'
<1> USE DEF IInv, playVars, signalVars
<1>1. /\ clock \in 0..Horizon /\ Horizon \in Nat /\ latest \in Int
      /\ timerfd_ \in Timerfd
      /\ timerfd_.left > 0 => timerfd_.open /\ ~timerfd_.fired
  BY HorizonAssumption DEF Types, TypeOK, Timers!TypeOK, Timerfd
<1>2. /\ clock' = IF clock < Horizon THEN clock + 1 ELSE Horizon
      /\ latest' = IF clock' > latest THEN clock' ELSE latest
      /\ UNCHANGED <<timers_, running_, pc, expired, set_backs>>
  BY DEF Tick, Timers!Tick, Latest
<1>3. /\ timerfd_.left = 0 => timerfd_' = timerfd_
      /\ timerfd_.left = 1 =>
            timerfd_' = [open |-> TRUE, left |-> 0, fired |-> TRUE]
      /\ timerfd_.left > 1 =>
            timerfd_' = [open |-> TRUE, left |-> timerfd_.left - 1,
                         fired |-> FALSE]
  <2>1. CASE timerfd_.left = 0
    BY <2>1 DEF Tick, Timers!Tick
  <2>2. CASE timerfd_.left > 0
    <3>1. timerfd_' = [timerfd_ EXCEPT !.left = timerfd_.left - 1,
                          !.fired = timerfd_.fired \/ timerfd_.left = 1]
      BY <2>2 DEF Tick, Timers!Tick
    <3>2. CASE timerfd_.left = 1
      <4>1. (timerfd_.fired \/ timerfd_.left = 1) = TRUE
        BY <3>2, Zenon
      <4>2. timerfd_' = [timerfd_ EXCEPT !.left = timerfd_.left - 1,
                                         !.fired = TRUE]
        BY <3>1, <4>1, Zenon
      <4>3. timerfd_ \in Timerfd /\ timerfd_.open /\ timerfd_.left - 1 \in Nat
        BY <1>1, <2>2, <3>2
      <4>4. timerfd_' = [open |-> TRUE, left |-> timerfd_.left - 1,
                         fired |-> TRUE]
        BY <4>2, <4>3, FdTicks
      <4> QED
        BY <3>2, <4>4
    <3>3. CASE timerfd_.left > 1
      <4>1. timerfd_.left # 1 /\ ~timerfd_.fired
        BY <1>1, <2>2, <3>3 DEF Timerfd
      <4>2. (timerfd_.fired \/ timerfd_.left = 1) = FALSE
        BY <4>1, Zenon
      <4>3. timerfd_' = [timerfd_ EXCEPT !.left = timerfd_.left - 1,
                                         !.fired = FALSE]
        BY <3>1, <4>2, Zenon
      <4>4. timerfd_ \in Timerfd /\ timerfd_.open /\ timerfd_.left - 1 \in Nat
        BY <1>1, <2>2, <3>3 DEF Timerfd
      <4>5. timerfd_' = [open |-> TRUE, left |-> timerfd_.left - 1,
                         fired |-> FALSE]
        BY <4>3, <4>4, FdTicks
      <4> QED
        BY <3>3, <4>5
    <3> QED
      BY <1>1, <2>2, <3>2, <3>3 DEF Timerfd
  <2> QED
    BY <1>1, <2>1, <2>2 DEF Timerfd
<1>4. /\ clock' \in 0..Horizon /\ clock' >= clock
      /\ latest' \in Int /\ latest' >= latest /\ clock' <= latest'
  BY <1>1, <1>2 DEF Due
<1>5. Types'
  <2>1. /\ timerfd_' \in Timerfd
        /\ timerfd_'.left > 0 => timerfd_'.open /\ ~timerfd_'.fired
        /\ timerfd_.left > 0 => timerfd_'.fired \/ timerfd_'.left > 0
    <3>1. CASE timerfd_.left = 0
      BY <1>1, <1>3, <3>1
    <3>2. CASE timerfd_.left = 1
      <4>1. timerfd_' = [open |-> TRUE, left |-> 0, fired |-> TRUE]
        BY <1>3, <3>2
      <4>2. timerfd_' \in Timerfd
        BY <4>1, FdTypes
      <4> QED
        BY <4>1, <4>2
    <3>3. CASE timerfd_.left > 1
      <4> DEFINE left == timerfd_.left - 1
      <4>1. left \in Nat \ {0}
        BY <1>1, <3>3 DEF Timerfd
      <4>2. timerfd_' = [open |-> TRUE, left |-> left, fired |-> FALSE]
        BY <1>3, <3>3
      <4> HIDE DEF left
      <4>3. timerfd_' \in Timerfd
        BY <4>1, <4>2, FdTypes
      <4> QED
        BY <4>1, <4>2, <4>3
    <3> QED
      BY <1>1, <3>1, <3>2, <3>3 DEF Timerfd
  <2>2. pc = "read" => ~timerfd_'.open \/ timerfd_'.fired \/ timerfd_'.left > 0
    BY <1>1, <1>3, <2>1 DEF Types, TypeOK, Timers!TypeOK, Timerfd
  <2>3. Timers!TypeOK'
    BY <1>2, <1>4, <2>1, <2>2 DEF Types, TypeOK, Timers!TypeOK, Timerfd
  <2> QED
    BY <1>2, <1>4, <2>3 DEF Types, TypeOK, Depth, Handling
<1>6. (Beginning /\ Entering /\ Viewed)'
  BY <1>1, <1>2, <1>3
     DEF Beginning, Entering, Viewed, Playing, Early, CannotPlay
<1>7. Placed'
  BY <1>2 DEF Placed, EntryOf, Printed
<1>8. Due'
  <2>1. \A e \in expired : e.when \in Int
    BY DEF Placed
  <2> QED
    BY <1>1, <1>2, <1>4, <2>1 DEF Due
<1>9. Undisturbed'
  <2>1. \A ticks \in Nat : ExpiresWithin(ticks) => ExpiresWithin(ticks)'
    <3> SUFFICES ASSUME NEW ticks \in Nat, NEW e \in timers_,
                        e.when < clock + ticks
                 PROVE  e.when < clock' + ticks
      BY <1>2 DEF ExpiresWithin
    <3> QED
      BY <1>1, <1>4 DEF Placed
  <2>2. \A ticks \in Nat \ {0} :
           ExpiresWithin(ticks) => ExpiresWithin(ticks - 1)'
    <3> SUFFICES ASSUME NEW ticks \in Nat \ {0}, NEW e \in timers_,
                        e.when < clock + ticks
                 PROVE  e.when < clock' + (ticks - 1)
      BY <1>2 DEF ExpiresWithin
    <3>1. e.when \in 1..(Horizon - 1)
      BY DEF Placed
    <3> QED
      BY <1>1, <1>2, <3>1
  <2>3. CASE timerfd_.left = 0
    BY <1>1, <1>2, <1>3, <2>1, <2>3 DEF Undisturbed, Timerfd
  <2>4. CASE timerfd_.left > 0
    <3>1. /\ timerfd_'.open /\ timerfd_.open /\ timerfd_.left \in Nat \ {0}
          /\ timerfd_'.left = timerfd_.left - 1
          /\ timerfd_'.fired => timerfd_'.left = 0
      <4>1. timerfd_.left = 1 \/ timerfd_.left > 1
        BY <1>1, <2>4 DEF Timerfd
      <4> QED
        BY <1>1, <1>3, <4>1 DEF Timerfd
    <3>2. ASSUME signals = 0, set_backs = 0, pc = "read"
          PROVE  \E e \in timers_ : e.when < clock' + timerfd_'.left
      <4>1. ExpiresWithin(timerfd_.left)
        BY <2>4, <3>1, <3>2 DEF Undisturbed
      <4> DEFINE left == timerfd_.left
      <4>2. left \in Nat \ {0} /\ timerfd_'.left = left - 1
        BY <3>1
      <4> HIDE DEF left
      <4> QED
        BY <1>2, <2>2, <4>1, <4>2 DEF ExpiresWithin, left
    <3> QED
      BY <1>2, <2>1, <3>1, <3>2 DEF Undisturbed, ExpiresWithin
  <2> QED
    BY <1>1, <2>3, <2>4 DEF Timerfd
<1> QED
  BY <1>5, <1>6, <1>7, <1>8, <1>9

LEMMA SetClockKeeps ==
    ASSUME IInv, SetForward \/ SetBack, phase = "run",
           UNCHANGED <<playVars, signalVars>>
    PROVE  IInv'
<1> USE DEF IInv, playVars, signalVars
<1>1. /\ clock \in 0..Horizon /\ Horizon \in Nat /\ latest \in Int
      /\ set_backs \in Nat
  BY HorizonAssumption DEF Types, TypeOK, Timers!TypeOK
<1>2. UNCHANGED <<timers_, timerfd_, running_, pc, expired>>
  BY DEF SetForward, SetBack, Timers!SetClock
<1>3. /\ clock' \in 0..Horizon /\ set_backs' \in Nat
      /\ latest' \in Int /\ latest' >= latest /\ clock' <= latest'
  BY <1>1 DEF SetForward, SetBack, Timers!SetClock, Latest, Due
<1>4. set_backs' = 0 => set_backs = 0 /\ clock' >= clock
  BY <1>1 DEF SetForward, SetBack, Timers!SetClock
<1>5. Types'
  <2>1. Timers!TypeOK'
    BY <1>2, <1>3 DEF Types, TypeOK, Timers!TypeOK
  <2> QED
    BY <1>2, <1>3, <2>1 DEF Types, TypeOK, Depth, Handling
<1>6. (Beginning /\ Entering /\ Viewed)'
  BY <1>2 DEF Beginning, Entering, Viewed, Playing, Early, CannotPlay
<1>7. Placed'
  BY <1>2 DEF Placed, EntryOf, Printed
<1>8. Due'
  <2>1. \A e \in expired : e.when \in Int
    BY DEF Placed
  <2> QED
    BY <1>1, <1>2, <1>3, <2>1 DEF Due
<1>9. Undisturbed'
  <2>1. ASSUME set_backs' = 0, NEW ticks \in Nat, ExpiresWithin(ticks)
        PROVE  ExpiresWithin(ticks)'
    <3>1. PICK e \in timers_ : e.when < clock + ticks
      BY <2>1 DEF ExpiresWithin
    <3>2. e.when < clock' + ticks
      BY <1>1, <1>3, <1>4, <2>1, <3>1 DEF Placed
    <3> QED
      BY <1>2, <3>2 DEF ExpiresWithin
  <2>2. timerfd_.left \in Nat
    BY DEF Types, TypeOK, Timers!TypeOK
  <2> QED
    BY <1>2, <1>4, <2>1, <2>2 DEF Undisturbed
<1> QED
  BY <1>5, <1>6, <1>7, <1>8, <1>9

LEMMA ClockKeeps == IInv /\ ClockStep => IInv'
BY TickKeeps, SetClockKeeps DEF ClockStep

LEMMA StayKeeps == IInv /\ UNCHANGED vars => IInv'
<1> SUFFICES ASSUME IInv, UNCHANGED vars
             PROVE  IInv'
  OBVIOUS
<1> USE DEF IInv, vars, queueVars, loopVars, playVars, signalVars, clockVars
<1>1. Types'
  BY DEF Types, TypeOK, Timers!TypeOK, Handling, Depth
<1>2. (Beginning /\ Entering /\ Viewed)'
  BY DEF Beginning, Entering, Viewed, CannotPlay
<1>3. (Placed /\ Due /\ Undisturbed)'
  BY DEF Placed, Due, EntryOf, Printed, Undisturbed, ExpiresWithin
<1> QED
  BY <1>1, <1>2, <1>3

LEMMA InvInductive == IInv /\ [Next]_vars => IInv'
BY MainKeeps, SignalKeeps, HandlerKeeps, ClockKeeps, StayKeeps DEF Next, Stay

LEMMA Invariance == Spec => []IInv
<1>1. Init => IInv
  BY InvInit
<1>2. IInv /\ [Next]_vars => IInv'
  BY InvInductive
<1> QED
  BY <1>1, <1>2, PTL DEF Spec

-----------------------------------------------------------------------------
(* The theorems *)

\* The player and its timer queue keep to their types; only a signal inside
\* the logger can hang the thread.
THEOREM TypeCorrect == Spec => []TypeOK
BY Invariance, PTL DEF IInv, Types

LEMMA PrintsAllHolds == IInv => PrintsAll
<1> SUFFICES ASSUME IInv, phase = "done", signals = 0, set_backs = 0
             PROVE  {printed[i] : i \in 1..Len(printed)} =
                        GetRecords(bags_)
  BY DEF PrintsAll
<1>1. timers_ = {} /\ expired = {}
  BY DEF IInv, Undisturbed, Entering, Types, TypeOK, Timers!TypeOK
<1>2. view = GetRecords(bags_) /\ printed \in Seq(view)
  BY DEF IInv, Viewed, Playing, Types, TypeOK
<1>3. \A r \in view : r \in Printed
  BY <1>1 DEF IInv, Placed, Playing
<1>4. Printed \subseteq view
  BY <1>2 DEF Printed
<1> QED
  BY <1>2, <1>3, <1>4 DEF Printed

\* Without signals, and while nobody sets the clock back, the timerfd is not
\* closed before the last record was printed, however the bags lie in time.
THEOREM PrintsAllCorrect == Spec => []PrintsAll
BY Invariance, PrintsAllHolds, PTL

\* Only these steps are seen from outside.
LEMMA MainSimulation ==
    ASSUME IInv, MainStep
    PROVE  [Promise!Next]_(Promise!vars)
<1> USE DEF MainStep, signalVars, clockVars, loopVars
<1>1. CASE Launch \/ Setup
  BY <1>1 DEF Launch, Setup, Promise!vars, Ended
<1>2. CASE OpenBags
  <2>1. view = {} /\ phase = "open"
    BY <1>2 DEF OpenBags, IInv, Viewed, Playing
  <2>2. CASE CannotPlay /\ phase' = "exited" /\ UNCHANGED view
    BY <1>2, <2>1, <2>2 DEF OpenBags, Promise!Next, Promise!End, Ended
  <2>3. CASE /\ view' = GetRecords(bags_)
             /\ phase' = IF view' = {} THEN "undefined" ELSE "schedule"
    BY <1>2, <2>1, <2>3 DEF OpenBags, Promise!vars, Ended
  <2> QED
    BY <1>2, <2>2, <2>3 DEF OpenBags
<1>3. CASE CreateTimers
  <2>1. /\ phase = "schedule" /\ phase' = "run" /\ view' = view
        /\ UNCHANGED <<latest, printed>>
    BY <1>3 DEF CreateTimers
  <2>2. /\ view = GetRecords(bags_) /\ ~CannotPlay /\ view # {}
        /\ bags_ \in BagLists /\ clock = 1
    BY <2>1 DEF IInv, Viewed, Types, Beginning, Playing
  <2>3. diff' \in Int /\ view \subseteq Record
    BY <1>3, <2>2, BeginTime, Records DEF CreateTimers
  <2>4. Promise!Schedule
    BY <2>1, <2>3 DEF Promise!Schedule, Ended
  <2> QED
    BY <2>4 DEF Promise!Next
<1>4. CASE DoPublish
  <2>1. PICK e \in expired : Timers!RunTimer(e)
                            /\ printed' = Append(printed, e.timer)
    BY <1>4 DEF DoPublish
  <2>2. /\ phase = "run" /\ \A f \in expired : e.when <= f.when
        /\ UNCHANGED <<phase, view, diff, latest>>
    BY <1>4, <2>1 DEF DoPublish, Timers!RunTimer
  <2>3. \A q \in timers_ \union expired :
           q = EntryOf(q.timer) /\ q.when \in Int
    BY DEF IInv, Placed
  <2>4. \A q \in timers_ \union expired : e.when <= q.when
    BY <2>2, <2>3 DEF IInv, Due
  <2>5. e.timer \in view /\ e.timer \notin Printed
    <3>1. e.timer \in view
      BY DEF IInv, Types, TypeOK
    <3> QED
      BY <2>2, <2>3, <3>1 DEF IInv, Placed, Playing
  <2>6. \A r \in view \ Printed : e.timer.stamp <= r.stamp
    <3> SUFFICES ASSUME NEW r \in view \ Printed
                 PROVE  e.timer.stamp <= r.stamp
      OBVIOUS
    <3>1. EntryOf(r) \in timers_ \union expired
      BY <2>2 DEF IInv, Placed, Playing
    <3>2. e.when <= EntryOf(r).when
      BY <2>4, <3>1
    <3>3. e.when = e.timer.stamp + diff /\ EntryOf(r).when = r.stamp + diff
      BY <2>3 DEF EntryOf
    <3>4. e.timer.stamp \in Int /\ r.stamp \in Int /\ diff \in Int
      BY <2>5 DEF IInv, Types, TypeOK, Record
    <3> QED
      BY <3>2, <3>3, <3>4
  <2>7. e.timer.stamp + diff < latest
    <3>1. e.when = e.timer.stamp + diff
      BY <2>3 DEF EntryOf
    <3> QED
      BY <3>1 DEF IInv, Due
  <2>8. Promise!Play(e.timer)
    BY <2>1, <2>2, <2>6, <2>7
       DEF Promise!Play, Promise!Pending, Printed, Ended
  <2>9. e.timer \in Promise!Pending
    BY <2>2, <2>5 DEF Promise!Pending, Printed
  <2> QED
    BY <2>8, <2>9 DEF Promise!Next
<1>5. CASE RunLoop
  BY <1>5 DEF RunLoop, Promise!vars, Ended
<1>6. CASE Return
  BY <1>6 DEF Return, Promise!Next, Promise!End, Ended
<1> QED
  BY <1>1, <1>2, <1>3, <1>4, <1>5, <1>6 DEF Main

LEMMA HandlerSimulation ==
    ASSUME IInv, HandlerStep
    PROVE  [Promise!Next]_(Promise!vars)
<1>1. /\ phase \notin Ended
      /\ UNCHANGED <<view, diff, printed, latest>>
      /\ \/ phase' = phase
         \/ phase = "launch" /\ phase' = "crashed"
  BY DEF HandlerStep, HandlerLog, HandlerStop, clockVars, Gone, Ended
<1>2. CASE phase' = phase
  BY <1>1, <1>2 DEF Promise!vars
<1>3. CASE phase = "launch" /\ phase' = "crashed"
  BY <1>1, <1>3 DEF Promise!Next, Promise!End, Ended
<1> QED
  BY <1>1, <1>2, <1>3

\* The clock has been later or it is later than ever.
LEMMA ClockSimulation ==
    ASSUME IInv, ClockStep
    PROVE  [Promise!Next]_(Promise!vars)
<1>1. /\ clock \in 0..Horizon /\ Horizon \in Nat /\ latest \in Int
  BY HorizonAssumption DEF IInv, Types, TypeOK, Timers!TypeOK
<1>2. UNCHANGED <<phase, view, diff, printed>>
  BY DEF ClockStep, playVars
<1>3. latest' = latest \/ (latest' = clock' /\ clock' > latest)
  BY DEF ClockStep, Tick, SetForward, SetBack, Latest
<1>4. clock' \in Int
  BY <1>1 DEF ClockStep, Tick, SetForward, SetBack, Timers!Tick, Timers!SetClock
<1>5. CASE latest' = latest
  BY <1>2, <1>5 DEF Promise!vars
<1>6. CASE latest' = clock' /\ clock' > latest
  BY <1>2, <1>4, <1>6 DEF Promise!Next, Promise!Time
<1> QED
  BY <1>3, <1>5, <1>6

LEMMA StepSimulation ==
    ASSUME IInv, [Next]_vars
    PROVE  [Promise!Next]_(Promise!vars)
<1>1. CASE Signal
  BY <1>1 DEF Signal, playVars, clockVars, Promise!vars
<1>2. CASE UNCHANGED vars
  BY <1>2 DEF vars, playVars, clockVars, Promise!vars
<1> QED
  BY <1>1, <1>2, MainSimulation, HandlerSimulation, ClockSimulation
     DEF Next, Stay

\* What is printed is an initial part of the records of all bags in the order
\* of their stamps, each once and none before its time, whatever bags there are
\* and whoever sends signals or sets the clock.
THEOREM Refinement == Spec => ImplementsPlayback
<1>1. Init => Promise!Init
  BY DEF Init, Timers!Init, Promise!Init, Ended
<1>2. IInv /\ [Next]_vars => [Promise!Next]_(Promise!vars)
  BY StepSimulation
<1> QED
  BY <1>1, <1>2, Invariance, PTL DEF Spec, ImplementsPlayback, Promise!Spec
=============================================================================
