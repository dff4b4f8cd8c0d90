----------------------------- MODULE TimerQueue -----------------------------
(***************************************************************************)
(* TimerQueue (src/src/common/timer_queue.cpp) with the EventLoop it runs  *)
(* and the timerfd both use.  One thread is inside Run; it blocks in       *)
(* read(2) until the timerfd fires, handles what is due by calling the     *)
(* callbacks of the expired timers, and arms the timerfd for the earliest  *)
(* timer that is left.  The loop ends when read fails, which it does once  *)
(* the timerfd is closed: closing it is how the queue is stopped, by its   *)
(* own thread when no timer is left and by a signal handler at any time.   *)
(*                                                                         *)
(* Timers are added with interval 0, as every caller does, so that Repeat  *)
(* is false and Reset inserts nothing.  CancelTimer does nothing.          *)
(***************************************************************************)
EXTENDS Integers, FiniteSets

CONSTANTS Timer,    \* what a timer calls back with
          Horizon   \* bound on the clock: a positive time after every expiration

VARIABLES clock,     \* Timestamp::Now()
          timers_,   \* the entries of the std::set: expiration and timer
          timerfd_,  \* the timerfd: open, ticks left until it fires (0 when
                     \* it is not armed), whether it has fired
          running_,  \* the flag of the event loop
          pc,        \* where the thread inside Run is
          expired    \* the entries HandleEvent has still to run

vars == <<clock, timers_, timerfd_, running_, pc, expired>>

LoopPC == {"idle", "loop", "read", "log", "log_failed", "handle", "run"}

\* HowMuchTimeFromNow asks for 100 ns at least: 0 would disarm the timerfd.
MinDelay == 1
\* The kernel starts to count after the program has read the clock: at the
\* clock's resolution of a nanosecond, one tick later at the earliest.
Lag == 1

\* The clock shows 1 when the timers are created, so that it can be set back.
Init == /\ clock = 1
        /\ timers_ = {}
        /\ timerfd_ = [open |-> TRUE, left |-> 0, fired |-> FALSE]
        /\ running_ = FALSE
        /\ pc = "idle"
        /\ expired = {}

-----------------------------------------------------------------------------
(* The timerfd *)

\* Mutant of HowMuchTimeFromNow: a delay that has passed is 0.
HowMuchTimeFromNowUnclamped(when) == IF when < clock THEN 0 ELSE when - clock

HowMuchTimeFromNow(when) ==
    IF when - clock < MinDelay THEN MinDelay ELSE when - clock

\* timerfd_settime: a relative time, which setting the clock does not change.
\* On a closed descriptor it fails, which is only logged.
ResetTimerfd(when) ==
    LET delay == HowMuchTimeFromNow(when)
    IN  timerfd_' = IF timerfd_.open
                    THEN [timerfd_ EXCEPT !.fired = FALSE,
                             !.left = IF delay = 0 THEN 0 ELSE delay + Lag]
                    ELSE timerfd_

\* Stop, and the destructor once more.  Here the timerfd then stays closed; in
\* the process its number is free, and a bag that is opened later would get it.
Stop == timerfd_' = [open |-> FALSE, left |-> 0, fired |-> FALSE]

\* Time goes on.  Past the last expiration all times are alike.
Tick == /\ clock < Horizon \/ timerfd_.left > 0
        /\ clock' = IF clock < Horizon THEN clock + 1 ELSE Horizon
        /\ timerfd_' = IF timerfd_.left > 0
                       THEN [timerfd_ EXCEPT !.left = @ - 1,
                                             !.fired = @ \/ timerfd_.left = 1]
                       ELSE timerfd_
        /\ UNCHANGED <<timers_, running_, pc, expired>>

\* The administrator, or a time daemon, sets the clock.
SetClock(time) == /\ clock' = time
                  /\ UNCHANGED <<timers_, timerfd_, running_, pc, expired>>

-----------------------------------------------------------------------------
(* AddTimer and Run *)

\* AddTimer for each of a set of entries, then Run.
AddTimersAndRun(entries) ==
    /\ pc = "idle"
    /\ timers_' = timers_ \union entries
    /\ pc' = "loop"
    /\ UNCHANGED <<clock, timerfd_, running_, expired>>

\* EventLoop::Loop arms the timerfd for now, unless the flag says it runs.
Loop == /\ pc = "loop"
        /\ \/ ~running_ /\ ResetTimerfd(clock)
           \/ running_ /\ UNCHANGED timerfd_
        /\ running_' = TRUE
        /\ pc' = "read"
        /\ UNCHANGED <<clock, timers_, expired>>

\* read blocks while the timerfd is open and has not fired.
Read == /\ pc = "read"
        /\ timerfd_.open /\ timerfd_.fired
        /\ timerfd_' = [timerfd_ EXCEPT !.fired = FALSE]
        /\ pc' = "log"
        /\ UNCHANGED <<clock, timers_, running_, expired>>

ReadFails == /\ pc = "read"
             /\ ~timerfd_.open
             /\ pc' = "log_failed"
             /\ UNCHANGED <<clock, timers_, timerfd_, running_, expired>>

\* LOG_DEBUG returns: the callback follows.
LogRead == /\ pc = "log"
           /\ pc' = "handle"
           /\ UNCHANGED <<clock, timers_, timerfd_, running_, expired>>

\* LOG_ERROR returns: the loop is left and Run returns.
LogFailed == /\ pc = "log_failed"
             /\ running_' = FALSE
             /\ pc' = "idle"
             /\ UNCHANGED <<clock, timers_, timerfd_, expired>>

-----------------------------------------------------------------------------
(* HandleEvent *)

\* lower_bound with a null timer: what expires exactly now stays.
Expired == {e \in timers_ : e.when < clock}

\* Mutant of GetExpired: what expires exactly now is erased, but not run.
GetExpiredErasesAll == /\ expired' = {e \in timers_ : e.when < clock}
                       /\ timers_' = {e \in timers_ : e.when > clock}

\* Mutant of GetExpired: the expired timers stay in the set.
GetExpiredKeeps == /\ expired' = Expired
                   /\ UNCHANGED timers_

GetExpired == /\ expired' = Expired
              /\ timers_' = timers_ \ Expired

\* An event without an expired timer closes the timerfd, and goes on.
HandleEvent == /\ pc = "handle"
               /\ GetExpired
               /\ \/ Expired = {} /\ Stop
                  \/ Expired # {} /\ UNCHANGED timerfd_
               /\ pc' = "run"
               /\ UNCHANGED <<clock, running_>>

\* Mutant of RunTimer: the expired timers are run in any order.
RunTimerUnordered(e) == /\ pc = "run"
                        /\ e \in expired
                        /\ expired' = expired \ {e}
                        /\ UNCHANGED <<clock, timers_, timerfd_, running_, pc>>

\* The callbacks run by expiration; timers with one expiration are ordered by
\* the addresses of their objects, which may be anything.
RunTimer(e) == /\ pc = "run"
               /\ e \in expired
               /\ \A f \in expired : e.when <= f.when
               /\ expired' = expired \ {e}
               /\ UNCHANGED <<clock, timers_, timerfd_, running_, pc>>

\* The earliest timer; its expiration is valid, as every time of day is.
NextExpired == CHOOSE w \in {e.when : e \in timers_} :
                  \A e \in timers_ : w <= e.when

Reset == /\ pc = "run" /\ expired = {}
         /\ \/ timers_ = {} /\ Stop
            \/ timers_ # {} /\ ResetTimerfd(NextExpired)
         /\ pc' = "read"
         /\ UNCHANGED <<clock, timers_, running_, expired>>

\* A step of the event loop's own, between the callbacks.
LoopStep == \/ Loop \/ Read \/ ReadFails \/ LogRead \/ LogFailed
            \/ HandleEvent \/ Reset

-----------------------------------------------------------------------------
Entry == [when : Int, timer : Timer]

\* The types; an unarmed timerfd is closed, has fired or is about to be armed;
\* no timer is at once due to run and still in the set.
TypeOK == /\ clock \in 0..Horizon
          /\ timers_ \subseteq Entry
          /\ timerfd_ \in [open : BOOLEAN, left : Nat, fired : BOOLEAN]
          /\ timerfd_.left > 0 => timerfd_.open /\ ~timerfd_.fired
          /\ running_ \in BOOLEAN
          /\ pc \in LoopPC
          /\ expired \subseteq Entry
          /\ expired \intersect timers_ = {}
          /\ expired # {} => pc = "run"
          /\ pc = "read" => ~timerfd_.open \/ timerfd_.fired \/ timerfd_.left > 0
=============================================================================
