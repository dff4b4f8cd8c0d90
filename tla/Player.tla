------------------------------- MODULE Player -------------------------------
(***************************************************************************)
(* The playing process (src/src/play): main opens the bags, merges their   *)
(* records in a View, adds a timer for each and runs the timer queue; the  *)
(* handler of SIGINT and SIGTERM runs on the same, only thread and closes  *)
(* the timerfd under it.                                                   *)
(*                                                                         *)
(* ParseOptions leaves every option at its default: no topics are chosen,  *)
(* no duration is set and loop_ is false.  The program is built with the   *)
(* default build type, Release, so that assertions do nothing.             *)
(*                                                                         *)
(* Nothing is published.  The call that would hand a record to publisher_  *)
(* is commented out, and DoPublish only prints the topic of its record.    *)
(***************************************************************************)
EXTENDS Integers, Sequences, FiniteSets

CONSTANTS BagLists,    \* the choices of bags_: sequences of bags, each Refused
                       \* or the sequence of the stamps of its records
          Refused,     \* a bag that Open throws for
          Horizon,     \* see TimerQueue
          MaxSignals,  \* bound on the signals delivered
          MaxSetBacks  \* bound on how often the clock is set back

VARIABLES clock, timers_, timerfd_, running_, pc, expired,  \* see TimerQueue
          bags_,      \* the bags named on the command line
          phase,      \* how far main is
          view,       \* the records in the View that is played
          diff,       \* TimeDifference(now, initial_time)
          printed,    \* the records DoPublish has printed, in order
          frames,     \* the signal handlers running, innermost last
          hung,       \* a handler waits for the logger's mutex, which the
                      \* call it has interrupted holds
          signals,    \* how many signals were delivered
          latest,     \* history: the latest time the clock has shown
          set_backs   \* how often the clock was set back

Record == [bag : Nat, n : Nat, stamp : Int]

Timers == INSTANCE TimerQueue WITH Timer <- Record

loopVars == <<timers_, timerfd_, running_, pc, expired>>
queueVars == <<clock, loopVars>>
playVars == <<bags_, phase, view, diff, printed>>
signalVars == <<frames, hung, signals>>
clockVars == <<latest, set_backs>>
vars == <<queueVars, playVars, signalVars, clockVars>>

ASSUME HorizonAssumption == Horizon \in Nat \ {0}

\* Horizon is after the expiration of every timer.
ASSUME BagListsAssumption ==
    \A bags \in BagLists :
        /\ bags \in Seq({Refused} \union Seq(Int))
        /\ \A i, j \in DOMAIN bags :
              bags[i] # Refused /\ bags[j] # Refused =>
                  \A k \in DOMAIN bags[i], l \in DOMAIN bags[j] :
                      bags[i][k] - bags[j][l] + 1 < Horizon

\* "launch": there is no logger yet; "setup": there is no player yet.
\* After an "undefined" step the model says nothing.
Phases == {"launch", "setup", "open", "schedule", "run", "closing", "done",
           "exited", "crashed", "undefined"}
Ended == {"done", "exited", "crashed"}

Init == /\ Timers!Init
        /\ bags_ \in BagLists
        /\ phase = "launch"
        /\ view = {}
        /\ diff = 0
        /\ printed = <<>>
        /\ frames = <<>>
        /\ hung = FALSE
        /\ signals = 0
        /\ latest = clock
        /\ set_backs = 0

-----------------------------------------------------------------------------
(* main and Player::Publish *)

\* View: the records of all bags, whatever their topic and time.
GetRecords(bags) ==
    UNION {{[bag |-> i, n |-> k, stamp |-> bags[i][k]] : k \in DOMAIN bags[i]}
           : i \in DOMAIN bags}

GetBeginTime(records) == CHOOSE t \in {r.stamp : r \in records} :
                            \A r \in records : t <= r.stamp

Launch == /\ phase = "launch"
          /\ phase' = "setup"
          /\ UNCHANGED <<loopVars, view, diff, printed>>

Setup == /\ phase = "setup"
         /\ phase' = "open"
         /\ UNCHANGED <<loopVars, view, diff, printed>>

\* No bag, or one that cannot be opened, and the program exits.
CannotPlay == bags_ = <<>> \/ \E i \in DOMAIN bags_ : bags_[i] = Refused

\* Publish up to "start create timers".  GetBeginTime is asked for the time of
\* the first record before Size tells whether there is one: with an empty View
\* it dereferences the end of a multimap.
OpenBags ==
    /\ phase = "open"
    /\ \/ CannotPlay /\ phase' = "exited" /\ UNCHANGED view
       \/ /\ ~CannotPlay
          /\ view' = GetRecords(bags_)
          /\ phase' = IF view' = {} THEN "undefined" ELSE "schedule"
    /\ UNCHANGED <<loopVars, diff, printed>>

\* One timer for each record, all shifted by the same difference.
CreateTimers ==
    /\ phase = "schedule"
    /\ diff' = clock - GetBeginTime(view)
    /\ Timers!AddTimersAndRun({[when |-> r.stamp + diff', timer |-> r] :
                               r \in view})
    /\ phase' = "run"
    /\ UNCHANGED <<view, printed>>

DoPublish == /\ phase = "run"
             /\ \E e \in expired : /\ Timers!RunTimer(e)
                                   /\ printed' = Append(printed, e.timer)
             /\ UNCHANGED <<phase, view, diff>>

\* Run returns with the step that leaves the loop.
RunLoop == /\ phase = "run"
           /\ Timers!LoopStep
           /\ phase' = IF pc' = "idle" THEN "closing" ELSE "run"
           /\ UNCHANGED <<view, diff, printed>>

Return == /\ phase = "closing"
          /\ phase' = "done"
          /\ UNCHANGED <<loopVars, view, diff, printed>>

Main == \/ Launch \/ Setup \/ OpenBags \/ CreateTimers \/ DoPublish \/ RunLoop
        \/ Return

\* The thread runs main while no handler interrupts it.
MainStep == /\ frames = <<>>
            /\ Main
            /\ UNCHANGED <<clock, bags_, signalVars, clockVars>>

-----------------------------------------------------------------------------
(* The signal handler: ProgExit *)

Depth == Len(frames)
Handling(step) == frames # <<>> /\ frames[Depth] = step

\* Arming a timerfd that is closed fails, which is logged.
ArmsClosed == /\ ~timerfd_.open
              /\ pc = "loop" \/ (pc = "run" /\ expired = {} /\ timers_ # {})

\* Whether the thread may be inside a call of the logger, which locks a mutex
\* that is not recursive.
Logging == \/ /\ frames = <<>>
              /\ \/ phase \in {"setup", "open", "closing"}
                 \/ phase = "run" /\ pc \in {"log", "log_failed"}
                 \/ phase = "run" /\ ArmsClosed
           \/ Handling("log")

Gone == phase \in Ended \union {"undefined"} \/ hung

\* SIGINT or SIGTERM, each blocked while its own handler runs.
Signal == /\ ~Gone
          /\ signals < MaxSignals /\ Depth < 2
          /\ signals' = signals + 1
          /\ frames' = Append(frames, "log")
          /\ hung' \in IF Logging THEN BOOLEAN ELSE {FALSE}
          /\ UNCHANGED <<queueVars, playVars, clockVars>>

\* LOG_CRITICAL.  Before there is a logger a null pointer is dereferenced.
HandlerLog == /\ Handling("log")
              /\ phase' = IF phase = "launch" THEN "crashed" ELSE phase
              /\ frames' = [frames EXCEPT ![Depth] = "stop"]
              /\ UNCHANGED loopVars

\* player_ptr is null until there is a player: the signal has no effect.
HandlerStop == /\ Handling("stop")
               /\ \/ phase = "setup" /\ UNCHANGED timerfd_
                  \/ phase # "setup" /\ Timers!Stop
               /\ frames' = SubSeq(frames, 1, Depth - 1)
               /\ UNCHANGED <<phase, timers_, running_, pc, expired>>

HandlerStep == /\ ~Gone
               /\ HandlerLog \/ HandlerStop
               /\ UNCHANGED <<clock, bags_, view, diff, printed, hung,
                              signals, clockVars>>

-----------------------------------------------------------------------------
(* The clock.  What it shows before the timers are created does not matter. *)

Latest == latest' = IF clock' > latest THEN clock' ELSE latest

Tick == /\ Timers!Tick
        /\ Latest /\ UNCHANGED set_backs

SetForward == /\ \E time \in (clock + 1)..Horizon : Timers!SetClock(time)
              /\ Latest /\ UNCHANGED set_backs

SetBack == /\ set_backs < MaxSetBacks
           /\ \E time \in 0..(clock - 1) : Timers!SetClock(time)
           /\ set_backs' = set_backs + 1
           /\ UNCHANGED latest

ClockStep == /\ phase = "run"
             /\ Tick \/ SetForward \/ SetBack
             /\ UNCHANGED <<playVars, signalVars>>

Stay == Gone /\ UNCHANGED vars

Next == \/ MainStep \/ Signal \/ HandlerStep
        \/ ClockStep
        \/ Stay

Spec == Init /\ [][Next]_vars

\* The thread is scheduled and time passes; signals come as they please and
\* nobody has to set the clock.
Fairness == /\ WF_vars(MainStep) /\ WF_vars(HandlerStep)
            /\ WF_vars(ClockStep /\ Tick)

FairSpec == Spec /\ Fairness

-----------------------------------------------------------------------------
(* Properties *)

\* The types; timers and printed records are records of the view, and only
\* a signal can hang the thread.
TypeOK == /\ Timers!TypeOK
          /\ phase \in Phases
          /\ view \subseteq Record
          /\ {e.timer : e \in timers_ \union expired} \subseteq view
          /\ printed \in Seq(view)
          /\ frames \in Seq({"log", "stop"}) /\ Depth <= 2
          /\ hung => Handling("log")

\* Playing back: records in the order of their stamps across all bags, each
\* once, and none before its time, whoever sets the clock or stops the player.
\* Playing begins when the timers are created and diff is known.
Promise == INSTANCE Playback WITH
             view <- IF phase = "schedule" THEN {} ELSE view,
             clock <- latest, over <- phase \in Ended
ImplementsPlayback == Promise!Spec

\* DoPublish has been called for every record in the bags, and has printed it,
\* before the player ends by itself.  (A clock that was set back can leave an
\* event without expired timers, which closes the timerfd: the player then ends
\* early, without a word.)
PrintsAll ==
    phase = "done" /\ signals = 0 /\ set_backs = 0 =>
        {printed[i] : i \in 1..Len(printed)} = GetRecords(bags_)

\* The player comes to an end, stopped or not and whatever happens to the
\* clock, unless a signal has landed inside a call of the logger or there are
\* bags, but no record in them.
Ends == CannotPlay \/ GetRecords(bags_) # {} => <>(phase \in Ended \/ hung)
=============================================================================
