------------------------------ MODULE Playback ------------------------------
(***************************************************************************)
(* What playing bags back promises: the records of all bags, merged by     *)
(* their stamps, are printed one after the other, each once and none       *)
(* before its time.  The records are shifted in time by one difference,    *)
(* diff, that is fixed when playing starts.                                *)
(***************************************************************************)
EXTENDS Integers, Sequences

CONSTANT Record  \* the records there can be, each with a field stamp

VARIABLES view,       \* the records to play
          diff,       \* play time minus record time
          clock,      \* the latest time of day there has been
          printed,    \* what was printed, in order
          over        \* nothing is printed any more

vars == <<view, diff, clock, printed, over>>

Init == /\ view = {}
        /\ diff = 0
        /\ clock \in Int
        /\ printed = <<>>
        /\ over = FALSE

Pending == view \ {printed[i] : i \in 1..Len(printed)}

Schedule == /\ view = {} /\ ~over
            /\ view' \subseteq Record
            /\ diff' \in Int
            /\ UNCHANGED <<clock, printed, over>>

\* The earliest of the records that are left, when it is due.
Play(r) == /\ ~over
           /\ \A q \in Pending : r.stamp <= q.stamp
           /\ r.stamp + diff < clock
           /\ printed' = Append(printed, r)
           /\ UNCHANGED <<view, diff, clock, over>>

Time == /\ clock' \in Int /\ clock' > clock
        /\ UNCHANGED <<view, diff, printed, over>>

End == /\ over' = TRUE
       /\ UNCHANGED <<view, diff, clock, printed>>

Next == Schedule \/ (\E r \in Pending : Play(r)) \/ Time \/ End

Spec == Init /\ [][Next]_vars
=============================================================================
