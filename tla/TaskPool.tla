------------------------------ MODULE TaskPool ------------------------------
(***************************************************************************)
(* What a pool of threads promises: a task it accepts is begun at most     *)
(* once, by one of a fixed number of threads, and when a call of Stop has  *)
(* returned no task is running and none will be begun.                     *)
(***************************************************************************)
EXTENDS FiniteSets, Naturals

CONSTANTS Task, Threads  \* the tasks there can be, the number of threads

VARIABLES accepted, running, done,  \* the tasks, by how far they have come
          stopped                   \* whether some Stop has returned

vars == <<accepted, running, done, stopped>>

Init == accepted = {} /\ running = {} /\ done = {} /\ stopped = FALSE

Accept(t) == /\ t \in Task \ (accepted \union running \union done)
             /\ accepted' = accepted \union {t}
             /\ UNCHANGED <<running, done, stopped>>

Begin(t) == /\ t \in accepted
            /\ ~stopped
            /\ Cardinality(running) < Threads
            /\ accepted' = accepted \ {t}
            /\ running' = running \union {t}
            /\ UNCHANGED <<done, stopped>>

Finish(t) == /\ t \in running
             /\ running' = running \ {t}
             /\ done' = done \union {t}
             /\ UNCHANGED <<accepted, stopped>>

StopReturns == /\ running = {}
               /\ stopped' = TRUE
               /\ UNCHANGED <<accepted, running, done>>

Next == (\E t \in Task : Accept(t) \/ Begin(t) \/ Finish(t)) \/ StopReturns

Spec == Init /\ [][Next]_vars
=============================================================================
