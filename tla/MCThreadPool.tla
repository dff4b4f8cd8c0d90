---------------------------- MODULE MCThreadPool ----------------------------
(***************************************************************************)
(* ThreadPool for TLC: two workers and a queue of two slots, so that a     *)
(* list can hold two tasks; two tasks that add two tasks each, so that     *)
(* both workers can be blocked on the full queue; two calls of Stop.       *)
(***************************************************************************)
EXTENDS ThreadPool

FirstTwoAdd == [t \in Task |-> IF t <= 2 THEN 2 ELSE 0]
=============================================================================
