------------------------------ MODULE Channel ------------------------------
(***************************************************************************)
(* What SyncQueue promises to the threads that share it: a bounded FIFO    *)
(* channel.  A receiver takes everything that has been sent so far in one  *)
(* step, in the order it was sent, nothing twice and nothing skipped, and  *)
(* a closed channel neither accepts nor delivers.                          *)
(***************************************************************************)
EXTENDS Naturals, Sequences

CONSTANTS Items,     \* what can be sent
          Capacity   \* how many items may be sent and not yet received

VARIABLES sent,      \* every item accepted, oldest first
          received,  \* every item handed to a receiver, oldest first
          open       \* FALSE once the channel is closed

vars == <<sent, received, open>>

Init == /\ sent = <<>>
        /\ received = <<>>
        /\ open = TRUE

Send(x) == /\ open
           /\ Len(sent) < Len(received) + Capacity
           /\ sent' = Append(sent, x)
           /\ UNCHANGED <<received, open>>

ReceiveAll == /\ open
              /\ received # sent
              /\ received' = sent
              /\ UNCHANGED <<sent, open>>

Close == /\ open
         /\ open' = FALSE
         /\ UNCHANGED <<sent, received>>

Next == (\E x \in Items : Send(x)) \/ ReceiveAll \/ Close

Spec == Init /\ [][Next]_vars
=============================================================================
