----------------------------- MODULE ByteQueue -----------------------------
(***************************************************************************)
(* What Buffer promises to its callers: a queue of bytes that is written   *)
(* at the back and consumed at the front.  What was written last can be    *)
(* taken back, and bytes can be put in front of the rest.                  *)
(***************************************************************************)
EXTENDS Naturals, Sequences

CONSTANT Data   \* what can be written at once
VARIABLE content

Init == content = <<>>

Write(data) == content' = content \o data
Consume(n) == content' = SubSeq(content, n + 1, Len(content))
Unwrite(n) == content' = SubSeq(content, 1, Len(content) - n)
PutInFront(data) == content' = data \o content

Next == \/ \E data \in Data : Write(data) \/ PutInFront(data)
        \/ \E n \in 0..Len(content) : Consume(n) \/ Unwrite(n)

Spec == Init /\ [][Next]_content
=============================================================================
