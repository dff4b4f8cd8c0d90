----------------------------- MODULE MCBagFile -----------------------------
(***************************************************************************)
(* BagFile for TLC: words of two bytes, topics of one and two, and bodies  *)
(* down to the empty message, so that every field of a record can be cut   *)
(* in the middle and at either edge.  The header has two fields of         *)
(* different lengths, the first of which is longer when it is rewritten.   *)
(***************************************************************************)
EXTENDS BagFile

Names12 == <<1, 2>>
Lens11 == <<1, 1>>
Lens21 == <<2, 1>>
=============================================================================
