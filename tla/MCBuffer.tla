------------------------------ MODULE MCBuffer ------------------------------
(***************************************************************************)
(* Buffer for TLC: two bytes of reserved room, a default size of two, and  *)
(* data of up to three bytes, so that every branch of makeSpace is taken   *)
(* with and without bytes prepended, and moved bytes overlap their copy.   *)
(***************************************************************************)
EXTENDS Buffer

MCData == UNION {[1..n -> {1, 2}] : n \in 0..3}
=============================================================================
