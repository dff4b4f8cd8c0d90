------------------------------ MODULE MCPlayer ------------------------------
(***************************************************************************)
(* Player for TLC: bags that are empty, that share a stamp within a bag    *)
(* and across bags, whose records interleave, and that are refused.  They  *)
(* were recorded before they are played, at time 1.                        *)
(***************************************************************************)
EXTENDS Player

SomeBags == {<<>>, << <<>> >>, << <<0>>, Refused >>,
             << <<0, 0, 2>> >>, << <<-1, 0>>, <<-2, -1>> >>}
=============================================================================
