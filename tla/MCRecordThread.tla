--------------------------- MODULE MCRecordThread ---------------------------
(***************************************************************************)
(* RecordThread for TLC, from every command line of up to four words: each *)
(* kind of limit, with and without --split.  With a duration of 1 a        *)
(* message may be late by three whole windows, so that a single DoWrite    *)
(* splits three times and prunes with one or two splits kept.  An int      *)
(* tells four sizes apart: 1 fits, 2 is negative, and 4 becomes 0.         *)
(***************************************************************************)
EXTENDS RecordThread, CommandLine

Topic == [name |-> "topic", arg |-> <<>>]
SplitWord == [name |-> "split", arg |-> <<>>]
Numbered(name, numbers) == {[name |-> name, arg |-> <<n>>] : n \in numbers}

Words == {Topic, SplitWord,
          [name |-> "number", arg |-> <<1>>],
          [name |-> "size", arg |-> <<>>]}
         \union Numbered("size", {1, 2, 4})
         \union Numbered("max-splits", {1, 2})
         \union Numbered("duration", {0, 1})

MCOptions == OptionsOf(UNION {[1..n -> Words] : n \in 1..4})
MCMsgs == [time : {1, 4}]
=============================================================================
