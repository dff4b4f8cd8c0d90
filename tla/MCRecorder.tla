----------------------------- MODULE MCRecorder -----------------------------
(***************************************************************************)
(* Recorder for TLC: two subscribers on a queue of one slot, two signals   *)
(* that may nest, and a few options for each kind of ending.               *)
(***************************************************************************)
EXTENDS Recorder

Plain == [split |-> FALSE, max_size |-> 0, max_splits |-> 0, max_duration |-> 0,
          min_space |-> 0]
SizeLimit == [Plain EXCEPT !.max_size = 1]
SizeSplit == [SizeLimit EXCEPT !.split = TRUE, !.max_splits = 1]
DurationSplit == [Plain EXCEPT !.split = TRUE, !.max_duration = 1]

\* Stopping: without limits, with one that ends the recording, and splitting.
StopOptions == {Plain, SizeLimit, SizeSplit}
PlainOptions == {Plain}
LimitOptions == {SizeLimit}
SplitOptions == {DurationSplit}
=============================================================================
