---------------------------- MODULE CommandLine ----------------------------
(***************************************************************************)
(* ParseOption of the record program (src/src/record/record.cpp): how a    *)
(* command line becomes the RecorderOptions that RecordThread starts from. *)
(*                                                                         *)
(* A command line is a sequence of words: options and topics.  A word is a *)
(* record of its name and its argument, which is <<n>> if it begins with a *)
(* number, and <<>> otherwise.  A size is in the unit of RecordThread, a   *)
(* duration in clock units, counts and spaces are not negative.  Options   *)
(* whose effect nothing reads (regex, quiet, exclude, publish, chunksize,  *)
(* node, the transports) and topics only take their place in the line.     *)
(***************************************************************************)
EXTENDS MachineInt, Sequences, SequencesExt

CONSTANT MinSpace \* default of min_space (1 GB)

ASSUME SpaceAssumption == MinSpace \in Nat

\* The constructor; no duration is any that is not positive.
RecorderOptions == [split |-> FALSE, max_size |-> 0, max_splits |-> 0,
                    max_duration |-> 0, min_space |-> MinSpace]

\* How far parsing got: the options, the compression chosen, and whether the
\* program goes on, exits, or dies of an exception nobody catches.
Start == [opts |-> RecorderOptions, compression |-> "none", end |-> "runs"]

Exit(p) == [p EXCEPT !.end = "exits"]
Set(p, opts) == [p EXCEPT !.opts = opts]

\* --bz2 and --lz4 exclude each other, and themselves.
Compress(p, type) == IF p.compression # "none" THEN Exit(p)
                     ELSE [p EXCEPT !.compression = type]

\* --split looks at the word behind it, in case it is the size that older
\* versions took; behind the last word there is a null pointer.
Split(p, line, i) ==
    LET opts == [p.opts EXCEPT !.split = TRUE]
    IN IF i = Len(line) THEN [Set(p, opts) EXCEPT !.end = "aborts"]
       ELSE IF line[i + 1].name = "number" THEN Exit(Set(p, opts))
       ELSE Set(p, opts)

\* --max-splits counts only behind --split.
MaxSplits(p, arg) ==
    IF ~p.opts.split THEN p
    ELSE IF arg = <<>> THEN Exit(p)
    ELSE Set(p, [p.opts EXCEPT !.max_splits = arg[1]])

\* --size: the product is an int, the limit unsigned; only zero is refused.
Size(p, arg) ==
    LET max_size == AsULong(AsInt(arg[1]))
    IN IF arg = <<>> THEN Exit(p)
       ELSE IF max_size <= 0 THEN Exit(p)
       ELSE Set(p, [p.opts EXCEPT !.max_size = max_size])

\* --duration
Duration(p, arg) ==
    IF arg = <<>> THEN Exit(p)
    ELSE IF arg[1] <= 0 THEN Exit(p)
    ELSE Set(p, [p.opts EXCEPT !.max_duration = arg[1]])

\* --min-space falls back to the default.
MinimumSpace(p, arg) ==
    Set(p, [p.opts EXCEPT !.min_space = IF arg = <<>> THEN MinSpace
                                        ELSE arg[1]])

\* --buffsize and --limit: nothing reads the values.
BufferSize(p, arg) == IF arg = <<>> THEN Exit(p)
                      ELSE IF arg[1] < 0 THEN Exit(p) ELSE p
Limit(p, arg) == IF arg = <<>> THEN Exit(p) ELSE p

\* The i-th word of the line.
Word(p, line, i) ==
    LET word == line[i]
    IN CASE word.name = "help" -> Exit(p)
         [] word.name \in {"bz2", "lz4"} -> Compress(p, word.name)
         [] word.name = "split" -> Split(p, line, i)
         [] word.name = "max-splits" -> MaxSplits(p, word.arg)
         [] word.name = "size" -> Size(p, word.arg)
         [] word.name = "duration" -> Duration(p, word.arg)
         [] word.name = "min-space" -> MinimumSpace(p, word.arg)
         [] word.name = "buffsize" -> BufferSize(p, word.arg)
         [] word.name = "limit" -> Limit(p, word.arg)
         [] OTHER -> p

\* The loop of getopt_long; the first exit is the last word read.
ParseOption(line) ==
    FoldLeftDomain(LAMBDA p, i : IF p.end = "runs" THEN Word(p, line, i) ELSE p,
                   Start, line)

\* The options with which the program reaches Recorder::Run.
OptionsOf(lines) == {ParseOption(line).opts : line \in
                        {l \in lines : ParseOption(l).end = "runs"}}
=============================================================================
