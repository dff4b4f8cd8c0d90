----------------------------- MODULE MachineInt -----------------------------
(***************************************************************************)
(* The integer conversions of the recorder's size limit: what does not fit *)
(* an int wraps around (the multiplication of record.cpp:276 overflows,    *)
(* which the build compiles to a shift), and an int that meets an unsigned *)
(* 64 bit number is sign-extended.                                         *)
(***************************************************************************)
EXTENDS Integers

CONSTANTS IntRange,  \* values of an int: 2^32
          ULongRange \* values of a uint64_t: 2^64

ASSUME MachineAssumption ==
    /\ IntRange \in Nat \ {0} /\ ULongRange \in Nat
    /\ IntRange % 2 = 0 /\ ULongRange >= IntRange
    /\ ULongRange % IntRange = 0

\* A number as an int.
AsInt(n) == LET low == n % IntRange
            IN IF low < IntRange \div 2 THEN low ELSE low - IntRange

\* An int as a uint64_t.
AsULong(i) == i % ULongRange
=============================================================================
