------------------------------ MODULE Int32Lanes ------------------------------
(***************************************************************************)
(* The counter algebra every ring of the library shares.  A control lane   *)
(* is one Int32 of a SharedArrayBuffer: counters only ever grow and wrap    *)
(* modulo 2^32, differences are the signed reading of (a - b) | 0, and a    *)
(* slot is the low bits of a counter.  A lane is written here as its        *)
(* unsigned residue in 0 .. Modulus - 1; AsInt32 is the signed value that   *)
(* Atomics.load returns for it.  Modulus is 2^32 in the code and small in   *)
(* the model-checked instances, so that lanes do wrap in them.              *)
(***************************************************************************)
EXTENDS Integers

CONSTANTS
    Modulus,    \* number of values of a lane, 2^32 in the code
    Capacity    \* slots of a ring; a power of two in the code

\* A ring's slots tile the lane's values, and a whole ring is less than half
\* of them, so that a difference of two live counters never changes sign.
ASSUME LaneAssumption ==
    /\ Capacity \in Nat \ {0}
    /\ Modulus \in Nat
    /\ Modulus % Capacity = 0
    /\ Modulus % 2 = 0
    /\ 2 * Capacity < Modulus

Lane == 0 .. Modulus - 1
Half == Modulus \div 2

\* (i + 1) | 0
Inc(i) == IF i + 1 = Modulus THEN 0 ELSE i + 1

\* (i - 1) | 0
Dec(i) == IF i = 0 THEN Modulus - 1 ELSE i - 1

\* What Atomics.load returns for a residue: values from Half up are negative.
AsInt32(i) == IF i >= Half THEN i - Modulus ELSE i

\* (a - b) | 0, read as a signed number.
SignedDiff(a, b) == AsInt32(IF a >= b THEN a - b ELSE a - b + Modulus)

\* (i >>> 0) & mask
Slot(i) == i % Capacity
Slots == 0 .. Capacity - 1
===============================================================================
