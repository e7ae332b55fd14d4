------------------------------ MODULE Crossfade -------------------------------
(***************************************************************************)
(* crossfade.ts, and the phases HotSwapConsumer.ts and JitKernelSwap.ts     *)
(* have in common: the audible output moves from one source to another      *)
(* through a window that opens some time after the swap was armed.          *)
(*                                                                         *)
(* Time passes in units between two quanta.  A weight is counted in units   *)
(* of 1 / Whole and grows linearly through the window: the C^k schedules of *)
(* crossfadeWeight are increasing functions of this one with the same ends. *)
(***************************************************************************)
EXTENDS Integers

CONSTANTS
    Whole,              \* the weight 1
    MaxGap              \* longest time between two quanta

ASSUME CrossfadeAssumption == Whole \in Nat \ {0} /\ MaxGap \in Nat

VARIABLES
    phase,
    age,                \* time since the window opened, as far as it counts; or NotOpen
    gap,                \* history: the time between the last two quanta
    snapped             \* history: a fade was cut short since the last quantum, or in it

fadeVars == <<phase, age, gap, snapped>>

NotOpen == -1
Least(x, y) == IF x < y THEN x ELSE y

FadeInit == phase = "idle" /\ age = NotOpen /\ gap = 0 /\ snapped = FALSE

\* weightAt: of the source that fades in, t into a window of length w.
WeightAt(t, w) ==
    IF t = NotOpen THEN 0
    ELSE IF t >= w THEN Whole ELSE t * (Whole \div w)

\* isSwapping
Swapping == phase \in {"priming", "fading"}

\* An armed swap is carried through unless it is reset.
SwapCompletes == (phase = "priming") ~> (phase \in {"complete", "idle"})
===============================================================================
