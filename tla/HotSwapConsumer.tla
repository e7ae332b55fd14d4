--------------------------- MODULE HotSwapConsumer ---------------------------
(***************************************************************************)
(* HotSwapConsumer.ts: the phase machine that moves the audible output from *)
(* a bridge a to a bridge b.  The caller renders quantum after quantum; in  *)
(* each it reconstructs the bridges the phase calls for and blends them by  *)
(* the weight of b.                                                         *)
(***************************************************************************)
EXTENDS Crossfade, FiniteSets

CONSTANTS
    Windows,            \* fade durations the caller may ask for
    MinFrames,          \* minBFramesForReady
    Rearms              \* may the caller arm another swap once one is complete?

ASSUME SwapAssumption ==
    /\ Windows \subseteq Nat \ {0} /\ IsFiniteSet(Windows) /\ Windows # {}
    /\ MinFrames \in Nat \ {0}
    /\ \A w \in Windows : Whole % w = 0
    /\ Rearms \in BOOLEAN

VARIABLES
    window,             \* _windowNs; 0 when there is none
    freshPulls,         \* _bFreshPulls, counted up to MinFrames
    weight,             \* of b in the last quantum
    pulled,             \* the bridges reconstructed in the last quantum
    sinceArm            \* history: time since the swap was armed, up to Longest

mixVars == <<window, freshPulls, weight, pulled, sinceArm>>
swapVars == <<fadeVars, mixVars>>

Longest == CHOOSE w \in Windows : \A v \in Windows : v <= w

SwapInit ==
    /\ FadeInit
    /\ window = 0 /\ freshPulls = 0
    /\ weight = 0 /\ pulled = {} /\ sinceArm = 0

-------------------------------------------------------------------------------
(* The caller *)

\* armSwap(w); it throws while a swap is under way.
ArmSwap(w) ==
    /\ phase = "idle" \/ (phase = "complete" /\ Rearms)
    /\ phase' = "priming" /\ window' = w /\ age' = NotOpen /\ sinceArm' = 0
    /\ UNCHANGED <<freshPulls, weight, pulled, gap, snapped>>

\* What reset() leaves of the window.
AgeAfterReset == NotOpen

Reset(forgetBReadiness) ==
    /\ phase' = "idle" /\ window' = 0 /\ age' = AgeAfterReset
    /\ freshPulls' = IF forgetBReadiness THEN 0 ELSE freshPulls
    /\ snapped' = TRUE
    /\ UNCHANGED <<weight, pulled, gap, sinceArm>>

-------------------------------------------------------------------------------
(* A quantum *)

\* Mutant: b is not listened to before it fades.
PullsBOnceFading == phase \in {"fading", "complete"}

PullsA == phase # "complete"
PullsB == phase # "idle"

\* b returns a frame it had not returned before.
Fresh(bArrives) == PullsB /\ bArrives

IsBReady(pulls) == pulls >= MinFrames

\* Mutant: the window is anchored to the call of armSwap.
AnchorAtArm(d) == d

\* The age of a window that opens in this quantum, the swap having been armed d ago.
Anchor(d) == 0

\* pullLatest, d after the previous quantum; bArrives if b's ring holds a frame.
PullLatest(d, bArrives) ==
    LET pulls == IF Fresh(bArrives) THEN Least(freshPulls + 1, MinFrames) ELSE freshPulls
        armed == Least(sinceArm + d, Longest)
        opens == phase = "priming" /\ IsBReady(pulls)
        now   == IF opens THEN Anchor(armed)
                 ELSE IF age = NotOpen THEN NotOpen ELSE Least(age + d, Longest)
        fades == opens \/ phase = "fading"
        done  == phase = "complete" \/ (fades /\ WeightAt(now, window) >= Whole)
    IN  /\ freshPulls' = pulls
        /\ age' = now
        /\ phase' = IF done THEN "complete" ELSE IF fades THEN "fading" ELSE phase
        /\ weight' = IF done THEN Whole ELSE IF fades THEN WeightAt(now, window) ELSE 0
        /\ pulled' = (IF PullsA THEN {"a"} ELSE {}) \cup (IF PullsB THEN {"b"} ELSE {})
        /\ gap' = d /\ sinceArm' = armed /\ snapped' = FALSE
        /\ UNCHANGED window

SwapNext ==
    \/ \E w \in Windows : ArmSwap(w)
    \/ \E forget \in BOOLEAN : Reset(forget)
    \/ \E d \in 0 .. MaxGap, bArrives \in BOOLEAN : PullLatest(d, bArrives)

\* The audio thread renders for ever, on a clock that moves, and time and again b's
\* producer has put a frame into its ring.
SwapFairness == WF_swapVars(PullLatest(1, TRUE))

SwapSpec == SwapInit /\ [][SwapNext]_swapVars /\ SwapFairness

-------------------------------------------------------------------------------
(* Correctness *)

\* A window is open exactly while the output is, or has been, fading: weightAt
\* answers 0 at any other time.
SwapTypeOK ==
    /\ phase \in {"idle", "priming", "fading", "complete"}
    /\ window \in Windows \cup {0} /\ (window = 0 <=> phase = "idle")
    /\ age \in {NotOpen} \cup 0 .. Longest
    /\ age = NotOpen <=> phase \in {"idle", "priming"}
    /\ freshPulls \in 0 .. MinFrames
    /\ weight \in 0 .. Whole /\ pulled \subseteq {"a", "b"}
    /\ gap \in 0 .. MaxGap /\ sinceArm \in 0 .. Longest /\ snapped \in BOOLEAN

\* The blend never uses a bridge that was not reconstructed in the same quantum, and
\* b is not heard before it has returned the frames it needs to interpolate.
HeardIsReconstructed ==
    /\ weight < Whole => pulled = {} \/ "a" \in pulled
    /\ weight > 0 => "b" \in pulled /\ (snapped \/ freshPulls = MinFrames)

\* Bit by bit from a to b: from one quantum to the next the weight moves only
\* forward, and no faster than the window lets it in the time between them, whenever
\* the swap was armed and however long b took to get ready; only reset() snaps back.
NoClick ==
    [][\/ snapped
       \/ weight' = weight
       \/ weight < weight' /\ weight' - weight <= gap' * (Whole \div window')]_swapVars

===============================================================================
