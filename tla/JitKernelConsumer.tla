-------------------------- MODULE JitKernelConsumer ---------------------------
(***************************************************************************)
(* JitKernelConsumer.ts and the phase machine it drives, JitKernelSwap.ts:  *)
(* the audio worklet runs the developer's JavaScript kernel, and fades a    *)
(* compiled one in when the main thread hands it over.  A message is        *)
(* handled between two quanta, so install, revert and process are atomic.   *)
(*                                                                         *)
(* A recurrence's memory is abstracted to the quanta it has run since it    *)
(* was seeded, modulo Laps, for each batch of voices (one batch when the    *)
(* kernel has a single voice).                                              *)
(***************************************************************************)
EXTENDS Crossfade

CONSTANTS
    Kernels,        \* compiled instances; each install makes a new one
    Js, None,       \* the fallback; no instance
    Installable,    \* those armInstance accepts: exported, of a shape that fits the slabs
    Batches,        \* voices / W calls of a kernel a quantum
    JitEnabled,     \* WASM and SIMD are there, and the memory is shared
    Window,         \* of the fade
    Laps            \* bound: quanta are counted modulo Laps

ASSUME JitAssumption ==
    /\ Js \notin Kernels /\ None \notin Kernels /\ Js # None
    /\ Installable \subseteq Kernels
    /\ JitEnabled \in BOOLEAN
    /\ Window \in Nat \ {0} /\ Whole % Window = 0
    /\ Laps \in Nat /\ Laps > 1

VARIABLES
    current,            \* Js, or the compiled kernel promoted last
    incoming,
    retiring, countdown,
    slabA, slabB,       \* the state of the current and of the incoming generation
    gain,               \* of each kernel in the last quantum, out of Whole
    clock, bornA, bornB \* history: quanta so far, and when each generation first ran

kernelVars == <<current, incoming, retiring, countdown>>
slabVars == <<slabA, slabB>>
births == <<clock, bornA, bornB>>
jitVars == <<kernelVars, slabVars, gain, births>>
consumerVars == <<fadeVars, jitVars>>

Cold == [b \in Batches |-> 0]

\* One quantum more, on a counter or on a batch's state.
After(n) == IF n + 1 = Laps THEN 0 ELSE n + 1

\* Each batch of the kernel runs once over its block of the slab.
Run(slab) == [b \in Batches |-> After(slab[b])]

\* The gains when only k is heard.
Only(k) == [j \in Kernels \cup {Js} |-> IF j = k THEN Whole ELSE 0]

JitInit ==
    /\ FadeInit
    /\ current = Js /\ incoming = None /\ retiring = None /\ countdown = 0
    /\ slabA = Cold /\ slabB = Cold
    /\ gain = Only(Js)
    /\ clock = 0 /\ bornA = 0 /\ bornB = 0

-------------------------------------------------------------------------------
(* Messages, between two quanta *)

\* seedSlab, seedVoiceSlab: the incoming generation starts cold.
Seeded == Cold

\* Mutant: a swap is armed once.
ArmsFromIdle == {"idle"}

\* armSwap throws in any other phase.
ArmsFrom == {"idle", "complete"}

\* installCompiledKernel(FromBytes), when it returns true: an incoming kernel not
\* promoted yet is abandoned, the swap armed afresh.
Install(k) ==
    /\ JitEnabled /\ k \in Installable
    /\ (IF Swapping THEN "idle" ELSE phase) \in ArmsFrom
    /\ phase' = "priming" /\ age' = NotOpen
    /\ incoming' = k
    /\ slabB' = Seeded
    /\ snapped' = (snapped \/ phase = "fading")
    /\ UNCHANGED <<current, retiring, countdown, slabA, gain, gap, births>>

\* ... and when it returns false, nothing changes.
Refuses(k) == ~JitEnabled \/ k \notin Installable

\* Mutant: the incoming kernel survives the revert.
IncomingKept == incoming

\* What a revert leaves of the incoming kernel.
IncomingAfterRevert == None

\* revertToFallback; slab A is not seeded again, the fallback goes on in it.
Revert ==
    /\ phase' = "idle" /\ age' = NotOpen
    /\ current' = Js /\ incoming' = IncomingAfterRevert
    /\ retiring' = None /\ countdown' = 0
    /\ snapped' = TRUE

ForceJs ==
    /\ Revert
    /\ UNCHANGED <<slabVars, gain, gap, births>>

-------------------------------------------------------------------------------
(* A quantum *)

\* beginQuantum, d after the quantum before.
AgeNow(d) ==
    IF phase = "priming" THEN 0
    ELSE IF age = NotOpen THEN NotOpen ELSE Least(age + d, Window)

WeightNow(d) == IF Swapping THEN WeightAt(AgeNow(d), Window) ELSE 0

\* The superseded instance is let go after its quantum of grace.
Retire ==
    /\ retiring' = IF countdown <= 1 THEN None ELSE retiring
    /\ countdown' = IF countdown <= 1 THEN 0 ELSE countdown - 1

Passes(d) ==
    /\ gap' = d
    /\ clock' = After(clock)
    /\ age' = AgeNow(d)

\* idle: the current kernel alone.  (A swap that is only armed opens in this quantum.)
\* complete, once promoted: likewise.
Steady(d) ==
    /\ ~Swapping
    /\ Retire /\ Passes(d)
    /\ slabA' = Run(slabA)
    /\ gain' = Only(current) /\ snapped' = FALSE
    /\ UNCHANGED <<phase, current, incoming, slabB, bornA, bornB>>

\* When the incoming generation ran first.
Born == IF phase = "priming" THEN clock ELSE bornB

\* fading: both generations run, each on its own slab, and are blended.
Blend(d) ==
    /\ Swapping /\ WeightNow(d) < Whole
    /\ Retire /\ Passes(d)
    /\ phase' = "fading"
    /\ slabA' = Run(slabA) /\ slabB' = Run(slabB)
    /\ gain' = [Only(current) EXCEPT
                   ![current] = Whole - WeightNow(d), ![incoming] = WeightNow(d)]
    /\ bornB' = Born /\ snapped' = FALSE
    /\ UNCHANGED <<current, incoming, bornA>>

\* Mutant: the current kernel is run again for the quantum it has already run.
RunTwice == Run(Run(slabA))

\* What the quantum of an abort leaves in slab A.
AfterAbort == Run(slabA)

\* fading, but the incoming kernel returns a sample that is not finite: the output of
\* the current one is kept, and from the next quantum on the fallback runs.
Abort(d) ==
    /\ Swapping /\ WeightNow(d) < Whole
    /\ Revert
    /\ gap' = d /\ clock' = After(clock)
    /\ slabA' = AfterAbort /\ slabB' = Run(slabB)
    /\ gain' = Only(current)
    /\ bornB' = Born
    /\ UNCHANGED bornA

\* Mutant: the superseded kernel stays the current one.
KeptCurrent == current

\* The instance that is the current one from now on.
NewCurrent == incoming

\* The slab the promoted kernel goes on with.
Promoted == slabB

\* The window is over: the incoming kernel becomes the current one, with its state.
Complete(d) ==
    /\ Swapping /\ WeightNow(d) = Whole
    /\ Passes(d)
    /\ phase' = "complete"
    /\ retiring' = (IF current = Js THEN None ELSE current)
    /\ countdown' = (IF current = Js THEN 0 ELSE 1)
    /\ current' = NewCurrent /\ incoming' = None
    /\ slabA' = Run(Promoted)
    /\ gain' = Only(incoming)
    /\ bornA' = bornB /\ snapped' = FALSE
    /\ UNCHANGED <<slabB, bornB>>

Process(d) == Steady(d) \/ Blend(d) \/ Abort(d) \/ Complete(d)

\* An instance is a new object: its name is free once nothing refers to it.
Free(k) == k \notin {current, incoming, retiring}

JitNext ==
    \/ \E k \in Kernels : Free(k) /\ Install(k)
    \/ ForceJs
    \/ \E d \in 0 .. MaxGap : Process(d)

JitSpec == JitInit /\ [][JitNext]_consumerVars

-------------------------------------------------------------------------------
(* Correctness *)

Counter == 0 .. Laps - 1

JitTypeOK ==
    /\ phase \in {"idle", "priming", "fading", "complete"}
    /\ age \in {NotOpen} \cup 0 .. Window
    /\ current \in Kernels \cup {Js}
    /\ incoming \in Kernels \cup {None} /\ retiring \in Kernels \cup {None}
    /\ countdown \in 0 .. 1
    /\ slabA \in [Batches -> Counter] /\ slabB \in [Batches -> Counter]
    /\ gain \in [Kernels \cup {Js} -> 0 .. Whole]
    /\ gap \in 0 .. MaxGap
    /\ clock \in Counter /\ bornA \in Counter /\ bornB \in Counter
    /\ snapped \in BOOLEAN

\* What process() calls is there: a kernel is waiting or fading exactly while there is
\* an incoming one, a completed swap has promoted a compiled kernel, and no instance
\* is kept under two names.  (process calls _incomingKernelFn! unchecked.)
SwapIsArmed ==
    /\ Swapping <=> incoming # None
    /\ phase = "complete" => current # Js
    /\ incoming # current
    /\ retiring # None => retiring \notin {current, incoming}

Since(born) == IF clock >= born THEN clock - born ELSE clock - born + Laps

\* A recurrence runs exactly once for every quantum since its generation was first
\* run, in every batch: no install, abort, promotion or revert between two quanta
\* makes a state skip a quantum, run one twice, start over or mix with the other's.
StateRunsOnce ==
    \A b \in Batches :
        /\ slabA[b] = Since(bornA)
        /\ phase = "fading" => slabB[b] = Since(bornB)
        /\ phase = "priming" => slabB[b] = 0

\* No kernel's gain jumps: from one quantum to the next it changes no faster than the
\* window lets it in the time between them, over any chain of swaps, unless a kernel
\* was dropped (a revert, an abort, an install over a fade).
NoJump ==
    [][\/ clock' = clock \/ snapped \/ snapped'
       \/ \A k \in Kernels \cup {Js} :
              /\ gain'[k] - gain[k] <= gap' * (Whole \div Window)
              /\ gain[k] - gain'[k] <= gap' * (Whole \div Window)]_consumerVars
===============================================================================
