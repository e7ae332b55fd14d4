----------------------------- MODULE MCGpuReadback -----------------------------
(***************************************************************************)
(* GpuReadback with two fields, read back one at a time or together, and the *)
(* combinations of options a run considers.                                 *)
(***************************************************************************)
EXTENDS GpuReadback

CONSTANTS f, g

MCFields == {f, g}
MCRegions == {{f}, {g}, {f, g}}

Source(b, p, auto, seeded) ==
    [backpressure |-> b, pacing |-> p, autoDrain |-> auto, raw |-> FALSE,
     seeded |-> seeded]

\* Promise jobs that drain, with coalescing; the application polling, with pacing.
MicrotaskOrPaced == {
    Source("latest-only", "manual", TRUE, TRUE),
    Source("reject", "adaptive", FALSE, TRUE)}

Unseeded == {Source("reject", "adaptive", FALSE, FALSE)}
LatestOnly == {Source("latest-only", "manual", TRUE, TRUE)}
===============================================================================
