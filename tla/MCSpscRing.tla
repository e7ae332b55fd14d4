------------------------------ MODULE MCSpscRing ------------------------------
(***************************************************************************)
(* SpscRing with the combinations of options a run considers.               *)
(***************************************************************************)
EXTENDS SpscRing

Ring(p, n, t, h) == [policy |-> p, notify |-> n, timeouts |-> t, holeyBuffers |-> h]

\* The policies that do not wait, with waits that time out on the side.
NonBlocking == {
    Ring("drop-oldest", "always", TRUE, TRUE),
    Ring("drop-newest", "always", TRUE, FALSE),
    Ring("reject", "waiter-flag", TRUE, FALSE)}

\* Waits without a timeout: only a notify ends them.
Blocking == {
    Ring("block", "waiter-flag", FALSE, FALSE),
    Ring("block", "always", FALSE, FALSE)}

AllRings == NonBlocking \cup Blocking

DrainMayThrow == {Ring("block", "always", FALSE, TRUE)}
===============================================================================
