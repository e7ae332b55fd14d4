----------------------------- MODULE KernelState ------------------------------
(***************************************************************************)
(* What a compiled kernel remembers from one sample to the next: registers   *)
(* and delay lines.  evalReference is the specification: every value of an   *)
(* iteration is computed from the state before it, then all are committed.   *)
(* The emitted loop, scalar WASM (one lane), voice SIMD (a lane per voice) or  *)
(* the JS fallback, defers the registers but writes the delay lines at once,  *)
(* one after the other, and keeps its state in a slab between the calls.      *)
(*                                                                         *)
(* An expression is the set of its leaves, and Combine is whatever its       *)
(* operation tree makes of their values: the evaluators share the tree and    *)
(* differ in what its leaves read.                                          *)
(***************************************************************************)
EXTENDS Naturals, Sequences

CONSTANTS
    Registers,      \* the names of the state registers
    Buffers,        \* the names of the delay buffers
    Lanes,          \* the voices of one vector
    Values,         \* what a sample or a register holds
    Zero,           \* the value a delay line starts with
    Combine(_),     \* the value of an expression, of its leaves' values
    Kernels,        \* the kernels the grammar admits
    Quanta          \* the trip counts of a call

Load == [kind |-> "load"]
ReadState(r) == [kind |-> "readState", name |-> r]
ReadDelay(b, d) == [kind |-> "readDelay", buffer |-> b, delay |-> d]

\* A readDelay reaches back at most as far as its line is long.
Leaves(length) ==
    {Load} \cup {ReadState(r) : r \in Registers}
           \cup UNION {{ReadDelay(b, d) : d \in 1 .. length[b]} : b \in Buffers}

\* At most one write to a register and to a buffer.
IsKernel(kn) ==
    /\ kn.init \in [Registers -> Values]
    /\ kn.length \in [Buffers -> Nat \ {0}]
    /\ kn.out \in SUBSET Leaves(kn.length)
    /\ kn.next \in [kn.written -> SUBSET Leaves(kn.length)]
    /\ kn.written \subseteq Registers
    /\ kn.writes \in Seq([buffer : Buffers, value : SUBSET Leaves(kn.length)])
    /\ \A j, k \in DOMAIN kn.writes :
           kn.writes[j].buffer = kn.writes[k].buffer => j = k

ASSUME KernelsAssumption == \A kn \in Kernels : IsKernel(kn)
ASSUME QuantaAssumption == Quanta \subseteq Nat

VARIABLES
    kernel,     \* what was compiled
    pc,         \* "idle": between calls; "stores", "writes": in an iteration;
                \* "leave": after the loop
    trip,       \* the iterations the call still has to run, this one included
    k,          \* the next buffer write of the iteration
    input,      \* the sample of each lane at the index the loop is at
    reg,        \* $__st_*: the registers, of each lane
    nextReg,    \* $__next_*: their values to commit
    cur,        \* $__cur_*: the write cursors, one for all lanes
    ring,       \* the delay lines, in the slab
    slabReg,    \* the registers' words of the slab
    slabCursor, \* the cursors' words of the slab
    out,        \* the last sample stored, of each lane
    refReg, refRing, refCursor, refOut  \* evalReference, of each lane

emittedVars == <<pc, trip, k, input, reg, nextReg, cur, ring, slabReg, slabCursor, out>>
refVars == <<refReg, refRing, refCursor, refOut>>
kernelVars == <<kernel, emittedVars, refVars>>

-------------------------------------------------------------------------------
\* (w - d) mod L of a ring of L: the operand of the remainder is in [0, 2L).
Back(w, d, length) == IF d <= w THEN w - d ELSE w + length - d

Ahead(w, length) == IF w + 1 = length THEN 0 ELSE w + 1

LeafValue(leaf, sample, regs, rings, cursors) ==
    CASE leaf.kind = "load" -> sample
      [] leaf.kind = "readState" -> regs[leaf.name]
      [] leaf.kind = "readDelay" ->
            rings[leaf.buffer][Back(cursors[leaf.buffer], leaf.delay,
                                    kernel.length[leaf.buffer])]

Evaluate(expr, sample, regs, rings, cursors) ==
    Combine([leaf \in expr |-> LeafValue(leaf, sample, regs, rings, cursors)])

\* The loop's locals, and its lines, as they are at this statement.
Emitted(lane, expr) == Evaluate(expr, input[lane], reg[lane], ring[lane], cur)

\* The state as evalReference has it: committed at the end of an iteration only.
Reference(lane, expr) ==
    Evaluate(expr, input[lane], refReg[lane], refRing[lane], refCursor[lane])

-------------------------------------------------------------------------------
Silence(kn) == [b \in Buffers |-> [slot \in 0 .. kn.length[b] - 1 |-> Zero]]

\* seedState: lines and cursors are zero, registers have their declared value.
KernelInit ==
    /\ kernel \in Kernels
    /\ pc = "idle" /\ trip = 0 /\ k = 1
    /\ input = [lane \in Lanes |-> Zero]
    /\ slabReg = [lane \in Lanes |-> kernel.init]
    /\ slabCursor = [b \in Buffers |-> 0]
    /\ ring = [lane \in Lanes |-> Silence(kernel)]
    /\ reg = slabReg /\ nextReg = slabReg /\ cur = slabCursor
    /\ out = [lane \in Lanes |-> Zero]
    /\ refReg = slabReg /\ refRing = ring /\ refOut = out
    /\ refCursor = [lane \in Lanes |-> slabCursor]

\* The preamble: registers and cursors are loaded into locals.
Enter ==
    /\ pc = "idle"
    /\ trip' \in Quanta
    /\ input' \in [Lanes -> Values]
    /\ reg' = slabReg /\ cur' = slabCursor
    /\ pc' = IF trip' > 0 THEN "stores" ELSE "leave"
    /\ UNCHANGED <<kernel, k, nextReg, ring, slabReg, slabCursor, out, refVars>>

\* The output stores, and the registers' next values: none of them is read yet.
StoreOutputs ==
    /\ pc = "stores"
    /\ out' = [lane \in Lanes |-> Emitted(lane, kernel.out)]
    /\ nextReg' = [lane \in Lanes |->
                      [r \in Registers |-> IF r \in kernel.written
                                           THEN Emitted(lane, kernel.next[r])
                                           ELSE nextReg[lane][r]]]
    /\ k' = 1 /\ pc' = "writes"
    /\ UNCHANGED <<kernel, trip, input, reg, cur, ring, slabReg, slabCursor, refVars>>

\* One buffer's write, straight into the slot of its cursor.
WriteBuffer ==
    /\ pc = "writes" /\ k <= Len(kernel.writes)
    /\ LET w == kernel.writes[k] IN
       ring' = [lane \in Lanes |->
                   [ring[lane] EXCEPT ![w.buffer][cur[w.buffer]] = Emitted(lane, w.value)]]
    /\ k' = k + 1
    /\ UNCHANGED <<kernel, pc, trip, input, reg, nextReg, cur, slabReg, slabCursor,
                   out, refVars>>

WritesTo(b) == {j \in DOMAIN kernel.writes : kernel.writes[j].buffer = b}

WrittenTo(b) == kernel.writes[CHOOSE j \in WritesTo(b) : TRUE].value

\* An iteration of evalReference: output, next values, then all the commits.
ReferenceIterates ==
    /\ refOut' = [lane \in Lanes |-> Reference(lane, kernel.out)]
    /\ refReg' = [lane \in Lanes |->
                     [r \in Registers |-> IF r \in kernel.written
                                          THEN Reference(lane, kernel.next[r])
                                          ELSE refReg[lane][r]]]
    /\ refRing' = [lane \in Lanes |->
                      [b \in Buffers |->
                          IF WritesTo(b) = {} THEN refRing[lane][b]
                          ELSE [refRing[lane][b] EXCEPT ![refCursor[lane][b]] =
                                   Reference(lane, WrittenTo(b))]]]
    /\ refCursor' = [lane \in Lanes |->
                        [b \in Buffers |-> Ahead(refCursor[lane][b], kernel.length[b])]]

\* The registers are committed, every cursor goes on, and the loop with it;
\* the reference is at the end of the same iteration.
Commit ==
    /\ pc = "writes" /\ k > Len(kernel.writes)
    /\ reg' = [lane \in Lanes |->
                  [r \in Registers |-> IF r \in kernel.written
                                       THEN nextReg[lane][r] ELSE reg[lane][r]]]
    /\ cur' = [b \in Buffers |-> Ahead(cur[b], kernel.length[b])]
    /\ trip' = trip - 1
    /\ ReferenceIterates
    /\ IF trip > 1 THEN input' \in [Lanes -> Values] ELSE UNCHANGED input
    /\ pc' = IF trip > 1 THEN "stores" ELSE "leave"
    /\ UNCHANGED <<kernel, k, nextReg, ring, slabReg, slabCursor, out>>

\* Mutant: the epilogue stores the registers only.
LeaveWithoutCursors ==
    /\ pc = "leave"
    /\ slabReg' = reg
    /\ reg' = [lane \in Lanes |-> [r \in Registers |-> Zero]]
    /\ nextReg' = reg'
    /\ cur' = [b \in Buffers |-> 0]
    /\ pc' = "idle" /\ k' = 1
    /\ UNCHANGED <<kernel, trip, input, ring, slabCursor, out, refVars>>

\* The epilogue: the locals are stored back, and are gone.
Leave ==
    /\ pc = "leave"
    /\ slabReg' = reg /\ slabCursor' = cur
    /\ reg' = [lane \in Lanes |-> [r \in Registers |-> Zero]]
    /\ nextReg' = reg'
    /\ cur' = [b \in Buffers |-> 0]
    /\ pc' = "idle" /\ k' = 1
    /\ UNCHANGED <<kernel, trip, input, ring, out, refVars>>

KernelNext == Enter \/ StoreOutputs \/ WriteBuffer \/ Commit \/ Leave

KernelSpec == KernelInit /\ [][KernelNext]_kernelVars

-------------------------------------------------------------------------------
\* Every local, line and word holds what its place is for.
KernelTypeOK ==
    /\ kernel \in Kernels
    /\ pc \in {"idle", "stores", "writes", "leave"}
    /\ trip \in Nat /\ k \in 1 .. Len(kernel.writes) + 1
    /\ pc = "stores" => trip > 0
    /\ cur \in [Buffers -> Nat] /\ slabCursor \in [Buffers -> Nat]
    /\ \A b \in Buffers : cur[b] < kernel.length[b] /\ slabCursor[b] < kernel.length[b]
    /\ {reg, nextReg, slabReg, refReg} \subseteq [Lanes -> [Registers -> Values]]
    /\ {input, out, refOut} \subseteq [Lanes -> Values]

\* No buffer's value reads, at full length, a line that an earlier write of the
\* iteration has written: that slot, (w - L) mod L, is the slot w of the write.
SafeTaps ==
    \A j, m \in DOMAIN kernel.writes : j < m =>
        ReadDelay(kernel.writes[j].buffer, kernel.length[kernel.writes[j].buffer])
            \notin kernel.writes[m].value

\* The loop, in each lane and over any calls, stores the samples that evalReference
\* computes ("Simultaneity falls out for free", says ir.ts of the delay lines).
EvaluatorsAgree == pc # "writes" => out = refOut

\* They do agree where no line is tapped at full length after its write: for one
\* delay line, for lines that do not feed each other, for shorter taps.
SafeTapsAgree == SafeTaps => EvaluatorsAgree
===============================================================================
