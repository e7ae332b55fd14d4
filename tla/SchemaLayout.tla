----------------------------- MODULE SchemaLayout -----------------------------
(***************************************************************************)
(* schema.ts: where the fields of a frame lie, and what two threads compare  *)
(* to find out whether they have the same schema (connect.ts, and with the   *)
(* same text the other topologies).                                        *)
(*                                                                         *)
(* One kind stands for each width and two for four bytes.  A schema has its  *)
(* fields in the order they are declared, says which of them is its time      *)
(* stamp, and may add an invariant.  The length of a scalar is 0.            *)
(***************************************************************************)
EXTENDS Integers, Sequences, FiniteSets

KindBytes == [f64 |-> 8, f32 |-> 4, u32 |-> 4, u16 |-> 2, u8 |-> 1]

Bytes(f) == KindBytes[f.kind] * (IF f.length = 0 THEN 1 ELSE f.length)

RoundUp8(n) == ((n + 7) \div 8) * 8

\* What defineSchema takes: every field has a name of its own.
IsSchema(schema) ==
    /\ schema.fields \in Seq([name : STRING, kind : DOMAIN KindBytes, length : Nat,
                              circular : BOOLEAN])
    /\ \A i, j \in DOMAIN schema.fields :
           schema.fields[i].name = schema.fields[j].name => i = j
    /\ schema.invariant \in BOOLEAN

\* compileLayout sorts wide fields first, those of one width as declared: each is
\* aligned without padding.
Precedes(fields, j, i) ==
    LET width(k) == KindBytes[fields[k].kind]
    IN  width(j) > width(i) \/ (width(j) = width(i) /\ j < i)

\* The bytes of the fields at the places in S.
BytesAt(fields, S) ==
    LET upTo[n \in 0 .. Len(fields)] ==
            IF n = 0 THEN 0 ELSE upTo[n - 1] + (IF n \in S THEN Bytes(fields[n]) ELSE 0)
    IN  upTo[Len(fields)]

\* compileLayout and describeSchemaLayout: the description that is posted.
Layout(schema) ==
    LET fields == schema.fields
        before(i) == {j \in DOMAIN fields : Precedes(fields, j, i)}
        userEnd == RoundUp8(BytesAt(fields, DOMAIN fields))
    IN  [fields |-> {[name |-> fields[i].name, kind |-> fields[i].kind,
                      length |-> fields[i].length, circular |-> fields[i].circular,
                      byteOffset |-> BytesAt(fields, before(i))] : i \in DOMAIN fields},
         stamp |-> {<<Cardinality(before(i)) + 1, BytesAt(fields, before(i))>> :
                       i \in {j \in DOMAIN fields : fields[j].name = schema.stamp}},
         invariantByteOffset |-> IF schema.invariant THEN userEnd ELSE -1,
         frameByteSize |-> userEnd + (IF schema.invariant THEN 8 ELSE 0)]

\* Mutant: frames of the same size are taken to be the same.
SameSize(local, handle) == local.frameByteSize = handle.frameByteSize

\* assertLayoutMatches, after the frame sizes: everything but whether a field is
\* circular.
LayoutMatches(local, handle) ==
    LET compared(layout) == {[f EXCEPT !.circular = FALSE] : f \in layout.fields}
    IN  /\ local.frameByteSize = handle.frameByteSize
        /\ local.invariantByteOffset = handle.invariantByteOffset
        /\ local.stamp = handle.stamp
        /\ compared(local) = compared(handle)

\* audioFramesPerSlot: the samples of a block, 0 unless there is one array.
BlockSamples(schema) ==
    LET arrays == SelectSeq(schema.fields, LAMBDA f : f.length # 0)
    IN  IF Len(arrays) = 1 THEN arrays[1].length ELSE 0
===============================================================================
