------------------------------- MODULE MCKernels -------------------------------
(***************************************************************************)
(* The compiler of kernels in three parts that share nothing but what a kernel *)
(* is: the grammar that admits it, the cache that remembers the gates' verdict, *)
(* and the state it keeps.  A behaviour is one part's.                        *)
(***************************************************************************)
EXTENDS KernelState, KernelGrammar, KernelCache, Functions

VARIABLE part

kernelsVars == <<part, kernelVars, s, cacheVars>>

\* Sums of samples, modulo two.
MCCombine(values) == FoldFunction(LAMBDA a, b : (a + b) % 2, 0, values)

\* One register, a line of two and a line of one, which may feed each other: tapped
\* at full length after and before its write, tapped shorter, and fed back to itself.
MCWrites ==
    LET p(value) == [buffer |-> "p", value |-> value]
        q(value) == [buffer |-> "q", value |-> value]
    IN  { <<p({Load}), q({ReadDelay("p", 2)})>>, <<p({Load}), q({ReadDelay("p", 1)})>>,
          <<q({ReadDelay("p", 2)}), p({Load})>>, <<p({Load, ReadDelay("p", 2)})>>,
          <<q({Load}), p({ReadState("r"), ReadDelay("q", 1)})>>,
          <<p({ReadState("r"), Load})>> }

MCKernelSet ==
    LET Of(tapped, next, writes) ==
            [init |-> [r \in {"r"} |-> 1],
             length |-> [b \in {"p", "q"} |-> IF b = "p" THEN 2 ELSE 1],
             out |-> tapped, written |-> {"r"},
             next |-> [r \in {"r"} |-> next], writes |-> writes]
    IN  {Of({ReadDelay("p", 2)}, {Load}, writes) : writes \in MCWrites}
            \cup {Of({ReadDelay("q", 1), ReadState("r")}, {ReadDelay("p", 1)}, writes) :
                  writes \in MCWrites}

\* Three names, one of them for a parameter and a register, one for a register and
\* a line: what is declared first takes it.
MCAlphabet ==
    LET Param(n, r) == [t |-> "param", name |-> n, role |-> r]
        Named(t, n) == [t |-> t, name |-> n]
        Access(t, n) == [t |-> t, array |-> n, stride |-> 1, intercept |-> 1]
    IN  { [t |-> "width", width |-> "f32"],
          Param("x", "output"), Param("x", "length"), Param("y", "input"), Param("y", "scalar"),
          [t |-> "state", name |-> "y", init |-> 1], [t |-> "state", name |-> "z", init |-> 1],
          [t |-> "stateBuffer", name |-> "z", length |-> 2],
          [t |-> "bound", kind |-> "param", name |-> "x"],
          [t |-> "bound", kind |-> "const", value |-> 1],
          [t |-> "const", value |-> 1], Named("scalar", "y"),
          Access("load", "y"), Access("store", "x"),
          Named("readState", "y"), Named("readState", "z"),
          Named("writeState", "y"), Named("writeState", "z"),
          [t |-> "readDelay", buffer |-> "z", delay |-> 2], [t |-> "writeDelay", buffer |-> "z"],
          [t |-> "unary", op |-> "neg"], [t |-> "binary", op |-> "add"] }

\* Streams a and b are one body with two signatures; e is malformed.
MCBodyOf == [st \in {"a", "b", "c", "d"} |-> IF st \in {"a", "b"} THEN 1
                                             ELSE IF st = "c" THEN 2 ELSE 3]

\* Fast math lets more pass, and the corpus is made from the signature: a passes always,
\* b and c with fast math only, d never.
MCPasses == ({"a", "b", "c"} \X {"fast"}) \cup {<<"a", "strict">>}

\* Under another export name the gate throws; d is out of the subset, and refused before.
MCThrows == {"a", "b", "c"} \X {"renamed"}

KernelsInit ==
    /\ part \in {"state", "grammar", "cache"}
    /\ KernelInit /\ GrammarInit /\ CacheInit
    /\ part # "state" => kernel = CHOOSE kn \in Kernels : TRUE

KernelsNext ==
    /\ \/ part = "state" /\ KernelNext /\ UNCHANGED <<s, cacheVars>>
       \/ part = "grammar" /\ GrammarNext /\ UNCHANGED <<kernelVars, cacheVars>>
       \/ part = "cache" /\ CacheNext /\ UNCHANGED <<kernelVars, s>>
    /\ UNCHANGED part

KernelsSpec == KernelsInit /\ [][KernelsNext]_kernelsVars
===============================================================================
