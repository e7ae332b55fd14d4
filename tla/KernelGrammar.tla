---------------------------- MODULE KernelGrammar -----------------------------
(***************************************************************************)
(* The token grammar of kernels: stepGrammar, which validates a stream and    *)
(* builds the kernel from it, the two masks a generator is given of the token  *)
(* to write next (its kind, and its operands), and the way back from a kernel  *)
(* to tokens.                                                               *)
(*                                                                         *)
(* An expression on the operand stack is the postfix sequence of its tokens:  *)
(* the same tree as the IR node that the code builds.                        *)
(***************************************************************************)
EXTENDS Integers, SequencesExt

CONSTANTS
    Names,          \* well-formed identifiers
    Malformed,      \* a name that is not one
    Whole,          \* the integers among the numbers that tokens carry
    Fraction,       \* a finite number that is no integer
    Infinite,       \* a number that is not finite
    Alphabet,       \* bound: the tokens that streams are made of,
    MaxTokens       \* and how many of them

ASSUME NumbersAssumption == Whole \subseteq Int /\ Infinite \notin Whole \cup {Fraction}

Numbers == Whole \cup {Fraction, Infinite}
Finite == Whole \cup {Fraction}
Positive == {n \in Whole : n >= 1}
TripCounts == {n \in Whole : n >= 0}

Widths == {"f32", "f64"}
Roles == {"input", "output", "scalar", "length"}
UnaryOps == {"neg"}
BinaryOps == {"add"}

\* What a token may look like, right or wrong.
Tokens ==
    LET AnyName == Names \cup {Malformed} IN
         [t : {"width"}, width : Widths \cup {"f16"}]
    \cup [t : {"param"}, name : AnyName, role : Roles \cup {"state"}]
    \cup [t : {"state"}, name : AnyName, init : Numbers]
    \cup [t : {"stateBuffer"}, name : AnyName, length : Numbers]
    \cup [t : {"bound"}, kind : {"param"}, name : AnyName]
    \cup [t : {"bound"}, kind : {"const"}, value : Numbers]
    \cup [t : {"const"}, value : Numbers]
    \cup [t : {"scalar", "readState", "writeState"}, name : AnyName]
    \cup [t : {"readDelay"}, buffer : AnyName, delay : Numbers]
    \cup [t : {"writeDelay"}, buffer : AnyName]
    \cup [t : {"load", "store"}, array : AnyName, stride : Numbers, intercept : Numbers]
    \cup [t : {"unary"}, op : UnaryOps \cup {"log"}]
    \cup [t : {"binary"}, op : BinaryOps \cup {"pow"}]

ASSUME AlphabetAssumption == Alphabet \subseteq Tokens

Kinds == {"width", "param", "state", "stateBuffer", "bound", "const", "scalar", "load", "store",
          "readState", "writeState", "readDelay", "writeDelay", "unary", "binary"}

OfKind == [kind \in Kinds |-> {tk \in Tokens : tk.t = kind}]

VARIABLE
    s   \* GrammarState: phase, width, the declarations, the bound, the operand
        \* stack, and the kernel's three lists of stores

GrammarStart ==
    [phase |-> "width", width |-> "none", params |-> <<>>, stateDecls |-> <<>>,
     stateBuffers |-> <<>>, bound |-> <<>>, stack |-> <<>>,
     stores |-> <<>>, stateStores |-> <<>>, bufferStores |-> <<>>]

-------------------------------------------------------------------------------
ParamNames(g) == {g.params[i].name : i \in DOMAIN g.params}
StateNames(g) == {g.stateDecls[i].name : i \in DOMAIN g.stateDecls}
BufferNames(g) == {g.stateBuffers[i].name : i \in DOMAIN g.stateBuffers}
NamesByRole(g, role) ==
    {g.params[i].name : i \in {j \in DOMAIN g.params : g.params[j].role = role}}

\* Names are unique over the three name spaces.
Taken(g) == ParamNames(g) \cup StateNames(g) \cup BufferNames(g)
Fresh(g) == Names \ Taken(g)

StateWritten(g) == {g.stateStores[i].name : i \in DOMAIN g.stateStores}
BufWritten(g) == {g.bufferStores[i].buffer : i \in DOMAIN g.bufferStores}

\* The delays that are as long as a buffer of that name at most.
Delays(g, buffer) ==
    {d \in Positive : \E i \in DOMAIN g.stateBuffers :
        g.stateBuffers[i].name = buffer /\ d <= g.stateBuffers[i].length}

IsAffine(g, tk) ==
    /\ tk.array \in Names \cap ParamNames(g)
    /\ tk.stride \in Whole /\ tk.intercept \in Whole

-------------------------------------------------------------------------------
\* stepGrammar, its verdict: the token may follow the prefix that has led to g.
AcceptsDeclaration(g, tk) ==
    \/ tk.t = "param" /\ tk.name \in Fresh(g) /\ tk.role \in Roles
    \/ tk.t = "state" /\ tk.name \in Fresh(g) /\ tk.init \in Finite
    \/ tk.t = "stateBuffer" /\ tk.name \in Fresh(g) /\ tk.length \in Positive
    \/ tk.t = "bound" /\ tk.kind = "param" /\ tk.name \in ParamNames(g)
    \/ tk.t = "bound" /\ tk.kind = "const" /\ tk.value \in TripCounts

AcceptsValue(g, tk) ==
    \/ tk.t = "const"
    \/ tk.t = "scalar" /\ tk.name \in ParamNames(g)
    \/ tk.t = "load" /\ IsAffine(g, tk)
    \/ tk.t = "readState" /\ tk.name \in StateNames(g)
    \/ tk.t = "readDelay" /\ tk.buffer \in BufferNames(g) /\ tk.delay \in Delays(g, tk.buffer)

AcceptsOperation(g, tk) ==
    \/ tk.t = "unary" /\ tk.op \in UnaryOps /\ Len(g.stack) >= 1
    \/ tk.t = "binary" /\ tk.op \in BinaryOps /\ Len(g.stack) >= 2

AcceptsWrite(g, tk) ==
    /\ Len(g.stack) = 1
    /\ \/ tk.t = "store" /\ IsAffine(g, tk)
       \/ tk.t = "writeState" /\ tk.name \in StateNames(g) \ StateWritten(g)
       \/ tk.t = "writeDelay" /\ tk.buffer \in BufferNames(g) \ BufWritten(g)

Accepts(g, tk) ==
    \/ g.phase = "width" /\ tk.t = "width" /\ tk.width \in Widths
    \/ g.phase = "params" /\ AcceptsDeclaration(g, tk)
    \/ g.phase = "body" /\ (AcceptsValue(g, tk) \/ AcceptsOperation(g, tk) \/ AcceptsWrite(g, tk))

\* stepGrammar, what it builds; nothing follows a token that it refused.
Top(g) == g.stack[Len(g.stack)]

After(g, tk) ==
    CASE ~Accepts(g, tk) -> [g EXCEPT !.phase = "failed"]
      [] tk.t = "width" -> [g EXCEPT !.width = tk.width, !.phase = "params"]
      [] tk.t = "param" -> [g EXCEPT !.params = Append(@, tk)]
      [] tk.t = "state" -> [g EXCEPT !.stateDecls = Append(@, tk)]
      [] tk.t = "stateBuffer" -> [g EXCEPT !.stateBuffers = Append(@, tk)]
      [] tk.t = "bound" -> [g EXCEPT !.bound = <<tk>>, !.phase = "body"]
      [] tk.t = "unary" -> [g EXCEPT !.stack = Append(Front(@), Append(Top(g), tk))]
      [] tk.t = "binary" ->
            [g EXCEPT !.stack = Append(Front(Front(@)),
                                       Append(@[Len(@) - 1] \o Top(g), tk))]
      [] tk.t = "store" ->
            [g EXCEPT !.stack = Front(@), !.stores = Append(@, [to |-> tk, value |-> Top(g)])]
      [] tk.t = "writeState" ->
            [g EXCEPT !.stack = Front(@),
                      !.stateStores = Append(@, [name |-> tk.name, to |-> tk, value |-> Top(g)])]
      [] tk.t = "writeDelay" ->
            [g EXCEPT !.stack = Front(@),
                      !.bufferStores = Append(@, [buffer |-> tk.buffer, to |-> tk,
                                                  value |-> Top(g)])]
      [] OTHER -> [g EXCEPT !.stack = Append(@, <<tk>>)]

Walk(g, tokens) == FoldLeft(After, g, tokens)

\* finalizeGrammar: the prefix is a kernel.
IsAccepting(g) == g.phase = "body" /\ g.stack = <<>> /\ g.stores # <<>>

Declarations(g) == g.params \o g.stateDecls \o g.stateBuffers

\* kernelToTokens: declarations by kind, the bound, and then each list of stores.
KernelToTokens(g) ==
    LET Statements(stores) == FlattenSeq([i \in DOMAIN stores |->
                                             Append(stores[i].value, stores[i].to)])
    IN  <<[t |-> "width", width |-> g.width]>> \o Declarations(g) \o g.bound
            \o Statements(g.stores) \o Statements(g.stateStores)
            \o Statements(g.bufferStores)

-------------------------------------------------------------------------------
\* Mutant: a statement may end with more than its one value on the stack.
WriteKindsAtAnyDepth(g) ==
    IF Len(g.stack) >= 1 THEN {"store", "writeState", "writeDelay"} ELSE {}

WriteKinds(g) == IF Len(g.stack) = 1 THEN {"store", "writeState", "writeDelay"} ELSE {}

\* legalNextTokens: the kinds of token that the mask lets through.
LegalKinds(g) ==
    CASE g.phase = "width" -> {"width"}
      [] g.phase = "params" -> {"param", "state", "stateBuffer", "bound"}
      [] g.phase = "body" ->
              {"const", "scalar", "load", "readState", "readDelay"}
         \cup (IF Len(g.stack) >= 1 THEN {"unary"} ELSE {})
         \cup (IF Len(g.stack) >= 2 THEN {"binary"} ELSE {})
         \cup WriteKinds(g)
      [] OTHER -> {}

\* legalNextOperands: the operands that it offers with a kind.
LegalOperands(g, tk) ==
    LET Array(role) == /\ tk.array \in NamesByRole(g, role)
                       /\ tk.stride \in Whole /\ tk.intercept \in Whole
    IN  \/ tk.t = "width" /\ tk.width \in Widths
        \/ tk.t = "param" /\ tk.role \in Roles /\ tk.name \in Fresh(g)
        \/ tk.t = "state" /\ tk.name \in Fresh(g) /\ tk.init \in Finite
        \/ tk.t = "stateBuffer" /\ tk.name \in Fresh(g) /\ tk.length \in Positive
        \/ tk.t = "bound" /\ tk.kind = "param" /\ tk.name \in NamesByRole(g, "length")
        \/ tk.t = "bound" /\ tk.kind = "const" /\ tk.value \in TripCounts
        \/ tk.t = "load" /\ Array("input")
        \/ tk.t = "store" /\ Array("output")
        \/ tk.t = "scalar" /\ tk.name \in NamesByRole(g, "scalar")
        \/ tk.t = "const" /\ tk.value \in Finite
        \/ tk.t = "unary" /\ tk.op \in UnaryOps
        \/ tk.t = "binary" /\ tk.op \in BinaryOps
        \/ tk.t = "readState" /\ tk.name \in StateNames(g)
        \/ tk.t = "writeState" /\ tk.name \in StateNames(g) \ StateWritten(g)
        \/ tk.t = "readDelay" /\ tk.buffer \in BufferNames(g)
                              /\ tk.delay \in Delays(g, tk.buffer)
        \/ tk.t = "writeDelay" /\ tk.buffer \in BufferNames(g) \ BufWritten(g)

-------------------------------------------------------------------------------
\* How many tokens have led to the state.
Length(g) == (IF g.phase = "width" THEN 0 ELSE Len(KernelToTokens(g))) + Len(FlattenSeq(g.stack))

GrammarInit == s = GrammarStart

\* Any token that the validator accepts: by hand, or from a masked generator.
Write(tk) ==
    /\ Accepts(s, tk)
    /\ s' = After(s, tk)

GrammarNext == Length(s) < MaxTokens /\ \E tk \in Alphabet : Write(tk)

GrammarSpec == GrammarInit /\ [][GrammarNext]_s

-------------------------------------------------------------------------------
\* The masks and the validator cannot disagree: whatever prefix was accepted, each
\* token that both masks let through is one that stepGrammar accepts.
MaskIsSound ==
    \A kind \in LegalKinds(s) : \A tk \in OfKind[kind] : LegalOperands(s, tk) => Accepts(s, tk)

\* A kernel's tokens are valid and build the same kernel again, in whatever order
\* its own stream declared and stored (a cached kernel keeps only these tokens).
CanonicalFormIsKernel ==
    IsAccepting(s) => Walk(GrammarStart, KernelToTokens(s)) = s
===============================================================================
