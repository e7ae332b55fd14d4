----------------------------- MODULE KernelCache ------------------------------
(***************************************************************************)
(* The cache of characterized kernels.  A stream of tokens is answered from    *)
(* one of three memos, or goes through the gates: a malformed stream is        *)
(* remembered by its text, a kernel that was accepted or rejected by the hash  *)
(* of its body.  The gates look at more than the body: at the signature, which *)
(* is the stream's, and at the options of the call.  They may also throw, and  *)
(* then the call ends where it is: nothing is remembered.                      *)
(***************************************************************************)
EXTENDS Naturals, Sequences

CONSTANTS
    Streams,        \* the token streams that callers ask for
    BodyOf,         \* what a valid stream hashes to: its body, whatever its signature
    Options,        \* gate knobs: tolerance, fast math, export name, acoustic bounds
    Passes,         \* the <<stream, options>> that the gates accept
    Throws,         \* ... and those in which compileIr or acousticGate throws
    NoCall,         \* no entry in a memo
    MaxRuns         \* bound: runs of the gates with one body, between two clears

Calls == Streams \X Options
Bodies == {BodyOf[st] : st \in DOMAIN BodyOf}

ASSUME CacheAssumption ==
    /\ DOMAIN BodyOf \subseteq Streams
    /\ NoCall \notin Calls
    /\ MaxRuns \in Nat

VARIABLES
    store,              \* of each body, the call whose kernel is held
    rejectsByStream,    \* the streams that the grammar refused
    rejectsByHash,      \* of each body, the call whose rejection is held
    gated,              \* history: of each body, the calls whose gates ran, since the last clear
    answer              \* history: the last call and its answer

cacheVars == <<store, rejectsByStream, rejectsByHash, gated, answer>>

CacheInit ==
    /\ store = [b \in Bodies |-> NoCall] /\ rejectsByHash = [b \in Bodies |-> NoCall]
    /\ rejectsByStream = {}
    /\ gated = [b \in Bodies |-> <<>>]
    /\ answer = [status |-> "none"]

\* The answer to a call is what the gates found in the call by.
Answers(st, opts, status, by, cached) ==
    answer' = [stream |-> st, opts |-> opts, status |-> status, by |-> by, cached |-> cached]

Known(b) == store[b] # NoCall \/ rejectsByHash[b] # NoCall

\* The syntax memo, and then the grammar.
AnswerMalformed(st, opts) ==
    /\ st \in rejectsByStream \/ st \notin DOMAIN BodyOf
    /\ rejectsByStream' = rejectsByStream \cup {st}
    /\ Answers(st, opts, "rejected", NoCall, st \in rejectsByStream)
    /\ UNCHANGED <<store, rejectsByHash, gated>>

IsValid(st) == st \notin rejectsByStream /\ st \in DOMAIN BodyOf

\* The body is in the positive store, or among the rejected ones.
AnswerFromMemo(st, opts) ==
    /\ IsValid(st) /\ Known(BodyOf[st])
    /\ LET held == store[BodyOf[st]]
       IN  IF held # NoCall
           THEN Answers(st, opts, "accepted", held, TRUE)
           ELSE Answers(st, opts, "rejected", rejectsByHash[BodyOf[st]], TRUE)
    /\ UNCHANGED <<store, rejectsByStream, rejectsByHash, gated>>

\* No memo knows the body: compileIr and acousticGate run.
EnterGates(st, opts) ==
    /\ IsValid(st) /\ ~Known(BodyOf[st])
    /\ Len(gated[BodyOf[st]]) < MaxRuns
    /\ gated' = [gated EXCEPT ![BodyOf[st]] = Append(@, <<st, opts>>)]

\* They come to a verdict, which is remembered by the body.
RunGates(st, opts) ==
    /\ EnterGates(st, opts)
    /\ <<st, opts>> \notin Throws
    /\ IF <<st, opts>> \in Passes
       THEN /\ store' = [store EXCEPT ![BodyOf[st]] = <<st, opts>>]
            /\ UNCHANGED rejectsByHash
            /\ Answers(st, opts, "accepted", <<st, opts>>, FALSE)
       ELSE /\ rejectsByHash' = [rejectsByHash EXCEPT ![BodyOf[st]] = <<st, opts>>]
            /\ UNCHANGED store
            /\ Answers(st, opts, "rejected", <<st, opts>>, FALSE)
    /\ UNCHANGED rejectsByStream

\* Mutant: what throws is remembered among the rejected bodies.
ThrowIsRejection(st, opts) ==
    /\ EnterGates(st, opts)
    /\ <<st, opts>> \in Throws
    /\ rejectsByHash' = [rejectsByHash EXCEPT ![BodyOf[st]] = <<st, opts>>]
    /\ Answers(st, opts, "threw", <<st, opts>>, FALSE)
    /\ UNCHANGED <<store, rejectsByStream>>

\* They throw: the gate calls the export "kernel", whatever exportName the module was
\* emitted with; a kernel traps; the probe's length is not a power of two; or the
\* bytes to deliver cannot be made.  The exception leaves getOrCompile.
GatesThrow(st, opts) ==
    /\ EnterGates(st, opts)
    /\ <<st, opts>> \in Throws
    /\ Answers(st, opts, "threw", <<st, opts>>, FALSE)
    /\ UNCHANGED <<store, rejectsByStream, rejectsByHash>>

GetOrCompile(st, opts) ==
    \/ AnswerMalformed(st, opts) \/ AnswerFromMemo(st, opts)
    \/ RunGates(st, opts) \/ GatesThrow(st, opts)

Clear ==
    /\ store' = [b \in Bodies |-> NoCall] /\ rejectsByHash' = [b \in Bodies |-> NoCall]
    /\ rejectsByStream' = {}
    /\ gated' = [b \in Bodies |-> <<>>]
    /\ answer' = [status |-> "none"]

CacheNext == Clear \/ \E st \in Streams, opts \in Options : GetOrCompile(st, opts)

CacheSpec == CacheInit /\ [][CacheNext]_cacheVars

-------------------------------------------------------------------------------
IsAnswer == answer.status # "none"
Asked == BodyOf[answer.stream]

\* What the gates find in a call, when they run with it.
Outcome(call) ==
    IF call \in Throws THEN "threw" ELSE IF call \in Passes THEN "accepted" ELSE "rejected"

\* The first verdict stands.  Between two clears the gates come to a verdict about a
\* body once: the runs before it threw, and left nothing behind; and from it on every
\* call for the body, in whatever stream and under whatever options, even ones that the
\* gates would throw under, is answered with that verdict, kernel and all.  A call that
\* throws is the last one whose gates ran.
FirstVerdictStands ==
    /\ \A b \in Bodies : \A i \in 1 .. Len(gated[b]) - 1 : gated[b][i] \in Throws
    /\ IsAnswer =>
          IF answer.stream \in DOMAIN BodyOf
          THEN /\ gated[Asked] # <<>>
               /\ answer.by = gated[Asked][Len(gated[Asked])]
               /\ answer.status = Outcome(answer.by)
               /\ answer.status = "threw" => answer.by = <<answer.stream, answer.opts>>
          ELSE answer.status = "rejected"

\* An answer is what the gates would say to this call.  It is not: the memos do not
\* know the stream and the options that the verdict was reached with.
AnswersAreFresh ==
    IsAnswer /\ answer.stream \in DOMAIN BodyOf =>
        answer.status = Outcome(<<answer.stream, answer.opts>>)
===============================================================================
