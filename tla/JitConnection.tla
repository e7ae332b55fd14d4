---------------------------- MODULE JitConnection -----------------------------
(***************************************************************************)
(* connectJit.ts: the main thread asks a compile worker for a kernel and    *)
(* hands what comes back to the worklet of JitKernelConsumer.  Requests and *)
(* messages to the worklet travel in order; answers do not, because         *)
(* runJitCompile awaits WebAssembly.compile for an accepted kernel only.    *)
(* A kernel is named after the request it answers.                          *)
(***************************************************************************)
EXTENDS JitKernelConsumer, Sequences, SequencesExt

CONSTANTS
    Transports,     \* the ForwardOptions considered
    MaxPosted       \* bound: messages at the worklet when forceJs() is called

ASSUME ConnectionAssumption ==
    /\ Transports \subseteq {"bytes", "module"}
    /\ MaxPosted \in Nat

VARIABLES
    bound,          \* is the worker's onmessage ours?
    transport,      \* of the binding
    requests,       \* posted to the worker, oldest first
    compiling,      \* gate passed, WebAssembly.compile awaited
    answers,        \* posted by the worker, in no order
    port,           \* posted to the worklet, oldest first
    asked,          \* history: kernels requested so far
    gone            \* history: kernels that will not be heard any more

connectionVars == <<bound, transport, requests, compiling, answers, port>>
fates == <<asked, gone>>
allJitVars == <<consumerVars, connectionVars, fates>>

\* A message is a record so that a kernel and the other messages compare.
InstallOf(k, by) == [type |-> "install", kernel |-> k, by |-> by]
ForceMsg == [type |-> "force-js", kernel |-> None, by |-> None]
FallbackMsg == [type |-> "fallback", kernel |-> None, by |-> None]
Accepted(k) == [kernel |-> k, accepted |-> TRUE]
Rejected(k) == [kernel |-> k, accepted |-> FALSE]

ConnectionInit ==
    /\ JitInit
    /\ bound = FALSE /\ transport \in Transports
    /\ requests = <<>> /\ compiling = {} /\ answers = {} /\ port = <<>>
    /\ asked = {} /\ gone = {}

-------------------------------------------------------------------------------
(* The main thread *)

Bind(t) ==
    /\ bound' = TRUE /\ transport' = t
    /\ UNCHANGED <<consumerVars, requests, compiling, answers, port, fates>>

RequestCompile(k) ==
    /\ bound /\ k \notin asked
    /\ requests' = Append(requests, k)
    /\ asked' = asked \cup {k}
    /\ UNCHANGED <<consumerVars, bound, transport, compiling, answers, port, gone>>

PostForceJs ==
    /\ bound /\ Len(port) < MaxPosted
    /\ port' = Append(port, ForceMsg)
    /\ UNCHANGED <<consumerVars, bound, transport, requests, compiling, answers, fates>>

\* dispose(): what the worker posts from now on finds no handler.
Dispose ==
    /\ bound' = FALSE
    /\ UNCHANGED <<consumerVars, transport, requests, compiling, answers, port, fates>>

\* What onmessage posts to the worklet for an answer.
Forwarded(a) == IF a.accepted THEN InstallOf(a.kernel, transport) ELSE FallbackMsg

OnMessage(a) ==
    /\ a \in answers
    /\ answers' = answers \ {a}
    /\ port' = IF bound THEN Append(port, Forwarded(a)) ELSE port
    /\ gone' = IF bound /\ a.accepted THEN gone ELSE gone \cup {a.kernel}
    /\ UNCHANGED <<consumerVars, bound, transport, requests, compiling, asked>>

-------------------------------------------------------------------------------
(* The compile worker *)

\* runJitCompile up to its await: the gates give a verdict.  If it throws, the worker's
\* script answers with a fallback (examples/jit-vectorize/worker.js), as for a rejection.
Compile(accepted) ==
    /\ requests # <<>>
    /\ requests' = Tail(requests)
    /\ IF accepted
       THEN /\ compiling' = compiling \cup {Head(requests)}
            /\ UNCHANGED answers
       ELSE /\ answers' = answers \cup {Rejected(Head(requests))}
            /\ UNCHANGED compiling
    /\ UNCHANGED <<consumerVars, bound, transport, port, fates>>

\* ... and from it on.  A failed compile still ships the bytes.
Compiled(k) ==
    /\ k \in compiling
    /\ compiling' = compiling \ {k}
    /\ answers' = answers \cup {Accepted(k)}
    /\ UNCHANGED <<consumerVars, bound, transport, requests, port, fates>>

-------------------------------------------------------------------------------
(* The worklet *)

Posted(type) == port # <<>> /\ Head(port).type = type

\* handleJitInstallMessage: an install that is accepted displaces one under way ...
HandleInstall(k) ==
    /\ Posted("install") /\ Head(port).kernel = k
    /\ port' = Tail(port)
    /\ Install(k)
    /\ gone' = gone \cup ({incoming} \ {None})
    /\ UNCHANGED <<bound, transport, requests, compiling, answers, asked>>

\* ... one that is refused, or a Module that did not survive the port, changes nothing.
DropInstall(k) ==
    /\ Posted("install") /\ Head(port).kernel = k
    /\ Refuses(k) \/ Head(port).by = "module"
    /\ port' = Tail(port)
    /\ gone' = gone \cup {k}
    /\ UNCHANGED <<consumerVars, bound, transport, requests, compiling, answers, asked>>

HandleForceJs ==
    /\ Posted("force-js")
    /\ port' = Tail(port)
    /\ ForceJs
    /\ gone' = gone \cup ({current, incoming} \ {Js, None})
    /\ UNCHANGED <<bound, transport, requests, compiling, answers, asked>>

HandleFallback ==
    /\ Posted("fallback")
    /\ port' = Tail(port)
    /\ UNCHANGED <<consumerVars, bound, transport, requests, compiling, answers, fates>>

\* A kernel the fade left behind, or an abort dropped, is gone.
Render(d) ==
    /\ Process(d)
    /\ gone' = gone \cup ({current, incoming} \ {current', incoming', Js, None})
    /\ UNCHANGED <<connectionVars, asked>>

-------------------------------------------------------------------------------

WorkerStep ==
    \/ \E accepted \in BOOLEAN : Compile(accepted)
    \/ \E k \in Kernels : Compiled(k)

Answered == \E a \in answers : OnMessage(a)

WorkletMessage ==
    \/ \E k \in Kernels : HandleInstall(k) \/ DropInstall(k)
    \/ HandleForceJs \/ HandleFallback

ConnectionNext ==
    \/ \E t \in Transports : Bind(t)
    \/ \E k \in Kernels : RequestCompile(k)
    \/ PostForceJs \/ Dispose
    \/ Answered \/ WorkerStep \/ WorkletMessage
    \/ \E d \in 0 .. MaxGap : Render(d)

\* The worker works its inbox off and its compilations settle, event loops deliver,
\* and the audio thread renders for ever on a clock that moves.
ConnectionFairness ==
    /\ WF_allJitVars(WorkerStep)
    /\ WF_allJitVars(Answered)
    /\ WF_allJitVars(WorkletMessage)
    /\ WF_allJitVars(Render(1))

ConnectionSpec ==
    ConnectionInit /\ [][ConnectionNext]_allJitVars /\ ConnectionFairness

-------------------------------------------------------------------------------
(* Correctness *)

\* What was dropped stays silent: a kernel that a force-js overtook, that a later
\* install displaced, whose answer came after dispose() or whose message was lost is
\* never played again, however its messages were reordered.
GoneIsSilent == gone \cap {current, incoming} = {}

\* A kernel that is asked for is played in full, or is one of those that are gone:
\* no request is left behind by the worker, the main thread or the worklet.
RequestIsSettled ==
    \A k \in Kernels : k \in asked ~> (current = k \/ k \in gone)
===============================================================================
