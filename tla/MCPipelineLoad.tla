--------------------------- MODULE MCPipelineLoad ---------------------------
(* Pipeline with four frames of four streams: enough of them for an LLM worker *)
(* that is busy, a full LLM queue and both SAM3 workers blocked in put().      *)
EXTENDS Pipeline

CONSTANTS f1, f2, f3, f4, a, b, c, d

MCFrames == {f1, f2, f3, f4}
MCStreams == {a, b, c, d}
MCStreamOf ==
    [f \in MCFrames |-> CASE f = f1 -> a [] f = f2 -> b [] f = f3 -> c [] f = f4 -> d]

Start(at, queued, inSam3, inLlm, counted) ==
    /\ place = at
    /\ sam3Queue = <<>> /\ llmQueue = queued
    /\ sam3Unfinished = inSam3 /\ llmUnfinished = inLlm
    /\ reserved = {} /\ saved = {}
    /\ counts = [n \in Counters |-> IF n \in DOMAIN counted THEN counted[n] ELSE 0]
    /\ accepting = TRUE /\ phase = "serving" /\ timedOut = FALSE

\* From the start, with f4 refused at the door: three frames of three streams.
Quiet ==
    /\ Start([f \in Frames |-> IF f = f4 THEN "rejected" ELSE "client"],
             <<>>, 0, 0, <<>>)
    /\ Gate!Init

\* The backpressure test's state, with one more SAM3 worker: f1 is being
\* confirmed, f2 fills the LLM queue, f3 and f4 are blocked behind it.
Jammed ==
    /\ Start([f \in Frames |-> CASE f = f1 -> "confirming" [] f = f2 -> "llm_queue"
                                 [] OTHER -> "putting"],
             <<f2>>, 2, 2, [accepted |-> 4, sam3_candidates |-> 4, llm_enqueued |-> 2])
    /\ active = Streams
    /\ lastAdmitted = [s \in Streams |-> 0]
    /\ operations = 0 /\ clock = 0

\* Both are states of Spec, so a behaviour from here is the end of one of Spec.
LoadSpec == (Quiet \/ Jammed) /\ [][Next]_vars /\ ShutdownRuns

\* Not an invariant of Spec: TLC refutes it by a behaviour that leads to Jammed.
NeverJammed == ~Jammed
=============================================================================
