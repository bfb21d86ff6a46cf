----------------------------- MODULE MCPipeline -----------------------------
(* Pipeline with three frames of two streams, two of them of the same one. *)
EXTENDS Pipeline

CONSTANTS f1, f2, f3, a, b

MCFrames == {f1, f2, f3}
MCStreams == {a, b}
MCStreamOf == [f \in MCFrames |-> IF f = f3 THEN b ELSE a]
=============================================================================
