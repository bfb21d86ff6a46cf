------------------------------ MODULE ModelName ------------------------------
(***************************************************************************)
(* What the callers of LLMClient see of its name: nobody waits for anybody *)
(* else, and the name is written once, from a list of exactly one model.   *)
(* LlmClient, as the monitor and the workers drive it, implements this.    *)
(***************************************************************************)
CONSTANTS Models, NoModel, Callers

VARIABLES
    listed,  \* what the service lists
    name,    \* the name, or NoModel
    ask      \* caller -> whether it asks, and how that ended

vars == <<listed, name, ask>>

Init ==
    /\ listed \in SUBSET Models
    /\ name \in Models \cup {NoModel}
    /\ ask = [c \in Callers |-> "idle"]

Move(c, at) == ask' = [ask EXCEPT ![c] = at] /\ UNCHANGED listed

Ask(c) == ask[c] = "idle" /\ Move(c, "asking") /\ UNCHANGED name

Know(c) ==
    /\ ask[c] \in {"idle", "asking"}
    /\ name # NoModel
    /\ Move(c, "named")
    /\ UNCHANGED name

Learn(c) ==
    /\ ask[c] = "asking"
    /\ name = NoModel
    /\ \E m \in Models : listed = {m} /\ name' = m
    /\ Move(c, "named")

Fail(c) == ask[c] = "asking" /\ Move(c, "failed") /\ UNCHANGED name

\* The caller takes the answer, or is cancelled.
Leave(c) == Move(c, "idle") /\ UNCHANGED name

Serve == listed' \in SUBSET Models /\ UNCHANGED <<name, ask>>

Next == Serve \/ \E c \in Callers : Ask(c) \/ Know(c) \/ Learn(c) \/ Fail(c) \/ Leave(c)

Spec == Init /\ [][Next]_vars
=============================================================================
