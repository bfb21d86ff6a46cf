----------------------------- MODULE LlmClient -----------------------------
(***************************************************************************)
(* LLMClient (src/app/clients.py): the model name, asked for once and then *)
(* cached, under a double-checked asyncio lock that confirmations of       *)
(* frames share with the health probe.  Every caller has its own timeout.  *)
(***************************************************************************)
CONSTANTS
    Models,    \* names the LLM service may list
    NoModel,   \* self.model is empty
    Confirms,  \* the LLM workers, each in at most one confirm()
    Probe,     \* the probe loop
    NoCaller   \* the lock is free

Callers == Confirms \cup {Probe}

\* Assumed where the client is instantiated.
ClientAssumption ==
    NoModel \notin Models /\ Probe \notin Confirms /\ NoCaller \notin Callers

VARIABLES
    served,  \* the environment: what /models lists; nothing answers while it is {}
    model,   \* self.model
    holder,  \* self.model_lock: the caller that holds it, or NoCaller
    stage    \* caller -> the await it is suspended in, or how the call ended

vars == <<served, model, holder, stage>>

Ended == {"named", "failed"}
Stages == {"idle", "health", "queued", "looking"} \cup Ended

\* LLM_MODEL names the model, or is empty.
Init ==
    /\ served \in SUBSET Models
    /\ model \in Models \cup {NoModel}
    /\ holder = NoCaller
    /\ stage = [c \in Callers |-> "idle"]

-----------------------------------------------------------------------------
Go(c, at) == stage' = [stage EXCEPT ![c] = at]

\* The first test of _model_name().
GetName(c) ==
    /\ Go(c, IF model = NoModel THEN "queued" ELSE "named")
    /\ UNCHANGED <<served, model, holder>>

ProbeStarts == stage[Probe] = "idle" /\ Go(Probe, "health")
               /\ UNCHANGED <<served, model, holder>>

HealthAnswersOnly == /\ stage[Probe] = "health" /\ served # {} /\ Go(Probe, "named")
                     /\ UNCHANGED <<served, model, holder>>

HealthAnswers == stage[Probe] = "health" /\ served # {} /\ GetName(Probe)
ConfirmStarts(c) == c \in Confirms /\ stage[c] = "idle" /\ GetName(c)

EnterUnchecked(c) ==
    /\ stage[c] = "queued" /\ holder = NoCaller
    /\ holder' = c /\ Go(c, "looking")
    /\ UNCHANGED <<served, model>>

\* The lock is got; the second test gives it up when another caller was faster.
Enter(c) ==
    /\ stage[c] = "queued" /\ holder = NoCaller
    /\ IF model = NoModel
       THEN holder' = c /\ Go(c, "looking")
       ELSE UNCHANGED holder /\ Go(c, "named")
    /\ UNCHANGED <<served, model>>

\* /models answers: only a list of exactly one model names it.
LookUp(c) ==
    /\ stage[c] = "looking" /\ served # {}
    /\ \/ \E m \in Models : served = {m} /\ model' = m /\ Go(c, "named")
       \/ (\A m \in Models : served # {m}) /\ UNCHANGED model /\ Go(c, "failed")
    /\ holder' = NoCaller
    /\ UNCHANGED served

Released(c) == IF holder = c THEN NoCaller ELSE holder

GivesUpKeepingLock(c) ==
    /\ \/ stage[c] \in {"health", "looking"} /\ served = {}
       \/ stage[c] = "queued" /\ holder # NoCaller
    /\ Go(c, "failed")
    /\ UNCHANGED <<served, model, holder>>

\* A request fails or times out, or the timeout ends the wait for the lock.
GivesUp(c) ==
    /\ \/ stage[c] \in {"health", "looking"} /\ served = {}
       \/ stage[c] = "queued" /\ holder # NoCaller
    /\ Go(c, "failed")
    /\ holder' = Released(c)
    /\ UNCHANGED <<served, model>>

\* The task of the caller is cancelled at the await it is in.
Cancel(c) == Go(c, "idle") /\ holder' = Released(c) /\ UNCHANGED <<served, model>>

\* confirm() goes on to the chat completion, or raises: Pipeline has both.
Returns(c) ==
    /\ c \in Confirms /\ stage[c] \in Ended
    /\ Go(c, "idle")
    /\ UNCHANGED <<served, model, holder>>

Step(c) == \/ c = Probe /\ HealthAnswers
           \/ Enter(c) \/ LookUp(c) \/ GivesUp(c) \/ Returns(c)

-----------------------------------------------------------------------------
TypeOK ==
    /\ served \subseteq Models
    /\ model \in Models \cup {NoModel}
    /\ holder \in Callers \cup {NoCaller}
    /\ stage \in [Callers -> Stages]
    /\ \A c \in Confirms : stage[c] # "health"

LockExact == \A c \in Callers : stage[c] = "looking" <=> holder = c
=============================================================================
