--------------------------- MODULE RuntimeMonitor ---------------------------
(***************************************************************************)
(* RuntimeMonitor (src/app/monitoring.py): readiness is what two loops     *)
(* last published.  The probe loop asks the upstreams and then samples the *)
(* disk; the maintenance loop samples it after every pass.  Samples are    *)
(* taken in threads and published on the event loop, so one may be         *)
(* published after a newer one of the other loop.  The probe of the LLM goes *)
(* through the client the LLM workers use (LlmClient).  The initial states *)
(* are those start() ends in.                                              *)
(***************************************************************************)
EXTENDS Naturals, FiniteSets

CONSTANTS
    MayVanish,  \* the data directory may become unreachable
    Models, NoModel, Confirms, Probe, NoCaller  \* of LlmClient

Upstreams == {"sam3", "llm"}
Loops == {"probe", "maintenance"}
Disks == {"ok", "full"} \cup (IF MayVanish THEN {"gone"} ELSE {})

VARIABLES
    probes,        \* upstream_health_probes_enabled
    disk, sam3Up,  \* the environment: the disk, and whether SAM3 answers
    served, model, holder, stage,  \* the LLM client and what its service lists
    loop,          \* loop -> the statement its task is suspended in
    pending,       \* the probes that _probe_loop still waits for
    sample,        \* loop -> the ready flag of the status it has sampled
    state,         \* upstream -> ProbeState.status
    storageReady,  \* self.storage_status.ready
    stopping       \* self.stopping

client == <<served, model, holder, stage>>
env == <<probes, disk, sam3Up>>
vars == <<env, client, loop, pending, sample, state, storageReady, stopping>>

Llm == INSTANCE LlmClient

ASSUME MonitorAssumption == MayVanish \in BOOLEAN /\ Llm!ClientAssumption

Init ==
    /\ probes \in BOOLEAN
    /\ disk \in Disks
    /\ sam3Up \in BOOLEAN
    /\ Llm!Init
    /\ loop = [l \in Loops |-> "sleep"]
    /\ pending = {}
    /\ sample = [l \in Loops |-> FALSE]
    /\ state \in IF probes THEN [Upstreams -> {"ok", "down"}]
                 ELSE {[u \in Upstreams |-> "not_checked"]}
    /\ state["llm"] = "ok" => model # NoModel
    /\ storageReady \in BOOLEAN
    /\ stopping = FALSE

-----------------------------------------------------------------------------
Live == ~stopping /\ \A l \in Loops : loop[l] \notin {"dead", "cancelled"}

Ready == Live /\ storageReady /\ (probes => \A u \in Upstreams : state[u] = "ok")

Go(l, at) == loop' = [loop EXCEPT ![l] = at]

\* The sleep of _probe_loop ends: probe_upstreams(), or the disabled branch.
ProbeWakes ==
    /\ ~stopping /\ loop["probe"] = "sleep"
    /\ IF probes
       THEN /\ Go("probe", "probing") /\ Llm!ProbeStarts
            /\ pending' = Upstreams /\ UNCHANGED state
       ELSE /\ Go("probe", "refresh")
            /\ state' = [u \in Upstreams |-> "not_checked"]
            /\ UNCHANGED <<client, pending>>
    /\ UNCHANGED <<env, sample, storageReady, stopping>>

Succeeded(u) == IF u = "sam3" THEN sam3Up ELSE stage[Probe] = "named"

\* The probe of u is over: for the LLM, when the client's call has ended.
Over(u) ==
    /\ ~stopping /\ u \in pending
    /\ IF u = "llm"
       THEN /\ stage[Probe] \in Llm!Ended
            /\ stage' = [stage EXCEPT ![Probe] = "idle"]
       ELSE UNCHANGED stage
    /\ pending' = pending \ {u}
    /\ UNCHANGED <<env, served, model, holder, sample, storageReady, stopping>>

ProbeReturnsFirst(u) ==
    /\ Over(u)
    /\ state' = [state EXCEPT ![u] = IF Succeeded(u) THEN "ok" ELSE "down"]
    /\ Go("probe", "refresh")

ProbeNeverRecovers(u) ==
    /\ Over(u)
    /\ state' = [state EXCEPT ![u] = IF Succeeded(u) /\ @ = "ok" THEN "ok" ELSE "down"]
    /\ IF pending = {u} THEN Go("probe", "refresh") ELSE UNCHANGED loop

\* _probe() succeeds or fails (a timeout is a failure); gather waits for both.
ProbeReturns(u) ==
    /\ Over(u)
    /\ state' = [state EXCEPT ![u] = IF Succeeded(u) THEN "ok" ELSE "down"]
    /\ IF pending = {u} THEN Go("probe", "refresh") ELSE UNCHANGED loop

MaintenanceWakes ==
    /\ ~stopping /\ loop["maintenance"] = "sleep"
    /\ Go("maintenance", "maintain")
    /\ UNCHANGED <<env, client, pending, sample, state, storageReady, stopping>>

Sampled(l) ==
    /\ sample' = [sample EXCEPT ![l] = disk = "ok"]
    /\ Go(l, "publish")

\* maintain() ends with a status, or raises: always when the directory is gone.
Maintains ==
    /\ ~stopping /\ loop["maintenance"] = "maintain"
    /\ \/ disk # "gone" /\ Sampled("maintenance")
       \/ Go("maintenance", "refresh") /\ UNCHANGED sample
    /\ UNCHANGED <<env, client, pending, state, storageReady, stopping>>

\* refresh_storage(): disk_usage() raises when the directory is gone, and nothing
\* catches it: the task of the loop ends.
Refresh(l) ==
    /\ ~stopping /\ loop[l] = "refresh"
    /\ IF disk = "gone" THEN Go(l, "dead") /\ UNCHANGED sample ELSE Sampled(l)
    /\ UNCHANGED <<env, client, pending, state, storageReady, stopping>>

Published(l, ready) ==
    /\ ~stopping /\ loop[l] = "publish"
    /\ storageReady' = ready
    /\ sample' = [sample EXCEPT ![l] = FALSE]
    /\ Go(l, "sleep")
    /\ UNCHANGED <<env, client, pending, state, stopping>>

PublishKeepingReady(l) == Published(l, storageReady \/ sample[l])

Publish(l) == Published(l, sample[l])

Stop ==
    /\ ~stopping
    /\ stopping' = TRUE
    /\ UNCHANGED <<env, client, loop, pending, sample, state, storageReady>>

\* gather() in stop(): a cancelled loop ends wherever it was.
LoopEnds(l) ==
    /\ stopping /\ loop[l] \notin {"dead", "cancelled"}
    /\ Go(l, "cancelled")
    /\ IF l = "probe" THEN Llm!Cancel(Probe) ELSE UNCHANGED client
    /\ UNCHANGED <<env, pending, sample, state, storageReady, stopping>>

monitor == <<loop, pending, sample, state, storageReady, stopping>>

\* A worker inside confirm(); the pools are cancelled after the monitor stopped.
WorkerStep(c) == Llm!Step(c) /\ UNCHANGED <<env, monitor>>
WorkerStarts(c) == Llm!ConfirmStarts(c) /\ UNCHANGED <<env, monitor>>
WorkerCancelled(c) ==
    /\ stopping /\ stage[c] # "idle"
    /\ Llm!Cancel(c)
    /\ UNCHANGED <<env, monitor>>

Environment ==
    /\ \/ disk' \in Disks /\ UNCHANGED <<sam3Up, served>>
       \/ sam3Up' = ~sam3Up /\ UNCHANGED <<disk, served>>
       \/ served' \in SUBSET Models /\ UNCHANGED <<disk, sam3Up>>
    /\ UNCHANGED <<probes, model, holder, stage, monitor>>

ProbeLoop == ProbeWakes \/ (\E u \in Upstreams : ProbeReturns(u)) \/ WorkerStep(Probe)
             \/ Refresh("probe") \/ Publish("probe") \/ LoopEnds("probe")
MaintenanceLoop == MaintenanceWakes \/ Maintains \/ Refresh("maintenance")
                   \/ Publish("maintenance") \/ LoopEnds("maintenance")
Workers == \E c \in Confirms : WorkerStarts(c) \/ WorkerStep(c) \/ WorkerCancelled(c)

Next == ProbeLoop \/ MaintenanceLoop \/ Workers \/ Stop \/ Environment

\* Sleeps end, requests have timeouts, and passes over the directory end.
Spec == /\ Init /\ [][Next]_vars
        /\ WF_vars(ProbeLoop) /\ WF_vars(MaintenanceLoop)
        /\ \A c \in Confirms : WF_vars(WorkerStep(c))

-----------------------------------------------------------------------------
TypeOK ==
    /\ loop \in [Loops -> {"sleep", "probing", "maintain", "refresh", "publish",
                           "dead", "cancelled"}]
    /\ pending \subseteq Upstreams
    /\ loop["probe"] = "probing" <=> pending # {} /\ loop["probe"] # "cancelled"
    /\ sample \in [Loops -> BOOLEAN]
    /\ state \in [Upstreams -> {"ok", "down", "not_checked"}]
    /\ storageReady \in BOOLEAN /\ stopping \in BOOLEAN
    /\ Llm!TypeOK

\* The lock of the client is held by exactly the caller that asks /models: failing
\* answers, timeouts and cancellation all give it back, and none gives up another's.
LockExact == Llm!LockExact

\* README.md, "the current model name is cached": every confirmation of a process
\* names the same model, whatever the service lists while callers wait.
NameIsStable == [][model # NoModel => model' = model]_vars

\* README.md, "the current model name is cached": to its callers the client is one name
\* that is written once; the lock, the second test and each other's answers, timeouts
\* and cancellation do not show.
Asks == [c \in Llm!Callers |->
            IF stage[c] \in {"health", "queued", "looking"} THEN "asking" ELSE stage[c]]

Name == INSTANCE ModelName
    WITH Callers <- Llm!Callers, listed <- served, name <- model, ask <- Asks

ImplementsModelName == Name!Spec

\* A service that is ready under health checks knows its model: no frame it then
\* accepts waits for, or fails on, the look-up of the name.
ReadyIsNamed == Ready /\ probes => model # NoModel

\* A disk that stays full ends in refused uploads for good, whichever loop is the
\* last to publish what it saw.
UnreadyWhenFull == <>[](disk = "full") => <>[]~Ready

Well == /\ disk = "ok" /\ sam3Up /\ served # {} /\ ~stopping
        /\ model # NoModel \/ Cardinality(served) = 1

\* Once disk and upstreams stay well the service becomes ready and stays so.
\* README.md, "readiness continually checks": also after the directory was gone.
ReadyWhenWell == <>[]Well => <>[]Ready
=============================================================================
