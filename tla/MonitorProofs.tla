--------------------------- MODULE MonitorProofs ---------------------------
(***************************************************************************)
(* Theorems about RuntimeMonitor and the LLM client inside it, for any     *)
(* number of workers and any model names.                                  *)
(***************************************************************************)
EXTENDS RuntimeMonitor, TLAPS

\* A caller that looks the name up finds it empty.
Unnamed == \A c \in Llm!Callers : stage[c] = "looking" => model = NoModel

\* A probe that ended well, and the state it left, mean that there is a name.
ProbeKnows == stage[Probe] = "named" => model # NoModel
StateKnows == state["llm"] = "ok" => model # NoModel

ClientOK == Llm!TypeOK /\ Llm!LockExact /\ Unnamed /\ ProbeKnows

LoopsOK ==
    /\ loop \in [Loops -> {"sleep", "probing", "maintain", "refresh", "publish",
                           "dead", "cancelled"}]
    /\ pending \subseteq Upstreams
    /\ loop["probe"] = "probing" <=> pending # {} /\ loop["probe"] # "cancelled"
    /\ sample \in [Loops -> BOOLEAN]
    /\ state \in [Upstreams -> {"ok", "down", "not_checked"}]
    /\ storageReady \in BOOLEAN /\ stopping \in BOOLEAN

IInv == ClientOK /\ LoopsOK /\ StateKnows

\* The name is set once.
Fixed == model # NoModel => model' = model

USE MonitorAssumption DEF MonitorAssumption, Llm!ClientAssumption

-----------------------------------------------------------------------------
LEMMA InitHolds == Init => IInv
<1> SUFFICES ASSUME Init PROVE IInv
  OBVIOUS
<1>1. ClientOK
  BY DEF Init, ClientOK, Unnamed, ProbeKnows, Llm!Init, Llm!TypeOK, Llm!LockExact,
         Llm!Callers, Llm!Stages, Llm!Ended
<1>2. state \in [Upstreams -> {"ok", "down", "not_checked"}]
  <2>1. CASE probes
    BY <2>1 DEF Init
  <2>2. CASE ~probes
    BY <2>2 DEF Init
  <2> QED
    BY <2>1, <2>2
<1>3. LoopsOK
  BY <1>2 DEF Init, LoopsOK, Loops
<1> QED
  BY <1>1, <1>3 DEF Init, IInv, StateKnows

\* What the steps of the client keep, whoever takes them.
LEMMA ClientSteps ==
  ASSUME ClientOK, NEW c \in Llm!Callers, Llm!Step(c)
  PROVE  ClientOK' /\ Fixed
<1> USE DEF ClientOK, Fixed, Unnamed, ProbeKnows, Llm!TypeOK, Llm!LockExact, Llm!Callers,
            Llm!Stages, Llm!Ended, Llm!Go
<1>1. CASE c = Probe /\ Llm!HealthAnswers
  BY <1>1 DEF Llm!HealthAnswers, Llm!GetName
<1>2. CASE Llm!Enter(c)
  BY <1>2 DEF Llm!Enter
<1>3. CASE Llm!LookUp(c)
  BY <1>3 DEF Llm!LookUp
<1>4. CASE Llm!GivesUp(c)
  BY <1>4 DEF Llm!GivesUp, Llm!Released
<1>5. CASE Llm!Returns(c)
  BY <1>5 DEF Llm!Returns
<1> QED
  BY <1>1, <1>2, <1>3, <1>4, <1>5 DEF Llm!Step

LEMMA CallsBeginAndEnd ==
  ASSUME ClientOK, NEW c \in Llm!Callers,
         \/ Llm!ConfirmStarts(c) \/ Llm!Cancel(c) \/ Llm!ProbeStarts
         \/ stage' = [stage EXCEPT ![Probe] = "idle"] /\ stage[Probe] \in Llm!Ended
            /\ UNCHANGED <<served, model, holder>>
         \/ UNCHANGED client
         \/ served' \in SUBSET Models /\ UNCHANGED <<model, holder, stage>>
  PROVE  ClientOK' /\ Fixed
<1> USE DEF ClientOK, Fixed, Unnamed, ProbeKnows, Llm!TypeOK, Llm!LockExact, Llm!Callers,
            Llm!Stages, Llm!Ended, Llm!Go
<1>1. CASE Llm!ConfirmStarts(c)
  BY <1>1 DEF Llm!ConfirmStarts, Llm!GetName
<1>2. CASE Llm!Cancel(c)
  BY <1>2 DEF Llm!Cancel, Llm!Released
<1>3. CASE Llm!ProbeStarts
  BY <1>3 DEF Llm!ProbeStarts
<1>4. CASE stage' = [stage EXCEPT ![Probe] = "idle"] /\ stage[Probe] \in Llm!Ended
           /\ UNCHANGED <<served, model, holder>>
  BY <1>4
<1>5. CASE UNCHANGED client
  BY <1>5 DEF client
<1>6. CASE served' \in SUBSET Models /\ UNCHANGED <<model, holder, stage>>
  BY <1>6
<1> QED
  BY <1>1, <1>2, <1>3, <1>4, <1>5, <1>6

-----------------------------------------------------------------------------
\* A step of a loop, and what it does to the states of the upstreams.
LEMMA ProbeWakesKeeps ==
  ASSUME IInv, ProbeWakes PROVE IInv' /\ Fixed
<1>1. ClientOK' /\ Fixed
  BY CallsBeginAndEnd DEF IInv, ProbeWakes, Llm!Callers
<1>2. LoopsOK'
  BY DEF IInv, LoopsOK, ProbeWakes, Go, Loops, Upstreams, env
<1>3. StateKnows'
  BY <1>1 DEF IInv, LoopsOK, StateKnows, Fixed, ProbeWakes, Upstreams, client, Llm!ProbeStarts
<1> QED
  BY <1>1, <1>2, <1>3 DEF IInv

LEMMA ProbeReturnsKeeps ==
  ASSUME IInv, NEW u \in Upstreams, ProbeReturns(u) PROVE IInv' /\ Fixed
<1>1. ClientOK' /\ Fixed
  <2>1. CASE u = "llm"
    BY <2>1, CallsBeginAndEnd DEF IInv, ProbeReturns, Over, Llm!Callers
  <2>2. CASE u # "llm"
    BY <2>2, CallsBeginAndEnd DEF IInv, ProbeReturns, Over, Llm!Callers, client
  <2> QED
    BY <2>1, <2>2
<1>2. LoopsOK'
  <2>1. state' \in [Upstreams -> {"ok", "down", "not_checked"}]
    BY DEF IInv, LoopsOK, ProbeReturns
  <2>2. loop["probe"] = "probing" \/ loop["probe"] = "cancelled"
    BY DEF IInv, LoopsOK, ProbeReturns, Over
  <2>3. CASE pending = {u}
    BY <2>1, <2>3 DEF IInv, LoopsOK, ProbeReturns, Over, Go, Loops
  <2>4. CASE pending # {u}
    BY <2>1, <2>4 DEF IInv, LoopsOK, ProbeReturns, Over, Go, Loops
  <2> QED
    BY <2>3, <2>4
<1>3. StateKnows'
  BY <1>1 DEF IInv, LoopsOK, StateKnows, ClientOK, ProbeKnows, Fixed, ProbeReturns, Over,
              Succeeded, Upstreams
<1> QED
  BY <1>1, <1>2, <1>3 DEF IInv

LEMMA LoopStepsKeep ==
  ASSUME IInv, NEW l \in Loops,
         \/ MaintenanceWakes \/ Maintains \/ Refresh(l) \/ Publish(l) \/ Stop \/ LoopEnds(l)
  PROVE  IInv' /\ Fixed
<1>1. ClientOK' /\ Fixed
  <2>1. UNCHANGED client \/ Llm!Cancel(Probe)
    BY DEF MaintenanceWakes, Maintains, Refresh, Publish, Published, Stop, LoopEnds
  <2> QED
    BY <2>1, CallsBeginAndEnd DEF IInv, Llm!Callers
<1>2. state' = state
  BY DEF MaintenanceWakes, Maintains, Refresh, Publish, Published, Stop, LoopEnds
<1>3. LoopsOK'
  <2> USE DEF IInv, LoopsOK, Go, Loops
  <2>1. CASE MaintenanceWakes
    BY <2>1 DEF MaintenanceWakes
  <2>2. CASE Maintains
    <3>1. sample' \in [Loops -> BOOLEAN]
      BY <2>2 DEF Maintains, Sampled
    <3>2. loop' \in [Loops -> {"sleep", "probing", "maintain", "refresh", "publish",
                              "dead", "cancelled"}] /\ loop'["probe"] = loop["probe"]
      BY <2>2 DEF Maintains, Sampled
    <3> QED
      BY <2>2, <3>1, <3>2 DEF Maintains
  <2>3. CASE Refresh(l)
    BY <2>3 DEF Refresh, Sampled
  <2>4. CASE Publish(l)
    BY <2>4 DEF Publish, Published
  <2>5. CASE Stop
    BY <2>5 DEF Stop
  <2>6. CASE LoopEnds(l)
    BY <2>6 DEF LoopEnds
  <2> QED
    BY <2>1, <2>2, <2>3, <2>4, <2>5, <2>6
<1> QED
  BY <1>1, <1>2, <1>3 DEF IInv, StateKnows, Fixed

LEMMA OthersKeep ==
  ASSUME IInv, NEW c \in Llm!Callers,
         \/ WorkerStep(c) \/ WorkerStarts(c) \/ WorkerCancelled(c) \/ Environment
         \/ UNCHANGED vars
  PROVE  IInv' /\ Fixed
<1>1. ClientOK' /\ Fixed
  BY ClientSteps, CallsBeginAndEnd
     DEF IInv, WorkerStep, WorkerStarts, WorkerCancelled, Environment, vars, client
<1>2. UNCHANGED monitor
  BY DEF WorkerStep, WorkerStarts, WorkerCancelled, Environment, vars, monitor
<1> QED
  BY <1>1, <1>2 DEF IInv, LoopsOK, StateKnows, Fixed, monitor

LEMMA StepKeeps == IInv /\ [Next]_vars => IInv' /\ Fixed
<1> SUFFICES ASSUME IInv, [Next]_vars PROVE IInv' /\ Fixed
  OBVIOUS
<1>1. CASE ProbeLoop
  <2>1. "probe" \in Loops /\ Probe \in Llm!Callers
    BY DEF Loops, Llm!Callers
  <2> QED
    BY <1>1, <2>1, ProbeWakesKeeps, ProbeReturnsKeeps, LoopStepsKeep, OthersKeep DEF ProbeLoop
<1>2. CASE MaintenanceLoop
  <2>1. "maintenance" \in Loops
    BY DEF Loops
  <2> QED
    BY <1>2, <2>1, LoopStepsKeep DEF MaintenanceLoop
<1>3. CASE Workers
  BY <1>3, OthersKeep DEF Workers, Llm!Callers
<1>4. CASE Stop
  BY <1>4, LoopStepsKeep DEF Loops
<1>5. CASE Environment \/ UNCHANGED vars
  BY <1>5, OthersKeep DEF Llm!Callers
<1> QED
  BY <1>1, <1>2, <1>3, <1>4, <1>5 DEF Next

LEMMA AlwaysIInv == Spec => []IInv
  BY InitHolds, StepKeeps, PTL DEF Spec

-----------------------------------------------------------------------------
\* The monitor's and the client's state is well formed; in particular the probe
\* loop waits exactly while a probe is pending.
THEOREM MonitorTypes == Spec => []TypeOK
<1>1. IInv => TypeOK
  BY DEF IInv, ClientOK, LoopsOK, TypeOK
<1> QED
  BY <1>1, AlwaysIInv, PTL

\* Failing answers, timeouts and cancellation always give the client's lock back,
\* and only its holder does.
THEOREM ClientLockIsExact == Spec => []LockExact
<1>1. IInv => LockExact
  BY DEF IInv, ClientOK, LockExact
<1> QED
  BY <1>1, AlwaysIInv, PTL

\* The second test under the lock suffices: whatever /models lists while callers
\* wait, the name is never replaced.
THEOREM NameNeverChanges == Spec => NameIsStable
<1>1. IInv /\ [Next]_vars => [model # NoModel => model' = model]_vars
  BY StepKeeps DEF Fixed
<1> QED
  BY <1>1, AlwaysIInv, PTL DEF Spec, NameIsStable

\* A service that is ready under health checks knows the name of its model.
THEOREM ReadyMeansNamed == Spec => []ReadyIsNamed
<1>1. IInv => ReadyIsNamed
  BY DEF IInv, StateKnows, ReadyIsNamed, Ready, Upstreams
<1> QED
  BY <1>1, AlwaysIInv, PTL

-----------------------------------------------------------------------------
(* The client implements a name that is written once.                      *)

\* How a change of one caller's stage shows.
LEMMA AskMoves ==
  ASSUME ClientOK, NEW c \in Llm!Callers, NEW at, stage' = [stage EXCEPT ![c] = at]
  PROVE  /\ at \in {"health", "queued", "looking"} =>
               Asks' = [Asks EXCEPT ![c] = "asking"]
         /\ at \notin {"health", "queued", "looking"} => Asks' = [Asks EXCEPT ![c] = at]
<1>1. \A b \in Llm!Callers : stage'[b] = IF b = c THEN at ELSE stage[b]
  BY DEF ClientOK, Llm!TypeOK
<1>2. Asks' = [b \in Llm!Callers |->
                 IF b = c
                 THEN IF at \in {"health", "queued", "looking"} THEN "asking" ELSE at
                 ELSE Asks[b]]
  BY <1>1 DEF Asks
<1> QED
  BY <1>2 DEF Asks

LEMMA AskShows ==
  ASSUME NEW c \in Llm!Callers
  PROVE  /\ stage[c] \in {"health", "queued", "looking"} => Asks[c] = "asking"
         /\ stage[c] = "idle" => Asks[c] = "idle"
         /\ stage[c] \in {"health", "queued", "looking"} =>
               Asks = [Asks EXCEPT ![c] = "asking"]
  BY DEF Asks

LEMMA GetNameSimulates ==
  ASSUME ClientOK, NEW c \in Llm!Callers, Llm!GetName(c), stage[c] \in {"idle", "health"}
  PROVE  [Name!Next]_Name!vars
<1> USE DEF Llm!GetName, Llm!Go, Name!Move, Name!Next, Name!vars
<1>1. CASE model = NoModel /\ stage[c] = "idle"
  BY <1>1, AskMoves, AskShows DEF Name!Ask
<1>2. CASE model = NoModel /\ stage[c] = "health"
  BY <1>2, AskMoves, AskShows
<1>3. CASE model # NoModel
  BY <1>3, AskMoves, AskShows DEF Name!Know
<1> QED
  BY <1>1, <1>2, <1>3

LEMMA StepSimulates ==
  ASSUME ClientOK, NEW c \in Llm!Callers, Llm!Step(c)
  PROVE  [Name!Next]_Name!vars
<1> USE DEF Llm!Go, Name!Move, Name!Next, Name!vars
<1>1. CASE c = Probe /\ Llm!HealthAnswers
  BY <1>1, GetNameSimulates DEF Llm!HealthAnswers
<1>2. CASE Llm!Enter(c)
  <2>1. CASE model = NoModel
    BY <1>2, <2>1, AskMoves, AskShows DEF Llm!Enter
  <2>2. CASE model # NoModel
    BY <1>2, <2>2, AskMoves, AskShows DEF Llm!Enter, Name!Know
  <2> QED
    BY <2>1, <2>2
<1>3. CASE Llm!LookUp(c)
  <2>1. Asks[c] = "asking" /\ model = NoModel /\ UNCHANGED served
    BY <1>3, AskShows DEF Llm!LookUp, ClientOK, Unnamed
  <2>2. CASE \E m \in Models : served = {m}
    <3>1. /\ \E m \in Models : served = {m} /\ model' = m
          /\ stage' = [stage EXCEPT ![c] = "named"]
      BY <1>3, <2>2 DEF Llm!LookUp
    <3>2. Asks' = [Asks EXCEPT ![c] = "named"]
      BY <3>1, AskMoves
    <3> QED
      BY <2>1, <2>2, <3>1, <3>2 DEF Name!Learn
  <2>3. CASE ~ \E m \in Models : served = {m}
    <3>1. UNCHANGED model /\ stage' = [stage EXCEPT ![c] = "failed"]
      BY <1>3, <2>3 DEF Llm!LookUp
    <3>2. Asks' = [Asks EXCEPT ![c] = "failed"]
      BY <3>1, AskMoves
    <3> QED
      BY <2>1, <3>1, <3>2 DEF Name!Fail
  <2> QED
    BY <2>2, <2>3
<1>4. CASE Llm!GivesUp(c)
  BY <1>4, AskMoves, AskShows DEF Llm!GivesUp, Name!Fail
<1>5. CASE Llm!Returns(c)
  BY <1>5, AskMoves DEF Llm!Returns, Name!Leave
<1> QED
  BY <1>1, <1>2, <1>3, <1>4, <1>5 DEF Llm!Step

\* The steps of calls that begin, are cancelled or are over, and of the service.
LEMMA OthersSimulate ==
  ASSUME ClientOK, NEW c \in Llm!Callers,
         \/ Llm!ConfirmStarts(c) \/ Llm!Cancel(c) \/ Llm!ProbeStarts
         \/ stage' = [stage EXCEPT ![Probe] = "idle"] /\ UNCHANGED <<served, model>>
         \/ UNCHANGED client
         \/ served' \in SUBSET Models /\ UNCHANGED <<model, holder, stage>>
  PROVE  [Name!Next]_Name!vars
<1> USE DEF Llm!Go, Name!Move, Name!Next, Name!vars
<1>1. Probe \in Llm!Callers
  BY DEF Llm!Callers
<1>2. CASE Llm!ConfirmStarts(c)
  BY <1>2, GetNameSimulates DEF Llm!ConfirmStarts
<1>3. CASE Llm!Cancel(c)
  BY <1>3, AskMoves DEF Llm!Cancel, Name!Leave
<1>4. CASE Llm!ProbeStarts
  BY <1>1, <1>4, AskMoves, AskShows DEF Llm!ProbeStarts, Name!Ask
<1>5. CASE stage' = [stage EXCEPT ![Probe] = "idle"] /\ UNCHANGED <<served, model>>
  BY <1>1, <1>5, AskMoves DEF Name!Leave
<1>6. CASE UNCHANGED client
  BY <1>6 DEF client, Asks
<1>7. CASE served' \in SUBSET Models /\ UNCHANGED <<model, holder, stage>>
  BY <1>7 DEF Name!Serve, Asks
<1> QED
  BY <1>2, <1>3, <1>4, <1>5, <1>6, <1>7

\* Workers and the probe see a name that is written once, from a list of one model:
\* the lock and the second test, failures and cancellation do not show.
THEOREM ClientImplementsName == Spec => ImplementsModelName
<1>1. Init => Name!Init
  BY DEF Init, Llm!Init, Name!Init, Asks
<1>2. ASSUME IInv, [Next]_vars PROVE [Name!Next]_Name!vars
  <2>1. ClientOK /\ Probe \in Llm!Callers /\ \A c \in Confirms : c \in Llm!Callers
    BY <1>2 DEF IInv, Llm!Callers
  <2>2. CASE ProbeLoop
    <3>1. CASE ProbeWakes \/ Refresh("probe") \/ Publish("probe") \/ LoopEnds("probe")
      BY <2>1, <3>1, OthersSimulate
      DEF ProbeWakes, Refresh, Publish, Published, LoopEnds
    <3>2. ASSUME NEW u \in Upstreams, ProbeReturns(u) PROVE [Name!Next]_Name!vars
      BY <2>1, <3>2, OthersSimulate DEF ProbeReturns, Over, client
    <3>3. CASE WorkerStep(Probe)
      BY <2>1, <3>3, StepSimulates DEF WorkerStep
    <3> QED
      BY <2>2, <3>1, <3>2, <3>3 DEF ProbeLoop
  <2>3. CASE MaintenanceLoop \/ Stop \/ UNCHANGED vars
    <3>1. UNCHANGED client
      BY <2>3 DEF MaintenanceLoop, MaintenanceWakes, Maintains, Refresh, Publish,
                  Published, LoopEnds, Stop, vars
    <3> QED
      BY <2>1, <3>1, OthersSimulate
  <2>4. CASE Workers
    BY <2>1, <2>4, StepSimulates, OthersSimulate
    DEF Workers, WorkerStarts, WorkerStep, WorkerCancelled
  <2>5. CASE Environment
    BY <2>1, <2>5, OthersSimulate DEF Environment, client
  <2> QED
    BY <1>2, <2>2, <2>3, <2>4, <2>5 DEF Next
<1> QED
  BY <1>1, <1>2, AlwaysIInv, PTL DEF Spec, ImplementsModelName, Name!Spec
=============================================================================
