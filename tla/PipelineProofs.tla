--------------------------- MODULE PipelineProofs ---------------------------
(***************************************************************************)
(* Proofs about Pipeline for any frames, streams, queue and pool sizes.    *)
(* Every step moves at most one frame, and Shift says what goes with a     *)
(* move: the gate's slots, the unfinished counters and the reservations    *)
(* change exactly when the frame enters or leaves the places they stand    *)
(* for.  The invariants follow from Shift alone.                           *)
(***************************************************************************)
EXTENDS Pipeline, FiniteSetTheorems, TLAPS

USE PipelineAssumption

CandidatePlaces == {"putting"} \cup LlmPlaces
SendPlaces == {"sending"} \cup AfterSend
Running == {"serving", "monitor_stopped", "join_sam3", "join_llm"}

Enters(f, to, P) == place[f] \notin P /\ to \in P
Leaves(f, to, P) == place[f] \in P /\ to \notin P
Keeps(f, to, P) == place[f] \in P <=> to \in P

\* A counter of join() follows the frames in P.
Follows(n, next, f, to, P) ==
    /\ Enters(f, to, P) => next = n + 1
    /\ Leaves(f, to, P) => next = n - 1
    /\ Keeps(f, to, P) => next = n

Shift(f, to) ==
    /\ Move(f, to)
    /\ Follows(sam3Unfinished, sam3Unfinished', f, to, Sam3Places)
    /\ Follows(llmUnfinished, llmUnfinished', f, to, LlmPlaces)
    /\ Enters(f, to, CandidatePlaces) =>
          StreamOf[f] \notin active /\ active' = active \cup {StreamOf[f]}
    /\ Leaves(f, to, CandidatePlaces) => active' = active \ {StreamOf[f]}
    /\ Keeps(f, to, CandidatePlaces) => active' = active
    /\ phase' = phase /\ timedOut' = timedOut
    /\ Working => /\ Enters(f, to, SendPlaces) => reserved' = reserved \cup {StreamOf[f]}
                  /\ Leaves(f, to, SendPlaces) => reserved' = reserved \ {StreamOf[f]}
                  /\ Keeps(f, to, SendPlaces) => reserved' = reserved
    /\ Enters(f, to, Sam3Places) => phase = "serving"
    /\ Enters(f, to, Sam3Stage) => Cardinality(At(Sam3Stage)) < Sam3Concurrency
    /\ Enters(f, to, LlmStage) => Cardinality(At(LlmStage)) < LlmConcurrency
    /\ to \in LlmPlaces => place[f] \in Sam3Places \cup LlmPlaces
    /\ to = "dropped" =>
          phase = "cancelled" /\ place[f] \in Sam3Places \cup LlmPlaces

\* The steps that move no frame: shutdown and the clock.
Stay ==
    /\ place' = place
    /\ UNCHANGED <<sam3Unfinished, llmUnfinished, active, reserved>>
    /\ \/ phase' = phase /\ timedOut' = timedOut
       \/ phase = "serving" /\ phase' = "monitor_stopped" /\ timedOut' = timedOut
       \/ phase = "monitor_stopped" /\ phase' = "join_sam3" /\ timedOut' = timedOut
       \/ /\ phase = "join_sam3" /\ sam3Unfinished = 0
          /\ phase' = "join_llm" /\ timedOut' = timedOut
       \/ /\ phase = "join_llm" /\ llmUnfinished = 0
          /\ phase' = "cancelled" /\ timedOut' = timedOut
       \/ phase \in {"join_sam3", "join_llm"} /\ phase' = "cancelled" /\ timedOut' = TRUE
       \/ phase = "cancelled" /\ phase' = "stopped" /\ timedOut' = timedOut

PlaceOK == place \in [Frames -> Places]

USE DEF Sam3Stage, AfterSend, LlmStage, Sam3Places, LlmPlaces, Settled, Places,
        CandidatePlaces, SendPlaces

LEMMA RequestShifts ==
    ASSUME NEW f \in Frames, Request(f)
    PROVE  \E to \in Places : Shift(f, to)
<1>1. CASE Upload(f)
  <2>1. Shift(f, "decoding")
    BY <1>1 DEF Upload, queueVars, gateVars, alarmVars, stopVars, Shift, Follows,
                Enters, Leaves, Keeps
  <2> QED BY <2>1
<1>2. CASE Refuse(f)
  <2>1. Shift(f, "rejected")
    BY <1>2 DEF Refuse, queueVars, gateVars, alarmVars, stopVars, Shift, Follows,
                Enters, Leaves, Keeps
  <2> QED BY <2>1
<1>3. CASE Submit(f)
  <2>1. Shift(f, "sam3_queue")
    BY <1>3 DEF Submit, MayAccept, gateVars, alarmVars, stopVars, Shift, Follows,
                Enters, Leaves, Keeps
  <2> QED BY <2>1
<1> QED BY <1>1, <1>2, <1>3 DEF Request

LEMMA Sam3StepShifts ==
    ASSUME NEW f \in Frames, Sam3Step(f)
    PROVE  \E to \in Places : Shift(f, to)
<1>1. CASE TakeFrame(f)
  <2>1. Shift(f, "detecting")
    BY <1>1 DEF TakeFrame, gateVars, alarmVars, stopVars, Shift, Follows,
                Enters, Leaves, Keeps
  <2> QED BY <2>1
<1>2. CASE DetectFails(f) \/ DetectNegative(f)
  <2>1. Shift(f, "done")
    BY <1>2 DEF DetectFails, DetectNegative, EndDetect, gateVars, alarmVars, stopVars,
                Shift, Follows, Enters, Leaves, Keeps
  <2> QED BY <2>1
<1>3. CASE Suppress(f)
  <2>1. active' = active
    BY <1>3 DEF Suppress, Gate!RefuseInflight, Gate!RefuseCooldown, Gate!gateVars
  <2>2. Shift(f, "done")
    BY <1>3, <2>1 DEF Suppress, EndDetect, alarmVars, stopVars,
                      Shift, Follows, Enters, Leaves, Keeps
  <2> QED BY <2>2
<1>4. CASE AdmitAndPut(f)
  <2>1. Shift(f, "llm_queue")
    BY <1>4 DEF AdmitAndPut, Enqueue, Gate!Grant, alarmVars, stopVars,
                Shift, Follows, Enters, Leaves, Keeps
  <2> QED BY <2>1
<1>5. CASE AdmitAndBlock(f)
  <2>1. Shift(f, "putting")
    BY <1>5 DEF AdmitAndBlock, Gate!Grant, queueVars, alarmVars, stopVars,
                Shift, Follows, Enters, Leaves, Keeps
  <2> QED BY <2>1
<1>6. CASE PutResumes(f)
  <2>1. Shift(f, "llm_queue")
    BY <1>6 DEF PutResumes, Enqueue, gateVars, alarmVars, stopVars,
                Shift, Follows, Enters, Leaves, Keeps
  <2> QED BY <2>1
<1> QED BY <1>1, <1>2, <1>3, <1>4, <1>5, <1>6 DEF Sam3Step

\* What EndConfirm and Continue do to everything but the reservations.
LEMMA EndConfirmShifts ==
    ASSUME NEW f \in Frames, NEW to \in {"done", "dropped"},
           place[f] \in LlmStage, EndConfirm(f, to),
           to = "dropped" => phase = "cancelled",
           Working => reserved' = IF place[f] \in SendPlaces
                                  THEN reserved \ {StreamOf[f]} ELSE reserved
    PROVE  Shift(f, to)
  BY DEF EndConfirm, Gate!Release, stopVars, Shift, Follows, Enters, Leaves, Keeps

LEMMA ContinueShifts ==
    ASSUME NEW f \in Frames, NEW from \in LlmStage, NEW to \in LlmStage,
           Continue(f, from, to),
           from \in SendPlaces /\ to \notin SendPlaces =>
              reserved' = reserved \ {StreamOf[f]},
           from \notin SendPlaces /\ to \in SendPlaces =>
              reserved' = reserved \cup {StreamOf[f]},
           (from \in SendPlaces <=> to \in SendPlaces) => reserved' = reserved
    PROVE  Shift(f, to)
  BY DEF Continue, queueVars, gateVars, stopVars, Shift, Follows, Enters, Leaves, Keeps

LEMMA LlmStepShifts ==
    ASSUME NEW f \in Frames, LlmStep(f)
    PROVE  \E to \in Places : Shift(f, to)
<1>1. CASE TakeCandidate(f)
  <2>1. Shift(f, "confirming")
    BY <1>1 DEF TakeCandidate, gateVars, alarmVars, stopVars, Shift, Follows,
                Enters, Leaves, Keeps
  <2> QED BY <2>1
<1>2. CASE ConfirmFails(f) \/ ConfirmRejects(f)
  <2>1. Shift(f, "done")
    BY <1>2, EndConfirmShifts DEF ConfirmFails, ConfirmRejects
  <2> QED BY <2>1
<1>3. CASE ConfirmAccepts(f)
  <2>1. Shift(f, "saving")
    BY <1>3, ContinueShifts DEF ConfirmAccepts, alarmVars
  <2> QED BY <2>1
<1>4. CASE SaveReturns(f) \/ FallbackReady(f)
  <2>1. Shift(f, "reserving")
    BY <1>4, ContinueShifts DEF SaveReturns, FallbackReady, alarmVars
  <2> QED BY <2>1
<1>5. CASE SaveRaises(f)
  <2>1. Shift(f, "annotating")
    BY <1>5, ContinueShifts DEF SaveRaises, alarmVars
  <2> QED BY <2>1
<1>6. CASE ReserveSuppresses(f)
  <2>1. CASE Continue(f, "reserving", "updating")
    <3>1. Shift(f, "updating")
      BY <1>6, <2>1, ContinueShifts DEF ReserveSuppresses
    <3> QED BY <3>1
  <2>2. CASE EndConfirm(f, "done")
    <3>1. Shift(f, "done")
      BY <1>6, <2>2, EndConfirmShifts DEF ReserveSuppresses
    <3> QED BY <3>1
  <2> QED BY <1>6, <2>1, <2>2 DEF ReserveSuppresses
<1>7. CASE ReserveGrants(f)
  <2>1. Shift(f, "sending")
    BY <1>7, ContinueShifts DEF ReserveGrants
  <2> QED BY <2>1
<1>8. CASE SendReturns(f)
  <2>1. PICK outcome \in AfterSend : Continue(f, "sending", outcome)
    BY <1>8 DEF SendReturns
  <2>2. Shift(f, outcome)
    BY <1>8, <2>1, ContinueShifts DEF SendReturns, alarmVars
  <2> QED BY <2>2
<1>9. CASE FinishAlarm(f)
  <2>0. place[f] \in AfterSend /\ reserved' = reserved \ {StreamOf[f]}
    BY <1>9 DEF FinishAlarm
  <2>1. CASE Continue(f, place[f], "updating")
    <3>1. Shift(f, "updating")
      BY <2>0, <2>1, ContinueShifts
    <3> QED BY <3>1
  <2>2. CASE EndConfirm(f, "done")
    <3>1. Shift(f, "done")
      BY <2>0, <2>2, EndConfirmShifts
    <3> QED BY <3>1
  <2> QED BY <1>9, <2>1, <2>2 DEF FinishAlarm
<1>10. CASE UpdateReturns(f)
  <2>1. Shift(f, "done")
    BY <1>10, EndConfirmShifts DEF UpdateReturns
  <2> QED BY <2>1
<1> QED BY <1>1, <1>2, <1>3, <1>4, <1>5, <1>6, <1>7, <1>8, <1>9, <1>10 DEF LlmStep

LEMMA CancelStepShifts ==
    ASSUME NEW f \in Frames, CancelStep(f)
    PROVE  \E to \in Places : Shift(f, to)
<1>1. CASE CancelDetect(f)
  <2>1. Shift(f, "dropped")
    BY <1>1 DEF CancelDetect, EndDetect, gateVars, alarmVars, stopVars,
                Shift, Follows, Enters, Leaves, Keeps
  <2> QED BY <2>1
<1>2. CASE CancelPut(f)
  <2>1. Shift(f, "dropped")
    BY <1>2 DEF CancelPut, EndDetect, Gate!Release, alarmVars, stopVars,
                Shift, Follows, Enters, Leaves, Keeps
  <2> QED BY <2>1
<1>3. CASE CancelConfirm(f)
  <2>1. Shift(f, "dropped")
    BY <1>3, EndConfirmShifts DEF CancelConfirm, Working
  <2> QED BY <2>1
<1> QED BY <1>1, <1>2, <1>3 DEF CancelStep

LEMMA OtherStays ==
    ASSUME StopMonitor \/ StopStep \/ Tick \/ Stopped \/ UNCHANGED vars
    PROVE  Stay
<1>1. CASE Tick
  BY <1>1 DEF Tick, Gate!Tick, queueVars, alarmVars, stopVars, Stay
<1>2. CASE Stopped \/ UNCHANGED vars
  BY <1>2 DEF Stopped, vars, queueVars, gateVars, alarmVars, stopVars, Stay
<1>3. CASE StopMonitor \/ StopStep
  BY <1>3 DEF StopMonitor, StopStep, StopAccepting, Sam3Joined, LlmJoined, Deadline,
              StopReturns, queueVars, gateVars, alarmVars, Stay
<1> QED BY <1>1, <1>2, <1>3

LEMMA EveryStep ==
    ASSUME [Next]_vars
    PROVE  Stay \/ \E f \in Frames, to \in Places : Shift(f, to)
  BY RequestShifts, Sam3StepShifts, LlmStepShifts, CancelStepShifts, OtherStays DEF Next

-----------------------------------------------------------------------------
\* What moving one frame does to the frames of a set of places.
LEMMA MoveAt ==
    ASSUME PlaceOK, NEW f \in Frames, NEW to \in Places, Move(f, to), NEW CONSTANT P
    PROVE  /\ PlaceOK'
           /\ Enters(f, to, P) => f \notin At(P) /\ At(P)' = At(P) \cup {f}
           /\ Leaves(f, to, P) => f \in At(P) /\ At(P)' = At(P) \ {f}
           /\ Keeps(f, to, P) => At(P)' = At(P)
<1>1. PlaceOK' /\ \A g \in Frames : place'[g] = IF g = f THEN to ELSE place[g]
  BY DEF PlaceOK, Move
<1>2. At(P)' = {g \in Frames : place'[g] \in P}
  BY DEF At
<1> QED BY <1>1, <1>2 DEF At, Enters, Leaves, Keeps

GInv == PlaceOK /\ GateExact

LEMMA GateStep == GInv /\ [Next]_vars => GInv'
<1> SUFFICES ASSUME GInv, [Next]_vars PROVE GInv'
  OBVIOUS
<1>1. CASE Stay
  BY <1>1 DEF GInv, PlaceOK, GateExact, Candidates, At, Stay
<1>2. ASSUME NEW f \in Frames, NEW to \in Places, Shift(f, to) PROVE GInv'
  <2>1. Candidates = At(CandidatePlaces) /\ Candidates' = At(CandidatePlaces)'
    BY DEF Candidates
  <2>2. Candidates \subseteq Frames
    BY DEF Candidates, At
  <2>3. CASE Enters(f, to, CandidatePlaces)
    BY <1>2, <2>1, <2>2, <2>3, MoveAt DEF GInv, GateExact, Shift
  <2>4. CASE Leaves(f, to, CandidatePlaces)
    BY <1>2, <2>1, <2>2, <2>4, MoveAt DEF GInv, GateExact, Shift
  <2>5. CASE Keeps(f, to, CandidatePlaces)
    BY <1>2, <2>1, <2>2, <2>5, MoveAt DEF GInv, GateExact, Shift
  <2> QED BY <2>3, <2>4, <2>5 DEF Enters, Leaves, Keeps
<1> QED BY <1>1, <1>2, EveryStep

LEMMA InitPlaces == Init => PlaceOK /\ \A P : "client" \notin P => At(P) = {}
  BY DEF Init, PlaceOK, At

\* The gate holds exactly the streams of the live candidates, one frame each.
THEOREM GateIsExact == Spec => []GateExact
<1>1. Init => GInv
  BY InitPlaces DEF Init, Gate!Init, GInv, GateExact, Candidates
<1>2. GInv => GateExact
  BY DEF GInv
<1> QED BY <1>1, <1>2, GateStep, PTL DEF Spec

\* The gate invariant as a fact the later invariants rest on.
LEMMA GateHolds == Spec => []GInv
<1>1. Init => GInv
  BY InitPlaces DEF Init, Gate!Init, GInv, GateExact, Candidates
<1> QED BY <1>1, GateStep, PTL DEF Spec

-----------------------------------------------------------------------------
\* Every reservation is of a frame between reserve() and the end of finish().
Covered == Working => reserved \subseteq {StreamOf[g] : g \in At(SendPlaces)}

LEMMA CoveredStep == GInv /\ Covered /\ [Next]_vars => Covered'
<1> SUFFICES ASSUME GInv, Covered, [Next]_vars, Working' PROVE Covered'
  BY DEF Covered
<1>1. CASE Stay
  BY <1>1 DEF Covered, At, Stay, Working
<1>2. ASSUME NEW f \in Frames, NEW to \in Places, Shift(f, to) PROVE Covered'
  <2>1. Working
    BY <1>2 DEF Shift, Working
  <2>2. CASE Enters(f, to, SendPlaces)
    BY <1>2, <2>1, <2>2, MoveAt DEF GInv, Covered, Shift
  <2>3. CASE Leaves(f, to, SendPlaces)
    BY <1>2, <2>1, <2>3, MoveAt DEF GInv, Covered, Shift
  <2>4. CASE Keeps(f, to, SendPlaces)
    BY <1>2, <2>1, <2>4, MoveAt DEF GInv, Covered, Shift
  <2> QED BY <2>2, <2>3, <2>4 DEF Enters, Leaves, Keeps
<1> QED BY <1>1, <1>2, EveryStep

\* No confirmed alarm is dropped as stream_inflight: the gate admits the next
\* frame of a stream only after the previous one gave its reservation back.
THEOREM ReservationsAreFree == Spec => []ReservationIsFree
<1>1. Init => Covered
  BY DEF Init, Covered
<1>2. GInv /\ Covered => ReservationIsFree
  <2> SUFFICES ASSUME GInv, Covered, Working, NEW f \in At({"reserving"}),
                      StreamOf[f] \in reserved
               PROVE FALSE
    BY DEF ReservationIsFree
  <2>1. PICK g \in At(SendPlaces) : StreamOf[g] = StreamOf[f]
    BY DEF Covered
  <2>2. f \in Candidates /\ g \in Candidates /\ f # g
    BY <2>1 DEF Candidates, At
  <2> QED BY <2>1, <2>2 DEF GInv, GateExact
<1> QED BY <1>1, <1>2, CoveredStep, GateHolds, PTL DEF Spec

-----------------------------------------------------------------------------
LEMMA AtFinite ==
    ASSUME NEW P
    PROVE  IsFiniteSet(At(P)) /\ Cardinality(At(P)) \in Nat
  BY FS_Subset, FS_CardinalityType DEF At

LEMMA CounterFollows ==
    ASSUME PlaceOK, NEW f \in Frames, NEW to \in Places, Move(f, to), NEW CONSTANT P,
           NEW n, NEW next, n = Cardinality(At(P)), Follows(n, next, f, to, P)
    PROVE  next = Cardinality(At(P)')
<1>1. IsFiniteSet(At(P)) /\ n \in Nat
  BY AtFinite
<1>2. CASE Enters(f, to, P)
  BY <1>1, <1>2, MoveAt, FS_AddElement DEF Follows
<1>3. CASE Leaves(f, to, P)
  BY <1>1, <1>3, MoveAt, FS_RemoveElement DEF Follows
<1>4. CASE Keeps(f, to, P)
  BY <1>4, MoveAt DEF Follows
<1> QED BY <1>2, <1>3, <1>4 DEF Enters, Leaves, Keeps

UInv == PlaceOK /\ UnfinishedExact

LEMMA UnfinishedStep == UInv /\ [Next]_vars => UInv'
<1> SUFFICES ASSUME UInv, [Next]_vars PROVE UInv'
  OBVIOUS
<1>1. CASE Stay
  BY <1>1 DEF UInv, PlaceOK, UnfinishedExact, At, Stay
<1>2. ASSUME NEW f \in Frames, NEW to \in Places, Shift(f, to) PROVE UInv'
  <2>1. PlaceOK'
    BY <1>2, MoveAt DEF UInv, Shift
  <2>2. sam3Unfinished' = Cardinality(At(Sam3Places)')
    BY <1>2, CounterFollows DEF UInv, UnfinishedExact, Shift
  <2>3. llmUnfinished' = Cardinality(At(LlmPlaces)')
    BY <1>2, CounterFollows DEF UInv, UnfinishedExact, Shift
  <2> QED BY <2>1, <2>2, <2>3 DEF UInv, UnfinishedExact
<1> QED BY <1>1, <1>2, EveryStep

LEMMA UnfinishedHolds == Spec => []UInv
<1>1. Init => UInv
  BY InitPlaces, FS_EmptySet DEF Init, UInv, UnfinishedExact
<1> QED BY <1>1, UnfinishedStep, PTL DEF Spec

\* What join() waits on is exactly the frames queued or held by a worker.
THEOREM UnfinishedIsExact == Spec => []UnfinishedExact
<1>1. UInv => UnfinishedExact
  BY DEF UInv
<1> QED BY <1>1, UnfinishedHolds, PTL

-----------------------------------------------------------------------------
\* How far a shutdown is says where no frame is left.
Drained ==
    /\ phase \in Running \cup {"cancelled", "stopped"}
    /\ phase \in Running => At({"dropped"}) = {} /\ ~timedOut
    /\ phase = "join_llm" => At(Sam3Places) = {}
    /\ DrainLosesNothing

LEMMA DrainedStep == UInv /\ Drained /\ [Next]_vars => Drained'
<1> SUFFICES ASSUME UInv, Drained, [Next]_vars PROVE Drained'
  OBVIOUS
<1>0. \A P : At(P) = {} <=> \A f \in Frames : place[f] \notin P
  BY DEF At
<1>00. \A P : At(P)' = {} <=> \A f \in Frames : place'[f] \notin P
  BY DEF At
<1>1. CASE Stay
  <2>1. sam3Unfinished = 0 => At(Sam3Places) = {}
    BY AtFinite, FS_EmptySet DEF UInv, UnfinishedExact
  <2>2. llmUnfinished = 0 => At(LlmPlaces) = {}
    BY AtFinite, FS_EmptySet DEF UInv, UnfinishedExact
  <2> QED
    BY <1>0, <1>00, <1>1, <2>1, <2>2 DEF Drained, DrainLosesNothing, Running, Stay
<1>2. ASSUME NEW f \in Frames, NEW to \in Places, Shift(f, to) PROVE Drained'
  <2>1. \A g \in Frames : place'[g] = IF g = f THEN to ELSE place[g]
    BY <1>2 DEF UInv, PlaceOK, Shift, Move
  <2>2. phase' = phase /\ timedOut' = timedOut
    BY <1>2 DEF Shift
  <2>3. phase \in Running => At({"dropped"})' = {}
    BY <1>0, <1>00, <1>2, <2>1 DEF Drained, Running, Shift
  <2>4. phase = "join_llm" => At(Sam3Places)' = {}
    BY <1>0, <1>00, <1>2, <2>1 DEF Drained, Shift, Enters
  <2>5. DrainLosesNothing'
    BY <1>0, <1>00, <1>2, <2>1, <2>2 DEF Drained, DrainLosesNothing, Shift, Enters
  <2> QED BY <2>2, <2>3, <2>4, <2>5 DEF Drained
<1> QED BY <1>1, <1>2, EveryStep

\* A shutdown that was not cut off by its deadline loses no accepted frame.
THEOREM DrainIsLossless == Spec => []DrainLosesNothing
<1>1. Init => Drained
  BY InitPlaces DEF Init, Drained, DrainLosesNothing, Running
<1>2. Drained => DrainLosesNothing
  BY DEF Drained
<1> QED BY <1>1, <1>2, DrainedStep, UnfinishedHolds, PTL DEF Spec

-----------------------------------------------------------------------------
\* What a step may do to the variables that Shift leaves open.
QueueStep(q, next, size, f) ==
    \/ next = q
    \/ Len(q) < size /\ next = Append(q, f)
    \/ q # <<>> /\ next = Tail(q)

Bounded(f) ==
    /\ [Gate!Next]_gateVars
    /\ QueueStep(sam3Queue, sam3Queue', Sam3QueueSize, f)
    /\ QueueStep(llmQueue, llmQueue', LlmQueueSize, f)
    /\ reserved' \subseteq reserved \cup {StreamOf[f]}
    /\ saved' \subseteq saved \cup {f}
    /\ counts \in [Counters -> Nat] => counts' \in [Counters -> Nat]
    /\ accepting' = accepting

LEMMA CountTypes ==
    ASSUME NEW C, Count(C), counts \in [Counters -> Nat]
    PROVE  counts' \in [Counters -> Nat]
  BY DEF Count

LEMMA RequestBounded ==
    ASSUME NEW f \in Frames, Request(f)
    PROVE  Bounded(f)
  BY CountTypes
  DEF Request, Upload, Refuse, Submit, Bounded, QueueStep,
      queueVars, gateVars, alarmVars, stopVars

LEMMA Sam3StepBounded ==
    ASSUME NEW f \in Frames, Sam3Step(f)
    PROVE  Bounded(f)
<1>1. [Gate!Next]_gateVars
  BY DEF Sam3Step, TakeFrame, DetectFails, DetectNegative, Suppress, AdmitAndPut,
         AdmitAndBlock, PutResumes, Gate!Next
<1>2. CASE TakeFrame(f) \/ DetectFails(f) \/ DetectNegative(f) \/ Suppress(f)
  BY <1>1, <1>2, CountTypes
  DEF TakeFrame, DetectFails, DetectNegative, Suppress, EndDetect, Bounded, QueueStep,
      alarmVars, stopVars
<1>3. CASE AdmitAndPut(f) \/ AdmitAndBlock(f) \/ PutResumes(f)
  BY <1>1, <1>3, CountTypes
  DEF AdmitAndPut, AdmitAndBlock, PutResumes, Enqueue, Bounded, QueueStep,
      queueVars, alarmVars, stopVars
<1> QED BY <1>2, <1>3 DEF Sam3Step

LEMMA EndConfirmBounded ==
    ASSUME NEW f \in Frames, NEW p, EndConfirm(f, p), reserved' \subseteq reserved,
           counts \in [Counters -> Nat] => counts' \in [Counters -> Nat]
    PROVE  Bounded(f)
<1>1. [Gate!Next]_gateVars
  BY DEF EndConfirm, Gate!Next
<1> QED BY <1>1 DEF EndConfirm, Bounded, QueueStep, stopVars

LEMMA ContinueBounded ==
    ASSUME NEW f \in Frames, NEW from, NEW to, Continue(f, from, to),
           reserved' \subseteq reserved \cup {StreamOf[f]}, saved' \subseteq saved \cup {f},
           counts \in [Counters -> Nat] => counts' \in [Counters -> Nat]
    PROVE  Bounded(f)
  BY DEF Continue, Bounded, QueueStep, queueVars, gateVars, stopVars

LEMMA LlmStepBounded ==
    ASSUME NEW f \in Frames, LlmStep(f)
    PROVE  Bounded(f)
<1>1. counts \in [Counters -> Nat] => counts' \in [Counters -> Nat]
  BY CountTypes
  DEF LlmStep, TakeCandidate, ConfirmFails, ConfirmRejects, ConfirmAccepts, SaveReturns,
      SaveRaises, FallbackReady, ReserveSuppresses, ReserveGrants, SendReturns,
      FinishAlarm, UpdateReturns
<1>2. CASE TakeCandidate(f)
  BY <1>1, <1>2 DEF TakeCandidate, Bounded, QueueStep, gateVars, alarmVars, stopVars
<1>3. CASE ConfirmFails(f) \/ ConfirmRejects(f) \/ UpdateReturns(f)
  BY <1>1, <1>3, EndConfirmBounded DEF ConfirmFails, ConfirmRejects, UpdateReturns
<1>4. CASE ConfirmAccepts(f) \/ SaveReturns(f) \/ SaveRaises(f) \/ FallbackReady(f)
  BY <1>1, <1>4, ContinueBounded
  DEF ConfirmAccepts, SaveReturns, SaveRaises, FallbackReady, alarmVars
<1>5. CASE ReserveGrants(f) \/ SendReturns(f)
  BY <1>1, <1>5, ContinueBounded DEF ReserveGrants, SendReturns, alarmVars
<1>6. CASE ReserveSuppresses(f)
  BY <1>1, <1>6, EndConfirmBounded, ContinueBounded DEF ReserveSuppresses
<1>7. CASE FinishAlarm(f)
  BY <1>1, <1>7, EndConfirmBounded, ContinueBounded DEF FinishAlarm
<1> QED BY <1>2, <1>3, <1>4, <1>5, <1>6, <1>7 DEF LlmStep

LEMMA CancelStepBounded ==
    ASSUME NEW f \in Frames, CancelStep(f)
    PROVE  Bounded(f)
<1>1. CASE CancelDetect(f)
  BY <1>1 DEF CancelDetect, EndDetect, Bounded, QueueStep, alarmVars, stopVars
<1>2. CASE CancelPut(f)
  <2>1. [Gate!Next]_gateVars
    BY <1>2 DEF CancelPut, Gate!Next
  <2> QED
    BY <1>2, <2>1 DEF CancelPut, EndDetect, Bounded, QueueStep, alarmVars, stopVars
<1>3. CASE CancelConfirm(f)
  BY <1>3, EndConfirmBounded DEF CancelConfirm
<1> QED BY <1>1, <1>2, <1>3 DEF CancelStep

\* The steps of shutdown and the clock.
Unbound ==
    /\ [Gate!Next]_gateVars
    /\ UNCHANGED <<sam3Queue, llmQueue, reserved, saved, counts>>
    /\ accepting' \in {accepting, FALSE}

LEMMA OtherBounded ==
    ASSUME StopMonitor \/ StopStep \/ Tick \/ Stopped \/ UNCHANGED vars
    PROVE  Unbound
  BY DEF StopMonitor, StopStep, StopAccepting, Sam3Joined, LlmJoined, Deadline,
         StopReturns, Tick, Stopped, vars, queueVars, gateVars, alarmVars, stopVars,
         Unbound, Gate!Next

LEMMA EveryStepBounded ==
    ASSUME [Next]_vars
    PROVE  Unbound \/ \E f \in Frames : Bounded(f)
  BY RequestBounded, Sam3StepBounded, LlmStepBounded, CancelStepBounded, OtherBounded
  DEF Next

\* The pipeline uses the gate as LLMStreamGate specifies it: what is proved of
\* the gate by itself holds of the gate inside the pipeline.
THEOREM PipelineDrivesGate == Spec => Gate!Spec
<1>1. Init => Gate!Init
  BY DEF Init
<1>2. [Next]_vars => [Gate!Next]_Gate!gateVars
  BY EveryStepBounded DEF Bounded, Unbound, gateVars, Gate!gateVars
<1> QED BY <1>1, <1>2, PTL DEF Spec, Gate!Spec

-----------------------------------------------------------------------------
LEMMA GateTypes ==
    ASSUME Gate!GateTypeOK, [Gate!Next]_gateVars
    PROVE  Gate!GateTypeOK'
<1> USE DEF Gate!GateTypeOK, Gate!IsDict
<1>1. CASE UNCHANGED gateVars \/ Gate!Tick
  BY <1>1 DEF gateVars, Gate!Tick
<1>2. ASSUME NEW s \in Streams, Gate!RefuseInflight(s) \/ Gate!Release(s)
      PROVE  Gate!GateTypeOK'
  BY <1>2 DEF Gate!RefuseInflight, Gate!Release, Gate!gateVars
<1>3. /\ DOMAIN Gate!Pruned \subseteq DOMAIN lastAdmitted
      /\ \A s \in DOMAIN Gate!Pruned : Gate!Pruned[s] = lastAdmitted[s]
      /\ Gate!Pruned \in [DOMAIN Gate!Pruned -> Nat]
  BY DEF Gate!Pruned
<1>4. Gate!CountOperation => operations' \in 0 .. (PruneEvery - 1)
  BY DEF Gate!CountOperation, Gate!PruneDue
<1>5. ASSUME NEW s \in Streams, Gate!RefuseCooldown(s) PROVE Gate!GateTypeOK'
  BY <1>3, <1>4, <1>5 DEF Gate!RefuseCooldown
<1>6. ASSUME NEW s \in Streams, Gate!Grant(s) PROVE Gate!GateTypeOK'
  BY <1>3, <1>4, <1>6 DEF Gate!Grant
<1> QED BY <1>1, <1>2, <1>5, <1>6 DEF Gate!Next

QueueOK(q, size) == q \in Seq(Frames) /\ Len(q) <= size

LEMMA QueueTypes ==
    ASSUME NEW f \in Frames, NEW q, NEW next, NEW size \in Nat,
           QueueOK(q, size), QueueStep(q, next, size, f)
    PROVE  QueueOK(next, size)
<1>1. q \in Seq(Frames) /\ Len(q) <= size
  BY DEF QueueOK
<1>2. CASE Len(q) < size /\ next = Append(q, f)
  BY <1>1, <1>2 DEF QueueOK
<1>3. CASE q # <<>> /\ next = Tail(q)
  BY <1>1, <1>3 DEF QueueOK
<1> QED BY <1>1, <1>2, <1>3 DEF QueueOK, QueueStep

\* The types that no other invariant gives.
Bounds ==
    /\ QueueOK(sam3Queue, Sam3QueueSize)
    /\ QueueOK(llmQueue, LlmQueueSize)
    /\ Gate!GateTypeOK
    /\ reserved \subseteq Streams /\ saved \subseteq Frames
    /\ counts \in [Counters -> Nat]
    /\ accepting \in BOOLEAN

LEMMA BoundsStep == Bounds /\ [Next]_vars => Bounds'
<1> SUFFICES ASSUME Bounds, [Next]_vars PROVE Bounds'
  OBVIOUS
<1>1. CASE Unbound
  BY <1>1, GateTypes DEF Unbound, Bounds
<1>2. ASSUME NEW f \in Frames, Bounded(f) PROVE Bounds'
  BY <1>2, GateTypes, QueueTypes DEF Bounded, Bounds
<1> QED BY <1>1, <1>2, EveryStepBounded

\* No stage ever holds more frames than its pool has workers.
PoolsOK ==
    /\ Cardinality(At(Sam3Stage)) <= Sam3Concurrency
    /\ Cardinality(At(LlmStage)) <= LlmConcurrency

LEMMA PoolStep ==
    ASSUME PlaceOK, NEW f \in Frames, NEW to \in Places, Move(f, to), NEW CONSTANT P,
           NEW size \in Nat, Cardinality(At(P)) <= size,
           Enters(f, to, P) => Cardinality(At(P)) < size
    PROVE  Cardinality(At(P)') <= size
<1>1. IsFiniteSet(At(P)) /\ Cardinality(At(P)) \in Nat
  BY AtFinite
<1>2. CASE Enters(f, to, P)
  BY <1>1, <1>2, MoveAt, FS_AddElement
<1>3. CASE Leaves(f, to, P)
  BY <1>1, <1>3, MoveAt, FS_RemoveElement
<1>4. CASE Keeps(f, to, P)
  BY <1>4, MoveAt
<1> QED BY <1>2, <1>3, <1>4 DEF Enters, Leaves, Keeps

TInv == UInv /\ Drained /\ PoolsOK /\ Bounds /\ timedOut \in BOOLEAN

LEMMA TypesStep == TInv /\ [Next]_vars => TInv'
<1> SUFFICES ASSUME TInv, [Next]_vars PROVE TInv'
  OBVIOUS
<1>1. UInv' /\ Drained' /\ Bounds'
  BY UnfinishedStep, DrainedStep, BoundsStep DEF TInv
<1>2. CASE Stay
  BY <1>1, <1>2 DEF TInv, PoolsOK, At, Stay
<1>3. ASSUME NEW f \in Frames, NEW to \in Places, Shift(f, to)
      PROVE  PoolsOK' /\ timedOut' \in BOOLEAN
  BY <1>3, PoolStep DEF TInv, UInv, PoolsOK, Shift
<1> QED BY <1>1, <1>2, <1>3, EveryStep DEF TInv

LEMMA TypesHold == Spec => []TInv
<1>1. Init => TInv
  <2>1. Init => UInv
    BY InitPlaces, FS_EmptySet DEF Init, UInv, UnfinishedExact
  <2>2. Init => PoolsOK
    <3>1. Init => At(Sam3Stage) = {} /\ At(LlmStage) = {}
      BY InitPlaces
    <3> QED BY <3>1, FS_EmptySet DEF PoolsOK
  <2>3. Init => Bounds
    BY DEF Init, Bounds, QueueOK, Gate!Init, Gate!GateTypeOK, Gate!IsDict
  <2>4. Init => Drained
    BY InitPlaces DEF Init, Drained, DrainLosesNothing, Running
  <2> QED BY <2>1, <2>2, <2>3, <2>4 DEF TInv, Init
<1> QED BY <1>1, TypesStep, PTL DEF Spec

\* Queues and pools keep within their sizes, the counters and the gate's table
\* are well formed, whatever the sizes and the number of frames.
THEOREM PipelineTypes == Spec => []TypeOK
<1>1. TInv => TypeOK
  <2>1. ASSUME UInv PROVE sam3Unfinished \in Nat /\ llmUnfinished \in Nat
    BY <2>1, AtFinite DEF UInv, UnfinishedExact
  <2> QED
    BY <2>1
    DEF TInv, UInv, PlaceOK, Drained, PoolsOK, Bounds, QueueOK, TypeOK, Phases, Running
<1> QED BY <1>1, TypesHold, PTL

-----------------------------------------------------------------------------
\* The counters of /health, as what each stage has not yet accounted for.
Undetected == counts["accepted"] - (counts["sam3_failed"] + counts["sam3_negative"]
                                    + counts["sam3_candidates"])
Unput == counts["sam3_candidates"] - (counts["llm_suppressed"] + counts["llm_enqueued"])
Unconfirmed == counts["llm_enqueued"] - (counts["llm_failed"] + counts["llm_rejected"]
                                         + counts["confirmed"])
Unsaved == counts["confirmed"] - (counts["saved"] + counts["save_failed"])

Tallied(f, to) ==
    /\ Move(f, to)
    /\ Follows(Undetected, Undetected', f, to, {"sam3_queue", "detecting"})
    /\ Follows(Unput, Unput', f, to, {"putting"})
    /\ Follows(Unconfirmed, Unconfirmed', f, to, {"llm_queue", "confirming"})
    /\ Follows(Unsaved, Unsaved', f, to, {"saving"})

\* Each difference grows with the counter it begins with and falls with the others.
Adds(c, C) == IF c \in C THEN 1 ELSE 0

LEMMA CountChanges ==
    ASSUME counts \in [Counters -> Nat], NEW C, Count(C)
    PROVE  /\ Undetected \in Int /\ Unput \in Int /\ Unconfirmed \in Int /\ Unsaved \in Int
           /\ Undetected' = Undetected + Adds("accepted", C) - Adds("sam3_failed", C)
                              - Adds("sam3_negative", C) - Adds("sam3_candidates", C)
           /\ Unput' = Unput + Adds("sam3_candidates", C) - Adds("llm_suppressed", C)
                         - Adds("llm_enqueued", C)
           /\ Unconfirmed' = Unconfirmed + Adds("llm_enqueued", C) - Adds("llm_failed", C)
                               - Adds("llm_rejected", C) - Adds("confirmed", C)
           /\ Unsaved' = Unsaved + Adds("confirmed", C) - Adds("saved", C)
                           - Adds("save_failed", C)
<1>1. \A c \in Counters : counts[c] \in Nat /\ counts'[c] = counts[c] + Adds(c, C)
  BY DEF Count, Adds
<1>2. \A c \in Counters : Adds(c, C) \in Nat
  BY DEF Adds
<1> HIDE DEF Adds
<1> QED
  BY <1>1, <1>2 DEF Counters, Undetected, Unput, Unconfirmed, Unsaved

\* A step that counts nothing.
LEMMA NothingCounted ==
    ASSUME counts \in [Counters -> Nat], UNCHANGED counts
    PROVE  Count({})
  BY DEF Count

\* Whoever moves a frame counts what the frame has come to.
LEMMA TallyOf ==
    ASSUME counts \in [Counters -> Nat], NEW f \in Frames, NEW to \in Places, Move(f, to),
           NEW C, Count(C),
           LET D(P) == IF Enters(f, to, P) THEN 1 ELSE IF Leaves(f, to, P) THEN 0 - 1 ELSE 0
           IN  /\ Adds("accepted", C) - Adds("sam3_failed", C) - Adds("sam3_negative", C)
                     - Adds("sam3_candidates", C) = D({"sam3_queue", "detecting"})
               /\ Adds("sam3_candidates", C) - Adds("llm_suppressed", C)
                     - Adds("llm_enqueued", C) = D({"putting"})
               /\ Adds("llm_enqueued", C) - Adds("llm_failed", C) - Adds("llm_rejected", C)
                     - Adds("confirmed", C) = D({"llm_queue", "confirming"})
               /\ Adds("confirmed", C) - Adds("saved", C) - Adds("save_failed", C)
                     = D({"saving"})
    PROVE  Tallied(f, to)
<1>1. \A c : Adds(c, C) \in Int
  BY DEF Adds
<1> HIDE DEF Adds
<1>2. ASSUME NEW P PROVE ~(Enters(f, to, P) /\ Leaves(f, to, P)) /\ ~(Enters(f, to, P) /\ Keeps(f, to, P))
                         /\ ~(Leaves(f, to, P) /\ Keeps(f, to, P))
  BY DEF Enters, Leaves, Keeps
<1> HIDE DEF Sam3Places, LlmPlaces
<1>3. Follows(Undetected, Undetected', f, to, {"sam3_queue", "detecting"})
  BY <1>1, <1>2, CountChanges DEF Follows
<1>4. Follows(Unput, Unput', f, to, {"putting"})
  BY <1>1, <1>2, CountChanges DEF Follows
<1>5. Follows(Unconfirmed, Unconfirmed', f, to, {"llm_queue", "confirming"})
  BY <1>1, <1>2, CountChanges DEF Follows
<1>6. Follows(Unsaved, Unsaved', f, to, {"saving"})
  BY <1>1, <1>2, CountChanges DEF Follows
<1> QED
  BY <1>3, <1>4, <1>5, <1>6 DEF Tallied

LEMMA RequestTallies ==
    ASSUME counts \in [Counters -> Nat], NEW f \in Frames, Request(f)
    PROVE  \E to \in Places : Tallied(f, to)
<1> USE TallyOf, NothingCounted DEF Adds, Enters, Leaves
<1>1. CASE Upload(f)
  <2>1. Move(f, "decoding") /\ Count({}) /\ place[f] = "client"
    BY <1>1 DEF Upload
  <2>2. Tallied(f, "decoding")
    BY <2>1
  <2> QED BY <2>2
<1>2. CASE Refuse(f)
  <2>1. Move(f, "rejected") /\ Count({}) /\ place[f] \in {"client", "decoding"}
    BY <1>2 DEF Refuse
  <2>2. Tallied(f, "rejected")
    BY <2>1
  <2> QED BY <2>2
<1>3. CASE Submit(f)
  <2>1. Move(f, "sam3_queue") /\ Count({"accepted"}) /\ place[f] = "decoding"
    BY <1>3 DEF Submit
  <2>2. Tallied(f, "sam3_queue")
    BY <2>1
  <2> QED BY <2>2
<1> QED BY <1>1, <1>2, <1>3 DEF Request

LEMMA Sam3StepTallies ==
    ASSUME counts \in [Counters -> Nat], NEW f \in Frames, Sam3Step(f)
    PROVE  \E to \in Places : Tallied(f, to)
<1> USE TallyOf, NothingCounted DEF Adds, Enters, Leaves
<1>1. CASE TakeFrame(f)
  <2>1. Move(f, "detecting") /\ Count({}) /\ place[f] = "sam3_queue"
    BY <1>1 DEF TakeFrame
  <2>2. Tallied(f, "detecting")
    BY <2>1
  <2> QED BY <2>2
<1>2. CASE DetectFails(f) \/ DetectNegative(f) \/ Suppress(f)
  <2>1. /\ Move(f, "done") /\ place[f] = "detecting"
        /\ Count({"sam3_failed"}) \/ Count({"sam3_negative"})
             \/ Count({"sam3_candidates", "llm_suppressed"})
    BY <1>2 DEF DetectFails, DetectNegative, Suppress, EndDetect
  <2>2. Tallied(f, "done")
    BY <2>1
  <2> QED BY <2>2
<1>3. CASE AdmitAndPut(f)
  <2>1. /\ Move(f, "llm_queue") /\ place[f] = "detecting"
        /\ Count({"sam3_candidates", "llm_enqueued"})
    BY <1>3 DEF AdmitAndPut, Enqueue
  <2>2. Tallied(f, "llm_queue")
    BY <2>1
  <2> QED BY <2>2
<1>4. CASE AdmitAndBlock(f)
  <2>1. Move(f, "putting") /\ place[f] = "detecting" /\ Count({"sam3_candidates"})
    BY <1>4 DEF AdmitAndBlock
  <2>2. Tallied(f, "putting")
    BY <2>1
  <2> QED BY <2>2
<1>5. CASE PutResumes(f)
  <2>1. Move(f, "llm_queue") /\ place[f] = "putting" /\ Count({"llm_enqueued"})
    BY <1>5 DEF PutResumes, Enqueue
  <2>2. Tallied(f, "llm_queue")
    BY <2>1
  <2> QED BY <2>2
<1> QED BY <1>1, <1>2, <1>3, <1>4, <1>5 DEF Sam3Step

\* From the save on a frame moves through places that no counter waits for.
LEMMA LaterTallies ==
    ASSUME counts \in [Counters -> Nat], NEW f \in Frames,
           NEW to \in {"reserving", "sending", "updating", "done"} \cup AfterSend, Move(f, to),
           place[f] \in {"annotating", "reserving", "sending", "updating"} \cup AfterSend,
           NEW C \in SUBSET {"alarm_suppressed", "alarm_sent", "alarm_failed"}, Count(C)
    PROVE  Tallied(f, to)
<1>1. to \in Places
  OBVIOUS
<1>2. \A c \in {"accepted", "sam3_failed", "sam3_negative", "sam3_candidates",
                "llm_suppressed", "llm_enqueued", "llm_failed", "llm_rejected",
                "confirmed", "saved", "save_failed"} : Adds(c, C) = 0
  BY DEF Adds
<1> QED BY <1>1, <1>2, TallyOf DEF Enters, Leaves

LEMMA LlmStepTallies ==
    ASSUME counts \in [Counters -> Nat], NEW f \in Frames, LlmStep(f)
    PROVE  \E to \in Places : Tallied(f, to)
<1> USE DEF Adds, Enters, Leaves
<1>1. CASE TakeCandidate(f)
  <2>1. Move(f, "confirming") /\ Count({}) /\ place[f] = "llm_queue"
    BY <1>1, NothingCounted DEF TakeCandidate
  <2>2. Tallied(f, "confirming")
    BY <2>1, TallyOf
  <2> QED BY <2>2
<1>2. CASE ConfirmFails(f) \/ ConfirmRejects(f)
  <2>1. /\ Move(f, "done") /\ place[f] = "confirming"
        /\ Count({"llm_failed"}) \/ Count({"llm_rejected"})
    BY <1>2 DEF ConfirmFails, ConfirmRejects, EndConfirm
  <2>2. Tallied(f, "done")
    BY <2>1, TallyOf
  <2> QED BY <2>2
<1>3. CASE ConfirmAccepts(f)
  <2>1. Move(f, "saving") /\ place[f] = "confirming" /\ Count({"confirmed"})
    BY <1>3 DEF ConfirmAccepts, Continue
  <2>2. Tallied(f, "saving")
    BY <2>1, TallyOf
  <2> QED BY <2>2
<1>4. CASE SaveReturns(f) \/ SaveRaises(f)
  <2>1. /\ place[f] = "saving"
        /\ \/ Move(f, "reserving") /\ Count({"saved"})
           \/ Move(f, "annotating") /\ Count({"save_failed"})
    BY <1>4 DEF SaveReturns, SaveRaises, Continue
  <2>2. Tallied(f, "reserving") \/ Tallied(f, "annotating")
    BY <2>1, TallyOf
  <2> QED BY <2>2
<1>5. CASE FallbackReady(f) \/ ReserveGrants(f) \/ SendReturns(f) \/ UpdateReturns(f)
           \/ ReserveSuppresses(f) \/ FinishAlarm(f)
  <2>1. PICK to \in {"reserving", "sending", "updating", "done"} \cup AfterSend : Move(f, to)
    BY <1>5 DEF FallbackReady, ReserveGrants, SendReturns, UpdateReturns, ReserveSuppresses,
                FinishAlarm, Continue, EndConfirm
  <2>2. place[f] \in {"annotating", "reserving", "sending", "updating"} \cup AfterSend
    BY <1>5 DEF FallbackReady, ReserveGrants, SendReturns, UpdateReturns, ReserveSuppresses,
                FinishAlarm, Continue
  <2>3. PICK C \in SUBSET {"alarm_suppressed", "alarm_sent", "alarm_failed"} : Count(C)
    BY <1>5, NothingCounted
    DEF FallbackReady, ReserveGrants, SendReturns, UpdateReturns, ReserveSuppresses,
        FinishAlarm, AlarmCounter
  <2>4. Tallied(f, to) /\ to \in Places
    BY <2>1, <2>2, <2>3, LaterTallies
  <2> QED BY <2>4
<1> QED BY <1>1, <1>2, <1>3, <1>4, <1>5 DEF LlmStep

BInv ==
    /\ PlaceOK /\ counts \in [Counters -> Nat]
    /\ Working => /\ Undetected = Cardinality(At({"sam3_queue", "detecting"}))
                  /\ Unput = Cardinality(At({"putting"}))
                  /\ Unconfirmed = Cardinality(At({"llm_queue", "confirming"}))
                  /\ Unsaved = Cardinality(At({"saving"}))

\* Until the workers are cancelled every step tallies, or moves and counts nothing.
LEMMA EveryStepTallies ==
    ASSUME counts \in [Counters -> Nat], [Next]_vars, Working'
    PROVE  \/ Working /\ UNCHANGED <<place, counts>>
           \/ Working /\ \E f \in Frames, to \in Places : Tallied(f, to)
<1>1. ASSUME NEW f \in Frames, Request(f) \/ Sam3Step(f) \/ LlmStep(f)
      PROVE  phase' = phase /\ \E to \in Places : Tallied(f, to)
  <2>1. phase' = phase
    BY <1>1, RequestShifts, Sam3StepShifts, LlmStepShifts DEF Shift
  <2> QED BY <1>1, <2>1, RequestTallies, Sam3StepTallies, LlmStepTallies
<1>2. ASSUME NEW f \in Frames, CancelStep(f) PROVE FALSE
  <2>1. phase = "cancelled" /\ phase' = phase
    BY <1>2, CancelStepShifts DEF CancelStep, CancelDetect, CancelPut, CancelConfirm, Shift
  <2> QED BY <2>1 DEF Working
<1>3. ASSUME StopMonitor \/ StopStep \/ Tick \/ Stopped \/ UNCHANGED vars
      PROVE  Working /\ UNCHANGED <<place, counts>>
  BY <1>3, OtherStays, OtherBounded DEF Stay, Unbound, Working
<1> QED BY <1>1, <1>2, <1>3 DEF Next, Working

LEMMA BalanceStep == BInv /\ TInv /\ [Next]_vars => BInv'
<1> SUFFICES ASSUME BInv, TInv, [Next]_vars PROVE BInv'
  OBVIOUS
<1>1. PlaceOK' /\ counts' \in [Counters -> Nat]
  BY TypesStep DEF TInv, UInv, Bounds
<1>2. CASE ~Working'
  BY <1>1, <1>2 DEF BInv
<1>3. CASE Working /\ UNCHANGED <<place, counts>>
  BY <1>1, <1>3 DEF BInv, At, Undetected, Unput, Unconfirmed, Unsaved
<1>4. ASSUME Working, NEW f \in Frames, NEW to \in Places, Tallied(f, to) PROVE BInv'
  BY <1>1, <1>4, CounterFollows DEF BInv, Tallied
<1> QED BY <1>2, <1>3, <1>4, EveryStepTallies DEF BInv

\* The counters of /health account for every accepted frame, stage by stage: no way
\* out of a stage forgets to count or counts twice, until the workers are cancelled.
THEOREM CountsAreBalanced == Spec => []CountsBalance
<1>1. Init => BInv
  <2> SUFFICES ASSUME Init PROVE BInv
    OBVIOUS
  <2>1. \A P : "client" \notin P => Cardinality(At(P)) = 0
    BY InitPlaces, FS_EmptySet
  <2> QED BY <2>1, InitPlaces
      DEF Init, BInv, Counters, Undetected, Unput, Unconfirmed, Unsaved
<1>2. BInv => CountsBalance
  <2>1. \A P : Cardinality(At(P)) \in Nat
    BY AtFinite
  <2>2. BInv => \A c \in Counters : counts[c] \in Nat
    BY DEF BInv
  <2> QED BY <2>1, <2>2
      DEF BInv, CountsBalance, Counters, Undetected, Unput, Unconfirmed, Unsaved
<1> QED BY <1>1, <1>2, BalanceStep, TypesHold, PTL DEF Spec

\* Once shutdown has begun nothing more is accepted: what a late decoding brings is
\* refused by the second check.
THEOREM NothingIsAcceptedLate == Spec => NothingAcceptedLate
<1>1. ASSUME TInv, [Next]_vars, phase # "serving"
      PROVE  counts'["accepted"] = counts["accepted"]
  <2>1. /\ counts \in [Counters -> Nat] /\ "accepted" \in Counters
        /\ \A C : Count(C) /\ "accepted" \notin C => counts'["accepted"] = counts["accepted"]
    BY <1>1 DEF TInv, Bounds, Counters, Count
  <2>2. ASSUME NEW f \in Frames, Request(f) PROVE UNCHANGED counts
    BY <1>1, <2>2 DEF Request, Upload, Refuse, Submit, MayAccept
  <2>3. ASSUME NEW f \in Frames, Sam3Step(f) \/ LlmStep(f) \/ CancelStep(f)
        PROVE  UNCHANGED counts \/ \E C : Count(C) /\ "accepted" \notin C
    <3>1. CASE Sam3Step(f)
      BY <3>1 DEF Sam3Step, TakeFrame, DetectFails, DetectNegative, Suppress, AdmitAndPut,
                  AdmitAndBlock, PutResumes
    <3>2. CASE LlmStep(f)
      BY <3>2 DEF LlmStep, TakeCandidate, ConfirmFails, ConfirmRejects, ConfirmAccepts,
                  SaveReturns, SaveRaises, FallbackReady, ReserveSuppresses, ReserveGrants,
                  SendReturns, FinishAlarm, UpdateReturns, AlarmCounter
    <3>3. CASE CancelStep(f)
      BY <3>3 DEF CancelStep, CancelDetect, CancelPut, CancelConfirm
    <3> QED BY <2>3, <3>1, <3>2, <3>3
  <2>4. CASE StopMonitor \/ StopStep \/ Tick \/ Stopped \/ UNCHANGED vars
    BY <2>4, OtherBounded DEF Unbound
  <2> QED BY <1>1, <2>1, <2>2, <2>3, <2>4 DEF Next
<1>2. TInv /\ [Next]_vars
      => [phase # "serving" => counts'["accepted"] = counts["accepted"]]_vars
  BY <1>1
<1> QED BY <1>2, TypesHold, PTL DEF Spec, NothingAcceptedLate
=============================================================================
