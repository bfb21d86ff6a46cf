------------------------------ MODULE Pipeline ------------------------------
(***************************************************************************)
(* The frame pipeline (src/app/pipeline.py) with the upload handler that   *)
(* feeds it (submit_frame in main.py): two bounded asyncio queues, a pool  *)
(* of SAM3 workers, a pool of LLM workers, the per-stream gate between     *)
(* them, and the shutdown.  Everything runs on one event loop: an action   *)
(* is the code between two awaits.                                         *)
(*                                                                         *)
(* A worker has no identity of its own.  place[f] says which statement the *)
(* task that holds frame f is suspended in, and a pool has a free worker   *)
(* when fewer frames than its size are held by it.                         *)
(***************************************************************************)
EXTENDS Naturals, Sequences, FiniteSets

CONSTANTS
    Frames,                        \* the uploads, one request each
    Streams, StreamOf,             \* (machine_id, stream_id) of every frame
    Sam3QueueSize, LlmQueueSize,
    Sam3Concurrency, LlmConcurrency,
    Cooldown, PruneEvery, MaxClock \* see StreamGate

ASSUME PipelineAssumption ==
    /\ IsFiniteSet(Frames)
    /\ StreamOf \in [Frames -> Streams]
    /\ {Sam3QueueSize, LlmQueueSize, Sam3Concurrency, LlmConcurrency}
          \subseteq Nat \ {0}
    /\ Cooldown \in Nat /\ PruneEvery \in Nat \ {0} /\ MaxClock \in Nat

VARIABLES
    place,           \* frame -> where its task is
    sam3Queue,       \* self.sam3_queue
    llmQueue,        \* self.llm_queue
    sam3Unfinished,  \* the queues' _unfinished_tasks, which join() waits on
    llmUnfinished,
    active, lastAdmitted, operations, clock, \* self.llm_gate
    reserved,        \* alarm_deduplicator._inflight
    saved,           \* frames whose evidence save() returned normally
    counts,          \* self.counts
    accepting,       \* self.accepting
    phase,           \* how far the lifespan's shutdown is
    timedOut         \* drain() hit shutdown_timeout_seconds

gateVars == <<active, lastAdmitted, operations, clock>>
queueVars == <<sam3Queue, llmQueue, sam3Unfinished, llmUnfinished>>
alarmVars == <<reserved, saved>>
stopVars == <<accepting, phase, timedOut>>
vars == <<place, queueVars, gateVars, alarmVars, counts, stopVars>>

Gate == INSTANCE StreamGate

-----------------------------------------------------------------------------
Sam3Stage == {"detecting", "putting"}
AfterSend == {"declined", "raised", "sent"}
LlmStage == {"confirming", "saving", "annotating", "reserving", "sending",
             "updating"} \cup AfterSend
Sam3Places == {"sam3_queue"} \cup Sam3Stage
LlmPlaces == {"llm_queue"} \cup LlmStage
Settled == {"rejected", "done", "dropped"}
Places == {"client", "decoding"} \cup Sam3Places \cup LlmPlaces \cup Settled

At(P) == {f \in Frames : place[f] \in P}

\* The frames that hold a slot of the gate: "one candidate per stream".
Candidates == At({"putting"} \cup LlmPlaces)

Counters == {"accepted", "sam3_failed", "sam3_negative", "sam3_candidates",
             "llm_suppressed", "llm_enqueued", "llm_failed", "llm_rejected",
             "confirmed", "saved", "save_failed", "alarm_suppressed",
             "alarm_failed", "alarm_sent"}

Phases == {"serving", "monitor_stopped", "join_sam3", "join_llm",
           "cancelled", "stopped"}

Init ==
    /\ place = [f \in Frames |-> "client"]
    /\ sam3Queue = <<>> /\ llmQueue = <<>>
    /\ sam3Unfinished = 0 /\ llmUnfinished = 0
    /\ Gate!Init
    /\ reserved = {} /\ saved = {}
    /\ counts = [c \in Counters |-> 0]
    /\ accepting = TRUE
    /\ phase = "serving"
    /\ timedOut = FALSE

-----------------------------------------------------------------------------
Move(f, p) == place' = [place EXCEPT ![f] = p]

Count(C) == counts' = [c \in Counters |-> IF c \in C THEN counts[c] + 1 ELSE counts[c]]

\* cancel() makes the next resumption of every worker raise, whatever it was
\* about to be given: from then on no worker takes an ordinary step.
Working == phase \notin {"cancelled", "stopped"}

\* pipeline.healthy and monitor.ready.  The monitor may be unready at any time
\* (see Refuse) and is for good once it is stopping.
MayAccept == accepting /\ phase = "serving"

\* submit_frame up to its first await: the checks on the way in.
Upload(f) ==
    /\ place[f] = "client"
    /\ MayAccept
    /\ Len(sam3Queue) < Sam3QueueSize
    /\ Move(f, "decoding")
    /\ UNCHANGED <<queueVars, gateVars, alarmVars, counts, stopVars>>

\* Every way out with an error: 503 at either check, 429 at either check,
\* 400 or 413 for the image.
Refuse(f) ==
    /\ place[f] \in {"client", "decoding"}
    /\ Move(f, "rejected")
    /\ UNCHANGED <<queueVars, gateVars, alarmVars, counts, stopVars>>

SubmitUnchecked(f) ==
    /\ place[f] = "decoding"
    /\ Len(sam3Queue) < Sam3QueueSize
    /\ Move(f, "sam3_queue")
    /\ sam3Queue' = Append(sam3Queue, f)
    /\ sam3Unfinished' = sam3Unfinished + 1
    /\ Count({"accepted"})
    /\ UNCHANGED <<llmQueue, llmUnfinished, gateVars, alarmVars, stopVars>>

\* submit_frame after the decoding: both checks again, then submit().
Submit(f) ==
    /\ place[f] = "decoding"
    /\ MayAccept
    /\ Len(sam3Queue) < Sam3QueueSize
    /\ Move(f, "sam3_queue")
    /\ sam3Queue' = Append(sam3Queue, f)
    /\ sam3Unfinished' = sam3Unfinished + 1
    /\ Count({"accepted"})
    /\ UNCHANGED <<llmQueue, llmUnfinished, gateVars, alarmVars, stopVars>>

-----------------------------------------------------------------------------
\* A SAM3 worker's queue.get().
TakeFrame(f) ==
    /\ Working
    /\ place[f] = "sam3_queue"
    /\ sam3Queue # <<>> /\ f = Head(sam3Queue)
    /\ Cardinality(At(Sam3Stage)) < Sam3Concurrency
    /\ Move(f, "detecting")
    /\ sam3Queue' = Tail(sam3Queue)
    /\ UNCHANGED <<llmQueue, sam3Unfinished, llmUnfinished, gateVars, alarmVars,
                   counts, stopVars>>

\* _worker's finally after a frame that went no further than SAM3.
EndDetect(f, p) ==
    /\ Move(f, p)
    /\ sam3Unfinished' = sam3Unfinished - 1
    /\ UNCHANGED <<sam3Queue, llmQueue, llmUnfinished, alarmVars, stopVars>>

DetectFailsWithoutDone(f) ==
    /\ Working
    /\ place[f] = "detecting"
    /\ Count({"sam3_failed"})
    /\ Move(f, "done")
    /\ UNCHANGED <<queueVars, gateVars, alarmVars, stopVars>>

DetectFails(f) ==
    /\ Working
    /\ place[f] = "detecting"
    /\ Count({"sam3_failed"})
    /\ EndDetect(f, "done")
    /\ UNCHANGED gateVars

DetectNegative(f) ==
    /\ Working
    /\ place[f] = "detecting"
    /\ Count({"sam3_negative"})
    /\ EndDetect(f, "done")
    /\ UNCHANGED gateVars

Suppress(f) ==
    /\ Working
    /\ place[f] = "detecting"
    /\ Gate!RefuseInflight(StreamOf[f]) \/ Gate!RefuseCooldown(StreamOf[f])
    /\ Count({"sam3_candidates", "llm_suppressed"})
    /\ EndDetect(f, "done")

\* llm_queue.put() that finds room, then the counter and task_done.
Enqueue(f) ==
    /\ Move(f, "llm_queue")
    /\ llmQueue' = Append(llmQueue, f)
    /\ llmUnfinished' = llmUnfinished + 1
    /\ sam3Unfinished' = sam3Unfinished - 1
    /\ UNCHANGED <<sam3Queue, alarmVars, stopVars>>

\* Admitted and put without suspending: the queue has room.
AdmitAndPut(f) ==
    /\ Working
    /\ place[f] = "detecting"
    /\ Len(llmQueue) < LlmQueueSize
    /\ Gate!Grant(StreamOf[f])
    /\ Enqueue(f)
    /\ Count({"sam3_candidates", "llm_enqueued"})

AdmitAndBlockCountingEarly(f) ==
    /\ Working
    /\ place[f] = "detecting"
    /\ Len(llmQueue) = LlmQueueSize
    /\ Gate!Grant(StreamOf[f])
    /\ Move(f, "putting")
    /\ Count({"sam3_candidates", "llm_enqueued"})
    /\ UNCHANGED <<queueVars, alarmVars, stopVars>>

\* Admitted, and put() suspends: the worker keeps its frame and the gate slot.
AdmitAndBlock(f) ==
    /\ Working
    /\ place[f] = "detecting"
    /\ Len(llmQueue) = LlmQueueSize
    /\ Gate!Grant(StreamOf[f])
    /\ Move(f, "putting")
    /\ Count({"sam3_candidates"})
    /\ UNCHANGED <<queueVars, alarmVars, stopVars>>

PutResumesUnchecked(f) ==
    /\ Working
    /\ place[f] = "putting"
    /\ Enqueue(f)
    /\ Count({"llm_enqueued"})
    /\ UNCHANGED gateVars

\* put() resumes.  A put that never blocked may have taken the room first, and
\* a putter that lost it queues again behind the others: any order is possible.
PutResumes(f) ==
    /\ Working
    /\ place[f] = "putting"
    /\ Len(llmQueue) < LlmQueueSize
    /\ Enqueue(f)
    /\ Count({"llm_enqueued"})
    /\ UNCHANGED gateVars

-----------------------------------------------------------------------------
TakeCandidateFromSharedPool(f) ==
    /\ Working
    /\ place[f] = "llm_queue"
    /\ llmQueue # <<>> /\ f = Head(llmQueue)
    /\ Cardinality(At(LlmStage)) < LlmConcurrency
    /\ Cardinality(At(Sam3Stage \cup LlmStage)) < Sam3Concurrency
    /\ Move(f, "confirming")
    /\ llmQueue' = Tail(llmQueue)
    /\ UNCHANGED <<sam3Queue, sam3Unfinished, llmUnfinished, gateVars, alarmVars,
                   counts, stopVars>>

\* An LLM worker's queue.get().
TakeCandidate(f) ==
    /\ Working
    /\ place[f] = "llm_queue"
    /\ llmQueue # <<>> /\ f = Head(llmQueue)
    /\ Cardinality(At(LlmStage)) < LlmConcurrency
    /\ Move(f, "confirming")
    /\ llmQueue' = Tail(llmQueue)
    /\ UNCHANGED <<sam3Queue, sam3Unfinished, llmUnfinished, gateVars, alarmVars,
                   counts, stopVars>>

\* The finally of _confirm and then the finally of _worker.
EndConfirm(f, p) ==
    /\ Move(f, p)
    /\ Gate!Release(StreamOf[f])
    /\ llmUnfinished' = llmUnfinished - 1
    /\ UNCHANGED <<sam3Queue, llmQueue, sam3Unfinished, saved, stopVars>>

ConfirmFailsHoldingSlot(f) ==
    /\ Working
    /\ place[f] = "confirming"
    /\ Count({"llm_failed"})
    /\ Move(f, "done")
    /\ llmUnfinished' = llmUnfinished - 1
    /\ UNCHANGED <<sam3Queue, llmQueue, sam3Unfinished, gateVars, alarmVars, stopVars>>

ConfirmFails(f) ==
    /\ Working
    /\ place[f] = "confirming"
    /\ Count({"llm_failed"})
    /\ EndConfirm(f, "done")
    /\ UNCHANGED reserved

\* The verdict is negative or uncertain.
ConfirmRejects(f) ==
    /\ Working
    /\ place[f] = "confirming"
    /\ Count({"llm_rejected"})
    /\ EndConfirm(f, "done")
    /\ UNCHANGED reserved

\* A step of the LLM worker that keeps the frame and changes neither queue nor gate.
Continue(f, from, to) ==
    /\ Working
    /\ place[f] = from
    /\ Move(f, to)
    /\ UNCHANGED <<queueVars, gateVars, stopVars>>

ConfirmAccepts(f) ==
    /\ Continue(f, "confirming", "saving")
    /\ Count({"confirmed"})
    /\ UNCHANGED alarmVars

SaveReturns(f) ==
    /\ Continue(f, "saving", "reserving")
    /\ saved' = saved \cup {f}
    /\ Count({"saved"})
    /\ UNCHANGED reserved

SaveRaises(f) ==
    /\ Continue(f, "saving", "annotating")
    /\ Count({"save_failed"})
    /\ UNCHANGED alarmVars

\* The fallback annotation, which may fail too: the alarm goes on without it.
FallbackReady(f) ==
    /\ Continue(f, "annotating", "reserving")
    /\ UNCHANGED <<alarmVars, counts>>

\* reserve() decides under its lock.  It refuses a stream that holds a
\* reservation; the cooldown, which AlarmDedup models, may refuse any other.
ReserveSuppresses(f) ==
    /\ Working
    /\ place[f] = "reserving"
    /\ Count({"alarm_suppressed"})
    /\ UNCHANGED reserved
    /\ \/ f \in saved /\ Continue(f, "reserving", "updating") /\ UNCHANGED saved
       \/ f \notin saved /\ EndConfirm(f, "done")

ReserveGrants(f) ==
    /\ StreamOf[f] \notin reserved
    /\ Continue(f, "reserving", "sending")
    /\ reserved' = reserved \cup {StreamOf[f]}
    /\ UNCHANGED <<saved, counts>>

\* send_alarm() returns True, returns anything else, or raises.
SendReturns(f) ==
    /\ \E outcome \in AfterSend : Continue(f, "sending", outcome)
    /\ UNCHANGED <<alarmVars, counts>>

AlarmCounter(outcome) ==
    CASE outcome = "sent" -> {"alarm_sent"}
      [] outcome = "raised" -> {"alarm_failed"}
      [] OTHER -> {}

FinishAlarmOnlyWhenSent(f) ==
    /\ Working
    /\ place[f] \in AfterSend
    /\ reserved' = IF place[f] = "sent" THEN reserved \ {StreamOf[f]} ELSE reserved
    /\ Count(AlarmCounter(place[f]))
    /\ \/ /\ f \in saved /\ place[f] # "declined"
          /\ Continue(f, place[f], "updating")
          /\ UNCHANGED saved
       \/ /\ f \notin saved \/ place[f] = "declined"
          /\ EndConfirm(f, "done")

\* finish() gives the reservation back whatever happens.  A declined alarm ends
\* there, uncounted; otherwise saved evidence gets its metadata updated.
FinishAlarm(f) ==
    /\ Working
    /\ place[f] \in AfterSend
    /\ reserved' = reserved \ {StreamOf[f]}
    /\ Count(AlarmCounter(place[f]))
    /\ \/ /\ f \in saved /\ place[f] # "declined"
          /\ Continue(f, place[f], "updating")
          /\ UNCHANGED saved
       \/ /\ f \notin saved \/ place[f] = "declined"
          /\ EndConfirm(f, "done")

\* update_alarm() returns or raises: the frame is done either way.
UpdateReturns(f) ==
    /\ Working
    /\ place[f] = "updating"
    /\ EndConfirm(f, "done")
    /\ UNCHANGED <<reserved, counts>>

-----------------------------------------------------------------------------
\* The lifespan's finally: monitor.stop() first, then pipeline.stop().
StopMonitor ==
    /\ phase = "serving"
    /\ phase' = "monitor_stopped"
    /\ UNCHANGED <<place, queueVars, gateVars, alarmVars, counts, accepting, timedOut>>

StopAccepting ==
    /\ phase = "monitor_stopped"
    /\ accepting' = FALSE
    /\ phase' = "join_sam3"
    /\ UNCHANGED <<place, queueVars, gateVars, alarmVars, counts, timedOut>>

Sam3NotJoined ==
    /\ phase = "join_sam3"
    /\ phase' = "join_llm"
    /\ UNCHANGED <<place, queueVars, gateVars, alarmVars, counts, accepting, timedOut>>

Sam3Joined ==
    /\ phase = "join_sam3"
    /\ sam3Unfinished = 0
    /\ phase' = "join_llm"
    /\ UNCHANGED <<place, queueVars, gateVars, alarmVars, counts, accepting, timedOut>>

LlmJoined ==
    /\ phase = "join_llm"
    /\ llmUnfinished = 0
    /\ phase' = "cancelled"
    /\ UNCHANGED <<place, queueVars, gateVars, alarmVars, counts, accepting, timedOut>>

DeadlineOnFirstJoin ==
    /\ phase = "join_sam3"
    /\ phase' = "cancelled"
    /\ timedOut' = TRUE
    /\ UNCHANGED <<place, queueVars, gateVars, alarmVars, counts, accepting>>

\* wait_for() gives up on drain().
Deadline ==
    /\ phase \in {"join_sam3", "join_llm"}
    /\ phase' = "cancelled"
    /\ timedOut' = TRUE
    /\ UNCHANGED <<place, queueVars, gateVars, alarmVars, counts, accepting>>

CancelDetect(f) ==
    /\ phase = "cancelled"
    /\ place[f] = "detecting"
    /\ EndDetect(f, "dropped")
    /\ UNCHANGED <<gateVars, counts>>

\* The except BaseException of _detect.
CancelPut(f) ==
    /\ phase = "cancelled"
    /\ place[f] = "putting"
    /\ Gate!Release(StreamOf[f])
    /\ EndDetect(f, "dropped")
    /\ UNCHANGED counts

\* Cancelled in send_alarm() the reservation is never given back; cancelled in
\* finish() it is when the lock was already held.
CancelConfirm(f) ==
    /\ phase = "cancelled"
    /\ place[f] \in LlmStage
    /\ EndConfirm(f, "dropped")
    /\ \/ UNCHANGED reserved
       \/ place[f] \in AfterSend /\ reserved' = reserved \ {StreamOf[f]}
    /\ UNCHANGED counts

\* gather() over the workers returns.
StopReturns ==
    /\ phase = "cancelled"
    /\ At(Sam3Stage \cup LlmStage) = {}
    /\ phase' = "stopped"
    /\ UNCHANGED <<place, queueVars, gateVars, alarmVars, counts, accepting, timedOut>>

Tick ==
    /\ Gate!Tick
    /\ UNCHANGED <<place, queueVars, alarmVars, counts, stopVars>>

\* The process has stopped and every request has been answered.
Stopped ==
    /\ phase = "stopped"
    /\ UNCHANGED vars

-----------------------------------------------------------------------------
Request(f) == Upload(f) \/ Refuse(f) \/ Submit(f)

Sam3Step(f) ==
    \/ TakeFrame(f) \/ DetectFails(f) \/ DetectNegative(f) \/ Suppress(f)
    \/ AdmitAndPut(f) \/ AdmitAndBlock(f) \/ PutResumes(f)

LlmStep(f) ==
    \/ TakeCandidate(f) \/ ConfirmFails(f) \/ ConfirmRejects(f) \/ ConfirmAccepts(f)
    \/ SaveReturns(f) \/ SaveRaises(f) \/ FallbackReady(f)
    \/ ReserveSuppresses(f) \/ ReserveGrants(f) \/ SendReturns(f)
    \/ FinishAlarm(f) \/ UpdateReturns(f)

CancelStep(f) == CancelDetect(f) \/ CancelPut(f) \/ CancelConfirm(f)

StopStep == StopAccepting \/ Sam3Joined \/ LlmJoined \/ Deadline \/ StopReturns

Next ==
    \/ \E f \in Frames : Request(f) \/ Sam3Step(f) \/ LlmStep(f) \/ CancelStep(f)
    \/ StopMonitor \/ StopStep \/ Tick \/ Stopped

Spec == Init /\ [][Next]_vars

\* The event loop runs every ready task, and every await of a worker ends: the
\* SAM3 and LLM calls have timeouts, threads and the alarm call return.
WorkersRun == \A f \in Frames : WF_vars(Sam3Step(f)) /\ WF_vars(LlmStep(f))

\* What shutdown itself relies on: the deadline timer and the delivery of
\* cancellations.  No upstream has to answer.
ShutdownRuns == WF_vars(StopStep) /\ \A f \in Frames : WF_vars(CancelStep(f))

-----------------------------------------------------------------------------
\* Types, the bounds of the queues and the sizes of the pools.
TypeOK ==
    /\ place \in [Frames -> Places]
    /\ sam3Queue \in Seq(Frames) /\ Len(sam3Queue) <= Sam3QueueSize
    /\ llmQueue \in Seq(Frames) /\ Len(llmQueue) <= LlmQueueSize
    /\ sam3Unfinished \in Nat /\ llmUnfinished \in Nat
    /\ Cardinality(At(Sam3Stage)) <= Sam3Concurrency
    /\ Cardinality(At(LlmStage)) <= LlmConcurrency
    /\ Gate!GateTypeOK
    /\ reserved \subseteq Streams /\ saved \subseteq Frames
    /\ counts \in [Counters -> Nat]
    /\ accepting \in BOOLEAN /\ phase \in Phases /\ timedOut \in BOOLEAN

\* The gate's slots are exactly the streams of the frames that wait for the LLM
\* queue, wait in it or are being confirmed, one frame per stream: no way out
\* of _detect and _confirm (failure, verdict, alarm, cancellation) leaks a slot
\* or gives back one that another frame holds.
GateExact ==
    /\ active = {StreamOf[f] : f \in Candidates}
    /\ \A f, g \in Candidates : StreamOf[f] = StreamOf[g] => f = g

\* task_done is called once for every item taken, whatever happened to it: what
\* join() waits on is exactly the frames queued or held by a worker.
UnfinishedExact ==
    /\ sam3Unfinished = Cardinality(At(Sam3Places))
    /\ llmUnfinished = Cardinality(At(LlmPlaces))

\* A shutdown that did not hit its deadline loses no frame it had accepted: the
\* frames a SAM3 worker was still handing over are joined too (drain, stop).
DrainLosesNothing ==
    phase \in {"cancelled", "stopped"} /\ ~timedOut =>
        At(Sam3Places \cup LlmPlaces \cup {"dropped"}) = {}

\* A frame that asks for an alarm reservation never finds one of its stream
\* still held, so reserve() never drops a confirmed alarm as stream_inflight.
ReservationIsFree ==
    Working => \A f \in At({"reserving"}) : StreamOf[f] \notin reserved

\* The counters of /health account for every accepted frame, stage by stage.
CountsBalance ==
    Working =>
      LET N(P) == Cardinality(At(P)) IN
      /\ counts["accepted"] = N({"sam3_queue", "detecting"}) + counts["sam3_failed"]
                              + counts["sam3_negative"] + counts["sam3_candidates"]
      /\ counts["sam3_candidates"] =
            N({"putting"}) + counts["llm_suppressed"] + counts["llm_enqueued"]
      /\ counts["llm_enqueued"] = N({"llm_queue", "confirming"}) + counts["llm_failed"]
                                  + counts["llm_rejected"] + counts["confirmed"]
      /\ counts["confirmed"] = N({"saving"}) + counts["saved"] + counts["save_failed"]

\* Once shutdown has begun no frame enters the queue, not even one whose image
\* was being decoded when it began (the second check of submit_frame).
NothingAcceptedLate ==
    [][phase # "serving" => counts'["accepted"] = counts["accepted"]]_vars

\* Where the workers' awaits end, every accepted frame is dealt with or discarded
\* by the shutdown, wherever it is: SAM3 workers that are blocked in put() on a
\* full LLM queue, and the LLM workers that empty it, never wait on each other
\* for good, even when every SAM3 worker is blocked (_detect, _worker).
FramesSettle ==
    WorkersRun =>
        \A f \in Frames :
            place[f] \in Sam3Places \cup LlmPlaces
                ~> place[f] \in Settled \/ phase = "stopped"

\* stop() returns even if no upstream ever answers again.
ShutdownEnds == phase = "join_sam3" ~> phase = "stopped"
=============================================================================
