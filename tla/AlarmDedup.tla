----------------------------- MODULE AlarmDedup -----------------------------
(***************************************************************************)
(* AlarmDeduplicator (src/app/dedup.py) driven as _deliver_alarm drives it *)
(* (src/app/pipeline.py): reserve under an asyncio lock, send, finish      *)
(* under the lock.  Rows are read and written by threads while the lock is *)
(* held across the await, so other calls, the wall clock and a crash come  *)
(* in between.  The calls are not assumed to be one per stream: the class  *)
(* promises that by itself.                                                *)
(***************************************************************************)
EXTENDS Naturals

CONSTANTS
    Calls,        \* the calls of _deliver_alarm
    Streams,
    Hazards,      \* {"fire", "smoke"}: the two bits of _HAZARD_BITS
    NoCall,       \* the lock is free
    Cooldown,     \* alarm_stream_cooldown_seconds, in ticks of the wall clock
    Retention,    \* retention_days
    Tolerance,    \* future_tolerance_seconds
    MaxTime,      \* bound on the wall clock
    MaxFaults,    \* bound on reads, writes, deletes and databases that fail
    MaxCrashes,   \* bound on process crashes
    MaxSteps      \* bound on steps of the wall clock

\* Settings bounds the cooldown by one day and the retention below by one day.
ASSUME DedupAssumption ==
    /\ NoCall \notin Calls
    /\ {Cooldown, Retention, Tolerance, MaxTime, MaxFaults, MaxCrashes, MaxSteps}
          \subseteq Nat
    /\ Retention >= Cooldown

VARIABLES
    call,       \* call -> its statement and its local variables
    lock,       \* self._lock: the call that holds it, or NoCall
    inflight,   \* self._inflight
    db,         \* alarm_state: stream -> row
    now,        \* time.time()
    up,         \* the process is running
    budget,     \* faults, crashes and clock steps left
    delivered,  \* history: what the receiver got, by stream
    excused     \* history: streams whose memory of alarms was lost

vars == <<call, lock, inflight, db, now, up, budget, delivered, excused>>

\* A row that does not exist, as _read's None: no stored row is without hazards.
Row == [at : Nat, hazards : SUBSET Hazards]
NoRow == [at |-> 0, hazards |-> {}]

Waiting == {"reserve", "finish_sent", "finish_unsent"}  \* for the lock
Holding == {"reading", "deciding", "deleting", "writing"}
Reserved == {"sending", "finish_sent", "finish_unsent", "writing"}
Ended == {"refused", "suppressed", "done", "unrecorded", "unsent", "lost"}

NewCall(s) == [at |-> "new", stream |-> s, hazards |-> {}, row |-> NoRow,
               merged |-> {}, stamp |-> 0]

Init ==
    /\ call \in [Calls -> {NewCall(s) : s \in Streams}]
    /\ lock = NoCall
    /\ inflight = {}
    /\ db = [s \in Streams |-> NoRow]
    /\ now = 0
    /\ up = FALSE
    /\ budget = [faults |-> MaxFaults, crashes |-> MaxCrashes, steps |-> MaxSteps]
    /\ delivered = [s \in Streams |-> {}]
    /\ excused = {}

-----------------------------------------------------------------------------
StreamOf(t) == call[t].stream
Go(t, at) == call' = [call EXCEPT ![t].at = at]

\* As Go, out of the scope of the row read by reserve() or of the reservation.
Forget(t, at) ==
    call' = [call EXCEPT ![t].at = at, ![t].row = NoRow, ![t].merged = {}]

Spend(what) ==
    /\ budget[what] > 0
    /\ budget' = [budget EXCEPT ![what] = @ - 1]
Excuse(S) == excused' = excused \cup S

\* DELETE ... WHERE sent_at < cutoff
PruneRows(table) ==
    [s \in Streams |-> IF table[s].at + Retention < now THEN NoRow ELSE table[s]]

\* What the receiver has got for a stream, at any time and within the cooldown.
EverAlarmed(s) == {d.hazard : d \in delivered[s]}
Recent(s) == {d.hazard : d \in {e \in delivered[s] : now < e.at + Cooldown}}

-----------------------------------------------------------------------------
\* A confirmed frame comes to _deliver_alarm with one or both hazards.
Call(t) ==
    /\ up
    /\ call[t].at = "new"
    /\ \E H \in (SUBSET Hazards) \ {{}} :
          call' = [call EXCEPT ![t].at = "reserve", ![t].hazards = H]
    /\ UNCHANGED <<lock, inflight, db, now, up, budget, delivered, excused>>

ReserveEntersUnlocked(t) ==
    /\ call[t].at = "reserve"
    /\ UNCHANGED <<inflight, lock>>
    /\ IF StreamOf(t) \in inflight THEN Go(t, "refused") ELSE Go(t, "reading")
    /\ UNCHANGED <<db, now, up, budget, delivered, excused>>

\* reserve() gets the lock; the stream_inflight return gives it up at once.
ReserveEnters(t) ==
    /\ call[t].at = "reserve"
    /\ lock = NoCall
    /\ IF StreamOf(t) \in inflight
       THEN Go(t, "refused") /\ UNCHANGED lock
       ELSE Go(t, "reading") /\ lock' = t
    /\ UNCHANGED <<inflight, db, now, up, budget, delivered, excused>>

ReadRow(t) ==
    /\ call[t].at = "reading"
    /\ call' = [call EXCEPT ![t].at = "deciding", ![t].row = db[StreamOf(t)]]
    /\ UNCHANGED <<lock, inflight, db, now, up, budget, delivered, excused>>

\* A failed read counts as no row: the alarm is allowed.
ReadFails(t) ==
    /\ call[t].at = "reading"
    /\ Spend("faults")
    /\ call' = [call EXCEPT ![t].at = "deciding", ![t].row = NoRow]
    /\ Excuse({StreamOf(t)})
    /\ UNCHANGED <<lock, inflight, db, now, up, delivered>>

FromNever(row) == FALSE
FromFuture(row) == row # NoRow /\ row.at > now + Tolerance

\* elapsed: a row of the near future counts as just sent.
Elapsed(row) == IF row.at < now THEN now - row.at ELSE 0

CoolingDownThrough(row) == row # NoRow /\ ~FromFuture(row) /\ Elapsed(row) <= Cooldown

CoolingDown(row) == row # NoRow /\ ~FromFuture(row) /\ Elapsed(row) < Cooldown

SuppressKeepingLock(t) ==
    LET row == call[t].row IN
    /\ call[t].at = "deciding"
    /\ CoolingDown(row)
    /\ call[t].hazards \subseteq row.hazards
    /\ Forget(t, "suppressed")
    /\ UNCHANGED <<lock, inflight, db, now, up, budget, delivered, excused>>

Suppress(t) ==
    LET row == call[t].row IN
    /\ call[t].at = "deciding"
    /\ CoolingDown(row)
    /\ call[t].hazards \subseteq row.hazards
    /\ Forget(t, "suppressed")
    /\ lock' = NoCall
    /\ UNCHANGED <<inflight, db, now, up, budget, delivered, excused>>

\* The end of reserve(): the reservation covers H.
Reserve(t, H) ==
    /\ call' = [call EXCEPT ![t].at = "sending", ![t].row = NoRow,
                             ![t].merged = H]
    /\ inflight' = inflight \cup {StreamOf(t)}
    /\ lock' = NoCall

GrantWithoutOwn(t) ==
    LET row == call[t].row IN
    /\ call[t].at = "deciding"
    /\ ~FromFuture(row)
    /\ CoolingDown(row) => ~(call[t].hazards \subseteq row.hazards)
    /\ Reserve(t, IF CoolingDown(row) THEN row.hazards ELSE {})
    /\ UNCHANGED <<db, now, up, budget, delivered, excused>>

GrantForgetting(t) ==
    LET row == call[t].row IN
    /\ call[t].at = "deciding"
    /\ ~FromFuture(row)
    /\ CoolingDown(row) => ~(call[t].hazards \subseteq row.hazards)
    /\ Reserve(t, call[t].hazards)
    /\ UNCHANGED <<db, now, up, budget, delivered, excused>>

Grant(t) ==
    LET row == call[t].row IN
    /\ call[t].at = "deciding"
    /\ ~FromFuture(row)
    /\ CoolingDown(row) => ~(call[t].hazards \subseteq row.hazards)
    /\ Reserve(t, call[t].hazards \cup (IF CoolingDown(row) THEN row.hazards ELSE {}))
    /\ UNCHANGED <<db, now, up, budget, delivered, excused>>

\* A row of the far future is ignored, and deleted before the reservation.
IgnoreFuture(t) ==
    /\ call[t].at = "deciding"
    /\ FromFuture(call[t].row)
    /\ Go(t, "deleting")
    /\ Excuse({StreamOf(t)})
    /\ UNCHANGED <<lock, inflight, db, now, up, budget, delivered>>

DeleteRow(t) ==
    /\ call[t].at = "deleting"
    /\ db' = [db EXCEPT ![StreamOf(t)] = NoRow]
    /\ Reserve(t, call[t].hazards)
    /\ UNCHANGED <<now, up, budget, delivered, excused>>

DeleteFails(t) ==
    /\ call[t].at = "deleting"
    /\ Spend("faults")
    /\ Reserve(t, call[t].hazards)
    /\ UNCHANGED <<db, now, up, delivered, excused>>

-----------------------------------------------------------------------------
Deliver(t) ==
    delivered' = [delivered EXCEPT ![StreamOf(t)] =
                    @ \cup {[hazard |-> h, at |-> now] : h \in call[t].hazards}]

\* send_alarm() returns True.
SendReturns(t) ==
    /\ call[t].at = "sending"
    /\ Deliver(t)
    /\ Go(t, "finish_sent")
    /\ UNCHANGED <<lock, inflight, db, now, up, budget, excused>>

SendFailsRecorded(t) ==
    /\ call[t].at = "sending"
    /\ Go(t, "finish_sent")
    /\ UNCHANGED <<lock, inflight, db, now, up, budget, delivered, excused>>

\* It raises or returns anything but True, and nothing was received.
SendFails(t) ==
    /\ call[t].at = "sending"
    /\ Go(t, "finish_unsent")
    /\ UNCHANGED <<lock, inflight, db, now, up, budget, delivered, excused>>

\* It raises although the receiver got the alarm: a lost answer.
SendAnswerLost(t) ==
    /\ call[t].at = "sending"
    /\ Spend("faults")
    /\ Deliver(t)
    /\ Go(t, "finish_unsent")
    /\ Excuse({StreamOf(t)})
    /\ UNCHANGED <<lock, inflight, db, now, up>>

FinishUnsent(t) ==
    /\ call[t].at = "finish_unsent"
    /\ lock = NoCall
    /\ Forget(t, "unsent")
    /\ inflight' = inflight \ {StreamOf(t)}
    /\ UNCHANGED <<lock, db, now, up, budget, delivered, excused>>

\* finish(sent=True) gets the lock and reads the clock for the row.
FinishEnters(t) ==
    /\ call[t].at = "finish_sent"
    /\ lock = NoCall
    /\ lock' = t
    /\ call' = [call EXCEPT ![t].at = "writing", ![t].stamp = now]
    /\ UNCHANGED <<inflight, db, now, up, budget, delivered, excused>>

\* The finally of finish(), and the end of the async with.
Leave(t) ==
    /\ inflight' = inflight \ {StreamOf(t)}
    /\ lock' = NoCall

Write(t) ==
    /\ call[t].at = "writing"
    /\ db' = PruneRows([db EXCEPT ![StreamOf(t)] =
                          [at |-> call[t].stamp, hazards |-> call[t].merged]])
    /\ Leave(t)
    /\ Forget(t, "done")
    /\ UNCHANGED <<now, up, budget, delivered, excused>>

\* As Forget, and no row bears the time that was to be written.
Unrecorded(t) ==
    call' = [call EXCEPT ![t].at = "unrecorded", ![t].row = NoRow, ![t].merged = {},
                         ![t].stamp = 0]

WriteFailsKeepingLock(t) ==
    /\ call[t].at = "writing"
    /\ Spend("faults")
    /\ Unrecorded(t)
    /\ inflight' = inflight \ {StreamOf(t)}
    /\ Excuse({StreamOf(t)})
    /\ UNCHANGED <<lock, db, now, up, delivered>>

\* finish() raises, which _deliver_alarm catches: the alarm was sent all the same.
WriteFails(t) ==
    /\ call[t].at = "writing"
    /\ Spend("faults")
    /\ Leave(t)
    /\ Unrecorded(t)
    /\ Excuse({StreamOf(t)})
    /\ UNCHANGED <<db, now, up, delivered>>

-----------------------------------------------------------------------------
\* The process dies, or shutdown cancels its workers: the lock, the reservations
\* and the calls are gone, the database stays.
Crash ==
    /\ up
    /\ Spend("crashes")
    /\ up' = FALSE
    /\ call' = [t \in Calls |->
                  IF call[t].at \in Waiting \cup Holding \cup Reserved
                  THEN [NewCall(StreamOf(t)) EXCEPT !.at = "lost"] ELSE call[t]]
    /\ lock' = NoCall
    /\ inflight' = {}
    /\ Excuse({StreamOf(t) : t \in {u \in Calls : call[u].at \in {"finish_sent", "writing"}}})
    /\ UNCHANGED <<db, now, delivered>>

\* initialize(): the integrity check passes and old rows go.
Initialize ==
    /\ ~up
    /\ up' = TRUE
    /\ db' = PruneRows(db)
    /\ UNCHANGED <<call, lock, inflight, now, budget, delivered, excused>>

\* initialize(): the check fails, the file is quarantined, the table starts empty.
InitializeCorrupt ==
    /\ ~up
    /\ Spend("faults")
    /\ up' = TRUE
    /\ db' = [s \in Streams |-> NoRow]
    /\ Excuse(Streams)
    /\ UNCHANGED <<call, lock, inflight, now, delivered>>

Tick ==
    /\ now < MaxTime
    /\ now' = now + 1
    /\ UNCHANGED <<call, lock, inflight, db, up, budget, delivered, excused>>

\* The wall clock is set, to an earlier or a later time.
SetClock ==
    /\ Spend("steps")
    /\ \E time \in 0 .. MaxTime : time # now + 1 /\ now' = time
    /\ Excuse(Streams)
    /\ UNCHANGED <<call, lock, inflight, db, up, delivered>>

CallStep(t) ==
    \/ ReserveEnters(t) \/ ReadRow(t) \/ ReadFails(t)
    \/ Suppress(t) \/ Grant(t) \/ IgnoreFuture(t) \/ DeleteRow(t) \/ DeleteFails(t)
    \/ SendReturns(t) \/ SendFails(t) \/ SendAnswerLost(t)
    \/ FinishUnsent(t) \/ FinishEnters(t) \/ Write(t) \/ WriteFails(t)

Process == Crash \/ Initialize \/ InitializeCorrupt

Next ==
    \/ \E t \in Calls : Call(t) \/ CallStep(t)
    \/ Process \/ Tick \/ SetClock

Spec == Init /\ [][Next]_vars

\* Threads end (sqlite waits 5 s at most) and so does send_alarm().
FairSpec == Spec /\ \A t \in Calls : WF_vars(CallStep(t))

-----------------------------------------------------------------------------
TypeOK ==
    /\ call \in [Calls -> [at : {"new"} \cup Waiting \cup Holding \cup Reserved \cup Ended,
                           stream : Streams, hazards : SUBSET Hazards, row : Row,
                           merged : SUBSET Hazards, stamp : Nat]]
    /\ lock \in Calls \cup {NoCall}
    /\ inflight \subseteq Streams
    /\ db \in [Streams -> Row]
    /\ \A s \in Streams : db[s].hazards = {} => db[s] = NoRow
    /\ now \in Nat
    /\ up \in BOOLEAN
    /\ budget \in [faults : Nat, crashes : Nat, steps : Nat]
    /\ delivered \in [Streams -> SUBSET [hazard : Hazards, at : Nat]]
    /\ excused \subseteq Streams

\* The lock is held by exactly the call that is between its acquisition and its
\* release: no branch of reserve or finish, and no error, leaves it locked.
LockExact == \A t \in Calls : call[t].at \in Holding <=> lock = t

\* The reservations are the streams of the calls between reserve and the end of
\* finish, one call per stream: two alarms of a stream are never sent at once.
ReservationsExact ==
    /\ inflight = {StreamOf(t) : t \in {u \in Calls : call[u].at \in Reserved}}
    /\ \A t, u \in Calls :
          /\ call[t].at \in Reserved /\ call[u].at \in Reserved
          /\ StreamOf(t) = StreamOf(u)
          => t = u

\* Only alarms that were received suppress later ones: a failed or interrupted
\* delivery, or another stream's, never silences a hazard.
SuppressedWasAlarmed ==
    \A t \in Calls :
        call[t].at = "suppressed" => call[t].hazards \subseteq EverAlarmed(StreamOf(t))

\* A stream whose memory was never lost is not alarmed twice within the cooldown
\* for the same hazards: the merge, the pruning, restarts and other calls keep
\* every alarm that still counts.
NoDuplicateAlarm ==
    [][\A t \in Calls :
          call[t].at # "sending" /\ call'[t].at = "sending" /\ StreamOf(t) \notin excused
          => ~(call[t].hazards \subseteq Recent(StreamOf(t)))]_vars

\* Every delivery ends: with an alarm, a failure, a suppression or the process.
DeliveryEnds == \A t \in Calls : call[t].at = "reserve" ~> call[t].at \in Ended

\* README.md, "records clearly in the future are ignored": whatever the wall clock,
\* crashes and corrupt files did, an alarm is withheld only when finish() wrote the row
\* of one of its stream less than the cooldown ago, or not later than the tolerance
\* ahead; a write that failed does not count.
RecordedRecently(s) ==
    \E u \in Calls :
        /\ StreamOf(u) = s /\ call[u].at = "done"
        /\ call[u].stamp <= now + Tolerance /\ now < call[u].stamp + Cooldown

SilenceIsShort ==
    [][\A t \in Calls :
          call[t].at = "deciding" /\ call'[t].at = "suppressed"
          => RecordedRecently(StreamOf(t))]_vars

\* dedup.py:81, "serialize alarm delivery per stream": reserve() and finish() answer
\* as if each were one step on a memory that nobody else touches, although they wait
\* for threads, read before they decide, prune, fail and restart.
RowOf(s) ==
    IF \E t \in Calls : lock = t /\ call[t].at = "writing" /\ StreamOf(t) = s
    THEN [at |-> call[lock].stamp, hazards |-> call[lock].merged] ELSE db[s]

Memory(s) ==
    IF s \notin excused /\ now < RowOf(s).at + Cooldown THEN RowOf(s) ELSE NoRow

AlarmOf(c) ==
    [stream |-> c.stream, hazards |-> c.hazards,
     at |-> IF c.at \in {"reading", "deciding", "deleting"} THEN "reserve" ELSE c.at,
     covers |-> IF c.at \in {"sending", "finish_sent"} THEN c.merged ELSE {}]

Alarms == [t \in Calls |-> AlarmOf(call[t])]
Memories == [s \in Streams |-> Memory(s)]

Atomic == INSTANCE AtomicAlarms
    WITH alarm <- Alarms, memory <- Memories, time <- now, lost <- excused

ImplementsAtomic == Atomic!Spec
=============================================================================
