-------------------------- MODULE AlarmMemoryProofs --------------------------
(***************************************************************************)
(* Proofs about what AlarmDeduplicator remembers.  Nothing but a received  *)
(* alarm suppresses one: what a row, a copy of it or a reservation names   *)
(* was delivered, or is just being sent; and no row bears another time     *)
(* than that of a call that finished.  No alarm is repeated within the     *)
(* cooldown for a stream whose memory was never lost.  And the whole       *)
(* implements AtomicAlarms.                                                *)
(***************************************************************************)
EXTENDS AlarmDedupProofs

USE DedupAssumption DEF Waiting, Holding, Reserved, Ended, Statements, StreamOf

\* A call knows of no alarm that was not received: S is what its stream got.
HeardOnly(c, S) ==
    /\ c.row.hazards \subseteq S
    /\ c.at = "sending" => c.merged \subseteq c.hazards \cup S
    /\ c.at \in {"finish_sent", "writing"} => c.merged \subseteq S
    /\ c.at = "suppressed" => c.hazards \subseteq S

Heard ==
    /\ \A s \in Streams : db[s].hazards \subseteq EverAlarmed(s)
    /\ \A t \in Calls : HeardOnly(call[t], EverAlarmed(StreamOf(t)))

LEMMA Facts ==
    ASSUME CInv, NEW t \in Calls
    PROVE  call[t] \in CallRecord /\ StreamOf(t) \in Streams
  BY DEF CInv, CallRecord

\* What the receiver has got only grows.
LEMMA EverGrows ==
    ASSUME RInv, [Next]_vars, NEW s \in Streams
    PROVE  EverAlarmed(s) \subseteq EverAlarmed(s)'
<1>1. delivered[s] \subseteq delivered'[s]
  <2>1. delivered' = delivered \/ \E t \in Calls : Deliver(t)
    BY DEF Next, Process, CallStep, vars, Call, ReserveEnters, ReadRow, ReadFails,
        Suppress, Grant, IgnoreFuture, DeleteRow, DeleteFails, SendReturns, SendFails,
        SendAnswerLost, FinishUnsent, FinishEnters, Write, WriteFails, Crash, Initialize,
        InitializeCorrupt, Tick, SetClock
  <2> QED BY <2>1 DEF RInv, Deliver
<1> QED BY <1>1 DEF EverAlarmed

LEMMA DeliverHeard ==
    ASSUME CInv, RInv, NEW t \in Calls, Deliver(t), NEW s, s = StreamOf(t)
    PROVE  call[t].hazards \subseteq EverAlarmed(s)'
<1>1. s \in Streams
  BY Facts
<1>2. {[hazard |-> h, at |-> now] : h \in call[t].hazards} \subseteq delivered'[s]
  BY <1>1 DEF RInv, Deliver
<1>3. ASSUME NEW h \in call[t].hazards PROVE h \in EverAlarmed(s)'
  <2>1. [hazard |-> h, at |-> now] \in delivered'[s]
    BY <1>2
  <2> QED BY <2>1 DEF EverAlarmed
<1> QED BY <1>3

\* One call moves on and still knows only of what was received.
LEMMA HeardByOne ==
    ASSUME CInv, RInv, Heard, [Next]_vars, NEW t \in Calls, NEW r, Moved(t, r),
           \A s : s = StreamOf(t) => HeardOnly(r, EverAlarmed(s)')
    PROVE  \A u \in Calls : HeardOnly(call'[u], EverAlarmed(StreamOf(u))')
<1>1. \A u \in Calls : call'[u] = IF u = t THEN r ELSE call[u]
  BY DEF CInv, Moved
<1>2. \A u \in Calls : StreamOf(u)' = StreamOf(u) /\ StreamOf(u) \in Streams
  BY <1>1, Facts DEF Moved
<1> QED BY <1>1, <1>2, EverGrows DEF Heard, HeardOnly, EverAlarmed

\* Every step of a call moves it to a record that HeardByOne accepts.
LEMMA CallHears ==
    ASSUME CInv, RInv, Heard, [Next]_vars, NEW t \in Calls, Call(t) \/ CallStep(t)
    PROVE  \A u \in Calls : HeardOnly(call'[u], EverAlarmed(StreamOf(u))')
<1> DEFINE c == call[t]
           s == StreamOf(t)
<1>0. /\ c \in CallRecord /\ s \in Streams
      /\ HeardOnly(c, EverAlarmed(s)) /\ db[s].hazards \subseteq EverAlarmed(s)
      /\ \A r \in Streams : db[r] \in Row
  BY Facts DEF Heard, RInv
<1>00. \A z : z = s => EverAlarmed(s) \subseteq EverAlarmed(z)'
  BY <1>0, EverGrows
<1> HIDE DEF s
<1>1. ASSUME NEW r, Shows(t, r),
             \A S : EverAlarmed(s) \subseteq S => HeardOnly(r, S)
      PROVE  \A u \in Calls : HeardOnly(call'[u], EverAlarmed(StreamOf(u))')
  BY <1>1, <1>00, HeardByOne DEF Shows, s
<1>2. CASE Call(t)
  <2>1. PICK H \in (SUBSET Hazards) \ {{}} : Shows(t, Called(c, H))
    BY <1>2, CallShows
  <2> QED BY <1>0, <1>1, <2>1 DEF HeardOnly, Called, CallRecord
<1>3. CASE ReserveEnters(t)
  BY <1>0, <1>1, <1>3, EnterShows DEF HeardOnly, Gone, CallRecord
<1>4. CASE ReadRow(t) \/ ReadFails(t)
  BY <1>0, <1>1, <1>4, ReadShows DEF HeardOnly, Read, CallRecord, s, NoRow
<1>5. CASE Suppress(t)
  <2>1. c.hazards \subseteq EverAlarmed(s)
    BY <1>0, <1>5 DEF Suppress, HeardOnly
  <2> QED BY <1>0, <1>1, <1>5, <2>1, SuppressShows DEF HeardOnly, Over, NoRow, CallRecord
<1>6. CASE Grant(t)
  <2>1. Granted(c) \subseteq c.hazards \cup EverAlarmed(s)
    BY <1>0 DEF Granted, HeardOnly
  <2> QED BY <1>0, <1>1, <1>6, <2>1, GrantShows DEF HeardOnly, Covering, NoRow, CallRecord
<1>7. CASE DeleteRow(t) \/ DeleteFails(t)
  BY <1>0, <1>1, <1>7, GrantShows DEF HeardOnly, Covering, NoRow, CallRecord
<1>8. CASE IgnoreFuture(t) \/ SendFails(t) \/ SendAnswerLost(t)
  BY <1>0, <1>1, <1>8, GoneShows DEF HeardOnly, Gone, CallRecord
<1>9. CASE SendReturns(t)
  <2>1. Shows(t, Gone(c, "finish_sent")) /\ c.at = "sending" /\ Deliver(t)
    BY <1>9, GoneShows DEF SendReturns
  <2>2. \A z : z = s => c.hazards \subseteq EverAlarmed(z)'
    BY <2>1, DeliverHeard DEF s
  <2>3. \A z : z = s => HeardOnly(Gone(c, "finish_sent"), EverAlarmed(z)')
    BY <1>0, <1>00, <2>1, <2>2 DEF HeardOnly, Gone, CallRecord
  <2> QED BY <2>1, <2>3, HeardByOne DEF Shows, s
<1>10. CASE FinishUnsent(t) \/ Write(t) \/ WriteFails(t)
  BY <1>0, <1>1, <1>10, FinishShows DEF HeardOnly, Over, Unwritten, NoRow, CallRecord, RInv
<1>11. CASE FinishEnters(t)
  <2>1. Shows(t, Stamped(c, now)) /\ c.at = "finish_sent"
    BY <1>11, FinishShows DEF RInv, FinishEnters
  <2> QED BY <1>0, <1>1, <2>1 DEF HeardOnly, Stamped, CallRecord
<1> QED
  BY <1>2, <1>3, <1>4, <1>5, <1>6, <1>7, <1>8, <1>9, <1>10, <1>11 DEF CallStep

\* Crashes and restarts forget calls and rows, and invent nothing.
LEMMA ProcessHears ==
    ASSUME CInv, RInv, Heard, [Next]_vars,
           Process \/ Tick \/ SetClock \/ UNCHANGED vars
    PROVE  \A u \in Calls : HeardOnly(call'[u], EverAlarmed(StreamOf(u))')
<1>1. delivered' = delivered
  BY DEF Process, Crash, Initialize, InitializeCorrupt, Tick, SetClock, vars
<1>2. CASE call' = call
  BY <1>1, <1>2 DEF Heard, EverAlarmed
<1>3. CASE Crash
  <2>1. \A u \in Calls : call'[u] = call[u] \/ call'[u] = [NewCall(StreamOf(u)) EXCEPT !.at = "lost"]
    BY <1>3 DEF Crash
  <2>2. \A u \in Calls : StreamOf(u)' = StreamOf(u)
    BY <2>1 DEF NewCall
  <2>3. \A u \in Calls : \A S : HeardOnly([NewCall(StreamOf(u)) EXCEPT !.at = "lost"], S)
    BY DEF HeardOnly, NewCall, NoRow
  <2>4. \A u \in Calls : EverAlarmed(StreamOf(u))' = EverAlarmed(StreamOf(u))
    BY <1>1, <2>2 DEF EverAlarmed
  <2> HIDE DEF StreamOf
  <2>5. \A u \in Calls : HeardOnly(call[u], EverAlarmed(StreamOf(u)))
    BY DEF Heard
  <2>6. \A u \in Calls : HeardOnly(call'[u], EverAlarmed(StreamOf(u)))
    BY <2>1, <2>3, <2>5
  <2> QED BY <2>4, <2>6
<1> QED
  BY <1>2, <1>3 DEF Process, Initialize, InitializeCorrupt, Tick, SetClock, vars

\* A row that is written holds what a call covered, and that was received.
LEMMA RowsHear ==
    ASSUME CInv, RInv, Heard, [Next]_vars
    PROVE  \A s \in Streams : db'[s].hazards \subseteq EverAlarmed(s)'
<1>0. \A s \in Streams : EverAlarmed(s) \subseteq EverAlarmed(s)'
  BY EverGrows
<1>1. ASSUME NEW table \in [Streams -> Row],
             \A s \in Streams : table[s].hazards \subseteq EverAlarmed(s)
      PROVE  \A s \in Streams : PruneRows(table)[s].hazards \subseteq EverAlarmed(s)
  BY <1>1 DEF PruneRows, NoRow
<1>2. CASE db' = db
  BY <1>0, <1>2 DEF Heard
<1>3. ASSUME NEW t \in Calls, Write(t)
      PROVE  \A s \in Streams : db'[s].hazards \subseteq EverAlarmed(s)'
  <2>1. Written(t) \in Row /\ Written(t).hazards \subseteq EverAlarmed(StreamOf(t))
    BY <1>3, Facts DEF Heard, HeardOnly, Write, Written, CallRecord, Row
  <2>2. db' = PruneRows([db EXCEPT ![StreamOf(t)] = Written(t)])
    BY <1>3 DEF Write, Written
  <2> QED BY <1>0, <1>1, <2>1, <2>2 DEF Heard, RInv
<1>4. CASE Initialize
  BY <1>0, <1>1, <1>4 DEF Initialize, Heard, RInv
<1>5. CASE InitializeCorrupt
  BY <1>5 DEF InitializeCorrupt, NoRow
<1>6. ASSUME NEW t \in Calls, DeleteRow(t)
      PROVE  \A s \in Streams : db'[s].hazards \subseteq EverAlarmed(s)'
  BY <1>0, <1>6 DEF DeleteRow, Heard, RInv, NoRow
<1> QED
  BY <1>2, <1>3, <1>4, <1>5, <1>6
  DEF Next, Process, CallStep, vars, Call, ReserveEnters, ReadRow, ReadFails,
      Suppress, Grant, IgnoreFuture, DeleteFails, SendReturns, SendFails,
      SendAnswerLost, FinishUnsent, FinishEnters, WriteFails, Crash, Tick, SetClock

LEMMA HeardHolds == Spec => []Heard
<1>1. Init => Heard
  BY DEF Init, NewCall, NoRow, Heard, HeardOnly, EverAlarmed
<1>2. CInv /\ RInv /\ Heard /\ [Next]_vars => Heard'
  BY CallHears, ProcessHears, RowsHear DEF Heard, Next
<1> QED BY <1>1, <1>2, InvHolds, PTL DEF Spec

\* Nothing but an alarm the receiver got ever suppresses one: no failed, lost or
\* interrupted delivery, no crash and no other stream silences a hazard.
THEOREM OnlyAlarmsSuppress == Spec => []SuppressedWasAlarmed
<1>1. Heard => SuppressedWasAlarmed
  BY DEF Heard, HeardOnly, SuppressedWasAlarmed
<1> QED BY <1>1, HeardHolds, PTL
-----------------------------------------------------------------------------
\* Every row, and every copy of one, bears the time at which a call of its stream,
\* done by now, came to finish().
RecordedAt(s, time) ==
    \E u \in Calls : call[u].stream = s /\ call[u].at = "done" /\ call[u].stamp = time

Recorded ==
    /\ \A s \in Streams : db[s] # NoRow => RecordedAt(s, db[s].at)
    /\ \A t \in Calls : call[t].row # NoRow => RecordedAt(call[t].stream, call[t].row.at)

\* A call that is done stays as it is.
LEMMA DoneStays ==
    ASSUME CInv, RInv, [Next]_vars, NEW t \in Calls, call[t].at = "done"
    PROVE  call'[t] = call[t]
<1>1. CASE call' = call
  BY <1>1
<1>2. ASSUME NEW u \in Calls, Call(u) \/ CallStep(u) PROVE call'[t] = call[t]
  <2>1. call[u].at # "done"
    BY <1>2 DEF Call, CallStep, ReserveEnters, ReadRow, ReadFails, Suppress, Grant,
                IgnoreFuture, DeleteRow, DeleteFails, SendReturns, SendFails,
                SendAnswerLost, FinishUnsent, FinishEnters, Write, WriteFails
  <2>2. PICK r : Moved(u, r)
    BY <1>2, CallShows, EnterShows, ReadShows, SuppressShows, GrantShows, GoneShows,
       FinishShows
    DEF CallStep, Shows, RInv
  <2> QED BY <2>1, <2>2 DEF CInv, Moved
<1>3. CASE Crash
  BY <1>3 DEF Crash
<1> QED
  BY <1>1, <1>2, <1>3 DEF Next, Process, Initialize, InitializeCorrupt, Tick, SetClock, vars

\* A call's copy of a row is the row it read, the one it had, or none.
LEMMA CopiesAreRows ==
    ASSUME CInv, RInv, [Next]_vars, NEW t \in Calls, call'[t].row # NoRow
    PROVE  /\ call'[t].stream = call[t].stream
           /\ call'[t].row \in {call[t].row, db[call[t].stream]}
<1>1. CASE call' = call
  BY <1>1
<1>2. ASSUME NEW u \in Calls, NEW r, Moved(u, r),
             r.row \in {call[u].row, db[call[u].stream], NoRow}
      PROVE  /\ call'[t].stream = call[t].stream
             /\ call'[t].row \in {call[t].row, db[call[t].stream]}
  BY <1>2 DEF CInv, Moved
<1>3. ASSUME NEW u \in Calls, Call(u) \/ CallStep(u)
      PROVE  \E r : Moved(u, r) /\ r.row \in {call[u].row, db[call[u].stream], NoRow}
  <2> DEFINE c == call[u]
             Copies(r) == Moved(u, r) /\ r.row \in {c.row, db[c.stream], NoRow}
  <2>0. c \in CallRecord /\ \A s \in Streams : db[s] \in Row
    BY Facts DEF RInv
  <2>1. CASE Call(u)
    <3>1. PICK H \in (SUBSET Hazards) \ {{}} : Shows(u, Called(c, H))
      BY <2>1, CallShows
    <3>2. Called(c, H).row = c.row
      BY <2>0 DEF Called, CallRecord
    <3> QED BY <3>1, <3>2 DEF Shows
  <2>2. \A at : Gone(c, at).row = c.row
    BY <2>0 DEF Gone, CallRecord
  <2>3. Unwritten(c).row = NoRow /\ \A at : Over(c, at).row = NoRow
    BY <2>0 DEF Over, Unwritten, CallRecord
  <2>4. CASE ReserveEnters(u)
    BY <2>2, <2>4, EnterShows DEF Shows
  <2>5. CASE ReadRow(u) \/ ReadFails(u)
    <3>1. \A row : Read(c, row).row = row
      BY <2>0 DEF Read, CallRecord
    <3> QED BY <2>0, <2>5, <3>1, ReadShows DEF Shows
  <2>6. CASE Suppress(u) \/ FinishUnsent(u) \/ Write(u) \/ WriteFails(u)
    BY <2>3, <2>6, SuppressShows, FinishShows DEF Shows, RInv
  <2>7. CASE Grant(u) \/ DeleteRow(u) \/ DeleteFails(u)
    <3>1. \A H : Covering(c, H).row = NoRow
      BY <2>0 DEF Covering, CallRecord
    <3> QED BY <2>7, <3>1, GrantShows DEF Shows
  <2>8. CASE IgnoreFuture(u) \/ SendReturns(u) \/ SendFails(u) \/ SendAnswerLost(u)
    BY <2>2, <2>8, GoneShows DEF Shows
  <2>9. CASE FinishEnters(u)
    <3>1. Stamped(c, now).row = c.row
      BY <2>0 DEF Stamped, CallRecord
    <3> QED BY <2>9, <3>1, FinishShows DEF Shows, RInv
  <2> QED
    BY <1>3, <2>1, <2>4, <2>5, <2>6, <2>7, <2>8, <2>9 DEF CallStep
<1>4. CASE Crash
  <2>1. call'[t] = call[t] \/ call'[t].row = NoRow
    BY <1>4 DEF Crash, NewCall
  <2> QED BY <2>1
<1> QED
  BY <1>1, <1>2, <1>3, <1>4
  DEF Next, Process, Initialize, InitializeCorrupt, Tick, SetClock, vars

\* A row after a step was there before, or a call that is done now wrote it.
LEMMA RowsAreWritten ==
    ASSUME CInv, RInv, [Next]_vars, NEW s \in Streams, db'[s] # NoRow, db'[s] # db[s]
    PROVE  RecordedAt(s, db[s].at)'
<1>1. PICK t \in Calls : Write(t) /\ s = call[t].stream /\ db'[s] = Written(t)
  <2>1. ASSUME NEW t \in Calls, Write(t)
        PROVE  s = call[t].stream /\ db'[s] = Written(t)
    <3>1. db' = PruneRows([db EXCEPT ![StreamOf(t)] = Written(t)])
      BY <2>1 DEF Write, Written
    <3> QED BY <3>1 DEF PruneRows, RInv
  <2>2. ~(\E t \in Calls : DeleteRow(t)) /\ ~InitializeCorrupt
    BY DEF DeleteRow, InitializeCorrupt, RInv
  <2>3. ~Initialize
    BY DEF Initialize, PruneRows, RInv
  <2> QED
    BY <2>1, <2>2, <2>3
    DEF Next, Process, CallStep, vars, Call, ReserveEnters, ReadRow, ReadFails,
        Suppress, Grant, IgnoreFuture, DeleteFails, SendReturns, SendFails,
        SendAnswerLost, FinishUnsent, FinishEnters, WriteFails, Crash, Tick, SetClock
<1>2. Moved(t, Over(call[t], "done"))
  BY <1>1, FinishShows DEF Shows, RInv
<1>3. call'[t] = Over(call[t], "done")
  BY <1>2 DEF CInv, Moved
<1>4. call'[t].stream = s /\ call'[t].at = "done" /\ call'[t].stamp = call[t].stamp
  BY <1>1, <1>3, Facts DEF Over, CallRecord
<1> QED BY <1>1, <1>4 DEF RecordedAt, Written

LEMMA RecordedHolds == Spec => []Recorded
<1>1. Init => Recorded
  BY DEF Init, NewCall, Recorded
<1>2. CInv /\ RInv /\ Recorded /\ [Next]_vars => Recorded'
  <2> SUFFICES ASSUME CInv, RInv, Recorded, [Next]_vars PROVE Recorded'
    OBVIOUS
  <2>1. ASSUME NEW s \in Streams, db'[s] # NoRow PROVE RecordedAt(s, db[s].at)'
    <3>1. CASE db'[s] = db[s]
      <4>1. RecordedAt(s, db[s].at)
        BY <2>1, <3>1 DEF Recorded
      <4> QED BY <3>1, <4>1, DoneStays DEF RecordedAt
    <3>2. CASE db'[s] # db[s]
      BY <2>1, <3>2, RowsAreWritten
    <3> QED BY <3>1, <3>2
  <2>2. ASSUME NEW t \in Calls, call'[t].row # NoRow
        PROVE  RecordedAt(call[t].stream, call[t].row.at)'
    <3>1. call'[t].stream = call[t].stream /\ call[t].stream \in Streams
      BY <2>2, CopiesAreRows, Facts
    <3>2. RecordedAt(call[t].stream, call'[t].row.at)
      BY <2>2, <3>1, CopiesAreRows DEF Recorded
    <3> QED BY <3>1, <3>2, DoneStays DEF RecordedAt
  <2> QED BY <2>1, <2>2 DEF Recorded
<1> QED BY <1>1, <1>2, InvHolds, PTL DEF Spec

\* An alarm is withheld only within the cooldown of one of its stream that was
\* finished, and at most the tolerance before it, whatever the wall clock did.
THEOREM SilenceEnds == Spec => SilenceIsShort
<1>1. ASSUME CInv, RInv, Recorded, [Next]_vars,
             NEW t \in Calls, call[t].at = "deciding", call'[t].at = "suppressed"
      PROVE  RecordedRecently(StreamOf(t))
  <2>1. Suppress(t)
    <3>1. ASSUME NEW u \in Calls, Call(u) \/ CallStep(u) PROVE u = t /\ Suppress(t)
      <4>1. PICK r : Moved(u, r)
        BY <1>1, <3>1, CallShows, EnterShows, ReadShows, SuppressShows, GrantShows,
           GoneShows, FinishShows
        DEF CallStep, Shows, RInv
      <4>2. u = t
        BY <1>1, <4>1 DEF CInv, Moved
      <4>3. ~Grant(t) /\ ~IgnoreFuture(t)
        BY <1>1, Facts
        DEF CInv, CallRecord, Grant, Reserve, IgnoreFuture, Go
      <4> QED
        BY <1>1, <3>1, <4>2, <4>3
        DEF Call, CallStep, ReserveEnters, ReadRow, ReadFails, DeleteRow, DeleteFails,
            SendReturns, SendFails, SendAnswerLost, FinishUnsent, FinishEnters, Write,
            WriteFails
    <3>2. ~Crash
      BY <1>1 DEF Crash, NewCall
    <3> QED
      BY <1>1, <3>1, <3>2 DEF Next, Process, Initialize, InitializeCorrupt, Tick, SetClock, vars
  <2>2. CoolingDown(call[t].row)
    BY <2>1 DEF Suppress
  <2>3. PICK u \in Calls : /\ call[u].stream = call[t].stream /\ call[u].at = "done"
                           /\ call[u].stamp = call[t].row.at
    BY <1>1, <2>2 DEF CoolingDown, Recorded, RecordedAt
  <2>4. call[t].row.at \in Nat /\ now \in Nat /\ Cooldown \in Nat
    BY <1>1, Facts, DedupAssumption DEF RInv, CallRecord, Row
  <2>5. now < call[t].row.at + Cooldown
    BY <2>2, <2>4 DEF CoolingDown, Elapsed
  <2> QED
    BY <2>2, <2>3, <2>4, <2>5 DEF CoolingDown, FromFuture, RecordedRecently
<1>2. CInv /\ RInv /\ Recorded /\ [Next]_vars
      => [\A t \in Calls : call[t].at = "deciding" /\ call'[t].at = "suppressed"
                           => RecordedRecently(StreamOf(t))]_vars
  BY <1>1
<1> QED BY <1>2, InvHolds, RecordedHolds, PTL DEF Spec, SilenceIsShort
-----------------------------------------------------------------------------
(* No alarm is repeated.  The argument: as long as no call of a stream     *)
(* stands between its delivery and the end of finish(), the stored row     *)
(* holds every hazard that still counts; while one does, its reservation   *)
(* holds them, and nobody else may decide.                                 *)
Unfinished == {"finish_sent", "writing"}

\* Nothing that happened to a stream lies in the future.
Past(s) == db[s].at <= now /\ \A d \in delivered[s] : d.at <= now

\* The row of a stream holds every alarm that still counts, and is as young.
Remembered(s) ==
    \A d \in delivered[s] :
        now < d.at + Cooldown => d.hazard \in db[s].hazards /\ d.at <= db[s].at

Settled(s) == \A t \in Calls : StreamOf(t) = s => call[t].at \notin Unfinished

\* What a call c of a stream that lost nothing knows, given the rows, what the
\* receiver got, the time and the streams that lost something.
Knows(c, rows, got, time, lost) ==
    LET s == c.stream IN
    s \notin lost =>
        /\ c.at # "deleting"
        /\ c.at = "deciding" => c.row = rows[s]
        /\ c.at \in {"sending"} \cup Unfinished =>
              /\ c.hazards \subseteq c.merged
              /\ \A d \in got[s] : time < d.at + Cooldown => d.hazard \in c.merged
        /\ c.at = "writing" => c.stamp <= time /\ \A d \in got[s] : d.at <= c.stamp

\* No call is under way in a process that does not run.
DownIsIdle == ~up => \A t \in Calls : call[t].at \in {"new"} \cup Ended

KInv ==
    /\ \A t \in Calls : Knows(call[t], db, delivered, now, excused)
    /\ \A s \in Streams \ excused : Past(s) /\ (Settled(s) => Remembered(s))
    /\ DownIsIdle

LEMMA CallFacts ==
    ASSUME CInv, NEW t \in Calls
    PROVE  call[t] \in CallRecord /\ StreamOf(t) \in Streams
  BY DEF CInv, CallRecord

\* A call that decides is alone with its stream: no other call of it holds a
\* reservation.
LEMMA DecidesAlone ==
    ASSUME CInv, NEW t \in Calls, call[t].at = "deciding"
    PROVE  Settled(StreamOf(t))
  BY DEF CInv, Untaken, ReservationsExact, Settled, Unfinished

\* The row it has read tells it of every alarm that still counts.
LEMMA DecidesKnowing ==
    ASSUME CInv, RInv, KInv, NEW t \in Calls, call[t].at = "deciding",
           StreamOf(t) \notin excused
    PROVE  /\ ~FromFuture(call[t].row)
           /\ Recent(StreamOf(t)) \subseteq call[t].row.hazards
           /\ Recent(StreamOf(t)) # {} => CoolingDown(call[t].row)
<1> DEFINE s == StreamOf(t)
           row == call[t].row
<1>1. s \in Streams /\ row = db[s] /\ Past(s) /\ Remembered(s)
  BY CallFacts, DecidesAlone DEF KInv, Knows
<1>2. row \in Row /\ row.at \in Nat /\ now \in Nat
  BY <1>1, RowTypes DEF RInv
<1>3. ~FromFuture(row)
  BY <1>1, <1>2 DEF Past, FromFuture
<1>4. ASSUME NEW h \in Recent(s) PROVE h \in row.hazards /\ CoolingDown(row)
  <2>1. PICK d \in delivered[s] : d.hazard = h /\ now < d.at + Cooldown
    BY <1>4 DEF Recent
  <2>2. h \in row.hazards /\ d.at <= row.at
    BY <1>1, <2>1 DEF Remembered
  <2>3. d.at \in Nat
    BY <1>1 DEF RInv
  <2>4. row # NoRow
    BY <2>2 DEF NoRow
  <2>5. Elapsed(row) < Cooldown
    BY <1>1, <1>2, <2>1, <2>2, <2>3, DedupAssumption DEF Past, Elapsed
  <2> QED BY <1>3, <2>2, <2>4, <2>5 DEF CoolingDown
<1> QED BY <1>3, <1>4

\* A call that is granted covers every alarm of its stream that still counts,
\* and brings a hazard that none of them announced.
LEMMA GrantKnows ==
    ASSUME CInv, RInv, KInv, NEW t \in Calls, Grant(t), StreamOf(t) \notin excused
    PROVE  /\ Recent(StreamOf(t)) \subseteq Granted(call[t])
           /\ ~(call[t].hazards \subseteq Recent(StreamOf(t)))
<1>1. call[t].at = "deciding" /\ call[t].hazards # {}
  BY DEF Grant, RInv, Carrying
<1>2. /\ Recent(StreamOf(t)) \subseteq call[t].row.hazards
      /\ Recent(StreamOf(t)) # {} => CoolingDown(call[t].row)
  BY <1>1, DecidesKnowing
<1> QED BY <1>1, <1>2 DEF Grant, Granted

-----------------------------------------------------------------------------
\* A step of one call that neither delivers nor writes a row.
LEMMA QuietKeeps ==
    ASSUME CInv, RInv, KInv, NEW t \in Calls, NEW r, Moved(t, r),
           UNCHANGED <<db, delivered, now, up>>, excused \subseteq excused',
           Knows(r, db, delivered, now, excused'),
           call[t].at \in Unfinished /\ r.at \notin Unfinished => StreamOf(t) \in excused',
           up \/ call[t].at \notin {"new"} \cup Ended
    PROVE  KInv'
<1>1. \A u \in Calls : call'[u] = IF u = t THEN r ELSE call[u]
  BY DEF CInv, Moved
<1>2. \A u \in Calls : StreamOf(u)' = StreamOf(u) /\ StreamOf(u) \in Streams
  BY <1>1, CallFacts DEF Moved
<1>3. \A u \in Calls : Knows(call'[u], db', delivered', now', excused')
  BY <1>1 DEF KInv, Knows
<1>4. \A s \in Streams \ excused' : Past(s)'
  BY DEF KInv, Past
<1>5. ASSUME NEW s \in Streams \ excused', Settled(s)' PROVE Remembered(s)'
  <2>1. Settled(s)
    BY <1>1, <1>2, <1>5 DEF Settled
  <2> QED BY <2>1 DEF KInv, Remembered
<1>6. DownIsIdle'
  BY DEF KInv, DownIsIdle
<1> QED BY <1>3, <1>4, <1>5, <1>6 DEF KInv

LEMMA ReserveKeeps ==
    ASSUME CInv, RInv, KInv, NEW t \in Calls,
           Call(t) \/ ReserveEnters(t) \/ ReadRow(t) \/ ReadFails(t) \/ Suppress(t)
             \/ IgnoreFuture(t) \/ DeleteFails(t) \/ Grant(t)
    PROVE  KInv'
<1> DEFINE c == call[t]
<1>0. /\ c \in CallRecord /\ StreamOf(t) \in Streams /\ now \in Nat
      /\ Knows(c, db, delivered, now, excused)
      /\ \A s \in Streams : db[s] \in Row
  BY CallFacts DEF KInv, RInv
<1>1. CASE Call(t)
  <2>1. PICK H \in (SUBSET Hazards) \ {{}} : Shows(t, Called(c, H))
    BY <1>1, CallShows
  <2>2. Knows(Called(c, H), db, delivered, now, excused')
    BY <1>0, <1>1 DEF Called, Knows, CallRecord, Unfinished
  <2> QED BY <1>0, <1>1, <2>1, <2>2, QuietKeeps DEF Call, Shows, Called, Unfinished
<1>2. CASE ReserveEnters(t)
  BY <1>0, <1>2, EnterShows, QuietKeeps
  DEF ReserveEnters, Shows, Gone, Knows, CallRecord, Unfinished
<1>3. CASE ReadRow(t)
  <2>1. Knows(Read(c, db[StreamOf(t)]), db, delivered, now, excused')
    BY <1>0, <1>3 DEF ReadRow, Read, Knows, CallRecord, Unfinished
  <2> QED BY <1>0, <1>3, <2>1, ReadShows, QuietKeeps DEF ReadRow, Shows, Unfinished
<1>4. CASE ReadFails(t)
  <2>1. Knows(Read(c, NoRow), db, delivered, now, excused')
    BY <1>0, <1>4 DEF ReadFails, Excuse, Read, Knows, CallRecord
  <2> QED BY <1>0, <1>4, <2>1, ReadShows, QuietKeeps DEF ReadFails, Excuse, Shows, Unfinished
<1>5. CASE Suppress(t)
  <2>1. Knows(Over(c, "suppressed"), db, delivered, now, excused')
    BY <1>0, <1>5 DEF Suppress, Over, Knows, CallRecord, Unfinished
  <2> QED BY <1>0, <1>5, <2>1, SuppressShows, QuietKeeps DEF Suppress, Shows, Unfinished
<1>6. CASE IgnoreFuture(t)
  <2>1. Knows(Gone(c, "deleting"), db, delivered, now, excused')
    BY <1>0, <1>6 DEF IgnoreFuture, Excuse, Gone, Knows, CallRecord
  <2> QED
    BY <1>0, <1>6, <2>1, GoneShows, QuietKeeps DEF IgnoreFuture, Excuse, Shows, Unfinished
<1>7. CASE DeleteFails(t)
  <2>1. Knows(Covering(c, c.hazards), db, delivered, now, excused')
    BY <1>0, <1>7 DEF DeleteFails, Covering, Knows, CallRecord
  <2> QED BY <1>0, <1>7, <2>1, GrantShows, QuietKeeps DEF DeleteFails, Shows, Unfinished
<1>8. CASE Grant(t)
  <2>1. StreamOf(t) \notin excused =>
           \A d \in delivered[StreamOf(t)] : now < d.at + Cooldown => d.hazard \in Granted(c)
    BY <1>8, GrantKnows DEF Recent
  <2>2. Knows(Covering(c, Granted(c)), db, delivered, now, excused')
    BY <1>0, <1>8, <2>1 DEF Grant, Granted, Covering, Knows, CallRecord, Unfinished
  <2> QED BY <1>0, <1>8, <2>2, GrantShows, QuietKeeps DEF Grant, Shows, Unfinished
<1> QED BY <1>1, <1>2, <1>3, <1>4, <1>5, <1>6, <1>7, <1>8

LEMMA FinishKeeps ==
    ASSUME CInv, RInv, KInv, NEW t \in Calls,
           SendFails(t) \/ FinishUnsent(t) \/ FinishEnters(t) \/ WriteFails(t)
    PROVE  KInv'
<1> DEFINE c == call[t]
<1>0. /\ c \in CallRecord /\ StreamOf(t) \in Streams /\ now \in Nat
      /\ Knows(c, db, delivered, now, excused)
  BY CallFacts DEF KInv, RInv
<1>1. CASE SendFails(t)
  <2>1. Knows(Gone(c, "finish_unsent"), db, delivered, now, excused')
    BY <1>0, <1>1 DEF SendFails, Gone, Knows, CallRecord, Unfinished
  <2> QED BY <1>0, <1>1, <2>1, GoneShows, QuietKeeps DEF SendFails, Shows, Unfinished
<1>2. CASE FinishUnsent(t)
  <2>1. Knows(Over(c, "unsent"), db, delivered, now, excused')
    BY <1>0, <1>2 DEF FinishUnsent, Over, Knows, CallRecord, Unfinished
  <2> QED BY <1>0, <1>2, <2>1, FinishShows, QuietKeeps DEF FinishUnsent, Shows, Unfinished
<1>3. CASE FinishEnters(t)
  <2>1. StreamOf(t) \notin excused => \A d \in delivered[StreamOf(t)] : d.at <= now
    BY <1>0 DEF KInv, Past
  <2>2. Knows(Stamped(c, now), db, delivered, now, excused')
    BY <1>0, <1>3, <2>1 DEF FinishEnters, Stamped, Knows, CallRecord, Unfinished
  <2> QED
    BY <1>0, <1>3, <2>2, FinishShows, QuietKeeps
    DEF FinishEnters, Shows, Stamped, CallRecord, Unfinished
<1>4. CASE WriteFails(t)
  <2>1. Knows(Unwritten(c), db, delivered, now, excused')
    BY <1>0, <1>4 DEF WriteFails, Excuse, Unwritten, Knows, CallRecord
  <2> QED
    BY <1>0, <1>4, <2>1, FinishShows, QuietKeeps DEF WriteFails, Excuse, Shows, Unfinished
<1> QED BY <1>1, <1>2, <1>3, <1>4

\* A delivery: the call that made it is the only one of its stream that holds a
\* reservation, and the reservation covers what was delivered.
LEMMA DeliverKeeps ==
    ASSUME CInv, RInv, KInv, NEW t \in Calls, SendReturns(t) \/ SendAnswerLost(t)
    PROVE  KInv'
<1> DEFINE c == call[t]
           s == StreamOf(t)
           to == IF SendReturns(t) THEN "finish_sent" ELSE "finish_unsent"
<1>0. /\ c \in CallRecord /\ s \in Streams /\ now \in Nat /\ c.at = "sending"
      /\ Knows(c, db, delivered, now, excused) /\ excused \subseteq excused'
      /\ UNCHANGED <<db, now, up>>
  BY CallFacts DEF KInv, RInv, SendReturns, SendAnswerLost, Excuse
<1>1. PICK r : Moved(t, r) /\ r = Gone(c, to)
  <2>1. Moved(t, Gone(c, to))
    BY GoneShows DEF Shows
  <2> QED BY <2>1
<1>2. \A u \in Calls : call'[u] = IF u = t THEN r ELSE call[u]
  BY <1>1 DEF CInv, Moved
<1>3. /\ \A z \in Streams \ {s} : delivered'[z] = delivered[z]
      /\ \A d \in delivered'[s] :
            d \in delivered[s] \/ (d.at = now /\ d.hazard \in c.hazards)
  <2>1. Deliver(t)
    BY DEF SendReturns, SendAnswerLost
  <2>2. delivered'[s] = delivered[s] \cup {[hazard |-> h, at |-> now] : h \in c.hazards}
    BY <1>0, <2>1 DEF RInv, Deliver
  <2>3. \A z \in Streams \ {s} : delivered'[z] = delivered[z]
    BY <1>0, <2>1 DEF RInv, Deliver
  <2>4. ASSUME NEW d \in delivered'[s], d \notin delivered[s]
        PROVE  d.at = now /\ d.hazard \in c.hazards
    <3>1. PICK h \in c.hazards : d = [hazard |-> h, at |-> now]
      BY <2>2, <2>4
    <3> QED BY <3>1
  <2> QED BY <2>3, <2>4
<1>4. \A u \in Calls : StreamOf(u)' = StreamOf(u) /\ StreamOf(u) \in Streams
  BY <1>1, <1>2, CallFacts DEF Moved
<1>5. \A u \in Calls \ {t} : StreamOf(u) = s => call[u].at \notin Reserved
  BY <1>0 DEF CInv, ReservationsExact
<1>6. \A u \in Calls \ {t} : Knows(call[u], db, delivered', now, excused')
  BY <1>0, <1>3, <1>4, <1>5 DEF KInv, Knows, Unfinished
<1>7. Knows(r, db, delivered', now, excused')
  <2>1. CASE SendReturns(t)
    BY <1>0, <1>1, <1>3, <2>1 DEF Knows, Gone, CallRecord, Unfinished
  <2>2. CASE SendAnswerLost(t)
    BY <1>0, <1>1, <2>2 DEF SendAnswerLost, Excuse, Knows, Gone, CallRecord
  <2> QED BY <2>1, <2>2
<1>8. \A z \in Streams \ excused' : Past(z)'
  BY <1>0, <1>3 DEF KInv, Past
<1>9. ASSUME NEW z \in Streams \ excused', Settled(z)' PROVE Remembered(z)'
  <2>1. z # s
    BY <1>0, <1>1, <1>2, <1>4, <1>9
    DEF SendReturns, SendAnswerLost, Excuse, Settled, Unfinished, Gone, CallRecord
  <2>2. Settled(z)
    BY <1>2, <1>4, <1>9, <2>1 DEF Settled
  <2> QED BY <1>0, <1>3, <2>1, <2>2 DEF KInv, Remembered
<1>10. DownIsIdle'
  BY <1>0 DEF KInv, DownIsIdle
<1> QED BY <1>0, <1>2, <1>6, <1>7, <1>8, <1>9, <1>10 DEF KInv

-----------------------------------------------------------------------------
\* Pruning drops only rows that are older than the retention, and so than the
\* cooldown.
LEMMA PruneRemembers ==
    ASSUME RInv, NEW table \in [Streams -> Row], NEW z \in Streams,
           \A d \in delivered[z] :
              now < d.at + Cooldown => d.hazard \in table[z].hazards /\ d.at <= table[z].at
    PROVE  \A d \in delivered[z] :
              now < d.at + Cooldown => /\ d.hazard \in PruneRows(table)[z].hazards
                                       /\ d.at <= PruneRows(table)[z].at
<1>1. table[z].at \in Nat /\ \A d \in delivered[z] : d.at \in Nat
  BY RowTypes DEF RInv
<1> QED BY <1>1 DEF PruneRows, RInv

LEMMA WriteKeeps ==
    ASSUME CInv, RInv, KInv, NEW t \in Calls, Write(t)
    PROVE  KInv'
<1> DEFINE c == call[t]
           s == StreamOf(t)
           table == [db EXCEPT ![s] = Written(t)]
<1>0. /\ c \in CallRecord /\ s \in Streams /\ now \in Nat /\ c.at = "writing"
      /\ Knows(c, db, delivered, now, excused)
      /\ UNCHANGED <<delivered, now, up, excused>> /\ db' = PruneRows(table)
  BY CallFacts DEF KInv, RInv, Write, Written
<1>1. PICK r : Moved(t, r) /\ r = Over(c, "done")
  BY <1>0, FinishShows DEF Shows
<1>2. \A u \in Calls : call'[u] = IF u = t THEN r ELSE call[u]
  BY <1>1 DEF CInv, Moved
<1>3. \A u \in Calls : StreamOf(u)' = StreamOf(u) /\ StreamOf(u) \in Streams
  BY <1>1, <1>2, CallFacts DEF Moved
<1>4. \A u \in Calls \ {t} : call[u].at # "deciding"
  BY <1>0 DEF CInv, LockExact
<1>5. \A u \in Calls : Knows(call'[u], db', delivered, now, excused)
  BY <1>0, <1>1, <1>2, <1>4 DEF KInv, Knows, Over, CallRecord, Unfinished
<1>6. Written(t) \in Row /\ table \in [Streams -> Row]
  BY <1>0 DEF RInv, Written, Row, CallRecord
<1>7. \A z \in Streams \ excused : Past(z)'
  <2>1. \A z \in Streams \ excused : table[z].at <= now
    BY <1>0 DEF KInv, Past, Knows, Written, RInv
  <2> QED BY <1>0, <2>1 DEF KInv, Past, PruneRows, NoRow
<1>8. ASSUME NEW z \in Streams \ excused, Settled(z)' PROVE Remembered(z)'
  <2>1. CASE z = s
    <3>1. \A d \in delivered[s] :
             now < d.at + Cooldown => d.hazard \in table[s].hazards /\ d.at <= table[s].at
      BY <1>0, <2>1 DEF Knows, Written, RInv, Unfinished
    <3> QED BY <1>0, <1>6, <2>1, <3>1, PruneRemembers DEF Remembered
  <2>2. CASE z # s
    <3>1. Settled(z)
      BY <1>2, <1>3, <1>8, <2>2 DEF Settled
    <3>2. table[z] = db[z] /\ Remembered(z)
      BY <2>2, <3>1 DEF KInv, RInv
    <3> QED BY <1>0, <1>6, <3>2, PruneRemembers DEF Remembered
  <2> QED BY <2>1, <2>2
<1>9. DownIsIdle'
  BY <1>0, <1>2, <1>1 DEF KInv, DownIsIdle
<1> QED BY <1>0, <1>5, <1>7, <1>8, <1>9 DEF KInv

LEMMA DeleteKeeps ==
    ASSUME CInv, RInv, KInv, NEW t \in Calls, DeleteRow(t)
    PROVE  KInv'
<1> DEFINE c == call[t]
           s == StreamOf(t)
<1>0. /\ c \in CallRecord /\ s \in Streams /\ c.at = "deleting" /\ s \in excused
      /\ UNCHANGED <<delivered, now, up, excused>> /\ db' = [db EXCEPT ![s] = NoRow]
  BY CallFacts DEF KInv, Knows, DeleteRow
<1>1. PICK r : Moved(t, r) /\ r = Covering(c, c.hazards)
  BY GrantShows DEF Shows
<1>2. \A u \in Calls : call'[u] = IF u = t THEN r ELSE call[u]
  BY <1>1 DEF CInv, Moved
<1>3. \A u \in Calls : StreamOf(u)' = StreamOf(u) /\ StreamOf(u) \in Streams
  BY <1>1, <1>2, CallFacts DEF Moved
<1>4. \A z \in Streams \ excused : db'[z] = db[z]
  BY <1>0 DEF RInv
<1>5. \A u \in Calls : Knows(call'[u], db', delivered, now, excused)
  BY <1>0, <1>1, <1>2, <1>3, <1>4 DEF KInv, Knows, Moved
<1>6. \A z \in Streams \ excused : Past(z)' /\ (Settled(z)' => Remembered(z)')
  <2>1. \A z \in Streams \ excused : Settled(z)' => Settled(z)
    BY <1>0, <1>2, <1>3 DEF Settled
  <2> QED BY <1>0, <1>4, <2>1 DEF KInv, Past, Remembered
<1>7. DownIsIdle'
  BY <1>0, <1>2 DEF KInv, DownIsIdle
<1> QED BY <1>0, <1>5, <1>6, <1>7 DEF KInv

\* A crash takes no alarm from a stream it does not excuse.
LEMMA CrashKeeps ==
    ASSUME CInv, RInv, KInv, Crash
    PROVE  KInv'
<1>0. UNCHANGED <<db, now, delivered>> /\ excused \subseteq excused' /\ ~up'
  BY DEF Crash, Excuse
<1>1. \A u \in Calls : call[u] \in CallRecord
  BY CallFacts
<1>2. \A u \in Calls :
        \/ call'[u] = call[u] /\ call[u].at \in {"new"} \cup Ended
        \/ call'[u].at = "lost" /\ call'[u].stream = call[u].stream
  BY <1>1 DEF Crash, NewCall, CallRecord
<1>3. \A u \in Calls : Knows(call'[u], db', delivered', now', excused')
  BY <1>2 DEF Knows, Unfinished
<1>4. \A z \in Streams \ excused' : Settled(z)
  BY DEF Crash, Excuse, Settled, Unfinished
<1>5. DownIsIdle'
  BY <1>2 DEF DownIsIdle
<1> QED BY <1>0, <1>3, <1>4, <1>5 DEF KInv, Past, Remembered

LEMMA InitializeKeeps ==
    ASSUME CInv, RInv, KInv, Initialize
    PROVE  KInv'
<1>0. UNCHANGED <<call, delivered, now, excused>> /\ db' = PruneRows(db) /\ ~up /\ up'
  BY DEF Initialize
<1>1. \A u \in Calls : Knows(call'[u], db', delivered', now', excused')
  BY <1>0 DEF KInv, DownIsIdle, Knows, Unfinished
<1>2. ASSUME NEW z \in Streams \ excused
      PROVE  Past(z)' /\ (Settled(z)' => Remembered(z)')
  <2>1. Past(z)'
    BY <1>0 DEF KInv, RInv, Past, PruneRows, NoRow
  <2>2. Settled(z)' => Settled(z)
    BY <1>0 DEF Settled
  <2>3. ASSUME Settled(z) PROVE Remembered(z)'
    BY <1>0, <2>3, PruneRemembers DEF KInv, RInv, Remembered
  <2> QED BY <2>1, <2>2, <2>3
<1> QED BY <1>0, <1>1, <1>2 DEF KInv, DownIsIdle

LEMMA ClockKeeps ==
    ASSUME CInv, RInv, KInv, InitializeCorrupt \/ Tick \/ SetClock \/ UNCHANGED vars
    PROVE  KInv'
<1>1. CASE InitializeCorrupt \/ SetClock
  <2>1. excused' = Streams /\ call' = call
    BY <1>1 DEF RInv, InitializeCorrupt, SetClock, Excuse
  <2>2. \A u \in Calls : call[u].stream \in Streams
    BY CallFacts
  <2>3. DownIsIdle'
    BY <1>1 DEF KInv, DownIsIdle, InitializeCorrupt, SetClock
  <2> QED BY <2>1, <2>2, <2>3 DEF KInv, Knows
<1>2. CASE Tick
  <2>1. UNCHANGED <<call, db, up, delivered, excused>> /\ now' = now + 1
    BY <1>2 DEF Tick
  <2>2. \A z \in Streams : /\ db[z].at \in Nat /\ now \in Nat
                           /\ \A d \in delivered[z] : d.at \in Nat
    BY RowTypes DEF RInv
  <2>3. \A u \in Calls : call[u].stamp \in Nat /\ call[u].stream \in Streams
    BY CallFacts DEF CallRecord
  <2>4. \A u \in Calls : Knows(call'[u], db', delivered', now', excused')
    BY <2>1, <2>2, <2>3 DEF KInv, Knows
  <2>5. \A z \in Streams \ excused : Past(z)' /\ (Settled(z)' => Remembered(z)')
    BY <2>1, <2>2 DEF KInv, Past, Settled, Remembered
  <2> QED BY <2>1, <2>4, <2>5 DEF KInv, DownIsIdle
<1>3. CASE UNCHANGED vars
  BY <1>3 DEF vars, KInv, DownIsIdle, Past, Settled, Remembered
<1> QED BY <1>1, <1>2, <1>3

LEMMA KnownStep == CInv /\ RInv /\ KInv /\ [Next]_vars => KInv'
  BY ReserveKeeps, FinishKeeps, DeliverKeeps, WriteKeeps, DeleteKeeps, CrashKeeps,
     InitializeKeeps, ClockKeeps
  DEF Next, Process, CallStep

LEMMA KnownHolds == Spec => []KInv
<1>1. Init => KInv
  BY DEF Init, NewCall, NoRow, KInv, Knows, Past, Settled, Remembered, DownIsIdle,
         Unfinished
<1> QED BY <1>1, KnownStep, InvHolds, PTL DEF Spec

\* A reservation is given by Grant, or, ignoring a row of the far future, to a
\* stream that has lost its memory.
LEMMA OnlyGrantReserves ==
    ASSUME CInv, RInv, KInv, [Next]_vars, NEW t \in Calls, call[t].at # "sending",
           call'[t].at = "sending", StreamOf(t) \notin excused
    PROVE  Grant(t)
<1>1. call' # call
  OBVIOUS
<1>2. ~Crash
  <2>1. ASSUME Crash PROVE call'[t].at # "sending" \/ call'[t] = call[t]
    BY <2>1 DEF Crash, NewCall
  <2> QED BY <2>1
<1>3. PICK u \in Calls : Call(u) \/ CallStep(u)
  BY <1>1, <1>2
  DEF Next, Process, vars, Initialize, InitializeCorrupt, Tick, SetClock
<1>4. PICK r : Shows(u, r)
  BY <1>3, CallShows, EnterShows, ReadShows, SuppressShows, GrantShows, GoneShows,
     FinishShows
  DEF CallStep, RInv
<1>5. u = t
  BY <1>4 DEF CInv, Shows, Moved
<1>6. call[t].at \in {"deciding", "deleting"}
  BY <1>4, <1>5 DEF CInv, Shows, Moved
<1>7. call[t].at = "deciding"
  BY <1>6 DEF KInv, Knows
<1>8. ASSUME Suppress(t) PROVE FALSE
  BY <1>8, SuppressShows DEF CInv, Shows, Moved, Over, CallRecord
<1>9. ASSUME IgnoreFuture(t) PROVE FALSE
  BY <1>9, GoneShows DEF CInv, Shows, Moved, Gone, CallRecord
<1> QED
  BY <1>3, <1>5, <1>7, <1>8, <1>9
  DEF CallStep, Call, ReserveEnters, ReadRow, ReadFails, DeleteRow, DeleteFails,
      SendReturns, SendFails, SendAnswerLost, FinishUnsent, FinishEnters, Write, WriteFails

\* A stream whose memory was never lost is not alarmed again within the cooldown
\* for hazards it has all announced.
THEOREM NoAlarmRepeats == Spec => NoDuplicateAlarm
<1>1. CInv /\ RInv /\ KInv /\ [Next]_vars =>
        [\A t \in Calls :
            call[t].at # "sending" /\ call'[t].at = "sending" /\ StreamOf(t) \notin excused
            => ~(call[t].hazards \subseteq Recent(StreamOf(t)))]_vars
  BY OnlyGrantReserves, GrantKnows
<1> QED BY <1>1, InvHolds, KnownHolds, PTL DEF Spec, NoDuplicateAlarm

-----------------------------------------------------------------------------
(* The deduplicator implements the atomic one: Alarms and Memories move as *)
(* AtomicAlarms says, or stay.                                             *)

\* The row of a stream is that of the call which writes, or the stored one.
LEMMA RowIs ==
    ASSUME CInv
    PROVE  /\ \A u \in Calls : call[u].at = "writing" => RowOf(StreamOf(u)) = Written(u)
           /\ \A s : (\A u \in Calls : call[u].at = "writing" => StreamOf(u) # s)
                     => RowOf(s) = db[s]
  BY DEF CInv, LockExact, RowOf, Written

LEMMA RowInRow ==
    ASSUME CInv, RInv, NEW s \in Streams
    PROVE  RowOf(s) \in Row /\ RowOf(s).at \in Nat /\ Memory(s) \in Row
<1>1. \A u \in Calls : Written(u) \in Row
  BY Facts DEF Written, Row, CallRecord
<1>2. RowOf(s) \in Row
  <2>1. CASE \E u \in Calls : call[u].at = "writing" /\ StreamOf(u) = s
    BY <1>1, <2>1, RowIs
  <2>2. CASE ~ \E u \in Calls : call[u].at = "writing" /\ StreamOf(u) = s
    BY <2>2, RowIs DEF RInv
  <2> QED
    BY <2>1, <2>2
<1> QED
  BY <1>2, RowTypes DEF Memory

LEMMA AlarmsMove ==
    ASSUME CInv, NEW t \in Calls, NEW r, Moved(t, r)
    PROVE  Alarms' = [Alarms EXCEPT ![t] = AlarmOf(r)]
<1>1. \A u \in Calls : call'[u] = IF u = t THEN r ELSE call[u]
  BY DEF CInv, Moved
<1> QED
  BY <1>1 DEF Alarms

\* A step that touches no row and no clock changes the memory of no stream but those
\* it loses.
LEMMA MemoriesLose ==
    ASSUME CInv, CInv', NEW t \in Calls, NEW r, Moved(t, r), UNCHANGED <<db, now>>,
           NEW S, excused' = excused \cup S,
           r.at # "writing", call[t].at = "writing" => StreamOf(t) \in S
    PROVE  Memories' = [s \in Streams |-> IF s \in S THEN NoRow ELSE Memories[s]]
<1>1. \A u \in Calls : call'[u] = IF u = t THEN r ELSE call[u]
  BY DEF CInv, Moved
<1>2. ASSUME NEW s \in Streams, s \notin S PROVE RowOf(s)' = RowOf(s)
  <2>1. CASE \E u \in Calls : call[u].at = "writing" /\ StreamOf(u) = s
    <3>1. PICK u \in Calls : call[u].at = "writing" /\ StreamOf(u) = s
      BY <2>1
    <3>2. u # t /\ call'[u] = call[u]
      BY <1>1, <1>2, <3>1
    <3>3. RowOf(s) = Written(u) /\ RowOf(s)' = Written(u)'
      BY <3>1, <3>2, RowIs DEF CInv, LockExact, RowOf, Written
    <3> QED
      BY <3>2, <3>3 DEF Written
  <2>2. CASE ~ \E u \in Calls : call[u].at = "writing" /\ StreamOf(u) = s
    <3>1. ~ \E u \in Calls : call'[u].at = "writing" /\ call'[u].stream = s
      BY <1>1, <2>2
    <3>2. RowOf(s)' = db'[s]
      BY <3>1 DEF RowOf
    <3> QED
      BY <2>2, <3>2, RowIs
  <2> QED
    BY <2>1, <2>2
<1>3. ASSUME NEW s \in Streams PROVE Memory(s)' = IF s \in S THEN NoRow ELSE Memory(s)
  BY <1>2 DEF Memory
<1> QED
  BY <1>3 DEF Memories

LEMMA MemoriesStay ==
    ASSUME CInv, CInv', NEW t \in Calls, NEW r, Moved(t, r), UNCHANGED <<db, now, excused>>,
           r.at # "writing", call[t].at # "writing"
    PROVE  Memories' = Memories
<1>1. PICK none : none = {}
  OBVIOUS
<1>2. excused' = excused \cup none
  BY <1>1
<1>3. Memories' = [s \in Streams |-> IF s \in none THEN NoRow ELSE Memories[s]]
  BY <1>2, MemoriesLose
<1> QED
  BY <1>1, <1>3 DEF Memories

-----------------------------------------------------------------------------
\* Who decides finds no reservation of its stream, and in the row it read what the
\* stream remembers now.
LEMMA DecidesUnbusy ==
    ASSUME CInv, NEW t \in Calls, call[t].at \in {"reading", "deciding", "deleting"}
    PROVE  /\ ~Atomic!Busy(StreamOf(t))
           /\ \A u \in Calls : call[u].at = "writing" => StreamOf(u) # StreamOf(t)
<1>1. \A u \in Calls : StreamOf(u) = StreamOf(t) => call[u].at \notin Reserved
  BY DEF CInv, Untaken, ReservationsExact
<1>2. \A u \in Calls : call[u] \in CallRecord
  BY Facts
<1> QED
  BY <1>1, <1>2 DEF Atomic!Busy, Atomic!StreamOf, Alarms, AlarmOf, CallRecord

LEMMA DecisionMemory ==
    ASSUME CInv, RInv, KInv, NEW t \in Calls, call[t].at = "deciding",
           StreamOf(t) \notin excused
    PROVE  Memory(StreamOf(t)).hazards =
              IF CoolingDown(call[t].row) THEN call[t].row.hazards ELSE {}
<1>1. RowOf(StreamOf(t)) = db[StreamOf(t)]
  BY DecidesUnbusy, RowIs
<1>2. call[t].row = db[StreamOf(t)] /\ ~FromFuture(call[t].row)
  BY DecidesKnowing DEF KInv, Knows
<1>3. call[t].row \in Row /\ call[t].row.at <= now /\ now \in Nat
  BY <1>2, CallFacts DEF KInv, Past, RInv
<1>4. Elapsed(call[t].row) < Cooldown <=> now < call[t].row.at + Cooldown
  BY <1>3, DedupAssumption DEF Row, Elapsed
<1> QED
  BY <1>1, <1>2, <1>4 DEF Memory, CoolingDown, NoRow

LEMMA AlarmFields ==
    ASSUME CInv, NEW t \in Calls
    PROVE  /\ t \in DOMAIN Alarms /\ Alarms[t] = AlarmOf(call[t])
           /\ Alarms[t].stream = StreamOf(t) /\ Alarms[t].hazards = call[t].hazards
           /\ Alarms[t].at = IF call[t].at \in {"reading", "deciding", "deleting"}
                             THEN "reserve" ELSE call[t].at
           /\ Alarms[t].covers = IF call[t].at \in {"sending", "finish_sent"}
                                 THEN call[t].merged ELSE {}
           /\ StreamOf(t) \in Streams /\ Memories[StreamOf(t)] = Memory(StreamOf(t))
           /\ Atomic!StreamOf(t) = StreamOf(t)
           /\ Atomic!Nothing = NoRow
  BY Facts DEF Alarms, AlarmOf, Memories, Atomic!StreamOf, Atomic!Nothing, NoRow

\* AlarmsMove in the words of AtomicAlarms.
LEMMA MovesTo ==
    ASSUME CInv, NEW t \in Calls, NEW r, Moved(t, r), r.hazards = call[t].hazards
    PROVE  Atomic!Move(t, AlarmOf(r).at, AlarmOf(r).covers)
<1>1. Alarms' = [Alarms EXCEPT ![t] = AlarmOf(r)]
  BY AlarmsMove
<1>2. AlarmOf(r) = Atomic!Alarm(Alarms[t].stream, Alarms[t].hazards, AlarmOf(r).at,
                                AlarmOf(r).covers)
  BY AlarmFields DEF AlarmOf, Moved, Atomic!Alarm
<1> QED
  BY <1>1, <1>2 DEF Atomic!Move

\* The other variables of AtomicAlarms, where a step of a call touches none of them.
LEMMA RestStays ==
    ASSUME CInv, CInv', NEW t \in Calls, NEW r, Moved(t, r), UNCHANGED <<db, now, excused>>,
           r.at # "writing", call[t].at # "writing"
    PROVE  UNCHANGED <<Memories, now, excused>>
  BY MemoriesStay

LEMMA AskSimulates ==
    ASSUME CInv, CInv', NEW t \in Calls, Call(t) PROVE Atomic!Ask(t)
<1> DEFINE c == call[t]
<1>1. PICK H \in (SUBSET Hazards) \ {{}} : Shows(t, Called(c, H))
  BY CallShows
<1>2. Moved(t, Called(c, H)) /\ c.at = "new" /\ UNCHANGED <<db, now, excused>> /\ c \in CallRecord
  BY <1>1, Facts DEF Shows, Call
<1>3. /\ Called(c, H).at = "reserve" /\ Called(c, H).hazards = H
      /\ Called(c, H).stream = c.stream
  BY <1>2 DEF Called, CallRecord
<1>4. Alarms' = [Alarms EXCEPT ![t] = AlarmOf(Called(c, H))]
  BY <1>2, AlarmsMove
<1>5. AlarmOf(Called(c, H)) = Atomic!Alarm(Alarms[t].stream, H, "reserve", {})
  BY <1>3, AlarmFields DEF AlarmOf, Atomic!Alarm
<1>6. Alarms[t].at = "new"
  BY <1>2, AlarmFields
<1>7. UNCHANGED <<Memories, now, excused>>
  BY <1>2, <1>3, RestStays
<1> QED
  BY <1>4, <1>5, <1>6, <1>7 DEF Atomic!Ask

\* reserve(), from its lock to its answer: only the two ends of it are seen.
LEMMA EnterSimulates ==
    ASSUME CInv, CInv', NEW t \in Calls, ReserveEnters(t)
    PROVE  Atomic!Refuse(t) \/ UNCHANGED Atomic!vars
<1> DEFINE c == call[t]
<1>1. /\ c.at = "reserve" /\ lock = NoCall /\ UNCHANGED <<inflight, db, now, excused>>
      /\ c \in CallRecord /\ Alarms[t].at = "reserve" /\ StreamOf(t) \in Streams
  BY Facts, AlarmFields DEF ReserveEnters
<1>2. CASE StreamOf(t) \in inflight
  <2>1. Moved(t, Gone(c, "refused"))
    <3>1. call'[t].at = "refused"
      BY <1>1, <1>2 DEF ReserveEnters, Go, CInv, CallRecord
    <3>2. Gone(c, "reading").at = "reading"
      BY <1>1 DEF Gone, CallRecord
    <3> QED
      BY <3>1, <3>2, EnterShows DEF Shows, Moved, CInv
  <2>2. Gone(c, "refused").at = "refused" /\ Gone(c, "refused").hazards = c.hazards
    BY <1>1 DEF Gone, CallRecord
  <2>3. Atomic!Move(t, "refused", {})
    BY <2>1, <2>2, MovesTo DEF AlarmOf
  <2>4. Atomic!Busy(StreamOf(t))
    <3>1. PICK u \in Calls : call[u].at \in Reserved /\ StreamOf(u) = StreamOf(t)
      BY <1>2 DEF CInv, ReservationsExact
    <3>2. call[u].at \in {"sending", "finish_sent", "finish_unsent"}
      BY <1>1, <3>1 DEF CInv, LockExact
    <3> QED
      BY <3>1, <3>2, AlarmFields DEF Atomic!Busy
  <2>5. UNCHANGED <<Memories, now, excused>>
    BY <1>1, <2>1, <2>2, RestStays
  <2> QED
    BY <1>1, <2>3, <2>4, <2>5, AlarmFields DEF Atomic!Refuse
<1>3. CASE StreamOf(t) \notin inflight
  <2>1. Moved(t, Gone(c, "reading"))
    <3>1. call'[t].at = "reading"
      BY <1>1, <1>3 DEF ReserveEnters, Go, CInv, CallRecord
    <3>2. Gone(c, "refused").at = "refused"
      BY <1>1 DEF Gone, CallRecord
    <3> QED
      BY <3>1, <3>2, EnterShows DEF Shows, Moved, CInv
  <2>2. Gone(c, "reading").at = "reading" /\ Gone(c, "reading").hazards = c.hazards
        /\ Gone(c, "reading").stream = c.stream
    BY <1>1 DEF Gone, CallRecord
  <2>3. AlarmOf(Gone(c, "reading")) = Alarms[t]
    BY <1>1, <2>2, AlarmFields DEF AlarmOf
  <2>4. Alarms' = Alarms
    BY <2>1, <2>3, AlarmsMove DEF Alarms
  <2>5. UNCHANGED <<Memories, now, excused>>
    BY <1>1, <2>1, <2>2, RestStays
  <2> QED
    BY <2>4, <2>5 DEF Atomic!vars
<1> QED
  BY <1>2, <1>3

\* What loses the memory of some streams loses it in AtomicAlarms.
LEMMA LosesTo ==
    ASSUME CInv, CInv', NEW t \in Calls, NEW r, Moved(t, r), UNCHANGED <<db, now>>,
           NEW S, excused' = excused \cup S,
           r.at # "writing", call[t].at = "writing" => StreamOf(t) \in S
    PROVE  Atomic!Lose(S) /\ now' = now
<1>1. Memories' = [s \in Streams |-> IF s \in S THEN NoRow ELSE Memories[s]]
  BY MemoriesLose
<1> QED
  BY <1>1, AlarmFields DEF Atomic!Lose

LEMMA ReadSimulates ==
    ASSUME CInv, CInv', RInv, NEW t \in Calls, ReadRow(t) \/ ReadFails(t) \/ IgnoreFuture(t)
    PROVE  Atomic!Forget \/ UNCHANGED Atomic!vars
<1> DEFINE c == call[t]
<1>1. /\ c.at \in {"reading", "deciding"} /\ UNCHANGED <<db, now>> /\ c \in CallRecord
      /\ StreamOf(t) \in Streams
      /\ ReadRow(t) => excused' = excused
      /\ ~ReadRow(t) => excused' = excused \cup {StreamOf(t)}
  BY Facts DEF ReadRow, ReadFails, IgnoreFuture, Excuse
<1>2. PICK r : /\ Moved(t, r) /\ r.at \in {"deciding", "deleting"} /\ r.hazards = c.hazards
               /\ r.stream = c.stream
  <2>1. \A row : Read(c, row).at = "deciding" /\ Read(c, row).hazards = c.hazards
                 /\ Read(c, row).stream = c.stream
    BY <1>1 DEF Read, CallRecord
  <2>2. Gone(c, "deleting").at = "deleting" /\ Gone(c, "deleting").hazards = c.hazards
        /\ Gone(c, "deleting").stream = c.stream
    BY <1>1 DEF Gone, CallRecord
  <2>3. \A s \in Streams : db[s] \in Row
    BY DEF RInv
  <2>4. CASE ReadRow(t)
    BY <2>1, <2>3, <2>4, ReadShows DEF Shows
  <2>5. CASE ReadFails(t)
    BY <2>1, <2>3, <2>5, ReadShows DEF Shows
  <2>6. CASE IgnoreFuture(t)
    BY <2>2, <2>6, GoneShows DEF Shows
  <2> QED
    BY <2>4, <2>5, <2>6
<1>3. AlarmOf(r) = AlarmOf(c)
  BY <1>1, <1>2 DEF AlarmOf
<1>4. Alarms' = Alarms
  BY <1>2, <1>3, AlarmsMove DEF Alarms
<1>5. CASE ReadRow(t)
  BY <1>1, <1>2, <1>4, <1>5, RestStays DEF Atomic!vars
<1>6. CASE ~ReadRow(t)
  <2>1. Atomic!Lose({StreamOf(t)}) /\ now' = now
    BY <1>1, <1>2, <1>6, LosesTo
  <2> QED
    BY <1>1, <1>4, <2>1 DEF Atomic!Forget
<1> QED
  BY <1>5, <1>6

LEMMA SuppressSimulates ==
    ASSUME CInv, CInv', RInv, KInv, NEW t \in Calls, Suppress(t) PROVE Atomic!Suppress(t)
<1> DEFINE c == call[t]
<1>1. /\ c.at = "deciding" /\ UNCHANGED <<db, now, excused>> /\ c \in CallRecord
      /\ CoolingDown(c.row) /\ c.hazards \subseteq c.row.hazards
      /\ Moved(t, Over(c, "suppressed"))
  BY Facts, SuppressShows DEF Suppress, Shows
<1>2. /\ Over(c, "suppressed").at = "suppressed"
      /\ Over(c, "suppressed").hazards = c.hazards
  BY <1>1 DEF Over, CallRecord
<1>3. Atomic!Move(t, "suppressed", {})
  BY <1>1, <1>2, MovesTo DEF AlarmOf
<1>4. StreamOf(t) \in excused \/ Atomic!Covered(t)
  BY <1>1, DecisionMemory, AlarmFields DEF Atomic!Covered
<1>5. Alarms[t].at = "reserve"
  BY <1>1, AlarmFields
<1>6. UNCHANGED <<Memories, now, excused>>
  BY <1>1, <1>2, RestStays
<1> QED
  BY <1>3, <1>4, <1>5, <1>6, AlarmFields DEF Atomic!Suppress

\* A reservation begins, of a call that decides or that found a row of the future.
LEMMA BeginSimulates ==
    ASSUME CInv, CInv', RInv, NEW t \in Calls, NEW H \in SUBSET Hazards,
           call[t].at \in {"deciding", "deleting"}, Moved(t, Covering(call[t], H)),
           Memories' = Memories, UNCHANGED <<now, excused>>, call[t].hazards \subseteq H,
           StreamOf(t) \notin excused =>
              /\ ~(call[t].hazards \subseteq Memory(StreamOf(t)).hazards)
              /\ H = call[t].hazards \cup Memory(StreamOf(t)).hazards
    PROVE  Atomic!Begin(t)
<1> DEFINE c == call[t]
<1>1. /\ Covering(c, H).at = "sending" /\ Covering(c, H).hazards = c.hazards
      /\ Covering(c, H).merged = H
  BY Facts DEF Covering, CallRecord
<1>2. Atomic!Move(t, "sending", H)
  BY <1>1, MovesTo DEF AlarmOf
<1>3. ~Atomic!Busy(StreamOf(t))
  BY DecidesUnbusy
<1>4. Alarms[t].at = "reserve"
  BY AlarmFields
<1>5. StreamOf(t) \in excused \/ ~Atomic!Covered(t)
  BY AlarmFields DEF Atomic!Covered
<1> QED
  BY <1>2, <1>3, <1>4, <1>5, AlarmFields DEF Atomic!Begin

LEMMA GrantSimulates ==
    ASSUME CInv, CInv', RInv, KInv, NEW t \in Calls, Grant(t) PROVE Atomic!Begin(t)
<1> DEFINE c == call[t]
<1>1. /\ c.at = "deciding" /\ UNCHANGED <<db, now, excused>> /\ c \in CallRecord
      /\ CoolingDown(c.row) => ~(c.hazards \subseteq c.row.hazards)
      /\ Moved(t, Covering(c, Granted(c)))
  BY Facts, GrantShows DEF Grant, Shows
<1>2. Granted(c) \in SUBSET Hazards /\ c.hazards \subseteq Granted(c) /\ c.hazards # {}
  BY <1>1, RowTypes DEF Granted, CallRecord, RInv, Carrying
<1>3. StreamOf(t) \notin excused =>
         /\ ~(c.hazards \subseteq Memory(StreamOf(t)).hazards)
         /\ Granted(c) = c.hazards \cup Memory(StreamOf(t)).hazards
  BY <1>1, <1>2, DecisionMemory DEF Granted
<1>4. Covering(c, Granted(c)).at = "sending"
  BY <1>1 DEF Covering, CallRecord
<1>5. Memories' = Memories
  BY <1>1, <1>4, MemoriesStay
<1> QED
  BY <1>1, <1>2, <1>3, <1>5, BeginSimulates

LEMMA DeleteSimulates ==
    ASSUME CInv, CInv', RInv, KInv, NEW t \in Calls, DeleteRow(t) \/ DeleteFails(t)
    PROVE  Atomic!Begin(t)
<1> DEFINE c == call[t]
<1>1. /\ c.at = "deleting" /\ UNCHANGED <<now, excused>> /\ c \in CallRecord
      /\ StreamOf(t) \in excused /\ Moved(t, Covering(c, c.hazards))
      /\ db' = db \/ db' = [db EXCEPT ![StreamOf(t)] = NoRow]
  BY Facts, GrantShows DEF DeleteRow, DeleteFails, Shows, KInv, Knows
<1>2. c.hazards \in SUBSET Hazards
  BY <1>1 DEF CallRecord
<1>3. Covering(c, c.hazards).at = "sending"
  BY <1>1 DEF Covering, CallRecord
<1>4. \A u \in Calls : /\ call'[u].at = "writing" <=> call[u].at = "writing"
                       /\ call[u].at # "writing"
  BY <1>1, <1>3 DEF CInv, LockExact, Moved
<1>5. \A s \in Streams \ excused : db'[s] = db[s]
  BY <1>1 DEF RInv
<1>6. \A s \in Streams \ excused : RowOf(s) = db[s] /\ RowOf(s)' = db'[s]
  BY <1>4 DEF RowOf
<1>7. \A s \in Streams : Memory(s)' = Memory(s)
  BY <1>1, <1>5, <1>6 DEF Memory
<1>8. Memories' = Memories
  BY <1>7 DEF Memories
<1> QED
  BY <1>1, <1>2, <1>8, BeginSimulates

\* What a send and the start or the failure of a finish make of the call's record.
LEMMA AnswerFields ==
    ASSUME NEW c \in CallRecord, NEW at \in Statements, NEW time \in Nat
    PROVE  /\ Gone(c, at).at = at /\ Gone(c, at).hazards = c.hazards
           /\ Gone(c, at).merged = c.merged
           /\ Over(c, at).at = at /\ Over(c, at).hazards = c.hazards
           /\ Stamped(c, time).at = "writing" /\ Stamped(c, time).hazards = c.hazards
           /\ Stamped(c, time).stamp = time /\ Stamped(c, time).merged = c.merged
  BY DEF Gone, Over, Stamped, CallRecord

LEMMA SendSimulates ==
    ASSUME CInv, CInv', NEW t \in Calls, SendReturns(t) \/ SendFails(t) PROVE Atomic!Answer(t)
<1> DEFINE c == call[t]
<1>1. PICK at \in {"finish_sent", "finish_unsent"} : Moved(t, Gone(c, at))
  BY GoneShows DEF Shows
<1>2. c.at = "sending" /\ UNCHANGED <<db, now, excused>> /\ c \in CallRecord
  BY Facts DEF SendReturns, SendFails
<1>3. Gone(c, at).at = at /\ Gone(c, at).hazards = c.hazards /\ Gone(c, at).merged = c.merged
  BY <1>2, AnswerFields, SMT
<1>4. Alarms[t].at = "sending" /\ Alarms[t].covers = c.merged
  BY <1>2, AlarmFields
<1>5. Atomic!Move(t, at, IF at = "finish_sent" THEN c.merged ELSE {})
  BY <1>1, <1>3, MovesTo DEF AlarmOf
<1>6. UNCHANGED <<Memories, now, excused>>
  BY <1>1, <1>2, <1>3, RestStays
<1> QED
  BY <1>4, <1>5, <1>6 DEF Atomic!Answer

LEMMA LostAnswerSimulates ==
    ASSUME CInv, CInv', NEW t \in Calls, SendAnswerLost(t) PROVE Atomic!LoseAnswer(t)
<1> DEFINE c == call[t]
<1>1. /\ Moved(t, Gone(c, "finish_unsent")) /\ c.at = "sending" /\ UNCHANGED <<db, now>>
      /\ excused' = excused \cup {StreamOf(t)} /\ c \in CallRecord
  BY Facts, GoneShows DEF Shows, SendAnswerLost, Excuse
<1>2. /\ Gone(c, "finish_unsent").at = "finish_unsent"
      /\ Gone(c, "finish_unsent").hazards = c.hazards
  BY <1>1, AnswerFields
<1>3. Atomic!Move(t, "finish_unsent", {})
  BY <1>1, <1>2, MovesTo DEF AlarmOf
<1>4. Atomic!Lose({StreamOf(t)}) /\ now' = now
  BY <1>1, <1>2, LosesTo
<1> QED
  BY <1>1, <1>3, <1>4, AlarmFields DEF Atomic!LoseAnswer

LEMMA UnsentSimulates ==
    ASSUME CInv, CInv', RInv, NEW t \in Calls, FinishUnsent(t) PROVE Atomic!GiveUp(t)
<1> DEFINE c == call[t]
<1>1. /\ Moved(t, Over(c, "unsent")) /\ c.at = "finish_unsent"
      /\ UNCHANGED <<db, now, excused>> /\ c \in CallRecord
  BY Facts, FinishShows DEF Shows, FinishUnsent, RInv
<1>2. Over(c, "unsent").at = "unsent" /\ Over(c, "unsent").hazards = c.hazards
  BY <1>1 DEF Over, CallRecord
<1>3. Atomic!Move(t, "unsent", {})
  BY <1>1, <1>2, MovesTo DEF AlarmOf
<1>4. UNCHANGED <<Memories, now, excused>>
  BY <1>1, <1>2, RestStays
<1> QED
  BY <1>1, <1>3, <1>4, AlarmFields DEF Atomic!GiveUp

\* finish() reads its clock: from here on the alarm counts, although a thread has
\* still to write its row.
LEMMA RecordSimulates ==
    ASSUME CInv, CInv', RInv, NEW t \in Calls, FinishEnters(t) PROVE Atomic!Record(t)
<1> DEFINE c == call[t]
           s == StreamOf(t)
           r == Stamped(c, now)
<1>1. /\ Moved(t, r) /\ c.at = "finish_sent" /\ lock = NoCall
      /\ UNCHANGED <<db, now, excused>> /\ c \in CallRecord /\ now \in Nat
  BY Facts, FinishShows DEF Shows, FinishEnters, RInv
<1>2. /\ r.at = "writing" /\ r.hazards = c.hazards /\ r.stamp = now /\ r.merged = c.merged
  BY <1>1 DEF Stamped, CallRecord
<1>3. Atomic!Move(t, "writing", {})
  BY <1>1, <1>2, MovesTo DEF AlarmOf
<1>4. \A u \in Calls : call'[u] = IF u = t THEN r ELSE call[u]
  BY <1>1 DEF CInv, Moved
<1>5. \A u \in Calls : call[u].at # "writing"
  BY <1>1 DEF CInv, LockExact
<1>6. ASSUME NEW z \in Streams
      PROVE  RowOf(z) = db[z]
             /\ RowOf(z)' = IF z = s THEN [at |-> now, hazards |-> c.merged] ELSE db[z]
  <2>1. RowOf(z) = db[z]
    BY <1>5, RowIs
  <2>2. lock' = t /\ call'[t].at = "writing" /\ call'[t].stream = s
    BY <1>1, <1>2, <1>4 DEF FinishEnters, Moved
  <2>3. CASE z = s
    BY <1>2, <1>4, <2>1, <2>2, <2>3 DEF RowOf
  <2>4. CASE z # s
    <3>1. ~ \E u \in Calls : lock' = u /\ call'[u].at = "writing" /\ call'[u].stream = z
      BY <2>2, <2>4
    <3>2. RowOf(z)' = db'[z]
      BY <3>1 DEF RowOf
    <3> QED
      BY <1>1, <2>1, <2>4, <3>2
  <2> QED
    BY <2>3, <2>4
<1>7. ASSUME NEW z \in Streams
      PROVE  Memory(z)' = IF z = s
                          THEN IF s \in excused THEN NoRow
                               ELSE Atomic!While([at |-> now, hazards |-> c.merged], now)
                          ELSE Memory(z)
  BY <1>1, <1>6, AlarmFields DEF Memory, Atomic!While
<1>8. Memories' = [Memories EXCEPT ![s] = IF s \in excused THEN NoRow
                     ELSE Atomic!While([at |-> now, hazards |-> c.merged], now)]
  BY <1>7, AlarmFields DEF Memories
<1>9. Alarms[t].at = "finish_sent" /\ Alarms[t].covers = c.merged
  BY <1>1, AlarmFields
<1> QED
  BY <1>1, <1>3, <1>8, <1>9, AlarmFields DEF Atomic!Record

\* A table that is pruned holds what counts, as before.
LEMMA PruneRemains ==
    ASSUME now \in Nat, NEW table \in [Streams -> Row], NEW s \in Streams
    PROVE  (IF now < PruneRows(table)[s].at + Cooldown THEN PruneRows(table)[s] ELSE NoRow)
              = (IF now < table[s].at + Cooldown THEN table[s] ELSE NoRow)
<1>1. table[s].at \in Nat
  BY RowTypes
<1> QED
  BY <1>1 DEF PruneRows, NoRow

LEMMA WriteSimulates ==
    ASSUME CInv, CInv', RInv, NEW t \in Calls, Write(t) \/ WriteFails(t)
    PROVE  Atomic!Return(t)
<1> DEFINE c == call[t]
           s == StreamOf(t)
           r == IF Write(t) THEN Over(c, "done") ELSE Unwritten(c)
           table == [db EXCEPT ![s] = Written(t)]
<1>1. /\ Moved(t, r) /\ c.at = "writing" /\ now' = now /\ c \in CallRecord /\ now \in Nat
  BY Facts, FinishShows DEF Shows, Write, WriteFails, RInv
<1>2. r.at = (IF Write(t) THEN "done" ELSE "unrecorded") /\ r.hazards = c.hazards
  BY <1>1 DEF Over, Unwritten, CallRecord
<1>3. Atomic!Move(t, r.at, {}) /\ Alarms[t].at = "writing"
  BY <1>1, <1>2, MovesTo, AlarmFields DEF AlarmOf
<1>6. call'[t].at = r.at
  BY <1>1 DEF CInv, Moved
<1>4. CASE WriteFails(t)
  <2>1. db' = db /\ excused' = excused \cup {s}
    BY <1>4 DEF WriteFails, Excuse
  <2>2. Atomic!Lose({s}) /\ now' = now
    BY <1>1, <1>2, <2>1, LosesTo
  <2>3. r.at = "unrecorded"
    <3>1. Moved(t, Unwritten(c))
      BY <1>4, FinishShows DEF Shows, RInv
    <3>2. Unwritten(c).at = "unrecorded"
      BY <1>1 DEF Unwritten, CallRecord
    <3>3. call'[t] = Unwritten(c)
      BY <3>1 DEF Moved, CInv
    <3> HIDE DEF r
    <3> QED
      BY <1>6, <3>2, <3>3
  <2> QED
    BY <1>3, <2>2, <2>3, AlarmFields DEF Atomic!Return
<1>5. CASE Write(t)
  <2>1. db' = PruneRows(table) /\ excused' = excused
    BY <1>5 DEF Write, Written
  <2>2. \A u \in Calls : call'[u] = IF u = t THEN r ELSE call[u]
    BY <1>1 DEF CInv, Moved
  <2>3. \A u \in Calls : (call[u].at = "writing" <=> u = t) /\ call'[u].at # "writing"
    BY <1>1, <1>2, <2>2 DEF CInv, LockExact
  <2>4. Written(t) \in Row /\ s \in Streams /\ table \in [Streams -> Row]
    BY <1>1, Facts DEF Written, Row, CallRecord, RInv
  <2>5. ASSUME NEW z \in Streams PROVE RowOf(z) = table[z] /\ RowOf(z)' = PruneRows(table)[z]
    <3>1. RowOf(z)' = PruneRows(table)[z]
      BY <2>1, <2>3 DEF RowOf
    <3>2. CASE z = s
      BY <2>3, <2>4, <3>1, <3>2, RowIs DEF RInv
    <3>3. CASE z # s
      BY <2>3, <2>4, <3>1, <3>3, RowIs DEF RInv
    <3> QED
      BY <3>2, <3>3
  <2>6. ASSUME NEW z \in Streams PROVE Memory(z)' = Memory(z)
    <3>1. Memory(z) = IF z \notin excused /\ now < table[z].at + Cooldown
                      THEN table[z] ELSE NoRow
      BY <2>5 DEF Memory
    <3>2. Memory(z)' = IF z \notin excused /\ now < PruneRows(table)[z].at + Cooldown
                       THEN PruneRows(table)[z] ELSE NoRow
      BY <1>1, <2>1, <2>5 DEF Memory
    <3> HIDE DEF table
    <3>3. (IF now < PruneRows(table)[z].at + Cooldown THEN PruneRows(table)[z] ELSE NoRow)
             = (IF now < table[z].at + Cooldown THEN table[z] ELSE NoRow)
      BY <1>1, <2>4, PruneRemains
    <3> QED
      BY <3>1, <3>2, <3>3
  <2>7. Memories' = Memories
    BY <2>6 DEF Memories
  <2>8. r.at = "done"
    BY <1>2, <1>5
  <2> QED
    BY <1>1, <1>3, <2>1, <2>7, <2>8 DEF Atomic!Return
<1> QED
  BY <1>4, <1>5

-----------------------------------------------------------------------------
LEMMA CrashSimulates ==
    ASSUME CInv, RInv, Crash PROVE Atomic!Interrupt
<1> DEFINE S == {StreamOf(t) : t \in {u \in Calls : call[u].at \in {"finish_sent", "writing"}}}
<1>1. UNCHANGED <<db, now>> /\ excused' = excused \cup S /\ lock' = NoCall
  BY DEF Crash, Excuse
<1>2. ASSUME NEW z \in Streams PROVE Memory(z)' = IF z \in S THEN NoRow ELSE Memory(z)
  <2>1. CASE z \in S
    BY <1>1, <2>1 DEF Memory
  <2>2. CASE z \notin S
    <3>1. \A u \in Calls : call[u].at = "writing" => StreamOf(u) # z
      BY <2>2
    <3>2. RowOf(z) = db[z]
      BY <3>1, RowIs
    <3>3. RowOf(z)' = db'[z]
      BY <1>1 DEF RowOf
    <3> QED
      BY <1>1, <2>2, <3>2, <3>3 DEF Memory
  <2> QED
    BY <2>1, <2>2
<1>3. Memories' = [z \in Streams |-> IF z \in S THEN Atomic!Nothing ELSE Memories[z]]
  BY <1>2 DEF Memories, Atomic!Nothing, NoRow
<1>4. S = {Atomic!StreamOf(t) : t \in {u \in Calls : Alarms[u].at \in {"finish_sent", "writing"}}}
  <2>1. \A u \in Calls : /\ Atomic!StreamOf(u) = StreamOf(u)
                         /\ Alarms[u].at \in {"finish_sent", "writing"} <=>
                               call[u].at \in {"finish_sent", "writing"}
    BY AlarmFields
  <2> QED
    BY <2>1
<1>5. ASSUME NEW u \in Calls
      PROVE  Alarms'[u] = IF Alarms[u].at \in Atomic!Under
                          THEN Atomic!Alarm(StreamOf(u), {}, "lost", {}) ELSE Alarms[u]
  <2>1. Alarms[u].at \in Atomic!Under <=> call[u].at \in Waiting \cup Holding \cup Reserved
    BY Facts, AlarmFields DEF Atomic!Under, CallRecord
  <2>2. call'[u] = IF call[u].at \in Waiting \cup Holding \cup Reserved
                   THEN [NewCall(StreamOf(u)) EXCEPT !.at = "lost"] ELSE call[u]
    BY DEF Crash
  <2>3. AlarmOf([NewCall(StreamOf(u)) EXCEPT !.at = "lost"])
           = Atomic!Alarm(StreamOf(u), {}, "lost", {})
    BY DEF NewCall, AlarmOf, Atomic!Alarm
  <2>4. Alarms'[u] = AlarmOf(call[u])' /\ Alarms[u] = AlarmOf(call[u])
    BY DEF Alarms
  <2>5. CASE call[u].at \in Waiting \cup Holding \cup Reserved
    <3>1. call'[u] = [NewCall(StreamOf(u)) EXCEPT !.at = "lost"]
      BY <2>2, <2>5
    <3>2. AlarmOf(call[u])' = Atomic!Alarm(StreamOf(u), {}, "lost", {})
      BY <2>3, <3>1 DEF AlarmOf
    <3> QED
      BY <2>1, <2>4, <2>5, <3>2
  <2>6. CASE call[u].at \notin Waiting \cup Holding \cup Reserved
    <3>1. call'[u] = call[u]
      BY <2>2, <2>6
    <3>2. AlarmOf(call[u])' = AlarmOf(call[u])
      BY <3>1 DEF AlarmOf
    <3> QED
      BY <2>1, <2>4, <2>6, <3>2
  <2> QED
    BY <2>5, <2>6
<1>6. Alarms' = [u \in Calls |-> IF Alarms[u].at \in Atomic!Under
                                 THEN Atomic!Alarm(Atomic!StreamOf(u), {}, "lost", {})
                                 ELSE Alarms[u]]
  BY <1>5, AlarmFields DEF Alarms
<1> QED
  BY <1>1, <1>3, <1>4, <1>6 DEF Atomic!Interrupt, Atomic!Lose

\* A restart prunes rows, the clock lets them grow old; a database that is lost and a
\* clock that is set lose the memory of every stream.
LEMMA ClockSimulates ==
    ASSUME CInv, RInv, KInv, Initialize \/ InitializeCorrupt \/ Tick \/ SetClock
    PROVE  [Atomic!Next]_Atomic!vars
<1>1. call' = call /\ lock' = lock /\ Alarms' = Alarms
  BY DEF Initialize, InitializeCorrupt, Tick, SetClock, Alarms
<1>2. CASE Initialize
  <2>1. \A u \in Calls : call[u].at # "writing"
    BY <1>2 DEF KInv, DownIsIdle, Initialize
  <2>2. db' = PruneRows(db) /\ UNCHANGED <<now, excused>>
    BY <1>2 DEF Initialize
  <2>3. ASSUME NEW z \in Streams PROVE Memory(z)' = Memory(z)
    <3>1. RowOf(z) = db[z] /\ RowOf(z)' = PruneRows(db)[z]
      BY <1>1, <2>1, <2>2 DEF RowOf
    <3> QED
      BY <2>2, <3>1, PruneRemains DEF Memory, RInv
  <2> QED
    BY <1>1, <2>2, <2>3 DEF Memories, Atomic!vars
<1>3. CASE InitializeCorrupt \/ SetClock
  <2>1. excused' = excused \cup Streams
    BY <1>3 DEF InitializeCorrupt, SetClock, Excuse
  <2>2. Memories' = [z \in Streams |-> IF z \in Streams THEN Atomic!Nothing ELSE Memories[z]]
    BY <2>1 DEF Memories, Memory, Atomic!Nothing, NoRow
  <2>3. Atomic!Lose(Streams)
    BY <2>1, <2>2 DEF Atomic!Lose
  <2>4. CASE InitializeCorrupt
    BY <1>1, <2>3, <2>4 DEF InitializeCorrupt, Atomic!Forget, Atomic!Next
  <2>5. CASE SetClock
    BY <1>1, <2>3, <2>5 DEF SetClock, Atomic!SetClock, Atomic!Next
  <2> QED
    BY <1>3, <2>4, <2>5
<1>4. CASE Tick
  <2>1. now' = now + 1 /\ UNCHANGED <<db, excused>> /\ now \in Nat
    BY <1>4 DEF Tick, RInv
  <2>2. ASSUME NEW z \in Streams PROVE Memory(z)' = Atomic!While(Memory(z), now')
    <3>1. RowOf(z)' = RowOf(z) /\ RowOf(z).at \in Nat
      BY <1>1, <2>1, RowInRow DEF RowOf
    <3> QED
      BY <2>1, <3>1 DEF Memory, Atomic!While, Atomic!Nothing, NoRow
  <2>3. Memories' = [z \in Streams |-> Atomic!While(Memories[z], now')]
    BY <2>2 DEF Memories
  <2> QED
    BY <1>1, <2>1, <2>3 DEF Atomic!Tick, Atomic!Next
<1> QED
  BY <1>2, <1>3, <1>4

\* reserve() and finish() answer as if each were one step on a memory that only they
\* touch: threads, locks, failures and restarts do not show, but for the memory of the
\* streams they lose.
THEOREM DedupImplementsAtomic == Spec => ImplementsAtomic
<1>1. Init => Atomic!Init
  <2> SUFFICES ASSUME Init PROVE Atomic!Init
    OBVIOUS
  <2>1. ASSUME NEW t \in Calls
        PROVE  Alarms[t] \in {Atomic!Alarm(s, {}, "new", {}) : s \in Streams}
    <3>1. PICK s \in Streams : call[t] = NewCall(s)
      BY DEF Init
    <3>2. Alarms[t] = Atomic!Alarm(s, {}, "new", {})
      BY <3>1 DEF Alarms, AlarmOf, NewCall, Atomic!Alarm
    <3> QED
      BY <3>2
  <2>2. \A s \in Streams : Memory(s) = NoRow
    BY DEF Init, Memory, RowOf, NewCall
  <2>3. Alarms \in [Calls -> {Atomic!Alarm(s, {}, "new", {}) : s \in Streams}]
    BY <2>1 DEF Alarms
  <2>4. Memories = [s \in Streams |-> Atomic!Nothing]
    BY <2>2 DEF Memories, Atomic!Nothing, NoRow
  <2> QED
    BY <2>3, <2>4 DEF Init, Atomic!Init
<1>2. CInv /\ CInv' /\ RInv /\ KInv /\ [Next]_vars => [Atomic!Next]_Atomic!vars
  <2> SUFFICES ASSUME CInv, CInv', RInv, KInv, [Next]_vars
               PROVE  [Atomic!Next]_Atomic!vars
    OBVIOUS
  <2>1. ASSUME NEW t \in Calls, Call(t) \/ CallStep(t) PROVE [Atomic!Next]_Atomic!vars
    BY <2>1, AskSimulates, EnterSimulates, ReadSimulates, SuppressSimulates,
       GrantSimulates, DeleteSimulates, SendSimulates, LostAnswerSimulates,
       UnsentSimulates, RecordSimulates, WriteSimulates
    DEF CallStep, Atomic!Next
  <2>2. CASE Crash
    BY <2>2, CrashSimulates DEF Atomic!Next
  <2>3. CASE UNCHANGED vars
    BY <2>3 DEF vars, Atomic!vars, Alarms, Memories, Memory, RowOf
  <2> QED
    BY <2>1, <2>2, <2>3, ClockSimulates DEF Next, Process
<1> QED
  BY <1>1, <1>2, InvHolds, KnownHolds, PTL DEF Spec, ImplementsAtomic, Atomic!Spec
=============================================================================
