-------------------------- MODULE AlarmDedupProofs --------------------------
(***************************************************************************)
(* Proofs about AlarmDeduplicator for any calls, streams, hazards, times   *)
(* and number of faults: what the asyncio lock and the reservation set     *)
(* guard.  What the stored rows remember is in AlarmMemoryProofs.          *)
(***************************************************************************)
EXTENDS AlarmDedup, TLAPS

USE DedupAssumption

Statements == {"new"} \cup Waiting \cup Holding \cup Reserved \cup Ended

CallRecord == [at : Statements, stream : Streams, hazards : SUBSET Hazards, row : Row,
               merged : SUBSET Hazards, stamp : Nat]

\* reserve() tested the reservations under the lock it still holds.
Untaken ==
    \A t \in Calls :
        call[t].at \in {"reading", "deciding", "deleting"} => StreamOf(t) \notin inflight

USE DEF Waiting, Holding, Reserved, Ended, Statements, StreamOf

LEMMA RowTypes == NoRow \in Row /\ \A r \in Row : r.at \in Nat /\ r.hazards \subseteq Hazards
  BY DEF NoRow, Row

LEMMA PruneTypes ==
    ASSUME NEW table \in [Streams -> Row],
           \A s \in Streams : table[s].hazards = {} => table[s] = NoRow
    PROVE  /\ PruneRows(table) \in [Streams -> Row]
           /\ \A s \in Streams :
                 PruneRows(table)[s].hazards = {} => PruneRows(table)[s] = NoRow
  BY RowTypes DEF PruneRows

\* A step of one call, as far as the lock and the reservations are concerned:
\* Shows says which statements it leads between, and what follows from that.
Moved(t, r) ==
    /\ r \in CallRecord /\ r.stream = call[t].stream
    /\ call' = [call EXCEPT ![t] = r]

Shows(t, r) ==
    LET from == call[t].at
        to == r.at
    IN
    /\ Moved(t, r)
    /\ from \notin Holding /\ to \in Holding => lock = NoCall /\ lock' = t
    /\ from \in Holding /\ to \notin Holding => lock' = NoCall
    /\ (from \in Holding <=> to \in Holding) => lock' = lock
    /\ from \notin Reserved /\ to \in Reserved =>
          from \in {"deciding", "deleting"} /\ inflight' = inflight \cup {StreamOf(t)}
    /\ from \in Reserved /\ to \notin Reserved => inflight' = inflight \ {StreamOf(t)}
    /\ (from \in Reserved <=> to \in Reserved) => inflight' = inflight
    /\ to = "sending" => from \in {"deciding", "deleting"}
    /\ to = "reading" => StreamOf(t) \notin inflight
    /\ to \in {"deciding", "deleting"} => from \in {"reading", "deciding"}

\* The steps that concern no call: the database and the clocks.
Still == UNCHANGED <<call, lock, inflight>>

\* A crash or a restart.
Reset ==
    /\ call' \in [Calls -> CallRecord]
    /\ \A t \in Calls : call'[t].at \notin Holding \cup Reserved
                        /\ call'[t].at \notin {"reading", "deciding", "deleting"}
                        /\ call'[t].stream = call[t].stream
    /\ lock' = NoCall /\ inflight' = {}

\* The part of the invariant about calls, lock and reservations.
CInv ==
    /\ call \in [Calls -> CallRecord]
    /\ lock \in Calls \cup {NoCall}
    /\ LockExact /\ ReservationsExact /\ Untaken

LEMMA ShowsKeeps ==
    ASSUME CInv, NEW t \in Calls, NEW r, Shows(t, r)
    PROVE  CInv'
<1>1. \A u \in Calls : call'[u] = IF u = t THEN r ELSE call[u]
  BY DEF CInv, Shows, Moved
<1>2. call' \in [Calls -> CallRecord]
  BY DEF CInv, Shows, Moved
<1>3. r.at \in Statements /\ call[t].at \in Statements
  BY DEF CInv, CallRecord, Shows, Moved
<1>4. LockExact' /\ lock' \in Calls \cup {NoCall}
  BY <1>1, <1>3 DEF CInv, LockExact, Shows
<1>5. ReservationsExact'
  <2>1. \A u \in Calls : call'[u].stream = call[u].stream
    BY <1>1 DEF Shows, Moved
  <2>2. \A u \in Calls :
          call'[u].at \in Reserved <=> IF u = t THEN r.at \in Reserved
                                                ELSE call[u].at \in Reserved
    BY <1>1
  <2>3. CASE call[t].at \notin Reserved /\ r.at \in Reserved
    BY <2>1, <2>2, <2>3 DEF CInv, ReservationsExact, Untaken, Shows
  <2>4. CASE call[t].at \in Reserved /\ r.at \notin Reserved
    BY <2>1, <2>2, <2>4 DEF CInv, ReservationsExact, Shows
  <2>5. CASE call[t].at \in Reserved <=> r.at \in Reserved
    BY <2>1, <2>2, <2>5 DEF CInv, ReservationsExact, Shows
  <2> QED BY <2>3, <2>4, <2>5
<1>6. Untaken'
  BY <1>1, <1>3 DEF CInv, LockExact, Untaken, Shows, Moved
<1> QED BY <1>2, <1>4, <1>5, <1>6 DEF CInv

LEMMA StillKeeps == CInv /\ Still => CInv'
  BY DEF CInv, Still, LockExact, ReservationsExact, Untaken

LEMMA ResetKeeps == CInv /\ Reset => CInv'
  BY DEF CInv, Reset, LockExact, ReservationsExact, Untaken

-----------------------------------------------------------------------------
\* The record of a call after each of its steps.
Called(c, H) == [c EXCEPT !.at = "reserve", !.hazards = H]
Gone(c, at) == [c EXCEPT !.at = at]
Over(c, at) == [c EXCEPT !.at = at, !.row = NoRow, !.merged = {}]
Unwritten(c) == [c EXCEPT !.at = "unrecorded", !.row = NoRow, !.merged = {}, !.stamp = 0]
Read(c, row) == [c EXCEPT !.at = "deciding", !.row = row]
Covering(c, H) == [c EXCEPT !.at = "sending", !.row = NoRow, !.merged = H]
Stamped(c, time) == [c EXCEPT !.at = "writing", !.stamp = time]

LEMMA CallShows ==
    ASSUME CInv, NEW t \in Calls, Call(t)
    PROVE  \E H \in (SUBSET Hazards) \ {{}} : Shows(t, Called(call[t], H))
<1>1. PICK H \in (SUBSET Hazards) \ {{}} :
        call' = [call EXCEPT ![t].at = "reserve", ![t].hazards = H]
  BY DEF Call
<1>2. Shows(t, Called(call[t], H))
  BY <1>1 DEF CInv, Call, Called, Shows, Moved, CallRecord
<1> QED BY <1>2

LEMMA EnterShows ==
    ASSUME CInv, NEW t \in Calls, ReserveEnters(t)
    PROVE  Shows(t, Gone(call[t], "refused")) \/ Shows(t, Gone(call[t], "reading"))
<1>1. CASE StreamOf(t) \in inflight
  <2>1. Shows(t, Gone(call[t], "refused"))
    BY <1>1 DEF CInv, ReserveEnters, Go, Gone, Shows, Moved, CallRecord
  <2> QED BY <2>1
<1>2. CASE StreamOf(t) \notin inflight
  <2>1. Shows(t, Gone(call[t], "reading"))
    BY <1>2 DEF CInv, ReserveEnters, Go, Gone, Shows, Moved, CallRecord
  <2> QED BY <2>1
<1> QED BY <1>1, <1>2

LEMMA ReadShows ==
    ASSUME CInv, \A s \in Streams : db[s] \in Row, NEW t \in Calls
    PROVE  /\ ReadRow(t) => Shows(t, Read(call[t], db[StreamOf(t)]))
           /\ ReadFails(t) => Shows(t, Read(call[t], NoRow))
<1>1. CASE ReadRow(t)
  BY <1>1 DEF CInv, ReadRow, ReadFails, Read, Shows, Moved, CallRecord
<1>2. CASE ReadFails(t)
  BY <1>2, RowTypes DEF CInv, ReadRow, ReadFails, Read, Shows, Moved, CallRecord
<1> QED BY <1>1, <1>2

LEMMA SuppressShows ==
    ASSUME CInv, NEW t \in Calls, Suppress(t)
    PROVE  Shows(t, Over(call[t], "suppressed"))
  BY RowTypes DEF CInv, Suppress, Forget, Over, Shows, Moved, CallRecord

LEMMA CoveringShows ==
    ASSUME CInv, NEW t \in Calls, NEW H \in SUBSET Hazards, Reserve(t, H),
           call[t].at \in {"deciding", "deleting"}
    PROVE  Shows(t, Covering(call[t], H))
  BY RowTypes DEF CInv, Reserve, Covering, Shows, Moved, CallRecord

\* What the reservation of Grant covers.
Granted(c) == c.hazards \cup (IF CoolingDown(c.row) THEN c.row.hazards ELSE {})

LEMMA GrantShows ==
    ASSUME CInv, NEW t \in Calls
    PROVE  /\ Grant(t) => Shows(t, Covering(call[t], Granted(call[t])))
           /\ DeleteRow(t) \/ DeleteFails(t) => Shows(t, Covering(call[t], call[t].hazards))
<1>1. call[t].hazards \subseteq Hazards /\ Granted(call[t]) \subseteq Hazards
  BY RowTypes DEF CInv, CallRecord, Granted
<1> QED BY <1>1, CoveringShows DEF Grant, DeleteRow, DeleteFails, Granted

LEMMA GoneShows ==
    ASSUME CInv, NEW t \in Calls
    PROVE  /\ IgnoreFuture(t) => Shows(t, Gone(call[t], "deleting"))
           /\ SendReturns(t) => Shows(t, Gone(call[t], "finish_sent"))
           /\ SendFails(t) \/ SendAnswerLost(t) => Shows(t, Gone(call[t], "finish_unsent"))
<1> USE DEF CInv, Go, Gone, Shows, Moved, CallRecord
<1>1. CASE IgnoreFuture(t)
  BY <1>1 DEF IgnoreFuture, SendReturns, SendFails, SendAnswerLost
<1>2. CASE SendReturns(t)
  BY <1>2 DEF IgnoreFuture, SendReturns, SendFails, SendAnswerLost
<1>3. CASE SendFails(t) \/ SendAnswerLost(t)
  BY <1>3 DEF IgnoreFuture, SendReturns, SendFails, SendAnswerLost
<1> QED BY <1>1, <1>2, <1>3

LEMMA FinishShows ==
    ASSUME CInv, now \in Nat, NEW t \in Calls
    PROVE  /\ FinishUnsent(t) => Shows(t, Over(call[t], "unsent"))
           /\ Write(t) => Shows(t, Over(call[t], "done"))
           /\ WriteFails(t) => Shows(t, Unwritten(call[t]))
           /\ FinishEnters(t) => Shows(t, Stamped(call[t], now))
<1>1. CASE FinishUnsent(t)
  BY <1>1, RowTypes
  DEF CInv, FinishUnsent, Write, WriteFails, FinishEnters, Forget, Over, Shows, Moved,
      CallRecord
<1>2. ASSUME Write(t) PROVE Shows(t, Over(call[t], "done"))
  BY <1>2, RowTypes DEF CInv, Write, Leave, Forget, Over, Shows, Moved, CallRecord
<1>4. ASSUME WriteFails(t) PROVE Shows(t, Unwritten(call[t]))
  BY <1>4, RowTypes
  DEF CInv, WriteFails, Leave, Unrecorded, Unwritten, Shows, Moved, CallRecord
<1>3. CASE FinishEnters(t)
  BY <1>3 DEF CInv, FinishUnsent, Write, WriteFails, FinishEnters, Stamped, Shows,
              Moved, CallRecord
<1> QED BY <1>1, <1>2, <1>3, <1>4 DEF FinishUnsent, Write, WriteFails, FinishEnters

LEMMA CrashResets ==
    ASSUME CInv, Crash
    PROVE  Reset
<1>1. \A t \in Calls : [NewCall(StreamOf(t)) EXCEPT !.at = "lost"] \in CallRecord
  BY RowTypes DEF CInv, NewCall, CallRecord
<1>2. \A t \in Calls : call[t] \in CallRecord
  BY DEF CInv
<1> QED BY <1>1, <1>2 DEF Crash, Reset, NewCall, CallRecord

LEMMA StepShows ==
    ASSUME CInv, \A s \in Streams : db[s] \in Row, now \in Nat, [Next]_vars
    PROVE  Still \/ Reset \/ \E t \in Calls : \E r : Shows(t, r)
<1>1. CASE Initialize \/ InitializeCorrupt \/ Tick \/ SetClock \/ UNCHANGED vars
  BY <1>1 DEF Initialize, InitializeCorrupt, Tick, SetClock, vars, Still
<1>2. CASE Crash
  BY <1>2, CrashResets
<1>3. ASSUME NEW t \in Calls, Call(t) \/ CallStep(t) PROVE \E r : Shows(t, r)
  BY <1>3, CallShows, EnterShows, ReadShows, SuppressShows, GrantShows, GoneShows,
     FinishShows
  DEF CallStep
<1> QED BY <1>1, <1>2, <1>3 DEF Next, Process

-----------------------------------------------------------------------------
\* What a call is about is known from reserve() on, and what its reservation
\* covers from the decision on: no row is ever written without hazards.
Carrying ==
    \A t \in Calls :
        /\ call[t].at \in {"reserve"} \cup Holding \cup Reserved => call[t].hazards # {}
        /\ call[t].at \in Reserved => call[t].merged # {}

\* The part of it about rows, the process and the history.
RInv ==
    /\ Carrying
    /\ db \in [Streams -> Row]
    /\ \A s \in Streams : db[s].hazards = {} => db[s] = NoRow
    /\ now \in Nat
    /\ up \in BOOLEAN
    /\ budget \in [faults : Nat, crashes : Nat, steps : Nat]
    /\ delivered \in [Streams -> SUBSET [hazard : Hazards, at : Nat]]
    /\ excused \subseteq Streams

LEMMA InitHolds == Init => CInv /\ RInv
<1> SUFFICES ASSUME Init PROVE CInv /\ RInv
  OBVIOUS
<1>1. \A s \in Streams : NewCall(s) \in CallRecord
  BY RowTypes DEF NewCall, CallRecord
<1>2. \A t \in Calls : call[t] \in CallRecord /\ call[t].at = "new"
  BY <1>1 DEF Init, NewCall
<1>3. call \in [Calls -> CallRecord]
  BY <1>1 DEF Init
<1> QED
  BY <1>2, <1>3, RowTypes
  DEF Init, CInv, LockExact, ReservationsExact, Untaken, RInv, Carrying, NoRow

LEMMA SpendTypes ==
    ASSUME NEW what \in {"faults", "crashes", "steps"}, Spend(what),
           budget \in [faults : Nat, crashes : Nat, steps : Nat]
    PROVE  budget' \in [faults : Nat, crashes : Nat, steps : Nat]
<1>1. budget[what] \in Nat /\ budget[what] > 0
  BY DEF Spend
<1>2. budget[what] - 1 \in Nat
  BY <1>1
<1> QED BY <1>2 DEF Spend

LEMMA BudgetTypes ==
    ASSUME budget \in [faults : Nat, crashes : Nat, steps : Nat], [Next]_vars
    PROVE  budget' \in [faults : Nat, crashes : Nat, steps : Nat]
  BY SpendTypes
  DEF Next, Process, CallStep, vars, Call, ReserveEnters, ReadRow, ReadFails, Suppress,
      Grant, IgnoreFuture, DeleteRow, DeleteFails, SendReturns, SendFails,
      SendAnswerLost, FinishUnsent, FinishEnters, Write, WriteFails, Crash, Initialize,
      InitializeCorrupt, Tick, SetClock

LEMMA DeliverTypes ==
    ASSUME NEW t \in Calls, call[t] \in CallRecord, now \in Nat, Deliver(t),
           delivered \in [Streams -> SUBSET [hazard : Hazards, at : Nat]]
    PROVE  delivered' \in [Streams -> SUBSET [hazard : Hazards, at : Nat]]
<1>1. {[hazard |-> h, at |-> now] : h \in call[t].hazards}
         \subseteq [hazard : Hazards, at : Nat]
  BY DEF CallRecord
<1> QED BY <1>1 DEF Deliver

LEMMA HistoryTypes ==
    ASSUME CInv, RInv, [Next]_vars
    PROVE  /\ delivered' \in [Streams -> SUBSET [hazard : Hazards, at : Nat]]
           /\ excused' \subseteq Streams
           /\ now' \in Nat
           /\ up' \in BOOLEAN
<1>1. \A t \in Calls : call[t] \in CallRecord /\ StreamOf(t) \in Streams
  BY DEF CInv, CallRecord
<1>2. up' \in BOOLEAN /\ (now' = now \/ Tick \/ SetClock)
  BY DEF RInv, Next, Process, CallStep, vars, Call, ReserveEnters, ReadRow, ReadFails,
      Suppress, Grant, IgnoreFuture, DeleteRow, DeleteFails, SendReturns, SendFails,
      SendAnswerLost, FinishUnsent, FinishEnters, Write, WriteFails, Crash, Initialize,
      InitializeCorrupt, Tick, SetClock
<1>4. now' \in Nat
  BY <1>2 DEF RInv, Tick, SetClock
<1>5. ASSUME excused' = excused PROVE excused' \subseteq Streams
  BY <1>5 DEF RInv
<1>6. ASSUME InitializeCorrupt \/ SetClock \/ Crash PROVE excused' \subseteq Streams
  BY <1>1, <1>6 DEF RInv, InitializeCorrupt, SetClock, Crash, Excuse
<1>7. ASSUME NEW t \in Calls, ReadFails(t) \/ IgnoreFuture(t) \/ SendAnswerLost(t)
                                \/ WriteFails(t)
      PROVE  excused' \subseteq Streams
  BY <1>1, <1>7 DEF RInv, ReadFails, IgnoreFuture, SendAnswerLost, WriteFails, Excuse
<1>8. excused' \subseteq Streams
  BY <1>5, <1>6, <1>7
  DEF Next, Process, CallStep, vars, Call, ReserveEnters, ReadRow, Suppress, Grant,
      DeleteRow, DeleteFails, SendReturns, SendFails, FinishUnsent, FinishEnters, Write,
      Initialize, Tick
<1>3. delivered' = delivered \/ \E t \in Calls : Deliver(t)
  BY DEF Next, Process, CallStep, vars, Call, ReserveEnters, ReadRow, ReadFails,
      Suppress, Grant, IgnoreFuture, DeleteRow, DeleteFails, SendReturns, SendFails,
      SendAnswerLost, FinishUnsent, FinishEnters, Write, WriteFails, Crash, Initialize,
      InitializeCorrupt, Tick, SetClock
<1> QED BY <1>1, <1>2, <1>3, <1>4, <1>8, DeliverTypes DEF RInv

\* The row that finish() writes.
Written(t) == [at |-> call[t].stamp, hazards |-> call[t].merged]

LEMMA RowsTyped ==
    ASSUME CInv, RInv, [Next]_vars
    PROVE  /\ db' \in [Streams -> Row]
           /\ \A s \in Streams : db'[s].hazards = {} => db'[s] = NoRow
<1>1. CASE db' = db
  BY <1>1 DEF RInv
<1>2. ASSUME NEW t \in Calls, Write(t)
      PROVE  /\ db' \in [Streams -> Row]
             /\ \A s \in Streams : db'[s].hazards = {} => db'[s] = NoRow
  <2>1. Written(t) \in Row /\ Written(t).hazards # {} /\ StreamOf(t) \in Streams
    BY <1>2 DEF CInv, RInv, Carrying, CallRecord, Row, Written, Write
  <2>2. db' = PruneRows([db EXCEPT ![StreamOf(t)] = Written(t)])
    BY <1>2 DEF Write, Written
  <2> QED BY <2>1, <2>2, PruneTypes DEF RInv
<1>3. CASE Initialize
  BY <1>3, PruneTypes DEF Initialize, RInv
<1>4. CASE InitializeCorrupt
  BY <1>4, RowTypes DEF InitializeCorrupt
<1>5. ASSUME NEW t \in Calls, DeleteRow(t)
      PROVE  /\ db' \in [Streams -> Row]
             /\ \A s \in Streams : db'[s].hazards = {} => db'[s] = NoRow
  BY <1>5, RowTypes DEF DeleteRow, RInv
<1> QED
  BY <1>1, <1>2, <1>3, <1>4, <1>5
  DEF Next, Process, CallStep, vars, Call, ReserveEnters, ReadRow, ReadFails,
      Suppress, Grant, IgnoreFuture, DeleteFails, SendReturns, SendFails,
      SendAnswerLost, FinishUnsent, FinishEnters, WriteFails, Crash, Tick, SetClock

\* Every step either takes a call on with the hazards and the reservation it
\* has, or is one of those that give them to it.
LEMMA CarryingStep ==
    ASSUME CInv, RInv, [Next]_vars
    PROVE  Carrying'
<1>1. CASE Initialize \/ InitializeCorrupt \/ Tick \/ SetClock \/ UNCHANGED vars
  BY <1>1
  DEF RInv, Carrying, Initialize, InitializeCorrupt, Tick, SetClock, vars
<1>2. CASE Crash
  <2>1. \A t \in Calls : call'[t] = call[t] \/ call'[t].at = "lost"
    BY <1>2 DEF Crash, NewCall
  <2>2. \A t \in Calls : call[t].at \in Holding \cup Reserved => call'[t].at = "lost"
    BY <1>2 DEF Crash, NewCall
  <2> QED BY <2>1, <2>2 DEF RInv, Carrying
<1>3. ASSUME NEW t \in Calls, Call(t) PROVE Carrying'
  <2>1. PICK H \in (SUBSET Hazards) \ {{}} :
          call' = [call EXCEPT ![t] = [call[t] EXCEPT !.at = "reserve", !.hazards = H]]
    BY <1>3 DEF Call
  <2>2. \A u \in Calls : IF u = t THEN /\ call'[u].at = "reserve"
                                      /\ call'[u].hazards = H
                                 ELSE call'[u] = call[u]
    BY <2>1 DEF CInv, CallRecord
  <2>3. H # {}
    OBVIOUS
  <2>4. \A u \in Calls \ {t} :
           /\ call'[u].at = call[u].at
           /\ call'[u].hazards = call[u].hazards /\ call'[u].merged = call[u].merged
    BY <2>2
  <2>5. call'[t].at = "reserve" /\ call'[t].hazards # {}
    BY <2>2, <2>3
  <2> QED BY <2>4, <2>5 DEF RInv, Carrying
<1>4. ASSUME NEW t \in Calls, NEW H \in SUBSET Hazards, Reserve(t, H), H # {},
             call[t].at \in {"deciding", "deleting"}
      PROVE  Carrying'
  BY <1>4 DEF CInv, RInv, Carrying, Reserve, CallRecord
<1>5. ASSUME NEW t \in Calls, Grant(t) \/ DeleteRow(t) \/ DeleteFails(t) PROVE Carrying'
  BY <1>4, <1>5, RowTypes
  DEF CInv, RInv, Carrying, Grant, DeleteRow, DeleteFails, CallRecord
<1>6. ASSUME NEW t \in Calls,
             ReserveEnters(t) \/ ReadRow(t) \/ ReadFails(t) \/ Suppress(t)
               \/ IgnoreFuture(t)
      PROVE  Carrying'
  BY <1>6 DEF CInv, RInv, Carrying, ReserveEnters, ReadRow, ReadFails, Suppress,
              IgnoreFuture, Go, Forget, CallRecord
<1>7. ASSUME NEW t \in Calls,
             SendReturns(t) \/ SendFails(t) \/ SendAnswerLost(t) \/ FinishUnsent(t)
               \/ FinishEnters(t) \/ Write(t) \/ WriteFails(t)
      PROVE  Carrying'
  BY <1>7 DEF CInv, RInv, Carrying, SendReturns, SendFails, SendAnswerLost,
              FinishUnsent, FinishEnters, Write, WriteFails, Leave, Unrecorded, Go, Forget,
              CallRecord
<1> QED BY <1>1, <1>2, <1>3, <1>5, <1>6, <1>7 DEF Next, Process, CallStep

LEMMA StepKeeps == CInv /\ RInv /\ [Next]_vars => CInv' /\ RInv'
<1> SUFFICES ASSUME CInv, RInv, [Next]_vars PROVE CInv' /\ RInv'
  OBVIOUS
<1>1. CInv'
  BY StepShows, ShowsKeeps, StillKeeps, ResetKeeps DEF RInv
<1>2. RInv'
  BY CarryingStep, RowsTyped, HistoryTypes, BudgetTypes DEF RInv
<1> QED BY <1>1, <1>2

LEMMA InvHolds == Spec => [](CInv /\ RInv)
  BY InitHolds, StepKeeps, PTL DEF Spec

\* Types: in particular no row without hazards is ever stored.
THEOREM DedupTypes == Spec => []TypeOK
<1>1. CInv /\ RInv => TypeOK
  <2>1. ASSUME CInv PROVE call \in [Calls -> CallRecord]
    BY <2>1 DEF CInv
  <2>2. CallRecord = [at : {"new"} \cup Waiting \cup Holding \cup Reserved \cup Ended,
                      stream : Streams, hazards : SUBSET Hazards, row : Row,
                      merged : SUBSET Hazards, stamp : Nat]
    BY DEF CallRecord
  <2>3. ASSUME CInv PROVE lock \in Calls \cup {NoCall} /\ inflight \subseteq Streams
    BY <2>1, <2>3 DEF CInv, ReservationsExact, CallRecord
  <2> QED BY <2>1, <2>2, <2>3 DEF RInv, TypeOK
<1> QED BY <1>1, InvHolds, PTL

\* The lock is held by exactly the call between its acquisition and release.
THEOREM LockIsExact == Spec => []LockExact
<1>1. CInv => LockExact
  BY DEF CInv
<1> QED BY <1>1, InvHolds, PTL

\* The reservations are those of the calls that are sending or finishing, one
\* of each stream: the check and the reservation are one critical section
\* although the row is read in between.
THEOREM ReservationsAreExact == Spec => []ReservationsExact
<1>1. CInv => ReservationsExact
  BY DEF CInv
<1> QED BY <1>1, InvHolds, PTL
=============================================================================
