---------------------------- MODULE AtomicAlarms ----------------------------
(***************************************************************************)
(* What the alarm deduplicator promises: each call is answered at once,    *)
(* from a memory that holds the last recorded alarm of the stream for the  *)
(* cooldown.  There is no lock, no thread, no row that is read first and   *)
(* used later, no pruning and no restart.  Of a stream whose memory was    *)
(* lost only the reservations are promised.  AlarmDedup implements this.   *)
(***************************************************************************)
EXTENDS Naturals

CONSTANTS Calls, Streams, Hazards, Cooldown

VARIABLES
    alarm,   \* call -> its stream, its hazards, what its reservation covers
    memory,  \* stream -> the last recorded alarm, while it counts
    time,
    lost     \* the streams whose memory was lost

vars == <<alarm, memory, time, lost>>

Nothing == [at |-> 0, hazards |-> {}]

Alarm(s, H, at, C) == [stream |-> s, hazards |-> H, at |-> at, covers |-> C]

Init ==
    /\ alarm \in [Calls -> {Alarm(s, {}, "new", {}) : s \in Streams}]
    /\ memory = [s \in Streams |-> Nothing]
    /\ time = 0
    /\ lost = {}

StreamOf(t) == alarm[t].stream
Move(t, at, C) == alarm' = [alarm EXCEPT ![t] = Alarm(@.stream, @.hazards, at, C)]

Busy(s) ==
    \E t \in Calls :
        StreamOf(t) = s /\ alarm[t].at \in {"sending", "finish_sent", "finish_unsent"}

\* Every hazard of the call was announced within the cooldown.
Covered(t) == alarm[t].hazards \subseteq memory[StreamOf(t)].hazards

Lose(S) ==
    /\ lost' = lost \cup S
    /\ memory' = [s \in Streams |-> IF s \in S THEN Nothing ELSE memory[s]]

While(row, now) == IF now < row.at + Cooldown THEN row ELSE Nothing

Ask(t) ==
    /\ alarm[t].at = "new"
    /\ \E H \in (SUBSET Hazards) \ {{}} :
          alarm' = [alarm EXCEPT ![t] = Alarm(@.stream, H, "reserve", {})]
    /\ UNCHANGED <<memory, time, lost>>

Refuse(t) ==
    /\ alarm[t].at = "reserve"
    /\ Busy(StreamOf(t))
    /\ Move(t, "refused", {})
    /\ UNCHANGED <<memory, time, lost>>

Suppress(t) ==
    /\ alarm[t].at = "reserve"
    /\ StreamOf(t) \in lost \/ Covered(t)
    /\ Move(t, "suppressed", {})
    /\ UNCHANGED <<memory, time, lost>>

\* The reservation covers the hazards of the call and those that still count.
Begin(t) ==
    /\ alarm[t].at = "reserve"
    /\ ~Busy(StreamOf(t))
    /\ StreamOf(t) \in lost \/ ~Covered(t)
    /\ \E H \in SUBSET Hazards :
          /\ alarm[t].hazards \subseteq H
          /\ \/ StreamOf(t) \in lost
             \/ H = alarm[t].hazards \cup memory[StreamOf(t)].hazards
          /\ Move(t, "sending", H)
    /\ UNCHANGED <<memory, time, lost>>

Answer(t) ==
    /\ alarm[t].at = "sending"
    /\ Move(t, "finish_sent", alarm[t].covers) \/ Move(t, "finish_unsent", {})
    /\ UNCHANGED <<memory, time, lost>>

\* The alarm was received, but nobody knows.
LoseAnswer(t) ==
    /\ alarm[t].at = "sending"
    /\ Move(t, "finish_unsent", {})
    /\ Lose({StreamOf(t)})
    /\ UNCHANGED time

GiveUp(t) ==
    /\ alarm[t].at = "finish_unsent"
    /\ Move(t, "unsent", {})
    /\ UNCHANGED <<memory, time, lost>>

Record(t) ==
    /\ alarm[t].at = "finish_sent"
    /\ Move(t, "writing", {})
    /\ memory' = [memory EXCEPT ![StreamOf(t)] =
                    IF StreamOf(t) \in lost THEN Nothing
                    ELSE While([at |-> time, hazards |-> alarm[t].covers], time)]
    /\ UNCHANGED <<time, lost>>

\* finish() returns, or raises since its record did not reach the disk.
Return(t) ==
    /\ alarm[t].at = "writing"
    /\ \/ Move(t, "done", {}) /\ UNCHANGED <<memory, lost>>
       \/ Move(t, "unrecorded", {}) /\ Lose({StreamOf(t)})
    /\ UNCHANGED time

Under == {"reserve", "sending", "finish_sent", "finish_unsent", "writing"}

\* The process dies; what was received and not yet on the disk is forgotten.
Interrupt ==
    /\ alarm' = [t \in Calls |->
                   IF alarm[t].at \in Under
                   THEN Alarm(StreamOf(t), {}, "lost", {}) ELSE alarm[t]]
    /\ Lose({StreamOf(t) : t \in {u \in Calls : alarm[u].at \in {"finish_sent", "writing"}}})
    /\ UNCHANGED time

\* A read fails, a database is corrupt.
Forget == (\E S \in SUBSET Streams : Lose(S)) /\ UNCHANGED <<alarm, time>>

Tick ==
    /\ time' = time + 1
    /\ memory' = [s \in Streams |-> While(memory[s], time')]
    /\ UNCHANGED <<alarm, lost>>

SetClock == time' \in Nat /\ Lose(Streams) /\ UNCHANGED alarm

Next ==
    \/ \E t \in Calls :
          \/ Ask(t) \/ Refuse(t) \/ Suppress(t) \/ Begin(t) \/ Answer(t)
          \/ LoseAnswer(t) \/ GiveUp(t) \/ Record(t) \/ Return(t)
    \/ Interrupt \/ Forget \/ Tick \/ SetClock

Spec == Init /\ [][Next]_vars
=============================================================================
