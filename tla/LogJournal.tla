------------------------------ MODULE LogJournal ------------------------------
(***************************************************************************)
(* What the log directory shows over many runs of the service: a journal   *)
(* that records are appended to while a handler is in use, and that loses  *)
(* whole days, of which the retention has passed, and nothing else.        *)
(* DailyLog, with its threads, roll-overs and failures, implements this.   *)
(***************************************************************************)
EXTENDS Naturals

CONSTANT Retention

VARIABLES
    today,
    shown,  \* the records to be read, each with the days of its creation and its file
    active  \* a handler is in use

vars == <<today, shown, active>>

Entry == [created : 0 .. today, file : 0 .. today]
Expired(d) == d + Retention <= today

Init ==
    /\ today \in Nat
    /\ shown \subseteq {r \in Entry : r.created = r.file}
    /\ active = FALSE

\* A process starts; what has expired is gone before its first record.
Open ==
    /\ ~active /\ active' = TRUE
    /\ shown' = {r \in shown : ~Expired(r.file)}
    /\ UNCHANGED today

\* A record is shown under the day it was created, or a later one.
Append ==
    /\ active
    /\ \E r \in Entry : r.created <= r.file /\ shown' = shown \cup {r}
    /\ UNCHANGED <<today, active>>

Drop ==
    /\ \E D \in SUBSET {d \in 0 .. today : Expired(d)} :
          shown' = {r \in shown : r.file \notin D}
    /\ UNCHANGED <<today, active>>

Close == active /\ active' = FALSE /\ UNCHANGED <<today, shown>>

Midnight == today' = today + 1 /\ UNCHANGED <<shown, active>>

Next == Open \/ Append \/ Drop \/ Close \/ Midnight

Spec == Init /\ [][Next]_vars
=============================================================================
