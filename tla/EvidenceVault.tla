---------------------------- MODULE EvidenceVault ----------------------------
(***************************************************************************)
(* What the data directory promises its reader, without saying how it is   *)
(* written: the evidence of a confirmed frame appears all at once, stays   *)
(* as it is, and goes once, when it is due.  There are no threads here, no *)
(* crashes and no failing disks.  EvidenceStore implements this.           *)
(***************************************************************************)
EXTENDS Naturals

CONSTANTS
    Events,
    Contents,       \* what there is to find of an event
    DayLength,      \* ticks in a day
    RetentionDays,  \* evidence_retention_days
    Grace           \* evidence_cleanup_grace_seconds

VARIABLES
    stamp,  \* event -> the time it was confirmed, for those that were
    seen,   \* event -> what a reader finds of it under its final name
    gone,   \* events given up to cleanup
    now

vars == <<stamp, seen, gone, now>>

Init ==
    /\ stamp = [e \in {} |-> 0]
    /\ seen = [e \in Events |-> {}]
    /\ gone = {}
    /\ now = 0

Confirm(e) ==
    /\ e \notin DOMAIN stamp
    /\ stamp' = [f \in DOMAIN stamp \cup {e} |-> IF f = e THEN now ELSE stamp[f]]
    /\ UNCHANGED <<seen, gone, now>>

Appear(e) ==
    /\ e \in DOMAIN stamp \ gone
    /\ seen[e] = {}
    /\ seen' = [seen EXCEPT ![e] = Contents]
    /\ UNCHANGED <<stamp, gone, now>>

\* The day of the event has passed its retention, or the event its grace.
Due(e) ==
    \/ (stamp[e] \div DayLength) + RetentionDays <= now \div DayLength
    \/ stamp[e] + Grace <= now

GiveUp(e) ==
    /\ e \in DOMAIN stamp \ gone
    /\ seen[e] = Contents
    /\ Due(e)
    /\ seen' = [seen EXCEPT ![e] = {}]
    /\ gone' = gone \cup {e}
    /\ UNCHANGED <<stamp, now>>

Tick == now' = now + 1 /\ UNCHANGED <<stamp, seen, gone>>

Next == Tick \/ \E e \in Events : Confirm(e) \/ Appear(e) \/ GiveUp(e)

Spec == Init /\ [][Next]_vars
=============================================================================
