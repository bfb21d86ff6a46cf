----------------------------- MODULE StreamGate -----------------------------
(***************************************************************************)
(* LLMStreamGate (src/app/dedup.py): at most one queued or running LLM     *)
(* candidate per stream, and a fixed window between two admissions of a    *)
(* stream.  The gate runs on the event loop and awaits nothing, so each    *)
(* method is one action.  Its table of admission times is pruned every     *)
(* PruneEvery operations.                                                  *)
(***************************************************************************)
EXTENDS Naturals

CONSTANTS Streams,     \* the (machine_id, stream_id) keys
          Cooldown,    \* cooldown_seconds, in ticks of the monotonic clock
          PruneEvery,  \* operations between two prunings (256 in the code)
          MaxClock     \* bound on the monotonic clock

ASSUME GateAssumption ==
    /\ Cooldown \in Nat
    /\ PruneEvery \in Nat \ {0}
    /\ MaxClock \in Nat

VARIABLES active,        \* self._active
          lastAdmitted,  \* self._last_admitted, a dict: its domain is its keys
          operations,    \* self._operations_since_prune
          clock          \* time.monotonic()

gateVars == <<active, lastAdmitted, operations, clock>>

\* A dict from streams to times, as a predicate: TLC could not enumerate the set.
IsDict(f) == DOMAIN f \subseteq Streams /\ f \in [DOMAIN f -> Nat]

Init ==
    /\ active = {}
    /\ lastAdmitted = [s \in {} |-> 0]
    /\ operations = 0
    /\ clock = 0

-----------------------------------------------------------------------------
PruneDue == operations + 1 >= PruneEvery

\* A mutant stands before the definition it is a mutant of: see PROJECT.json.
StaleIgnoringAge == {s \in DOMAIN lastAdmitted : s \notin active}

\* The entries prune() drops: old enough, and of no stream that is active.
Stale == {s \in DOMAIN lastAdmitted :
            s \notin active /\ clock - lastAdmitted[s] >= Cooldown}

\* The table admit() decides on, after the pruning it may have done first.
Pruned == IF PruneDue
          THEN [s \in DOMAIN lastAdmitted \ Stale |-> lastAdmitted[s]]
          ELSE lastAdmitted

Cooling(s) == s \in DOMAIN Pruned /\ clock - Pruned[s] < Cooldown

CountOperation == operations' = IF PruneDue THEN 0 ELSE operations + 1

\* The first early return of admit(): neither the clock nor the counter is used.
RefuseInflight(s) ==
    /\ s \in active
    /\ UNCHANGED gateVars

RefuseCooldownRestarting(s) ==
    /\ s \notin active
    /\ Cooling(s)
    /\ CountOperation
    /\ lastAdmitted' = [Pruned EXCEPT ![s] = clock]
    /\ UNCHANGED <<active, clock>>

\* The second early return: a refusal prunes and counts, and leaves the time alone.
RefuseCooldown(s) ==
    /\ s \notin active
    /\ Cooling(s)
    /\ CountOperation
    /\ lastAdmitted' = Pruned
    /\ UNCHANGED <<active, clock>>

Grant(s) ==
    /\ s \notin active
    /\ ~Cooling(s)
    /\ CountOperation
    /\ active' = active \cup {s}
    /\ lastAdmitted' = [t \in DOMAIN Pruned \cup {s} |->
                          IF t = s THEN clock ELSE Pruned[t]]
    /\ UNCHANGED clock

\* release() discards: releasing a stream that is not active changes nothing.
Release(s) ==
    /\ active' = active \ {s}
    /\ UNCHANGED <<lastAdmitted, operations, clock>>

Tick ==
    /\ clock < MaxClock
    /\ clock' = clock + 1
    /\ UNCHANGED <<active, lastAdmitted, operations>>

Next ==
    \/ \E s \in Streams :
          \/ RefuseInflight(s)
          \/ RefuseCooldown(s)
          \/ Grant(s)
          \/ Release(s)
    \/ Tick

Spec == Init /\ [][Next]_gateVars

-----------------------------------------------------------------------------
\* Types; a dict never holds a time of the future and the counter stays under
\* the pruning threshold.
GateTypeOK ==
    /\ active \in SUBSET Streams
    /\ IsDict(lastAdmitted)
    /\ operations \in 0 .. (PruneEvery - 1)
    /\ clock \in 0 .. MaxClock
    /\ \A s \in DOMAIN lastAdmitted : lastAdmitted[s] <= clock
=============================================================================
