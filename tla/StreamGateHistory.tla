-------------------------- MODULE StreamGateHistory --------------------------
(***************************************************************************)
(* StreamGate with two history variables: the time of every stream's       *)
(* latest grant, which pruning does not erase, and the latest answer.      *)
(* Neither is read by an action; they state what pruning must not change.  *)
(***************************************************************************)
EXTENDS StreamGate

VARIABLES granted,  \* history: stream -> time of its latest grant, never pruned
          answer    \* history: the latest answer of admit()

hvars == <<active, lastAdmitted, operations, clock, granted, answer>>

HInit ==
    /\ Init
    /\ granted = [s \in {} |-> 0]
    /\ answer = <<>>

HRefuseInflight(s) ==
    /\ RefuseInflight(s)
    /\ answer' = <<s, "stream_inflight">>
    /\ UNCHANGED granted

HRefuseCooldown(s) ==
    /\ RefuseCooldown(s)
    /\ answer' = <<s, "cooldown">>
    /\ UNCHANGED granted

HGrant(s) ==
    /\ Grant(s)
    /\ answer' = <<s, "admitted">>
    /\ granted' = [t \in DOMAIN granted \cup {s} |->
                     IF t = s THEN clock ELSE granted[t]]

HRelease(s) ==
    /\ Release(s)
    /\ answer' = <<>>
    /\ UNCHANGED granted

HTick ==
    /\ Tick
    /\ answer' = <<>>
    /\ UNCHANGED granted

HNext ==
    \/ \E s \in Streams :
          \/ HRefuseInflight(s)
          \/ HRefuseCooldown(s)
          \/ HGrant(s)
          \/ HRelease(s)
    \/ HTick

HSpec == HInit /\ [][HNext]_hvars

-----------------------------------------------------------------------------
\* Pruning loses nothing that matters (prune, dedup.py): what the table still
\* holds is the true last admission, and what it dropped is past its cooldown.
TableFaithful ==
    /\ DOMAIN lastAdmitted \subseteq DOMAIN granted
    /\ \A s \in DOMAIN lastAdmitted : lastAdmitted[s] = granted[s]
    /\ \A s \in DOMAIN granted \ DOMAIN lastAdmitted :
          clock - granted[s] >= Cooldown

GrantedTypeOK ==
    /\ IsDict(granted)
    /\ \A s \in DOMAIN granted : granted[s] <= clock

HInv == GateTypeOK /\ GrantedTypeOK /\ TableFaithful

\* Two grants of one stream are at least the cooldown apart, refusals do not
\* push the window on, and a grant never meets another holder of its stream.
GrantsSpaced ==
    [][\A s \in Streams :
          s \in active' \ active =>
             /\ s \in DOMAIN granted => clock - granted[s] >= Cooldown
             /\ granted'[s] = clock]_hvars

\* The gate answers every request exactly as the admission rule that forgets
\* nothing: it neither grants early nor refuses a stream that has waited.
Admission == INSTANCE StreamAdmission WITH holding <- active

ImplementsAdmission == Admission!Spec
=============================================================================
