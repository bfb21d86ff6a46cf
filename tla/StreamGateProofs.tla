-------------------------- MODULE StreamGateProofs --------------------------
(***************************************************************************)
(* Proofs about LLMStreamGate, for every set of streams, every cooldown,   *)
(* every pruning interval and every bound on the clock: HInv is inductive, *)
(* it spaces the grants, and the gate that prunes implements the admission *)
(* rule that forgets nothing.                                              *)
(***************************************************************************)
EXTENDS StreamGateHistory, TLAPS

USE GateAssumption

\* The table after the pruning that admit() may do: still true, still a dict,
\* and every latest grant that is missing from it is past its cooldown.
LEMMA PrunedFaithful ==
    ASSUME HInv
    PROVE  /\ IsDict(Pruned)
           /\ DOMAIN Pruned \subseteq DOMAIN lastAdmitted
           /\ \A s \in DOMAIN Pruned : Pruned[s] = granted[s]
           /\ \A s \in DOMAIN granted \ DOMAIN Pruned :
                 clock - granted[s] >= Cooldown
  BY DEF HInv, GateTypeOK, GrantedTypeOK, TableFaithful, IsDict, Pruned, Stale

\* A stream is cooling, by the pruned table, exactly when its true latest
\* grant is younger than the cooldown.
LEMMA CoolingIsTrue ==
    ASSUME HInv, NEW s
    PROVE  Cooling(s) <=> s \in DOMAIN granted /\ clock - granted[s] < Cooldown
  BY PrunedFaithful
  DEF HInv, GateTypeOK, GrantedTypeOK, TableFaithful, IsDict, Cooling

LEMMA CountStaysLow ==
    ASSUME operations \in 0 .. (PruneEvery - 1), CountOperation
    PROVE  operations' \in 0 .. (PruneEvery - 1)
  BY DEF CountOperation, PruneDue

LEMMA InitHolds == HInit => HInv
  BY DEF HInit, Init, HInv, GateTypeOK, GrantedTypeOK, TableFaithful, IsDict

LEMMA GrantKeeps ==
    ASSUME HInv, NEW s \in Streams, HGrant(s)
    PROVE  HInv'
<1>1. IsDict(lastAdmitted') /\ \A t \in DOMAIN lastAdmitted' : lastAdmitted'[t] <= clock'
  BY PrunedFaithful
  DEF HInv, GateTypeOK, GrantedTypeOK, TableFaithful, HGrant, Grant, IsDict
<1>2. GateTypeOK'
  BY <1>1, CountStaysLow DEF HInv, GateTypeOK, HGrant, Grant
<1>3. GrantedTypeOK'
  BY DEF HInv, GateTypeOK, GrantedTypeOK, HGrant, Grant, IsDict
<1>4. TableFaithful'
  BY PrunedFaithful
  DEF HInv, GateTypeOK, GrantedTypeOK, TableFaithful, HGrant, Grant, IsDict
<1> QED BY <1>2, <1>3, <1>4 DEF HInv

LEMMA RefuseCooldownKeeps ==
    ASSUME HInv, NEW s \in Streams, HRefuseCooldown(s)
    PROVE  HInv'
<1>1. lastAdmitted' = Pruned /\ UNCHANGED <<active, clock, granted>> /\ CountOperation
  BY DEF HRefuseCooldown, RefuseCooldown
<1>2. GateTypeOK'
  BY <1>1, PrunedFaithful, CountStaysLow
  DEF HInv, GateTypeOK, GrantedTypeOK, TableFaithful, IsDict
<1>3. GrantedTypeOK' /\ TableFaithful'
  BY <1>1, PrunedFaithful DEF HInv, GrantedTypeOK, TableFaithful, IsDict
<1> QED BY <1>2, <1>3 DEF HInv

LEMMA StepKeeps == HInv /\ [HNext]_hvars => HInv'
<1> SUFFICES ASSUME HInv, [HNext]_hvars PROVE HInv'
  OBVIOUS
<1>1. CASE UNCHANGED hvars
  BY <1>1 DEF hvars, HInv, GateTypeOK, GrantedTypeOK, TableFaithful, IsDict
<1>2. ASSUME NEW s \in Streams, HRefuseInflight(s) PROVE HInv'
  BY <1>2
  DEF HRefuseInflight, RefuseInflight, gateVars,
      HInv, GateTypeOK, GrantedTypeOK, TableFaithful, IsDict
<1>3. ASSUME NEW s \in Streams, HRefuseCooldown(s) PROVE HInv'
  BY <1>3, RefuseCooldownKeeps
<1>4. ASSUME NEW s \in Streams, HGrant(s) PROVE HInv'
  BY <1>4, GrantKeeps
<1>5. ASSUME NEW s \in Streams, HRelease(s) PROVE HInv'
  BY <1>5
  DEF HRelease, Release, HInv, GateTypeOK, GrantedTypeOK, TableFaithful, IsDict
<1>6. CASE HTick
  BY <1>6
  DEF HTick, Tick, HInv, GateTypeOK, GrantedTypeOK, TableFaithful, IsDict
<1> QED BY <1>1, <1>2, <1>3, <1>4, <1>5, <1>6 DEF HNext

\* LLMStreamGate.prune only ever drops entries that no longer matter.
THEOREM GateInvariant == HSpec => []HInv
<1> QED BY InitHolds, StepKeeps, PTL DEF HSpec

LEMMA StepSpaced ==
    ASSUME HInv, [HNext]_hvars, NEW s \in Streams, s \in active' \ active
    PROVE  /\ s \in DOMAIN granted => clock - granted[s] >= Cooldown
           /\ granted'[s] = clock
<1>1. HGrant(s)
  BY DEF HNext, hvars, HRefuseInflight, RefuseInflight, gateVars, HRefuseCooldown,
         RefuseCooldown, HGrant, Grant, HRelease, Release, HTick, Tick
<1>2. ~Cooling(s) /\ granted'[s] = clock
  BY <1>1 DEF HGrant, Grant
<1> QED BY <1>2, CoolingIsTrue DEF HInv, GateTypeOK, GrantedTypeOK, IsDict

\* Two LLM admissions of one stream are at least the cooldown apart.
THEOREM GrantsAreSpaced == HSpec => GrantsSpaced
<1>1. HInv /\ [HNext]_hvars =>
        [\A s \in Streams :
            s \in active' \ active =>
               /\ s \in DOMAIN granted => clock - granted[s] >= Cooldown
               /\ granted'[s] = clock]_hvars
  BY StepSpaced
<1> QED BY <1>1, GateInvariant, PTL DEF HSpec, GrantsSpaced

LEMMA StepSimulates ==
    ASSUME HInv, [HNext]_hvars
    PROVE  [Admission!Next]_Admission!vars
<1>1. CASE UNCHANGED hvars
  BY <1>1 DEF hvars, Admission!vars
<1>2. ASSUME NEW s \in Streams, HRefuseInflight(s) PROVE Admission!AnswerInflight(s)
  BY <1>2 DEF HRefuseInflight, RefuseInflight, gateVars, Admission!AnswerInflight
<1>3. ASSUME NEW s \in Streams, HRefuseCooldown(s) PROVE Admission!AnswerCooldown(s)
  <2>1. ~Admission!Waited(s)
    BY <1>3, CoolingIsTrue
    DEF HRefuseCooldown, RefuseCooldown, Admission!Waited,
        HInv, GateTypeOK, GrantedTypeOK, IsDict
  <2> QED BY <1>3, <2>1 DEF HRefuseCooldown, RefuseCooldown, Admission!AnswerCooldown
<1>4. ASSUME NEW s \in Streams, HGrant(s) PROVE Admission!AnswerAdmitted(s)
  <2>1. Admission!Waited(s)
    BY <1>4, CoolingIsTrue
    DEF HGrant, Grant, Admission!Waited, HInv, GateTypeOK, GrantedTypeOK, IsDict
  <2> QED BY <1>4, <2>1 DEF HGrant, Grant, Admission!AnswerAdmitted
<1>5. ASSUME NEW s \in Streams, HRelease(s) PROVE Admission!GiveBack(s)
  BY <1>5 DEF HRelease, Release, Admission!GiveBack
<1>6. CASE HTick
  BY <1>6 DEF HTick, Tick, Admission!Next, Admission!Tick
<1> QED BY <1>1, <1>2, <1>3, <1>4, <1>5, <1>6 DEF HNext, Admission!Next

\* The pruning gate answers every request as the rule that forgets nothing.
THEOREM GateImplementsAdmission == HSpec => ImplementsAdmission
<1>1. HInit => Admission!Init
  BY DEF HInit, Init, Admission!Init
<1>2. HInv /\ [HNext]_hvars => [Admission!Next]_Admission!vars
  BY StepSimulates
<1> QED BY <1>1, <1>2, GateInvariant, PTL DEF HSpec, ImplementsAdmission, Admission!Spec
=============================================================================
