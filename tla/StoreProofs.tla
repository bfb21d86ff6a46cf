---------------------------- MODULE StoreProofs ----------------------------
(***************************************************************************)
(* Theorems about EvidenceStore, for any events, ages, thresholds, times,  *)
(* faults and crashes: what a save, an update and the maintenance pass     *)
(* leave of each other's directories.                                      *)
(***************************************************************************)
EXTENDS EvidenceStore, FiniteSetTheorems, TLAPS

USE StoreAssumption, StallIsShort DEF Evidence, Saving, Updating

Files == Evidence \cup {"alarm_tmp"}
Unsaved == {"new"} \cup Saving       \* the directory has no final name yet
Staged == Saving \ {"allocate"}
Jobs == Unsaved \cup Updating \cup {"save_failed", "done", "update_failed", "lost"}
EntryRecord == [state : {"absent", "staging", "final"}, files : SUBSET Files, mtime : Nat]
SweepRecord == [at : {"idle", "temporary", "pressure"}, started : Nat,
                temporary : SUBSET ({"dir", "alarm"} \X Events), todo : SUBSET Events,
                victim : Events \cup {NoEvent}, listed : SUBSET Files,
                refused : SUBSET Events]

USE DEF Files, Unsaved, Staged, Jobs, EntryRecord, SweepRecord

\* The state is made of these values.
Typed ==
    /\ job \in [Events -> Jobs] /\ confirmed \in [Events -> Nat]
    /\ entry \in [Events -> EntryRecord]
    /\ parents \subseteq 0 .. MaxTime
    /\ sweep \in SweepRecord /\ sweep.started <= now
    /\ mode \in {"down", "booting", "serving"}
    /\ now \in 0 .. MaxTime
    /\ budget \in [faults : 0 .. MaxFaults, crashes : 0 .. MaxCrashes]
    /\ cut \subseteq Events

EntryOK(e) ==
    /\ entry[e].mtime <= now /\ confirmed[e] <= now
    /\ job[e] \in {"new", "allocate"} => entry[e].state = "absent"
    /\ entry[e].state = "absent" => entry[e].files = {}
    /\ "alarm_tmp" \in entry[e].files => entry[e].state = "final"
    /\ entry[e].state = "staging" => job[e] \notin Updating
    /\ entry[e].state # "absent" =>
          confirmed[e] <= entry[e].mtime /\ DayOf(e) \in parents

\* A save that is alive has a young staging directory with what it wrote so far.
SaveOK(e) ==
    job[e] \in Staged =>
        /\ entry[e].state = "staging" /\ now <= entry[e].mtime + MaxStall
        /\ job[e] # "original" => "original" \in entry[e].files
        /\ job[e] \in {"metadata", "rename"} => "annotated" \in entry[e].files
        /\ job[e] = "rename" => "metadata" \in entry[e].files

\* What maintenance removes under a final name is expired or past its grace.
Due(e) == Expired(e, now) \/ confirmed[e] + Grace <= now

CutOK(e) ==
    /\ entry[e].state = "final" /\ e \notin cut => Evidence \subseteq entry[e].files
    /\ e \in cut => job[e] \notin Unsaved /\ Due(e)

UpdateOK(e) ==
    job[e] \in Updating /\ e \notin cut =>
        /\ entry[e].state = "final"
        /\ job[e] = "replace" =>
              "alarm_tmp" \in entry[e].files \/ confirmed[e] + TmpMaxAge <= now

EventOK(e) == EntryOK(e) /\ SaveOK(e) /\ CutOK(e) /\ UpdateOK(e)

\* The pass holds no directory of a save: what it lists under a final name stays
\* complete until it is removed, and what it removes belongs to nobody else.
SweepOK ==
    /\ sweep.at = "idle" => sweep.victim = NoEvent
    /\ \A e \in sweep.todo : Complete(e) /\ sweep.victim # e
    /\ \A e \in Events : sweep.victim = e =>
          /\ entry[e].state # "absent" /\ job[e] \notin Unsaved
          /\ entry[e].state = "final" => e \in cut

IInv == Typed /\ (\A e \in Events : EventOK(e)) /\ SweepOK

USE DEF Typed

-----------------------------------------------------------------------------
LEMMA DayTypes == ASSUME NEW t \in 0 .. MaxTime PROVE Day(t) \in 0 .. MaxTime
  BY DEF Day

LEMMA DayGrows ==
    ASSUME NEW t \in Nat, NEW u \in Nat, t <= u
    PROVE  Day(t) \in Nat /\ Day(u) \in Nat /\ Day(t) <= Day(u)
  BY DEF Day

\* What has expired stays expired.
LEMMA ExpiredStays ==
    ASSUME NEW e \in Events, confirmed[e] \in Nat, NEW t \in Nat, NEW u \in Nat, t <= u,
           Expired(e, t)
    PROVE  Expired(e, u)
<1>1. DayOf(e) \in Nat
  BY DayGrows DEF DayOf
<1> QED
  BY <1>1, DayGrows DEF Expired

LEMMA SpendTypes ==
    ASSUME Typed, NEW what \in {"faults", "crashes"}, Spend(what)
    PROVE  /\ budget' \in [faults : 0 .. MaxFaults, crashes : 0 .. MaxCrashes]
           /\ budget' # budget
           /\ what = "faults" => budget'.faults < MaxFaults
           /\ budget'.faults <= budget.faults
  BY DEF Spend

LEMMA InitHolds == Init => IInv
<1> SUFFICES ASSUME Init PROVE IInv
  OBVIOUS
<1>1. Typed
  BY DEF Init, Idle, Absent
<1>2. ASSUME NEW e \in Events PROVE EventOK(e)
  BY DEF Init, Absent, EventOK, EntryOK, SaveOK, CutOK, UpdateOK
<1>3. SweepOK
  BY DEF Init, Idle, SweepOK
<1> QED
  BY <1>1, <1>2, <1>3 DEF IInv

-----------------------------------------------------------------------------
\* A step of one call: the other events are as they were, and what the pass
\* listed or removes has its state and its evidence still.
LEMMA CallMoves ==
    ASSUME IInv, NEW e \in Events, NEW j \in Jobs, NEW n \in EntryRecord,
           job' = [job EXCEPT ![e] = j], entry' = [entry EXCEPT ![e] = n],
           UNCHANGED <<sweep, mode, now, cut>>,
           confirmed' \in [Events -> Nat],
           \A f \in Events : f # e => confirmed'[f] = confirmed[f],
           parents \subseteq parents', parents' \subseteq 0 .. MaxTime,
           budget' \in [faults : 0 .. MaxFaults, crashes : 0 .. MaxCrashes],
           EventOK(e)',
           job[e] \notin Unsaved =>
               /\ j \notin Unsaved /\ n.state = entry[e].state
               /\ Evidence \cap entry[e].files \subseteq n.files
    PROVE  IInv'
<1>1. Typed'
  BY DEF IInv
<1>2. ASSUME NEW f \in Events PROVE EventOK(f)'
  <2>1. CASE f = e
    BY <2>1
  <2>2. CASE f # e
    <3>1. job'[f] = job[f] /\ entry'[f] = entry[f] /\ confirmed'[f] = confirmed[f]
      BY <2>2 DEF IInv
    <3>2. EventOK(f)
      BY DEF IInv
    <3>3. EntryOK(f)' /\ SaveOK(f)'
      BY <3>1, <3>2 DEF EventOK, EntryOK, SaveOK, DayOf
    <3>4. CutOK(f)' /\ UpdateOK(f)'
      BY <3>1, <3>2 DEF EventOK, CutOK, UpdateOK, Due, Expired, DayOf
    <3> QED
      BY <3>3, <3>4 DEF EventOK
  <2> QED
    BY <2>1, <2>2
<1>3. SweepOK'
  <2>1. ASSUME NEW f \in Events PROVE /\ f # e => job'[f] = job[f] /\ entry'[f] = entry[f]
                                      /\ f = e => job'[f] = j /\ entry'[f] = n
    BY DEF IInv
  <2>2. ASSUME NEW f \in sweep.todo PROVE Complete(f)'
    <3>1. f \in Events /\ Complete(f) /\ EventOK(f)
      BY DEF IInv, SweepOK
    <3>2. job[f] \notin Unsaved
      BY <3>1 DEF Complete, EventOK, EntryOK, SaveOK
    <3> QED
      BY <2>1, <3>1, <3>2 DEF Complete
  <2>3. ASSUME NEW f \in Events, sweep.victim = f
        PROVE  /\ entry'[f].state # "absent" /\ job'[f] \notin Unsaved
               /\ entry'[f].state = "final" => f \in cut
    BY <2>1, <2>3 DEF IInv, SweepOK
  <2> QED
    BY <2>2, <2>3 DEF IInv, SweepOK
<1> QED
  BY <1>1, <1>2, <1>3 DEF IInv

USE DEF Go

\* What is known of an event, for the steps of its call.
LEMMA EventFacts ==
    ASSUME IInv, NEW e \in Events
    PROVE  /\ job[e] \in Jobs /\ entry[e] \in EntryRecord /\ confirmed[e] \in Nat
           /\ EventOK(e) /\ now \in 0 .. MaxTime /\ DayOf(e) \in Nat
  BY DayGrows DEF IInv, DayOf

LEMMA PrepareKeeps ==
    ASSUME IInv, NEW e \in Events, Prepare(e) PROVE IInv'
<1>1. /\ job' = [job EXCEPT ![e] = "allocate"] /\ confirmed' = [confirmed EXCEPT ![e] = now]
      /\ entry' = [entry EXCEPT ![e] = entry[e]]
      /\ UNCHANGED <<sweep, mode, now, cut, budget>> /\ parents' = parents \cup {Day(now)}
      /\ job[e] = "new"
  BY DEF Prepare, IInv
<1>2. job'[e] = "allocate" /\ entry'[e] = entry[e] /\ confirmed'[e] = now
  BY <1>1 DEF IInv
<1>3. EventOK(e)'
  BY <1>1, <1>2, EventFacts DEF EventOK, EntryOK, SaveOK, CutOK, UpdateOK
<1>4. Day(now) \in 0 .. MaxTime
  BY DayTypes DEF IInv
<1>5. /\ confirmed' \in [Events -> Nat] /\ parents' \subseteq 0 .. MaxTime
      /\ \A f \in Events : f # e => confirmed'[f] = confirmed[f]
  <2>1. parents' \subseteq 0 .. MaxTime
    BY <1>1, <1>4 DEF IInv
  <2>2. confirmed \in [Events -> Nat] /\ now \in Nat
    BY DEF IInv
  <2> QED
    BY <1>1, <2>1, <2>2
<1>6. budget' \in [faults : 0 .. MaxFaults, crashes : 0 .. MaxCrashes]
  BY <1>1 DEF IInv
<1>7. job[e] \in Unsaved /\ "allocate" \in Jobs /\ entry[e] \in EntryRecord
      /\ parents \subseteq parents'
  BY <1>1, EventFacts
<1> QED
  BY <1>1, <1>3, <1>5, <1>6, <1>7, CallMoves

\* The same where only the event changes.
LEMMA CallMovesAlone ==
    ASSUME IInv, NEW e \in Events, NEW j \in Jobs, NEW n \in EntryRecord,
           job' = [job EXCEPT ![e] = j], entry' = [entry EXCEPT ![e] = n],
           UNCHANGED <<confirmed, parents, sweep, mode, now, cut>>,
           budget' \in [faults : 0 .. MaxFaults, crashes : 0 .. MaxCrashes],
           EventOK(e)',
           job[e] \notin Unsaved =>
               /\ j \notin Unsaved /\ n.state = entry[e].state
               /\ Evidence \cap entry[e].files \subseteq n.files
    PROVE  IInv'
<1>1. confirmed' \in [Events -> Nat] /\ parents \subseteq parents' /\ parents' \subseteq 0 .. MaxTime
      /\ \A f \in Events : f # e => confirmed'[f] = confirmed[f]
  BY DEF IInv
<1> QED
  BY <1>1, CallMoves

LEMMA AllocateKeeps ==
    ASSUME IInv, NEW e \in Events, Allocate(e) PROVE IInv'
<1>1. /\ UNCHANGED <<confirmed, parents, sweep, mode, now, cut, budget>>
      /\ job[e] = "allocate"
  BY DEF Allocate
<1>2. budget' \in [faults : 0 .. MaxFaults, crashes : 0 .. MaxCrashes]
  BY <1>1 DEF IInv
<1>3. CASE DayOf(e) \in parents
  <2> DEFINE n == [state |-> "staging", files |-> {}, mtime |-> now]
  <2>1. job' = [job EXCEPT ![e] = "original"] /\ entry' = [entry EXCEPT ![e] = n]
    BY <1>3 DEF Allocate
  <2>2. job'[e] = "original" /\ entry'[e] = n
    BY <2>1 DEF IInv
  <2>3. EventOK(e)'
    BY <1>1, <1>3, <2>2, EventFacts DEF EventOK, EntryOK, SaveOK, CutOK, UpdateOK, DayOf
  <2>4. n \in EntryRecord /\ "original" \in Jobs /\ job[e] \in Unsaved
    BY <1>1, EventFacts
  <2> HIDE DEF n
  <2> QED
    BY <1>1, <1>2, <2>1, <2>3, <2>4, CallMovesAlone
<1>4. CASE DayOf(e) \notin parents
  <2>1. job' = [job EXCEPT ![e] = "save_failed"] /\ entry' = [entry EXCEPT ![e] = entry[e]]
    BY <1>4 DEF Allocate, IInv
  <2>2. job'[e] = "save_failed" /\ entry'[e] = entry[e]
    BY <2>1 DEF IInv
  <2>3. EventOK(e)'
    BY <1>1, <2>2, EventFacts
    DEF EventOK, EntryOK, SaveOK, CutOK, UpdateOK, Due, DayOf, Expired
  <2>4. entry[e] \in EntryRecord /\ "save_failed" \in Jobs /\ job[e] \in Unsaved
    BY <1>1, EventFacts
  <2> QED
    BY <1>1, <1>2, <2>1, <2>3, <2>4, CallMovesAlone
<1> QED
  BY <1>3, <1>4

\* A save that has its staging directory finds it there: only the disk stops it.
LEMMA StagingIsThere ==
    ASSUME IInv, NEW e \in Events, job[e] \in Staged PROVE entry[e].state = "staging"
  BY EventFacts DEF EventOK, SaveOK

LEMMA WriteKeeps ==
    ASSUME IInv, NEW e \in Events, WriteFile(e) PROVE IInv'
<1> DEFINE n == [entry[e] EXCEPT !.files = @ \cup {job[e]}, !.mtime = now]
           j == NextStep(job[e])
<1>1. /\ UNCHANGED <<confirmed, parents, sweep, mode, now, cut, budget>>
      /\ job[e] \in Evidence /\ entry[e].state = "staging"
  BY StagingIsThere DEF WriteFile
<1>2. job' = [job EXCEPT ![e] = j] /\ entry' = [entry EXCEPT ![e] = n]
  BY <1>1, EventFacts DEF WriteFile, IInv
<1>3. job'[e] = j /\ entry'[e] = n
  BY <1>2 DEF IInv
<1>4. /\ n.state = "staging" /\ n.files = entry[e].files \cup {job[e]} /\ n.mtime = now
  BY <1>1, EventFacts
<1>5. n \in EntryRecord
  <2>1. entry[e] \in EntryRecord /\ now \in Nat /\ job[e] \in Files
    BY <1>1, EventFacts
  <2> QED
    BY <2>1
<1>6. /\ job[e] = "original" => j = "annotated"
      /\ job[e] = "annotated" => j = "metadata"
      /\ job[e] = "metadata" => j = "rename"
      /\ j \in Jobs
  BY <1>1 DEF NextStep
<1> HIDE DEF j, n
<1>7. EntryOK(e)' /\ SaveOK(e)'
  BY <1>1, <1>3, <1>4, <1>6, EventFacts DEF EventOK, EntryOK, SaveOK, DayOf
<1>8. CutOK(e)' /\ UpdateOK(e)'
  BY <1>1, <1>3, <1>4, <1>6, EventFacts DEF EventOK, CutOK, UpdateOK
<1>9. budget' \in [faults : 0 .. MaxFaults, crashes : 0 .. MaxCrashes] /\ job[e] \in Unsaved
  BY <1>1 DEF IInv
<1> QED
  BY <1>1, <1>2, <1>5, <1>6, <1>7, <1>8, <1>9, CallMovesAlone DEF EventOK

LEMMA PublishKeeps ==
    ASSUME IInv, NEW e \in Events, Publish(e) PROVE IInv'
<1> DEFINE n == [entry[e] EXCEPT !.state = "final"]
<1>1. /\ UNCHANGED <<confirmed, parents, sweep, mode, now, cut, budget>>
      /\ job[e] = "rename" /\ entry[e].state = "staging" /\ Evidence \subseteq entry[e].files
  BY EventFacts DEF Publish, EventOK, SaveOK
<1>2. job' = [job EXCEPT ![e] = "update"] /\ entry' = [entry EXCEPT ![e] = n]
  BY <1>1, EventFacts DEF Publish, IInv
<1>3. job'[e] = "update" /\ entry'[e] = n
  BY <1>2 DEF IInv
<1>4. /\ n.state = "final" /\ n.files = entry[e].files /\ n.mtime = entry[e].mtime
      /\ n \in EntryRecord
  BY EventFacts
<1> HIDE DEF n
<1>5. EntryOK(e)' /\ SaveOK(e)'
  BY <1>1, <1>3, <1>4, EventFacts DEF EventOK, EntryOK, SaveOK, DayOf
<1>6. CutOK(e)' /\ UpdateOK(e)'
  BY <1>1, <1>3, <1>4, EventFacts DEF EventOK, CutOK, UpdateOK
<1>7. budget' \in [faults : 0 .. MaxFaults, crashes : 0 .. MaxCrashes] /\ job[e] \in Unsaved
      /\ "update" \in Jobs
  BY <1>1 DEF IInv
<1> QED
  BY <1>1, <1>2, <1>4, <1>5, <1>6, <1>7, CallMovesAlone DEF EventOK

\* A save that fails leaves nothing, or a staging directory with some of its files.
LEMMA SaveFailsLeaves ==
    ASSUME IInv, NEW e \in Events, SaveFails(e)
    PROVE  \E n \in EntryRecord :
             /\ entry' = [entry EXCEPT ![e] = n]
             /\ n = Absent \/ (n.state = "staging" /\ entry[e].state = "staging"
                               /\ "alarm_tmp" \notin n.files
                               /\ (n = entry[e] \/ n.mtime = now))
<1> DEFINE Left(n) ==
             /\ entry' = [entry EXCEPT ![e] = n]
             /\ n = Absent \/ (n.state = "staging" /\ entry[e].state = "staging"
                               /\ "alarm_tmp" \notin n.files
                               /\ (n = entry[e] \/ n.mtime = now))
<1>0. /\ entry[e] \in EntryRecord /\ now \in Nat /\ entry[e].mtime <= now
      /\ entry[e].state = "staging" => "alarm_tmp" \notin entry[e].files
  BY EventFacts DEF EventOK, EntryOK
<1>1. CASE entry' = [entry EXCEPT ![e] = Absent]
  <2>1. Absent \in EntryRecord /\ Left(Absent)
    BY <1>1 DEF Absent
  <2> QED
    BY <2>1
<1>2. ASSUME entry[e].state = "staging", UNCHANGED entry
      PROVE  \E n \in EntryRecord : Left(n)
  <2>1. entry' = [entry EXCEPT ![e] = entry[e]]
    BY <1>2 DEF IInv
  <2>2. Left(entry[e])
    BY <1>0, <1>2, <2>1
  <2> HIDE DEF Left
  <2> QED
    BY <1>0, <2>2
<1>3. ASSUME NEW rest \in SUBSET (entry[e].files \cup ({job[e]} \cap Evidence)),
             entry[e].state = "staging",
             entry' = [entry EXCEPT ![e].files = rest, ![e].mtime = now]
      PROVE  \E n \in EntryRecord : Left(n)
  <2> DEFINE n == [entry[e] EXCEPT !.files = rest, !.mtime = now]
  <2>1. entry' = [entry EXCEPT ![e] = n]
    BY <1>3
  <2>2. /\ n.state = "staging" /\ n.files = rest /\ n.mtime = now
        /\ rest \in SUBSET Files /\ "alarm_tmp" \notin rest
    BY <1>0, <1>3
  <2>3. n \in EntryRecord
    BY <1>0, <2>2
  <2> HIDE DEF n
  <2>4. Left(n)
    BY <1>3, <2>1, <2>2
  <2> QED
    BY <2>3, <2>4
<1> QED
  BY <1>1, <1>2, <1>3 DEF SaveFails, LeaveStaging

LEMMA SaveFailsKeeps ==
    ASSUME IInv, NEW e \in Events, SaveFails(e) PROVE IInv'
<1>1. /\ job[e] \in Saving /\ UNCHANGED <<confirmed, parents, sweep, mode, now, cut>>
      /\ job' = [job EXCEPT ![e] = "save_failed"]
  BY DEF SaveFails, Go
<1>2. PICK n \in EntryRecord :
        /\ entry' = [entry EXCEPT ![e] = n]
        /\ n = Absent \/ (n.state = "staging" /\ entry[e].state = "staging"
                          /\ "alarm_tmp" \notin n.files
                          /\ (n = entry[e] \/ n.mtime = now))
  BY SaveFailsLeaves
<1>3. job'[e] = "save_failed" /\ entry'[e] = n
  BY <1>1, <1>2 DEF IInv
<1>4. EventOK(e)'
  BY <1>1, <1>2, <1>3, EventFacts
  DEF EventOK, EntryOK, SaveOK, CutOK, UpdateOK, Absent, DayOf
<1>5. budget' \in [faults : 0 .. MaxFaults, crashes : 0 .. MaxCrashes]
  BY SpendTypes DEF SaveFails, IInv
<1>6. job[e] \in Unsaved /\ "save_failed" \in Jobs
  BY <1>1
<1> QED
  BY <1>1, <1>2, <1>4, <1>5, <1>6, CallMovesAlone

\* What an update changes: the alarm file comes and goes, the evidence stays.
LEMMA UpdateChanges ==
    ASSUME IInv, NEW e \in Events, UpdateWrites(e) \/ UpdateReplaces(e) \/ UpdateFails(e)
    PROVE  \E n \in EntryRecord : \E j \in {"replace", "done", "update_failed"} :
             /\ job' = [job EXCEPT ![e] = j] /\ entry' = [entry EXCEPT ![e] = n]
             /\ n.state = entry[e].state /\ Evidence \cap entry[e].files \subseteq n.files
             /\ n = entry[e] \/ n.mtime = now
             /\ n.files # {} => entry[e].files # {}
             /\ j = "replace" => "alarm_tmp" \in n.files /\ entry[e].files # {}
<1> DEFINE Shown(n, j) ==
             /\ job' = [job EXCEPT ![e] = j] /\ entry' = [entry EXCEPT ![e] = n]
             /\ n.state = entry[e].state /\ Evidence \cap entry[e].files \subseteq n.files
             /\ n = entry[e] \/ n.mtime = now
             /\ n.files # {} => entry[e].files # {}
             /\ j = "replace" => "alarm_tmp" \in n.files /\ entry[e].files # {}
<1>0. entry[e] \in EntryRecord /\ now \in Nat
  BY EventFacts
<1>1. CASE entry' = entry /\ job' = [job EXCEPT ![e] = "update_failed"]
  <2>1. entry' = [entry EXCEPT ![e] = entry[e]]
    BY <1>1 DEF IInv
  <2>2. Shown(entry[e], "update_failed")
    BY <1>1, <2>1
  <2> QED
    BY <1>0, <2>2
<1>2. CASE UpdateWrites(e) /\ "metadata" \in entry[e].files
  <2> DEFINE n == [entry[e] EXCEPT !.files = @ \cup {"alarm_tmp"}, !.mtime = now]
  <2>1. job' = [job EXCEPT ![e] = "replace"] /\ entry' = [entry EXCEPT ![e] = n]
    BY <1>0, <1>2 DEF UpdateWrites
  <2>2. n \in EntryRecord /\ Shown(n, "replace")
    BY <1>0, <1>2, <2>1
  <2> QED
    BY <2>2
<1>3. CASE UpdateReplaces(e) /\ "alarm_tmp" \in entry[e].files
  <2> DEFINE n == [entry[e] EXCEPT !.files = (@ \ {"alarm_tmp"}) \cup {"metadata"},
                                   !.mtime = now]
  <2>1. job' = [job EXCEPT ![e] = "done"] /\ entry' = [entry EXCEPT ![e] = n]
    BY <1>0, <1>3 DEF UpdateReplaces
  <2>2. n \in EntryRecord /\ Shown(n, "done")
    BY <1>0, <1>3, <2>1
  <2> QED
    BY <2>2
<1>4. CASE UpdateFails(e) /\ entry' # entry
  <2>0. job' = [job EXCEPT ![e] = "update_failed"] /\ LeaveUpdate(e)
    BY <1>4 DEF UpdateFails, Go
  <2>1. ASSUME NEW rest \in SUBSET {"alarm_tmp"}, "metadata" \in entry[e].files,
               entry' = [entry EXCEPT ![e].files = @ \cup rest, ![e].mtime = now]
        PROVE  \E n \in EntryRecord : Shown(n, "update_failed")
    <3> DEFINE n == [entry[e] EXCEPT !.files = @ \cup rest, !.mtime = now]
    <3>1. entry' = [entry EXCEPT ![e] = n]
      BY <1>0, <2>1
    <3>2. n \in EntryRecord /\ Shown(n, "update_failed")
      BY <1>0, <2>0, <2>1, <3>1
    <3> QED
      BY <3>2
  <2>2. ASSUME "alarm_tmp" \in entry[e].files,
               entry' = [entry EXCEPT ![e].files = @ \ {"alarm_tmp"}, ![e].mtime = now]
        PROVE  \E n \in EntryRecord : Shown(n, "update_failed")
    <3> DEFINE n == [entry[e] EXCEPT !.files = @ \ {"alarm_tmp"}, !.mtime = now]
    <3>1. entry' = [entry EXCEPT ![e] = n]
      BY <1>0, <2>2
    <3>2. n \in EntryRecord /\ Shown(n, "update_failed")
      BY <1>0, <2>0, <2>2, <3>1
    <3> QED
      BY <3>2
  <2>3. \E n \in EntryRecord : Shown(n, "update_failed")
    BY <1>4, <2>0, <2>1, <2>2 DEF LeaveUpdate
  <2> QED
    BY <2>3
<1> QED
  BY <1>1, <1>2, <1>3, <1>4 DEF UpdateWrites, UpdateReplaces, UpdateFails, Go

LEMMA UpdateKeeps ==
    ASSUME IInv, NEW e \in Events, UpdateWrites(e) \/ UpdateReplaces(e) \/ UpdateFails(e)
    PROVE  IInv'
<1>1. UNCHANGED <<confirmed, parents, sweep, mode, now, cut>> /\ job[e] \in Updating
  BY DEF UpdateWrites, UpdateReplaces, UpdateFails
<1>2. budget' \in [faults : 0 .. MaxFaults, crashes : 0 .. MaxCrashes]
  BY SpendTypes DEF UpdateWrites, UpdateReplaces, UpdateFails, IInv
<1>3. PICK n \in EntryRecord, j \in {"replace", "done", "update_failed"} :
        /\ job' = [job EXCEPT ![e] = j] /\ entry' = [entry EXCEPT ![e] = n]
        /\ n.state = entry[e].state /\ Evidence \cap entry[e].files \subseteq n.files
        /\ n = entry[e] \/ n.mtime = now
        /\ n.files # {} => entry[e].files # {}
        /\ j = "replace" => "alarm_tmp" \in n.files /\ entry[e].files # {}
  BY UpdateChanges
<1>4. job'[e] = j /\ entry'[e] = n /\ j \in Jobs /\ j \notin Unsaved
  BY <1>3 DEF IInv
<1>5. EntryOK(e)' /\ SaveOK(e)'
  BY <1>1, <1>3, <1>4, EventFacts DEF EventOK, EntryOK, SaveOK, DayOf
<1>6. CutOK(e)' /\ UpdateOK(e)'
  BY <1>1, <1>3, <1>4, EventFacts DEF EventOK, EntryOK, CutOK, UpdateOK, Due, Expired, DayOf
<1> QED
  BY <1>1, <1>2, <1>3, <1>4, <1>5, <1>6, CallMovesAlone DEF EventOK

-----------------------------------------------------------------------------
\* A step of the pass that touches no file.
LEMMA PassMoves ==
    ASSUME IInv, UNCHANGED <<job, confirmed, entry, parents, now, cut>>,
           sweep' \in SweepRecord, sweep'.started <= now,
           mode' \in {"down", "booting", "serving"},
           budget' \in [faults : 0 .. MaxFaults, crashes : 0 .. MaxCrashes],
           sweep'.at = "idle" => sweep'.victim = NoEvent,
           sweep'.victim \in {NoEvent, sweep.victim},
           \A e \in sweep'.todo : Complete(e) /\ sweep'.victim # e
    PROVE  IInv'
<1>1. Typed'
  BY DEF IInv
<1>2. ASSUME NEW e \in Events PROVE EventOK(e)'
  BY DEF IInv, EventOK, EntryOK, SaveOK, CutOK, UpdateOK, Due, Expired, DayOf
<1>3. SweepOK'
  BY DEF IInv, SweepOK, Complete
<1> QED
  BY <1>1, <1>2, <1>3 DEF IInv

\* The pass ends.
LEMMA PassEnds ==
    ASSUME IInv, UNCHANGED <<job, confirmed, entry, parents, now, cut>>, sweep' = Idle,
           mode' \in {"down", "booting", "serving"},
           budget' \in [faults : 0 .. MaxFaults, crashes : 0 .. MaxCrashes]
    PROVE  IInv'
<1>1. Idle \in SweepRecord /\ Idle.started <= now /\ Idle.victim = NoEvent /\ Idle.todo = {}
  BY DEF Idle, IInv
<1> QED
  BY <1>1, PassMoves

\* The pass goes on, with less to do.
LEMMA PassGoesOn ==
    ASSUME IInv, UNCHANGED <<job, confirmed, entry, parents, now, cut>>,
           NEW at \in {"temporary", "pressure"}, NEW T \in SUBSET sweep.temporary,
           NEW D \in SUBSET sweep.todo, NEW v \in {NoEvent, sweep.victim},
           NEW L \in SUBSET sweep.listed, NEW R \in SUBSET Events,
           sweep' = [at |-> at, started |-> sweep.started, temporary |-> T, todo |-> D,
                     victim |-> v, listed |-> L, refused |-> R],
           mode' \in {"down", "booting", "serving"},
           budget' \in [faults : 0 .. MaxFaults, crashes : 0 .. MaxCrashes]
    PROVE  IInv'
<1>1. sweep \in SweepRecord /\ sweep.started <= now
  BY DEF IInv
<1>2. sweep' \in SweepRecord
  BY <1>1
<1>3. sweep'.started <= now /\ sweep'.at # "idle" /\ sweep'.victim = v /\ sweep'.todo = D
  BY <1>1
<1>4. \A e \in D : Complete(e) /\ v # e
  <2>1. \A e \in D : e \in Events
    BY <1>1
  <2> QED
    BY <2>1 DEF IInv, SweepOK
<1> QED
  BY <1>2, <1>3, <1>4, PassMoves

\* The fields of sweep, for steps that change some of them.
LEMMA SweepFields ==
    ASSUME IInv
    PROVE  /\ sweep \in SweepRecord /\ sweep.started <= now
           /\ sweep = [at |-> sweep.at, started |-> sweep.started,
                       temporary |-> sweep.temporary, todo |-> sweep.todo,
                       victim |-> sweep.victim, listed |-> sweep.listed,
                       refused |-> sweep.refused]
           /\ mode \in {"down", "booting", "serving"}
           /\ budget \in [faults : 0 .. MaxFaults, crashes : 0 .. MaxCrashes]
  BY DEF IInv

LEMMA StartKeeps ==
    ASSUME IInv, NEW next \in {"booting", "serving"}, StartSweep(next) PROVE IInv'
<1> DEFINE T == {<<"dir", e>> : e \in Present({"staging"})} \cup
                {<<"alarm", e>> : e \in {f \in Present({"final"}) :
                                          "alarm_tmp" \in entry[f].files}}
           D == {e \in Events : Complete(e)}
<1>1. T \in SUBSET ({"dir", "alarm"} \X Events)
  BY DEF Present
<1>2. sweep' = [at |-> "temporary", started |-> now, temporary |-> T, todo |-> D,
                victim |-> NoEvent, listed |-> {}, refused |-> {}]
  BY DEF StartSweep
<1>3. D \in SUBSET Events /\ (\A e \in D : Complete(e) /\ e # NoEvent) /\ now \in Nat
  BY DEF IInv
<1> HIDE DEF T, D
<1>4. /\ sweep' \in SweepRecord /\ sweep'.started = now /\ sweep'.at # "idle"
      /\ sweep'.victim = NoEvent /\ sweep'.todo = D
  BY <1>1, <1>2, <1>3
<1>5. /\ UNCHANGED <<job, confirmed, entry, parents, now, cut, budget>>
      /\ mode' \in {"down", "booting", "serving"}
  BY DEF StartSweep
<1>6. budget' \in [faults : 0 .. MaxFaults, crashes : 0 .. MaxCrashes]
  BY <1>5 DEF IInv
<1> QED
  BY <1>3, <1>4, <1>5, <1>6, PassMoves

LEMMA KeepTemporaryKeeps ==
    ASSUME IInv, NEW e \in Events, KeepTemporary(e) \/ SkipInGrace(e) PROVE IInv'
<1>1. PICK T \in SUBSET sweep.temporary, D \in SUBSET sweep.todo :
        sweep' = [at |-> sweep.at, started |-> sweep.started, temporary |-> T, todo |-> D,
                  victim |-> sweep.victim, listed |-> sweep.listed,
                  refused |-> sweep.refused]
  <2>1. CASE SkipInGrace(e)
    <3>1. sweep' = [at |-> sweep.at, started |-> sweep.started,
                    temporary |-> sweep.temporary, todo |-> sweep.todo \ {e},
                    victim |-> sweep.victim, listed |-> sweep.listed,
                    refused |-> sweep.refused]
      BY <2>1, SweepFields DEF SkipInGrace
    <3> QED
      BY <3>1
  <2>2. CASE KeepTemporary(e)
    <3>1. PICK x : sweep' = [sweep EXCEPT !.temporary = @ \ {x}]
      BY <2>2 DEF KeepTemporary
    <3>2. sweep' = [at |-> sweep.at, started |-> sweep.started,
                    temporary |-> sweep.temporary \ {x}, todo |-> sweep.todo,
                    victim |-> sweep.victim, listed |-> sweep.listed,
                    refused |-> sweep.refused]
      BY <3>1, SweepFields
    <3> QED
      BY <3>2
  <2> QED
    BY <2>1, <2>2
<1>2. /\ UNCHANGED <<job, confirmed, entry, parents, now, cut, mode, budget>>
      /\ sweep.at \in {"temporary", "pressure"}
  BY DEF KeepTemporary, SkipInGrace
<1> QED
  BY <1>1, <1>2, SweepFields, PassGoesOn

LEMMA CheckKeeps ==
    ASSUME IInv, CheckPressure \/ EndSweep PROVE IInv'
<1>1. /\ UNCHANGED <<job, confirmed, entry, parents, now, cut, budget>>
      /\ mode' \in {"down", "booting", "serving"}
  BY SweepFields DEF CheckPressure, EndSweep
<1>2. budget' \in [faults : 0 .. MaxFaults, crashes : 0 .. MaxCrashes]
  BY <1>1, SweepFields
<1>3. CASE sweep' = Idle
  BY <1>1, <1>2, <1>3, PassEnds
<1>4. CASE sweep' = [sweep EXCEPT !.at = "pressure"]
  <2>1. sweep' = [at |-> "pressure", started |-> sweep.started,
                  temporary |-> sweep.temporary, todo |-> sweep.todo,
                  victim |-> sweep.victim, listed |-> sweep.listed,
                  refused |-> sweep.refused]
    BY <1>4, SweepFields
  <2> QED
    BY <1>1, <1>2, <2>1, PassGoesOn, SweepFields
<1> QED
  BY <1>3, <1>4 DEF CheckPressure, EndSweep

\* A removal that returns leaves the pass without a victim.
LEMMA AfterRemovalEnds ==
    ASSUME IInv, ~NotRemoving, NEW used, NEW R \in SUBSET Events, AfterRemoval(used, R)
    PROVE  /\ \/ sweep' = Idle
              \/ /\ sweep.at \in {"temporary", "pressure"}
                 /\ sweep' = [at |-> sweep.at, started |-> sweep.started,
                              temporary |-> sweep.temporary, todo |-> sweep.todo,
                              victim |-> NoEvent, listed |-> {},
                              refused |-> sweep.refused \cup R]
           /\ mode' \in {"down", "booting", "serving"}
<1>1. CASE sweep' = Idle
  BY <1>1, SweepFields DEF AfterRemoval
<1>2. CASE sweep' # Idle
  <2>1. sweep' = [sweep EXCEPT !.victim = NoEvent, !.listed = {}, !.refused = @ \cup R]
    BY <1>2 DEF AfterRemoval
  <2>2. sweep.at # "idle"
    BY DEF IInv, SweepOK, NotRemoving
  <2>3. sweep' = [at |-> sweep.at, started |-> sweep.started,
                  temporary |-> sweep.temporary, todo |-> sweep.todo,
                  victim |-> NoEvent, listed |-> {}, refused |-> sweep.refused \cup R]
    BY <2>1, SweepFields
  <2> QED
    BY <2>2, <2>3, SweepFields DEF AfterRemoval
<1> QED
  BY <1>1, <1>2

\* It left the directory where it was: the disk refused, or a file was gone or new.
LEMMA RemovalStops ==
    ASSUME IInv, ~NotRemoving, NEW used, NEW R \in SUBSET Events, AfterRemoval(used, R),
           UNCHANGED <<job, confirmed, entry, parents, now, cut>>,
           budget' \in [faults : 0 .. MaxFaults, crashes : 0 .. MaxCrashes]
    PROVE  IInv'
<1>1. sweep.refused \cup R \in SUBSET Events
  BY SweepFields
<1> QED
  BY <1>1, AfterRemovalEnds, PassEnds, PassGoesOn, SweepFields

-----------------------------------------------------------------------------
\* A step of the pass on one directory: the event itself stays in order, the other
\* directories keep their parents.
LEMMA PassChanges ==
    ASSUME IInv, NEW e \in Events, NEW n \in EntryRecord,
           entry' = [entry EXCEPT ![e] = n],
           UNCHANGED <<job, confirmed, now, cut, budget>>,
           parents' \subseteq parents,
           \A f \in Events : f # e /\ entry[f].state # "absent" => DayOf(f) \in parents',
           EventOK(e)',
           sweep' \in SweepRecord, sweep'.started <= now,
           mode' \in {"down", "booting", "serving"},
           sweep'.at = "idle" => sweep'.victim = NoEvent,
           sweep'.todo \subseteq sweep.todo, sweep'.victim \notin sweep'.todo,
           e \in sweep'.todo => n.state = "final" /\ Evidence \subseteq n.files,
           sweep'.victim \in {NoEvent, sweep.victim},
           sweep'.victim = e => n.state = entry[e].state
    PROVE  IInv'
<1>1. Typed'
  BY DEF IInv
<1>2. ASSUME NEW f \in Events
      PROVE  /\ f # e => entry'[f] = entry[f]
             /\ f = e => entry'[f] = n
             /\ job'[f] = job[f] /\ confirmed'[f] = confirmed[f]
  BY DEF IInv
<1>3. ASSUME NEW f \in Events PROVE EventOK(f)'
  <2>1. CASE f # e
    <3>1. EventOK(f) /\ entry'[f] = entry[f] /\ job'[f] = job[f] /\ confirmed'[f] = confirmed[f]
          /\ UNCHANGED <<now, cut>>
      BY <1>2, <2>1 DEF IInv
    <3>2. SaveOK(f)' /\ CutOK(f)' /\ UpdateOK(f)'
      BY <3>1 DEF EventOK, SaveOK, CutOK, UpdateOK, Due, Expired, DayOf
    <3>3. EntryOK(f)'
      BY <2>1, <3>1 DEF EventOK, EntryOK, DayOf
    <3> QED
      BY <3>2, <3>3 DEF EventOK
  <2> QED
    BY <2>1
<1>4. SweepOK'
  <2>1. ASSUME NEW f \in sweep'.todo PROVE Complete(f)' /\ sweep'.victim # f
    <3>1. f \in Events /\ Complete(f)
      BY DEF IInv, SweepOK
    <3> QED
      BY <1>2, <3>1 DEF Complete
  <2>2. ASSUME NEW f \in Events, sweep'.victim = f
        PROVE  /\ entry'[f].state # "absent" /\ job'[f] \notin Unsaved
               /\ entry'[f].state = "final" => f \in cut'
    BY <1>2, <2>2 DEF IInv, SweepOK
  <2> QED
    BY <2>1, <2>2 DEF SweepOK
<1> QED
  BY <1>1, <1>3, <1>4 DEF IInv

\* The parents of the others outlive the last file of one.
LEMMA ParentsStay ==
    ASSUME IInv, NEW e \in Events
    PROVE  /\ WithoutEmptyParent(e) \subseteq parents
           /\ \A f \in Events : f # e /\ entry[f].state # "absent" =>
                 DayOf(f) \in WithoutEmptyParent(e)
<1>1. \A f \in Events : entry[f].state # "absent" => DayOf(f) \in parents
  BY DEF IInv, EventOK, EntryOK
<1> QED
  BY <1>1 DEF WithoutEmptyParent

\* An alarm file is that of an update: it lies in a directory with its final name.
LEMMA AlarmFileKeeps ==
    ASSUME IInv, NEW e \in Events, ReclaimAlarmFile(e) PROVE IInv'
<1> DEFINE n == IF entry[e].files = {"alarm_tmp"} THEN Absent
                ELSE [entry[e] EXCEPT !.files = @ \ {"alarm_tmp"}, !.mtime = now]
<1>1. /\ UNCHANGED <<job, confirmed, mode, now, budget, cut>>
      /\ sweep.victim = NoEvent /\ sweep.at = "temporary"
      /\ "alarm_tmp" \in entry[e].files /\ OldEnough(e)
      /\ sweep' = [sweep EXCEPT !.temporary = @ \ {<<"alarm", e>>}]
  BY DEF ReclaimAlarmFile, NotRemoving
<1>2. entry' = [entry EXCEPT ![e] = n]
  BY EventFacts DEF ReclaimAlarmFile
<1>3. entry[e].state = "final" /\ job[e] \notin Unsaved
  BY <1>1, EventFacts DEF EventOK, EntryOK, SaveOK
<1>4. /\ n \in EntryRecord /\ n.files = entry[e].files \ {"alarm_tmp"}
      /\ n.state = "absent" => entry[e].files = {"alarm_tmp"} /\ n.mtime = 0
      /\ n.state # "absent" => n.state = "final" /\ n.mtime = now
      /\ n.state = "absent" => n.files = {}
  <2>1. CASE entry[e].files = {"alarm_tmp"}
    BY <2>1 DEF Absent
  <2>2. CASE entry[e].files # {"alarm_tmp"}
    <3>1. n = [entry[e] EXCEPT !.files = @ \ {"alarm_tmp"}, !.mtime = now]
      BY <2>2
    <3>2. entry[e] \in EntryRecord /\ now \in Nat
      BY EventFacts
    <3> HIDE DEF n
    <3> QED
      BY <1>3, <3>1, <3>2
  <2> QED
    BY <2>1, <2>2
<1>5. n.state # "absent" => parents' = parents
  BY <1>4, EventFacts DEF ReclaimAlarmFile, Absent
<1>6. /\ parents' \subseteq parents
      /\ \A f \in Events : f # e /\ entry[f].state # "absent" => DayOf(f) \in parents'
  <2>1. parents' \in {parents, WithoutEmptyParent(e)}
    BY DEF ReclaimAlarmFile
  <2> QED
    BY <2>1, ParentsStay DEF IInv, EventOK, EntryOK
<1>7. entry'[e] = n
  BY <1>2 DEF IInv
<1>8. confirmed[e] + TmpMaxAge <= now
  BY <1>1, <1>3, EventFacts, SweepFields DEF OldEnough, EventOK, EntryOK
<1> HIDE DEF n
<1>9. EntryOK(e)' /\ SaveOK(e)'
  BY <1>1, <1>3, <1>4, <1>5, <1>7, EventFacts DEF EventOK, EntryOK, SaveOK, DayOf
<1>10. CutOK(e)' /\ UpdateOK(e)'
  BY <1>1, <1>3, <1>4, <1>7, <1>8, EventFacts
  DEF EventOK, EntryOK, CutOK, UpdateOK, Due, Expired, DayOf
<1>11. /\ sweep' \in SweepRecord /\ sweep'.started = sweep.started /\ sweep'.todo = sweep.todo
       /\ sweep'.victim = NoEvent /\ sweep'.at = "temporary"
  BY <1>1, SweepFields
<1>12. e \in sweep'.todo => n.state = "final" /\ Evidence \subseteq n.files
  BY <1>4, <1>11 DEF IInv, SweepOK, Complete
<1>13. /\ sweep'.victim \notin sweep'.todo /\ sweep'.todo \subseteq sweep.todo
       /\ sweep'.victim \in {NoEvent, sweep.victim} /\ sweep'.victim # e
       /\ sweep'.started <= now /\ mode' \in {"down", "booting", "serving"}
       /\ sweep'.at = "idle" => sweep'.victim = NoEvent
  BY <1>1, <1>11, SweepFields
<1>14. EventOK(e)' /\ n \in EntryRecord
  BY <1>4, <1>9, <1>10 DEF EventOK
<1> QED
  BY <1>1, <1>2, <1>6, <1>11, <1>12, <1>13, <1>14, PassChanges

LEMMA UnlinkKeeps ==
    ASSUME IInv, NEW file \in Files, Unlink(file) PROVE IInv'
<1>0. PICK e : e = sweep.victim
  OBVIOUS
<1> DEFINE n == [entry[e] EXCEPT !.files = @ \ {file}, !.mtime = now]
<1>1. /\ ~NotRemoving /\ e \in Events /\ file \in sweep.listed
      /\ UNCHANGED <<job, confirmed, parents, now, budget, cut>>
  BY <1>0, SweepFields DEF Unlink, NotRemoving
<1>2. CASE file \notin entry[e].files
  <2>1. budget' \in [faults : 0 .. MaxFaults, crashes : 0 .. MaxCrashes]
    BY <1>1, SweepFields
  <2> QED
    BY <1>0, <1>1, <1>2, <2>1, RemovalStops DEF Unlink
<1>3. CASE file \in entry[e].files
  <2>1. /\ entry' = [entry EXCEPT ![e] = n] /\ mode' = mode
        /\ sweep' = [sweep EXCEPT !.listed = @ \ {file}]
    BY <1>0, <1>1, <1>3 DEF Unlink, IInv
  <2>2. /\ n \in EntryRecord /\ n.state = entry[e].state /\ n.files = entry[e].files \ {file}
        /\ n.mtime = now
    <3>1. entry[e] \in EntryRecord /\ now \in Nat
      BY <1>1, EventFacts
    <3> QED
      BY <3>1
  <2>3. entry'[e] = n
    BY <1>1, <2>1 DEF IInv
  <2>4. /\ entry[e].state # "absent" /\ job[e] \notin Unsaved
        /\ entry[e].state = "final" => e \in cut
    BY <1>0, <1>1 DEF IInv, SweepOK
  <2>5. /\ sweep' \in SweepRecord /\ sweep'.started = sweep.started /\ sweep'.todo = sweep.todo
        /\ sweep'.victim = sweep.victim /\ sweep'.at = sweep.at
    BY <2>1, SweepFields
  <2>6. sweep.at = "idle" => sweep.victim = NoEvent
    BY DEF IInv, SweepOK
  <2>7. sweep.victim \notin sweep.todo
    BY DEF IInv, SweepOK
  <2>8. \A f \in Events : f # e /\ entry[f].state # "absent" => DayOf(f) \in parents'
    BY <1>1 DEF IInv, EventOK, EntryOK
  <2> HIDE DEF n
  <2>9. EntryOK(e)' /\ SaveOK(e)'
    BY <1>1, <2>2, <2>3, <2>4, EventFacts DEF EventOK, EntryOK, SaveOK, DayOf
  <2>10. CutOK(e)' /\ UpdateOK(e)'
    BY <1>1, <2>2, <2>3, <2>4, EventFacts
    DEF EventOK, EntryOK, CutOK, UpdateOK, Due, Expired, DayOf
  <2>11. /\ e \notin sweep'.todo /\ sweep'.todo \subseteq sweep.todo
         /\ sweep'.victim \notin sweep'.todo /\ sweep'.started <= now
         /\ sweep'.at = "idle" => sweep'.victim = NoEvent
         /\ sweep'.victim \in {NoEvent, sweep.victim}
         /\ mode' \in {"down", "booting", "serving"}
    BY <1>0, <2>1, <2>5, <2>6, <2>7, SweepFields
  <2>12. EventOK(e)' /\ n \in EntryRecord /\ n.state = entry[e].state /\ parents' \subseteq parents
    BY <1>1, <2>2, <2>9, <2>10 DEF EventOK
  <2> QED
    BY <1>1, <2>1, <2>5, <2>8, <2>11, <2>12, PassChanges
<1> QED
  BY <1>2, <1>3

LEMMA RemoveDirectoryKeeps ==
    ASSUME IInv, RemoveDirectory PROVE IInv'
<1>0. PICK e : e = sweep.victim
  OBVIOUS
<1>1. /\ ~NotRemoving /\ e \in Events
      /\ UNCHANGED <<job, confirmed, now, budget, cut>>
  BY <1>0, SweepFields DEF RemoveDirectory, NotRemoving
<1>2. CASE entry[e].files # {}
  <2>1. budget' \in [faults : 0 .. MaxFaults, crashes : 0 .. MaxCrashes]
    BY <1>1, SweepFields
  <2> QED
    BY <1>0, <1>1, <1>2, <2>1, RemovalStops DEF RemoveDirectory
<1>3. CASE entry[e].files = {}
  <2>1. /\ entry' = [entry EXCEPT ![e] = Absent] /\ parents' = WithoutEmptyParent(e)
        /\ AfterRemoval(Used - 1, {})
    BY <1>0, <1>3 DEF RemoveDirectory
  <2>2. entry'[e] = Absent /\ Absent \in EntryRecord
    BY <1>1, <2>1 DEF IInv, Absent
  <2>3. /\ entry[e].state # "absent" /\ job[e] \notin Unsaved
        /\ entry[e].state = "final" => e \in cut
        /\ e \notin sweep.todo
    BY <1>0, <1>1 DEF IInv, SweepOK
  <2>4. EntryOK(e)' /\ SaveOK(e)'
    BY <1>1, <2>2, <2>3, EventFacts DEF EventOK, EntryOK, SaveOK, Absent
  <2>5. CutOK(e)' /\ UpdateOK(e)'
    BY <1>1, <2>2, <2>3, EventFacts
    DEF EventOK, EntryOK, CutOK, UpdateOK, Due, Expired, DayOf, Absent
  <2>6. /\ sweep' \in SweepRecord /\ sweep'.started <= now /\ sweep'.victim = NoEvent
        /\ sweep'.todo \subseteq sweep.todo
        /\ mode' \in {"down", "booting", "serving"}
    <3>1. CASE sweep' = Idle
      BY <1>1, <2>1, <3>1, AfterRemovalEnds, SweepFields, EventFacts DEF Idle
    <3>2. CASE sweep' = [at |-> sweep.at, started |-> sweep.started,
                         temporary |-> sweep.temporary, todo |-> sweep.todo,
                         victim |-> NoEvent, listed |-> {},
                         refused |-> sweep.refused \cup {}]
      BY <1>1, <2>1, <3>2, AfterRemovalEnds, SweepFields
    <3> QED
      BY <1>1, <2>1, <3>1, <3>2, AfterRemovalEnds
  <2>7. /\ e \notin sweep'.todo /\ sweep'.victim \notin sweep'.todo /\ sweep'.victim # e
    BY <1>1, <2>3, <2>6, SweepFields
  <2>8. EventOK(e)'
    BY <2>4, <2>5 DEF EventOK
  <2> QED
    BY <1>1, <2>1, <2>2, <2>6, <2>7, <2>8, ParentsStay, PassChanges
<1> QED
  BY <1>2, <1>3

LEMMA RemovalFailsKeeps ==
    ASSUME IInv, RemovalFails PROVE IInv'
<1>1. {sweep.victim} \in SUBSET Events
  BY SweepFields DEF RemovalFails, NotRemoving
<1> QED
  BY <1>1, RemovalStops, SpendTypes DEF RemovalFails, IInv

\* A removal may begin: of a staging directory that no save uses, or of a complete
\* event that is due.
LEMMA BeginKeeps ==
    ASSUME IInv, NEW e \in Events, BeginRemoval(e), sweep.at # "idle",
           entry[e].state # "absent", job[e] \notin Unsaved,
           entry[e].state = "final" => Due(e)
    PROVE  IInv'
<1>1. UNCHANGED <<job, confirmed, entry, parents, mode, now, budget>>
  BY DEF BeginRemoval
<1>2. /\ cut \subseteq cut' /\ cut' \subseteq cut \cup {e}
      /\ entry[e].state = "final" <=> e \in cut' \ cut \/ (e \in cut /\ entry[e].state = "final")
  BY DEF BeginRemoval, IInv
<1>3. /\ sweep' \in SweepRecord /\ sweep'.started = sweep.started /\ sweep'.victim = e
      /\ sweep'.todo = sweep.todo \ {e} /\ sweep'.at = sweep.at
  <2>1. sweep' = [sweep EXCEPT !.victim = e, !.listed = entry[e].files,
                               !.temporary = @ \ {<<"dir", e>>}, !.todo = @ \ {e}]
    BY DEF BeginRemoval
  <2> QED
    BY <2>1, SweepFields, EventFacts
<1>4. Typed'
  BY <1>1, <1>2, <1>3 DEF IInv
<1>5. ASSUME NEW f \in Events PROVE EventOK(f)'
  <2>1. EntryOK(f)' /\ SaveOK(f)'
    BY <1>1, EventFacts DEF EventOK, EntryOK, SaveOK, DayOf
  <2>2. CutOK(f)'
    BY <1>1, <1>2, EventFacts DEF EventOK, CutOK, Due, Expired, DayOf
  <2>3. UpdateOK(f)'
    BY <1>1, <1>2, EventFacts DEF EventOK, UpdateOK
  <2> QED
    BY <2>1, <2>2, <2>3 DEF EventOK
<1>6. SweepOK'
  <2>1. \A f \in sweep'.todo : Complete(f)' /\ sweep'.victim # f
    BY <1>1, <1>3 DEF IInv, SweepOK, Complete
  <2>2. entry'[e].state # "absent" /\ job'[e] \notin Unsaved /\ (entry'[e].state = "final" => e \in cut')
    BY <1>1, <1>2
  <2> QED
    BY <1>3, <2>1, <2>2 DEF SweepOK
<1> QED
  BY <1>4, <1>5, <1>6 DEF IInv

\* The directory of a save that is alive is too young to be taken.
LEMMA OldIsNobodys ==
    ASSUME IInv, NEW e \in Events, entry[e].state = "staging", OldEnough(e)
    PROVE  job[e] \notin Unsaved
  BY EventFacts, SweepFields DEF OldEnough, EventOK, EntryOK, SaveOK

LEMMA TodoIsSaved ==
    ASSUME IInv, NEW e \in sweep.todo
    PROVE  e \in Events /\ entry[e].state = "final" /\ job[e] \notin Unsaved
<1>1. e \in Events /\ Complete(e) /\ EventOK(e)
  BY DEF IInv, SweepOK
<1> QED
  BY <1>1 DEF Complete, EventOK, EntryOK, SaveOK

LEMMA RemovalKeeps ==
    ASSUME IInv, NEW e \in Events, ReclaimStaging(e) \/ RemoveExpired(e) \/ RemoveOldest(e)
    PROVE  IInv'
<1>1. BeginRemoval(e) /\ sweep.at # "idle"
  BY DEF ReclaimStaging, RemoveExpired, RemoveOldest
<1>2. CASE ReclaimStaging(e)
  BY <1>1, <1>2, OldIsNobodys, BeginKeeps DEF ReclaimStaging
<1>3. CASE RemoveExpired(e)
  <2>1. e \in sweep.todo /\ Expired(e, sweep.started)
    BY <1>3 DEF RemoveExpired, ExpiredLeft
  <2>2. Due(e)
    BY <2>1, ExpiredStays, EventFacts, SweepFields DEF Due
  <2> QED
    BY <1>1, <2>1, <2>2, TodoIsSaved, BeginKeeps
<1>4. CASE RemoveOldest(e)
  <2>1. e \in sweep.todo /\ ~InGrace(e)
    BY <1>4 DEF RemoveOldest, Oldest
  <2>2. Due(e)
    BY <2>1, TodoIsSaved, EventFacts, SweepFields DEF Due, InGrace, EventOK, EntryOK
  <2> QED
    BY <1>1, <2>1, <2>2, TodoIsSaved, BeginKeeps
<1> QED
  BY <1>2, <1>3, <1>4

LEMMA SweepKeeps ==
    ASSUME IInv, SweepStep PROVE IInv'
<1>1. ASSUME NEW e \in Events,
             \/ ReclaimStaging(e) \/ ReclaimAlarmFile(e) \/ KeepTemporary(e)
             \/ RemoveExpired(e) \/ SkipInGrace(e) \/ RemoveOldest(e)
      PROVE  IInv'
  BY <1>1, RemovalKeeps, AlarmFileKeeps, KeepTemporaryKeeps
<1>2. ASSUME NEW file \in Evidence \cup {"alarm_tmp"}, Unlink(file) PROVE IInv'
  BY <1>2, UnlinkKeeps
<1> QED
  BY <1>1, <1>2, CheckKeeps, RemoveDirectoryKeeps, RemovalFailsKeeps DEF SweepStep

-----------------------------------------------------------------------------
LEMMA CrashKeeps ==
    ASSUME IInv, Crash PROVE IInv'
<1>1. /\ UNCHANGED <<confirmed, entry, parents, now, cut>> /\ mode' = "down" /\ sweep' = Idle
      /\ budget' \in [faults : 0 .. MaxFaults, crashes : 0 .. MaxCrashes]
  BY SpendTypes DEF Crash, IInv
<1>2. \A e \in Events : job'[e] = IF job[e] \in Saving \cup Updating THEN "lost" ELSE job[e]
  BY DEF Crash
<1>3. job' \in [Events -> Jobs]
  BY DEF Crash, IInv
<1>4. Idle \in SweepRecord /\ Idle.started <= now /\ Idle.victim = NoEvent /\ Idle.todo = {}
  BY DEF Idle, IInv
<1>5. Typed'
  BY <1>1, <1>3, <1>4 DEF IInv
<1>6. ASSUME NEW e \in Events PROVE EventOK(e)'
  <2>1. EntryOK(e)' /\ SaveOK(e)'
    BY <1>1, <1>2, EventFacts DEF EventOK, EntryOK, SaveOK, DayOf
  <2>2. CutOK(e)' /\ UpdateOK(e)'
    BY <1>1, <1>2, EventFacts DEF EventOK, CutOK, UpdateOK, Due, Expired, DayOf
  <2> QED
    BY <2>1, <2>2 DEF EventOK
<1>7. SweepOK'
  BY <1>1, <1>4 DEF SweepOK
<1> QED
  BY <1>5, <1>6, <1>7 DEF IInv

LEMMA TickKeeps ==
    ASSUME IInv, Tick PROVE IInv'
<1>1. /\ UNCHANGED <<job, confirmed, entry, parents, sweep, mode, budget, cut>>
      /\ now' = now + 1 /\ now < MaxTime
      /\ \A e \in Events : job[e] \in Staged => now < entry[e].mtime + MaxStall
  BY DEF Tick
<1>2. now' \in 0 .. MaxTime /\ sweep.started <= now'
  BY <1>1, EventFacts, SweepFields DEF IInv
<1>3. Typed'
  BY <1>1, <1>2 DEF IInv
<1>4. ASSUME NEW e \in Events PROVE EventOK(e)'
  <2>1. EntryOK(e)' /\ SaveOK(e)'
    BY <1>1, EventFacts DEF EventOK, EntryOK, SaveOK, DayOf
  <2>2. Due(e) => Due(e)'
    <3>1. Expired(e, now) => Expired(e, now + 1)
      BY EventFacts, ExpiredStays
    <3>2. Expired(e, now + 1) = Expired(e, now)'
      BY <1>1 DEF Expired, DayOf
    <3> QED
      BY <1>1, <3>1, <3>2, EventFacts DEF Due
  <2>3. CutOK(e)'
    BY <1>1, <2>2, EventFacts DEF EventOK, CutOK
  <2>4. UpdateOK(e)'
    BY <1>1, EventFacts DEF EventOK, UpdateOK
  <2> QED
    BY <2>1, <2>3, <2>4 DEF EventOK
<1>5. SweepOK'
  BY <1>1 DEF IInv, SweepOK, Complete
<1> QED
  BY <1>3, <1>4, <1>5 DEF IInv

LEMMA StepKeeps == IInv /\ [Next]_vars => IInv'
<1> SUFFICES ASSUME IInv, [Next]_vars PROVE IInv'
  OBVIOUS
<1>1. ASSUME NEW e \in Events, Prepare(e) \/ CallStep(e) PROVE IInv'
  BY <1>1, PrepareKeeps, AllocateKeeps, WriteKeeps, PublishKeeps, SaveFailsKeeps,
     UpdateKeeps DEF CallStep
<1>2. CASE Boot \/ Maintain
  BY <1>2, StartKeeps DEF Boot, Maintain
<1>3. CASE UNCHANGED vars
  BY <1>3 DEF vars, IInv, EventOK, EntryOK, SaveOK, CutOK, UpdateOK, Due, Expired, DayOf,
              SweepOK, Complete
<1> QED
  BY <1>1, <1>2, <1>3, SweepKeeps, CrashKeeps, TickKeeps DEF Next

LEMMA AlwaysIInv == Spec => []IInv
  BY InitHolds, StepKeeps, PTL DEF Spec

-----------------------------------------------------------------------------
\* The store's state is well formed; in particular the day's directory of every
\* event that is there is there too, however cleanup removes emptied ones.
THEOREM StoreTypes == Spec => []TypeOK
<1>1. ASSUME IInv PROVE TypeOK
  <2>1. \A e \in Events : EventOK(e) /\ confirmed[e] \in 0 .. MaxTime
                          /\ entry[e].mtime \in 0 .. MaxTime
    BY <1>1, EventFacts DEF EventOK, EntryOK
  <2>2. confirmed \in [Events -> 0 .. MaxTime]
    BY <1>1, <2>1 DEF IInv
  <2>3. entry \in [Events -> [state : {"absent", "staging", "final"},
                              files : SUBSET Files, mtime : 0 .. MaxTime]]
    BY <1>1, <2>1 DEF IInv
  <2> QED
    BY <1>1, <2>1, <2>2, <2>3 DEF IInv, EventOK, EntryOK, TypeOK
<1> QED
  BY <1>1, AlwaysIInv, PTL

\* Under its final name a directory is complete until cleanup begins to remove it,
\* whatever crashes, fails or runs beside the save.
THEOREM FinalStaysComplete == Spec => []FinalIsComplete
<1>1. IInv => FinalIsComplete
  BY DEF IInv, EventOK, CutOK, FinalIsComplete
<1> QED
  BY <1>1, AlwaysIInv, PTL

\* A save that has its staging directory is stopped by nothing but the disk.
THEOREM StagedSavesSucceed == Spec => StagedSaveSucceeds
<1>1. ASSUME IInv, [Next]_vars, NEW e \in Events, job[e] \in Staged, job'[e] = "save_failed"
      PROVE  budget' # budget
  <2>1. PICK f \in Events : CallStep(f)
    BY <1>1 DEF Next, Prepare, Boot, Maintain, StartSweep, SweepStep, ReclaimStaging,
                ReclaimAlarmFile, KeepTemporary, RemoveExpired, SkipInGrace, RemoveOldest,
                BeginRemoval, CheckPressure, EndSweep, Unlink, RemoveDirectory, RemovalFails,
                Crash, Tick, vars, IInv
  <2>2. CASE SaveFails(f)
    BY <1>1, <2>2, SpendTypes DEF SaveFails, IInv
  <2>3. CASE ~SaveFails(f)
    <3>1. f = e
      BY <1>1, <2>1, EventFacts DEF CallStep, Allocate, WriteFile, Publish, SaveFails, UpdateWrites,
                        UpdateReplaces, UpdateFails, IInv
    <3>2. WriteFile(e) \/ Publish(e)
      BY <1>1, <2>1, <2>3, <3>1 DEF CallStep, Allocate, UpdateWrites, UpdateReplaces, UpdateFails
    <3>3. entry[e].state = "staging"
      BY <1>1, StagingIsThere
    <3>4. job'[e] # "save_failed"
      BY <1>1, <3>2, <3>3, EventFacts DEF WriteFile, Publish, NextStep, IInv
    <3> QED
      BY <1>1, <3>4
  <2> QED
    BY <2>2, <2>3
<1>2. IInv /\ [Next]_vars =>
        [\A e \in Events : job[e] \in Saving \ {"allocate"} /\ job'[e] = "save_failed"
                           => budget' # budget]_vars
  BY <1>1
<1> QED
  BY <1>2, AlwaysIInv, PTL DEF Spec, StagedSaveSucceeds

\* An update fails for want of its files only when the event has expired or is past
\* its grace, provided a leftover file is not taken for old within the grace.
THEOREM UpdatesAreGraced ==
    ASSUME Grace <= TmpMaxAge
    PROVE  Spec => UpdateWithinGrace
<1>1. ASSUME IInv, [Next]_vars, NEW e \in Events, job[e] \in Updating,
             job'[e] = "update_failed", budget' = budget
      PROVE  Due(e)
  <2>1. PICK f \in Events : CallStep(f)
    BY <1>1 DEF Next, Prepare, Boot, Maintain, StartSweep, SweepStep, ReclaimStaging,
                ReclaimAlarmFile, KeepTemporary, RemoveExpired, SkipInGrace, RemoveOldest,
                BeginRemoval, CheckPressure, EndSweep, Unlink, RemoveDirectory, RemovalFails,
                Crash, Tick, vars, IInv
  <2>2. ~SaveFails(f) /\ ~UpdateFails(f)
    BY <1>1, SpendTypes DEF SaveFails, UpdateFails, IInv
  <2>3. f = e
    BY <1>1, <2>1, EventFacts DEF CallStep, Allocate, WriteFile, Publish, SaveFails, UpdateWrites,
                      UpdateReplaces, UpdateFails, IInv
  <2>4. UpdateWrites(e) \/ UpdateReplaces(e)
    BY <1>1, <2>1, <2>2, <2>3 DEF CallStep, Allocate, WriteFile, Publish
  <2>5. CASE e \in cut
    BY <1>1, <2>5, EventFacts DEF EventOK, CutOK
  <2>6. CASE e \notin cut
    <3>1. Evidence \subseteq entry[e].files
      BY <1>1, <2>6, EventFacts DEF EventOK, CutOK, UpdateOK
    <3>2. ~UpdateWrites(e)
      BY <1>1, <3>1 DEF UpdateWrites, IInv
    <3>3. job[e] = "replace" /\ "alarm_tmp" \notin entry[e].files
      BY <1>1, <2>4, <3>2 DEF UpdateReplaces, IInv
    <3> QED
      BY <1>1, <2>6, <3>3, EventFacts DEF EventOK, UpdateOK, Due
  <2> QED
    BY <2>5, <2>6
<1>2. IInv /\ [Next]_vars =>
        [\A e \in Events :
            job[e] \in Updating /\ job'[e] = "update_failed" /\ budget' = budget
            => Expired(e, now) \/ confirmed[e] + Grace <= now]_vars
  BY <1>1 DEF Due
<1> QED
  BY <1>2, AlwaysIInv, PTL DEF Spec, UpdateWithinGrace

-----------------------------------------------------------------------------
\* The ways a step changes a directory that is still there afterwards: it is touched
\* now, or gets its final name.
Touched(f) ==
    /\ entry'[f].mtime = now
    /\ entry'[f].state = "final" => entry[f].state = "final"

Renamed(f) ==
    /\ entry[f].state = "staging" /\ entry'[f].state = "final"
    /\ entry'[f].files = entry[f].files /\ "alarm_tmp" \notin entry[f].files
    /\ entry'[f].mtime = entry[f].mtime /\ now <= entry[f].mtime + MaxStall
    /\ sweep' = sweep

LEMMA CallMovesOne ==
    ASSUME IInv, NEW f \in Events, NEW e \in Events, CallStep(e), f # e
    PROVE  entry'[f] = entry[f]
<1>1. CASE SaveFails(e)
  BY <1>1, SaveFailsLeaves DEF IInv
<1>2. CASE UpdateWrites(e) \/ UpdateReplaces(e) \/ UpdateFails(e)
  BY <1>2, UpdateChanges DEF IInv
<1>3. CASE Allocate(e) \/ WriteFile(e) \/ Publish(e)
  BY <1>3 DEF Allocate, WriteFile, Publish, IInv
<1> QED
  BY <1>1, <1>2, <1>3 DEF CallStep

LEMMA CallTouches ==
    ASSUME IInv, NEW f \in Events, NEW e \in Events, CallStep(e),
           entry'[f] # entry[f], entry'[f].state # "absent"
    PROVE  Touched(f) \/ Renamed(f)
<1>1. f = e
  BY CallMovesOne
<1>2. CASE Allocate(e) \/ WriteFile(e)
  BY <1>1, <1>2, EventFacts DEF Allocate, WriteFile, IInv, Touched
<1>3. CASE Publish(e)
  BY <1>1, <1>3, EventFacts DEF Publish, IInv, Renamed, EventOK, EntryOK, SaveOK
<1>4. CASE SaveFails(e)
  BY <1>1, <1>4, SaveFailsLeaves DEF Absent, IInv, Touched
<1>5. CASE UpdateWrites(e) \/ UpdateReplaces(e) \/ UpdateFails(e)
  BY <1>1, <1>5, UpdateChanges DEF IInv, Touched
<1> QED
  BY <1>2, <1>3, <1>4, <1>5 DEF CallStep

LEMMA StepTouches ==
    ASSUME IInv, [Next]_vars, NEW f \in Events,
           entry'[f] # entry[f], entry'[f].state # "absent"
    PROVE  Touched(f) \/ Renamed(f)
<1>1. ASSUME NEW e \in Events, CallStep(e) PROVE Touched(f) \/ Renamed(f)
  BY <1>1, CallTouches
<1>2. ASSUME NEW e \in Events, ReclaimAlarmFile(e) PROVE Touched(f)
  BY <1>2, EventFacts DEF ReclaimAlarmFile, Absent, IInv, Touched
<1>3. ASSUME NEW file \in Files, Unlink(file) PROVE Touched(f)
  BY <1>3, EventFacts DEF Unlink, IInv, Touched, NotRemoving
<1>4. CASE RemoveDirectory
  BY <1>4 DEF RemoveDirectory, Absent, IInv
<1> QED
  BY <1>1, <1>2, <1>3, <1>4
  DEF Next, Prepare, Boot, Maintain, StartSweep, SweepStep, ReclaimStaging, KeepTemporary,
      RemoveExpired, SkipInGrace, RemoveOldest, BeginRemoval, CheckPressure, EndSweep,
      RemovalFails, Crash, Tick, vars

-----------------------------------------------------------------------------
\* Only the pass changes what it has before it.
LEMMA OthersLeaveSweep ==
    ASSUME IInv, [Next]_vars, ~SweepStep, sweep.at # "idle", sweep'.at # "idle"
    PROVE  sweep' = sweep /\ cut' = cut
<1>1. ASSUME NEW e \in Events, Prepare(e) \/ CallStep(e) PROVE sweep' = sweep /\ cut' = cut
  BY <1>1 DEF Prepare, CallStep, Allocate, WriteFile, Publish, SaveFails, UpdateWrites,
              UpdateReplaces, UpdateFails
<1>2. ~Boot /\ ~Maintain
  BY DEF Boot, Maintain, StartSweep
<1>3. ~Crash
  BY DEF Crash, Idle
<1>4. CASE Tick \/ UNCHANGED vars
  BY <1>4 DEF Tick, vars
<1> QED
  BY <1>1, <1>2, <1>3, <1>4 DEF Next

\* Between passes nothing but the start of one concerns the pass.
LEMMA OnlyStartStarts ==
    ASSUME IInv, [Next]_vars, sweep.at = "idle", sweep'.at # "idle"
    PROVE  \E next \in {"booting", "serving"} : StartSweep(next)
<1>1. NotRemoving
  BY DEF IInv, SweepOK, NotRemoving
<1>2. ~SweepStep
  BY <1>1 DEF SweepStep, ReclaimStaging, ReclaimAlarmFile, KeepTemporary, RemoveExpired,
              SkipInGrace, RemoveOldest, CheckPressure, EndSweep, Unlink, RemoveDirectory,
              RemovalFails
<1>3. ~(\E e \in Events : Prepare(e) \/ CallStep(e))
  BY DEF Prepare, CallStep, Allocate, WriteFile, Publish, SaveFails, UpdateWrites,
         UpdateReplaces, UpdateFails
<1>4. ~Crash /\ ~Tick /\ ~UNCHANGED vars
  BY DEF Crash, Idle, Tick, vars
<1> QED
  BY <1>2, <1>3, <1>4 DEF Next, Boot, Maintain

\* While a pass goes on it drops an event from its list only when the event is in
\* its grace or its removal begins.
LEMMA PassLists ==
    ASSUME IInv, [Next]_vars, sweep.at # "idle", sweep'.at # "idle"
    PROVE  /\ sweep'.started = sweep.started /\ cut \subseteq cut'
           /\ sweep.refused \subseteq sweep'.refused
           /\ \A f \in sweep.todo \ sweep'.todo : InGrace(f) \/ f \in cut'
<1>1. CASE ~SweepStep
  BY <1>1, OthersLeaveSweep
<1>2. ASSUME NEW e \in Events, ReclaimStaging(e) \/ RemoveExpired(e) \/ RemoveOldest(e)
      PROVE  /\ sweep'.started = sweep.started /\ cut \subseteq cut'
             /\ sweep'.refused = sweep.refused
           /\ sweep.refused \subseteq sweep'.refused
             /\ \A f \in sweep.todo \ sweep'.todo : f \in cut'
  <2>1. BeginRemoval(e)
    BY <1>2 DEF ReclaimStaging, RemoveExpired, RemoveOldest
  <2> QED
    BY <2>1, SweepFields, TodoIsSaved DEF BeginRemoval
<1>3. ASSUME NEW e \in Events, SkipInGrace(e)
      PROVE  /\ sweep'.started = sweep.started /\ cut' = cut
             /\ sweep'.refused = sweep.refused
             /\ \A f \in sweep.todo \ sweep'.todo : InGrace(f)
  BY <1>3, SweepFields DEF SkipInGrace
<1>4. ASSUME NEW e \in Events, KeepTemporary(e) \/ ReclaimAlarmFile(e)
      PROVE  /\ sweep'.started = sweep.started /\ cut' = cut /\ sweep'.todo = sweep.todo
             /\ sweep'.refused = sweep.refused
  BY <1>4, SweepFields DEF KeepTemporary, ReclaimAlarmFile
<1>5. CASE CheckPressure \/ EndSweep
  BY <1>5, SweepFields DEF CheckPressure, EndSweep, Idle
<1>6. ASSUME ~NotRemoving, NEW used, NEW R \in SUBSET Events, AfterRemoval(used, R)
      PROVE  /\ sweep'.started = sweep.started /\ sweep'.todo = sweep.todo
             /\ sweep.refused \subseteq sweep'.refused
  BY <1>6, AfterRemovalEnds DEF Idle
<1>7. CASE RemoveDirectory \/ RemovalFails
  <2>1. ~NotRemoving => {sweep.victim} \in SUBSET Events
    BY SweepFields DEF NotRemoving
  <2> QED
    BY <1>6, <1>7, <2>1 DEF RemoveDirectory, RemovalFails
<1>8. ASSUME NEW file \in Files, Unlink(file)
      PROVE  /\ sweep'.started = sweep.started /\ sweep'.todo = sweep.todo /\ cut' = cut
             /\ sweep.refused \subseteq sweep'.refused
  BY <1>6, <1>8, SweepFields DEF Unlink
<1> QED
  BY <1>1, <1>2, <1>3, <1>4, <1>5, <1>7, <1>8 DEF SweepStep

\* A complete event that the pass has not listed, or no longer has, is in its grace.
Listed(f) == Complete(f) /\ f \notin cut => f \in sweep.todo \/ InGrace(f)
ListOK == sweep.at # "idle" => \A f \in Events : Listed(f)

LEMMA ListKeeps ==
    ASSUME MaxStall < Grace, IInv, ListOK, [Next]_vars PROVE ListOK'
<1> SUFFICES ASSUME sweep'.at # "idle", NEW f \in Events PROVE Listed(f)'
  BY DEF ListOK
<1>1. CASE sweep.at = "idle"
  BY <1>1, OnlyStartStarts DEF StartSweep, Listed, Complete
<1>2. CASE sweep.at # "idle"
  <2>1. /\ sweep'.started = sweep.started /\ cut \subseteq cut'
        /\ \A g \in sweep.todo \ sweep'.todo : InGrace(g) \/ g \in cut'
        /\ Listed(f) /\ sweep.started \in Nat /\ sweep.started <= now
    BY <1>2, PassLists, SweepFields DEF ListOK
  <2>2. SUFFICES ASSUME Complete(f)', f \notin cut' PROVE f \in sweep'.todo \/ InGrace(f)'
    BY DEF Listed
  <2>3. CASE entry'[f] = entry[f]
    BY <2>1, <2>2, <2>3 DEF Listed, Complete, InGrace
  <2>4. CASE Touched(f) \/ Renamed(f)
    BY <2>1, <2>4, EventFacts DEF Touched, Renamed, InGrace
  <2> QED
    BY <2>2, <2>3, <2>4, StepTouches DEF Complete
<1> QED
  BY <1>1, <1>2

LEMMA AlwaysListOK ==
    ASSUME MaxStall < Grace PROVE Spec => []ListOK
<1>1. Init => ListOK
  BY DEF Init, Idle, ListOK
<1>2. IInv /\ ListOK /\ [Next]_vars => ListOK'
  BY ListKeeps
<1> QED
  BY <1>1, <1>2, AlwaysIInv, PTL DEF Spec

-----------------------------------------------------------------------------
\* Faults are only ever spent.
LEMMA FaultsStaySpent ==
    ASSUME IInv, [Next]_vars, budget'.faults = MaxFaults PROVE budget.faults = MaxFaults
<1>1. ASSUME NEW what \in {"faults", "crashes"}, Spend(what) PROVE budget.faults = MaxFaults
  BY <1>1, SweepFields DEF Spend
<1>2. CASE budget' = budget
  BY <1>2
<1>3. ASSUME NEW e \in Events, Prepare(e) \/ CallStep(e) PROVE budget.faults = MaxFaults
  BY <1>1, <1>2, <1>3
  DEF Prepare, CallStep, Allocate, WriteFile, Publish, SaveFails, UpdateWrites,
      UpdateReplaces, UpdateFails
<1>4. CASE SweepStep
  BY <1>1, <1>2, <1>4
  DEF SweepStep, ReclaimStaging, ReclaimAlarmFile, KeepTemporary, RemoveExpired,
      SkipInGrace, RemoveOldest, BeginRemoval, CheckPressure, EndSweep, Unlink,
      RemoveDirectory, RemovalFails
<1> QED
  BY <1>1, <1>2, <1>3, <1>4 DEF Next, Boot, Maintain, StartSweep, Crash, Tick, vars

LEMMA UsedCounts ==
    ASSUME NEW E \in SUBSET Events
    PROVE  IsFiniteSet(E) /\ Cardinality(E) \in Nat
  BY FS_Subset, FS_CardinalityType

\* Between two removals under pressure the disk is above the target, unless it failed.
UsedOK ==
    sweep.at = "pressure" /\ NotRemoving /\ budget.faults = MaxFaults => Used > Target

LEMMA UsedKeeps ==
    ASSUME IInv, UsedOK, [Next]_vars PROVE UsedOK'
<1> SUFFICES ASSUME sweep'.at = "pressure", NotRemoving', budget'.faults = MaxFaults
             PROVE  Used' > Target
  BY DEF UsedOK
<1>0. Present({"staging", "final"}) \subseteq Events /\ Present({"staging", "final"})' \subseteq Events
  BY DEF Present
<1>1. budget.faults = MaxFaults /\ Used \in Nat /\ Used' \in Nat
  BY <1>0, FaultsStaySpent, UsedCounts DEF Used
<1>2. sweep.at # "idle"
  BY OnlyStartStarts DEF StartSweep
<1>3. ~(\E e \in Events : SaveFails(e) \/ UpdateFails(e)) /\ ~RemovalFails
  BY SpendTypes DEF SaveFails, UpdateFails, RemovalFails, IInv
<1>4. CASE sweep.at = "temporary"
  <2>1. CheckPressure
    BY <1>2, <1>3, <1>4, OthersLeaveSweep, SweepFields
    DEF SweepStep, ReclaimStaging, ReclaimAlarmFile, KeepTemporary, RemoveExpired,
        SkipInGrace, RemoveOldest, BeginRemoval, EndSweep, Unlink, RemoveDirectory,
        AfterRemoval, Idle
  <2>2. Used >= High /\ Used' = Used
    BY <2>1 DEF CheckPressure, Idle, Used, Present
  <2> QED
    BY <1>1, <2>2
<1>5. CASE sweep.at = "pressure" /\ NotRemoving
  <2>1. ASSUME NEW f \in Events, entry[f].state \in {"staging", "final"}
        PROVE  entry'[f].state \in {"staging", "final"}
    <3>1. CASE entry'[f] = entry[f]
      BY <2>1, <3>1
    <3>2. CASE entry'[f] # entry[f]
      <4>1. ~RemoveDirectory /\ ~(\E e \in Events : ReclaimAlarmFile(e))
            /\ ~(\E file \in Files : Unlink(file))
        BY <1>5 DEF RemoveDirectory, ReclaimAlarmFile, Unlink
      <4>2. PICK e \in Events : CallStep(e)
        BY <1>3, <3>2, <4>1
        DEF Next, Prepare, Boot, Maintain, StartSweep, SweepStep, ReclaimStaging,
            KeepTemporary, RemoveExpired, SkipInGrace, RemoveOldest, BeginRemoval,
            CheckPressure, EndSweep, Crash, Tick, vars
      <4>3. f = e
        BY <3>2, <4>2, CallMovesOne
      <4> QED
        BY <1>3, <2>1, <4>2, <4>3, EventFacts
        DEF CallStep, Allocate, WriteFile, Publish, UpdateWrites, UpdateReplaces, IInv
    <3> QED
      BY <3>1, <3>2
  <2>2. Present({"staging", "final"}) \subseteq Present({"staging", "final"})'
    BY <2>1 DEF Present
  <2>3. Used <= Used'
    <3>1. IsFiniteSet(Present({"staging", "final"})')
      BY <1>0, UsedCounts
    <3> QED
      BY <2>2, <3>1, FS_Subset DEF Used
  <2> QED
    BY <1>1, <1>5, <2>3 DEF UsedOK
<1>6. CASE sweep.at = "pressure" /\ ~NotRemoving
  <2>1. sweep.victim # NoEvent /\ sweep'.victim = NoEvent
    BY <1>6 DEF NotRemoving
  <2>2. RemoveDirectory \/ \E file \in Files : Unlink(file)
    BY <1>2, <1>3, <1>6, <2>1, OthersLeaveSweep
    DEF SweepStep, ReclaimStaging, ReclaimAlarmFile, KeepTemporary, RemoveExpired,
        SkipInGrace, RemoveOldest, CheckPressure, EndSweep
  <2>3. ASSUME NEW used \in Int, AfterRemoval(used, {}) PROVE used > Target
    BY <1>6, <2>3 DEF AfterRemoval, Idle
  <2>4. ASSUME NEW file \in Files, Unlink(file) PROVE Used' > Target
    <3>1. entry' = entry /\ AfterRemoval(Used, {})
      BY <2>1, <2>4, SweepFields DEF Unlink
    <3>2. Used' = Used
      BY <3>1 DEF Used, Present
    <3> QED
      BY <1>1, <2>3, <3>1, <3>2
  <2>5. CASE RemoveDirectory
    <3> DEFINE e == sweep.victim
    <3>1. CASE entry[e].files # {}
      <4>1. entry' = entry /\ AfterRemoval(Used, {})
        BY <2>5, <3>1 DEF RemoveDirectory
      <4>2. Used' = Used
        BY <4>1 DEF Used, Present
      <4> QED
        BY <1>1, <2>3, <4>1, <4>2
    <3>2. CASE entry[e].files = {}
      <4>1. entry' = [entry EXCEPT ![e] = Absent] /\ AfterRemoval(Used - 1, {})
        BY <2>5, <3>2 DEF RemoveDirectory
      <4>2. e \in Events /\ entry[e] \in EntryRecord /\ entry[e].state # "absent"
        BY <2>1, SweepFields, EventFacts DEF IInv, SweepOK
      <4>3. Present({"staging", "final"})' = Present({"staging", "final"}) \ {e}
        BY <4>1, <4>2 DEF Present, Absent, IInv
      <4>4. e \in Present({"staging", "final"})
        BY <4>2 DEF Present
      <4>5. Used' = Used - 1
        BY <1>0, <4>3, <4>4, UsedCounts, FS_RemoveElement DEF Used
      <4> QED
        BY <1>1, <2>3, <4>1, <4>5
    <3> QED
      BY <3>1, <3>2
  <2> QED
    BY <2>2, <2>4, <2>5
<1> QED
  BY <1>2, <1>4, <1>5, <1>6, SweepFields

LEMMA AlwaysUsedOK == Spec => []UsedOK
<1>1. Init => UsedOK
  BY DEF Init, Idle, UsedOK
<1>2. IInv /\ UsedOK /\ [Next]_vars => UsedOK'
  BY UsedKeeps
<1> QED
  BY <1>1, <1>2, AlwaysIInv, PTL DEF Spec

\* Capacity cleanup takes what is oldest first and stops at the target, provided a
\* save that is alive is never as slow as the grace.
THEOREM PressureIsOrderly ==
    ASSUME MaxStall < Grace
    PROVE  Spec => PressureTakesOldest
<1>1. ASSUME IInv, ListOK, UsedOK, [Next]_vars, NEW e \in cut' \ cut, sweep.at = "pressure"
      PROVE  /\ Used > Target \/ budget.faults < MaxFaults
             /\ \A f \in Events \ cut :
                   Complete(f) /\ confirmed[f] < confirmed[e] => InGrace(f)
  <2>1. PICK d \in Events : ReclaimStaging(d) \/ RemoveExpired(d) \/ RemoveOldest(d)
    <3>1. ~(\E d \in Events : Prepare(d) \/ CallStep(d))
      BY <1>1 DEF Prepare, CallStep, Allocate, WriteFile, Publish, SaveFails, UpdateWrites,
                  UpdateReplaces, UpdateFails
    <3>2. ~Boot /\ ~Maintain /\ ~Crash /\ ~Tick /\ ~UNCHANGED vars
      BY <1>1 DEF Boot, Maintain, StartSweep, Crash, Tick, vars
    <3> QED
      BY <1>1, <3>1, <3>2
      DEF Next, SweepStep, ReclaimAlarmFile, KeepTemporary, SkipInGrace, CheckPressure,
          EndSweep, Unlink, RemoveDirectory, RemovalFails
  <2>2. RemoveOldest(e) /\ e \in Events
    BY <1>1, <2>1 DEF ReclaimStaging, RemoveExpired, RemoveOldest, BeginRemoval
  <2>3. Used > Target \/ budget.faults < MaxFaults
    BY <1>1, <2>2, SweepFields DEF UsedOK, RemoveOldest
  <2>4. ASSUME NEW f \in Events \ cut, Complete(f), confirmed[f] < confirmed[e]
        PROVE  InGrace(f)
    <3>1. f \notin sweep.todo
      BY <1>1, <2>4, <2>2, EventFacts DEF RemoveOldest, Oldest
    <3> QED
      BY <1>1, <2>4, <3>1 DEF ListOK, Listed
  <2> QED
    BY <2>3, <2>4
<1>2. IInv /\ ListOK /\ UsedOK /\ [Next]_vars =>
        [\A e \in cut' \ cut :
            sweep.at = "pressure" =>
               /\ Used > Target \/ budget.faults < MaxFaults
               /\ \A f \in Events \ cut :
                     Complete(f) /\ confirmed[f] < confirmed[e] => InGrace(f)]_vars
  BY <1>1
<1> QED
  BY <1>2, AlwaysIInv, AlwaysListOK, AlwaysUsedOK, PTL DEF Spec, PressureTakesOldest

-----------------------------------------------------------------------------
\* What was stale when the pass began is still to be handled, or is just being
\* removed and then as rmtree listed it, or the disk refused to remove it.
Whole(e) == sweep.victim = e /\ Untouched(e, 1) => sweep.listed = entry[e].files

StaleStaging(e) == entry[e].state = "staging" /\ Untouched(e, TmpMaxAge)
StaleAlarm(e) == "alarm_tmp" \in entry[e].files /\ Untouched(e, TmpMaxAge)
StaleEvent(e) ==
    /\ Complete(e) /\ Day(sweep.started) - DayOf(e) >= RetentionDays
    /\ Untouched(e, MaxStall + 1)

Handled(e) ==
    e \notin sweep.refused =>
        /\ StaleStaging(e) =>
              sweep.at = "temporary" /\ (<<"dir", e>> \in sweep.temporary \/ sweep.victim = e)
        /\ StaleAlarm(e) => sweep.at = "temporary" /\ <<"alarm", e>> \in sweep.temporary
        /\ StaleEvent(e) => sweep.at = "temporary" /\ (e \in sweep.todo \/ sweep.victim = e)

ReclaimOK == sweep.at # "idle" => \A e \in Events : Whole(e) /\ Handled(e)

LEMMA StartHandles ==
    ASSUME IInv, NEW next, StartSweep(next), NEW f \in Events PROVE Whole(f)' /\ Handled(f)'
<1>1. entry[f].state = "staging" => f \in Present({"staging"})
  BY DEF Present
<1>2. "alarm_tmp" \in entry[f].files => f \in Present({"final"})
  BY EventFacts DEF Present, EventOK, EntryOK
<1>3. /\ sweep'.victim = NoEvent /\ sweep'.at = "temporary" /\ entry' = entry
      /\ f \in Present({"staging"}) => <<"dir", f>> \in sweep'.temporary
      /\ f \in Present({"final"}) /\ "alarm_tmp" \in entry[f].files
            => <<"alarm", f>> \in sweep'.temporary
      /\ Complete(f) => f \in sweep'.todo
  BY DEF StartSweep
<1>4. Whole(f)'
  BY <1>3 DEF Whole
<1> QED
  BY <1>1, <1>2, <1>3, <1>4 DEF Handled, StaleStaging, StaleAlarm, StaleEvent, Complete

\* A directory that changes while a pass goes on is not stale.
LEMMA ChangeHandles ==
    ASSUME IInv, IInv', [Next]_vars, sweep.at # "idle", sweep'.at # "idle",
           NEW f \in Events, entry'[f] # entry[f], Whole(f)
    PROVE  Whole(f)' /\ Handled(f)'
<1>1. sweep'.started = sweep.started /\ sweep.started \in Nat /\ sweep.started <= now
  BY PassLists, SweepFields
<1>2. CASE entry'[f].state = "absent"
  <2>1. entry'[f].files = {} /\ sweep'.victim # f
    BY <1>2 DEF IInv, EventOK, EntryOK, SweepOK
  <2> QED
    BY <1>2, <2>1 DEF Whole, Handled, StaleStaging, StaleAlarm, StaleEvent, Complete
<1>3. CASE Touched(f)
  BY <1>1, <1>3, EventFacts
  DEF Touched, Whole, Handled, StaleStaging, StaleAlarm, StaleEvent, Untouched
<1>4. CASE Renamed(f)
  BY <1>1, <1>4, EventFacts
  DEF Renamed, Whole, Handled, StaleStaging, StaleAlarm, StaleEvent, Untouched
<1> QED
  BY <1>2, <1>3, <1>4, StepTouches

\* A directory that another call or the clock leaves alone is as stale as before.
LEMMA OthersHandle ==
    ASSUME IInv, [Next]_vars, ~SweepStep, sweep.at # "idle", sweep'.at # "idle",
           NEW f \in Events, entry'[f] = entry[f], Whole(f), Handled(f)
    PROVE  Whole(f)' /\ Handled(f)'
<1>1. sweep' = sweep
  BY OthersLeaveSweep
<1>2. entry[f].state # "absent" => confirmed'[f] = confirmed[f]
  <2>1. CASE confirmed' = confirmed
    BY <2>1
  <2>2. CASE confirmed' # confirmed
    <3>1. PICK e \in Events : Prepare(e)
      BY <2>2
      DEF Next, CallStep, Allocate, WriteFile, Publish, SaveFails, UpdateWrites,
          UpdateReplaces, UpdateFails, Boot, Maintain, StartSweep, Crash, Tick, vars
    <3>2. e = f => entry[f].state = "absent"
      BY <3>1, EventFacts DEF Prepare, EventOK, EntryOK
    <3> QED
      BY <3>1, <3>2 DEF Prepare, IInv
  <2> QED
    BY <2>1, <2>2
<1>3. StaleEvent(f)' => StaleEvent(f)
  BY <1>1, <1>2 DEF StaleEvent, Complete, Untouched, DayOf
<1> QED
  BY <1>1, <1>3 DEF Whole, Handled, StaleStaging, StaleAlarm, Untouched

\* Where the pass asks for the pressure, and after that, nothing stale is left.
LEMMA CheckFinds ==
    ASSUME IInv, CheckPressure \/ EndSweep, NEW f \in Events \ sweep.refused, Handled(f)
    PROVE  ~StaleStaging(f) /\ ~StaleAlarm(f) /\ ~StaleEvent(f)
<1>1. CASE EndSweep
  BY <1>1 DEF EndSweep, Handled
<1>2. CASE CheckPressure
  <2>1. sweep.temporary = {} /\ ExpiredLeft = {} /\ sweep.victim = NoEvent
    BY <1>2 DEF CheckPressure, NotRemoving
  <2>2. ASSUME StaleEvent(f), f \in sweep.todo PROVE f \in ExpiredLeft
    <3>1. Day(sweep.started) \in Nat /\ DayOf(f) \in Nat
      BY DayGrows, EventFacts, SweepFields
    <3>2. Expired(f, sweep.started)
      BY <2>2, <3>1 DEF StaleEvent, Expired
    <3> QED
      BY <2>2, <3>2 DEF ExpiredLeft
  <2> QED
    BY <2>1, <2>2 DEF Handled
<1> QED
  BY <1>1, <1>2

\* Nor does a step of the pass forget it.
LEMMA PassHandles ==
    ASSUME IInv, SweepStep, sweep.at # "idle", sweep'.at # "idle",
           NEW f \in Events, entry'[f] = entry[f], Whole(f), Handled(f)
    PROVE  Whole(f)' /\ Handled(f)'
<1> DEFINE Goal == Whole(f)' /\ Handled(f)'
<1> USE DEF Whole, Handled
<1>0. /\ confirmed' = confirmed /\ sweep.refused \subseteq sweep'.refused
      /\ sweep'.started = sweep.started =>
            /\ StaleStaging(f)' = StaleStaging(f) /\ StaleAlarm(f)' = StaleAlarm(f)
            /\ StaleEvent(f)' = StaleEvent(f) /\ Untouched(f, 1)' = Untouched(f, 1)
  <2>1. confirmed' = confirmed
    BY DEF SweepStep, ReclaimStaging, ReclaimAlarmFile, KeepTemporary, RemoveExpired,
           SkipInGrace, RemoveOldest, BeginRemoval, CheckPressure, EndSweep, Unlink,
           RemoveDirectory, RemovalFails
  <2>2. sweep.refused \subseteq sweep'.refused
    BY PassLists DEF Next
  <2> QED
    BY <2>1, <2>2 DEF StaleStaging, StaleAlarm, StaleEvent, Untouched, Complete, DayOf
<1>1. ASSUME NEW e \in Events, ReclaimStaging(e) \/ RemoveExpired(e) \/ RemoveOldest(e)
      PROVE  Goal
  <2>1. BeginRemoval(e) /\ NotRemoving
    BY <1>1 DEF ReclaimStaging, RemoveExpired, RemoveOldest
  <2>2. /\ sweep'.started = sweep.started /\ sweep'.at = sweep.at /\ sweep'.victim = e
        /\ sweep'.listed = entry[e].files /\ sweep'.todo = sweep.todo \ {e}
        /\ sweep'.temporary = sweep.temporary \ {<<"dir", e>>} /\ sweep.victim = NoEvent
    BY <2>1, SweepFields DEF BeginRemoval, NotRemoving
  <2> QED
    BY <1>0, <2>2
<1>2. ASSUME NEW e \in Events, SkipInGrace(e) PROVE Goal
  <2>1. /\ sweep'.started = sweep.started /\ sweep'.at = sweep.at /\ sweep.at = "pressure"
        /\ sweep'.victim = sweep.victim /\ sweep'.listed = sweep.listed
    BY <1>2, SweepFields DEF SkipInGrace
  <2> QED
    BY <1>0, <2>1
<1>3. ASSUME NEW e \in Events, KeepTemporary(e) PROVE Goal
  <2>1. PICK x : /\ sweep' = [sweep EXCEPT !.temporary = @ \ {x}]
                 /\ x = <<"dir", f>> => ~StaleStaging(f)
                 /\ x = <<"alarm", f>> => ~StaleAlarm(f)
    BY <1>3 DEF KeepTemporary, StaleStaging, StaleAlarm, OldEnough, Untouched
  <2>2. /\ sweep'.started = sweep.started /\ sweep'.at = sweep.at
        /\ sweep'.victim = sweep.victim /\ sweep'.listed = sweep.listed
        /\ sweep'.todo = sweep.todo /\ sweep'.temporary = sweep.temporary \ {x}
    BY <2>1, SweepFields
  <2> QED
    BY <1>0, <2>1, <2>2
<1>4. ASSUME NEW e \in Events, ReclaimAlarmFile(e) PROVE Goal
  <2>1. e # f
    BY <1>4, EventFacts DEF ReclaimAlarmFile, Absent, IInv
  <2>2. /\ sweep'.started = sweep.started /\ sweep'.at = sweep.at
        /\ sweep'.victim = sweep.victim /\ sweep'.listed = sweep.listed
        /\ sweep'.todo = sweep.todo /\ sweep'.temporary = sweep.temporary \ {<<"alarm", e>>}
    BY <1>4, SweepFields DEF ReclaimAlarmFile
  <2> QED
    BY <1>0, <2>1, <2>2
<1>5. CASE CheckPressure \/ EndSweep
  <2>1. f \notin sweep.refused => ~StaleStaging(f) /\ ~StaleAlarm(f) /\ ~StaleEvent(f)
    BY <1>5, CheckFinds
  <2>2. sweep'.started = sweep.started /\ sweep'.victim = sweep.victim /\ sweep'.listed = sweep.listed
    BY <1>5, SweepFields DEF CheckPressure, EndSweep, Idle
  <2> QED
    BY <1>0, <2>1, <2>2
<1>6. ASSUME ~NotRemoving, NEW used, NEW R \in SUBSET Events, AfterRemoval(used, R),
             sweep.victim = f => ~Untouched(f, 1) \/ f \in R
      PROVE  Goal
  <2>1. /\ sweep'.started = sweep.started /\ sweep'.at = sweep.at /\ sweep'.victim = NoEvent
        /\ sweep'.todo = sweep.todo /\ sweep'.temporary = sweep.temporary
        /\ R \subseteq sweep'.refused
    BY <1>6, AfterRemovalEnds DEF Idle
  <2>2. ~Untouched(f, 1) => ~StaleStaging(f) /\ ~StaleEvent(f)
    BY EventFacts, SweepFields DEF Untouched, StaleStaging, StaleEvent
  <2> QED
    BY <1>0, <1>6, <2>1, <2>2
<1>7. ASSUME NEW file \in Files, Unlink(file) PROVE Goal
  <2>1. CASE file \in entry[sweep.victim].files
    <3>1. sweep.victim # f
      BY <1>7, <2>1, EventFacts DEF Unlink, IInv
    <3>2. /\ sweep'.started = sweep.started /\ sweep'.at = sweep.at
          /\ sweep'.victim = sweep.victim /\ sweep'.todo = sweep.todo
          /\ sweep'.temporary = sweep.temporary
      BY <1>7, <2>1, SweepFields DEF Unlink
    <3> QED
      BY <1>0, <3>1, <3>2
  <2>2. CASE file \notin entry[sweep.victim].files
    BY <1>6, <1>7, <2>2 DEF Unlink
  <2> QED
    BY <2>1, <2>2
<1>8. CASE RemoveDirectory
  <2>1. CASE entry[sweep.victim].files = {}
    <3>1. sweep.victim # f
      <4>1. entry' = [entry EXCEPT ![sweep.victim] = Absent] /\ ~NotRemoving
        BY <1>8, <2>1 DEF RemoveDirectory
      <4>2. sweep.victim = f => entry[f].state # "absent"
        BY DEF IInv, SweepOK
      <4> QED
        BY <4>1, <4>2 DEF Absent, IInv
    <3> QED
      BY <1>6, <1>8, <2>1, <3>1 DEF RemoveDirectory
  <2>2. CASE entry[sweep.victim].files # {}
    BY <1>6, <1>8, <2>2 DEF RemoveDirectory
  <2> QED
    BY <2>1, <2>2
<1>9. CASE RemovalFails
  <2>1. {sweep.victim} \in SUBSET Events
    BY <1>9, SweepFields DEF RemovalFails, NotRemoving
  <2> QED
    BY <1>6, <1>9, <2>1 DEF RemovalFails
<1> QED
  BY <1>1, <1>2, <1>3, <1>4, <1>5, <1>7, <1>8, <1>9 DEF SweepStep

LEMMA ReclaimKeeps ==
    ASSUME IInv, IInv', ReclaimOK, [Next]_vars PROVE ReclaimOK'
<1> SUFFICES ASSUME sweep'.at # "idle", NEW f \in Events
             PROVE  Whole(f)' /\ Handled(f)'
  BY DEF ReclaimOK
<1>1. CASE sweep.at = "idle"
  BY <1>1, OnlyStartStarts, StartHandles
<1>2. CASE sweep.at # "idle"
  <2>1. Whole(f) /\ Handled(f)
    BY <1>2 DEF ReclaimOK
  <2>2. SweepStep \/ ~SweepStep
    OBVIOUS
  <2> QED
    BY <1>2, <2>1, <2>2, ChangeHandles, OthersHandle, PassHandles
<1> QED
  BY <1>1, <1>2

LEMMA AlwaysReclaimOK == Spec => []ReclaimOK
<1>1. Init => ReclaimOK
  BY DEF Init, Idle, ReclaimOK
<1>2. IInv /\ IInv' /\ ReclaimOK /\ [Next]_vars => ReclaimOK'
  BY ReclaimKeeps
<1> QED
  BY <1>1, <1>2, AlwaysIInv, PTL DEF Spec

\* A pass that ends leaves no staging directory, temporary alarm file or complete
\* expired event that was stale when it began, whatever was cut off or failed before
\* it and runs beside it, except where the disk refused this pass the removal.
THEOREM PassesReclaim == Spec => PassReclaims
<1>1. ASSUME IInv, ReclaimOK, [Next]_vars, sweep.at # "idle", sweep'.at = "idle",
             mode' = "serving", NEW f \in Events \ sweep.refused
      PROVE  ~Reclaimable(f)
  <2>1. Whole(f) /\ Handled(f)
    BY <1>1 DEF ReclaimOK
  <2>2. SweepStep
    BY <1>1
    DEF Next, Prepare, CallStep, Allocate, WriteFile, Publish, SaveFails, UpdateWrites,
        UpdateReplaces, UpdateFails, Boot, Maintain, StartSweep, Crash, Tick, vars
  <2>3. CASE sweep.at = "pressure"
    BY <2>1, <2>3 DEF Handled, Reclaimable, StaleStaging, StaleAlarm, StaleEvent
  <2>4. CASE sweep.at # "pressure"
    <3>1. CheckPressure
      BY <1>1, <2>2, <2>4, SweepFields
      DEF SweepStep, ReclaimStaging, ReclaimAlarmFile, KeepTemporary, RemoveExpired,
          SkipInGrace, RemoveOldest, BeginRemoval, EndSweep, Unlink, RemoveDirectory,
          RemovalFails, AfterRemoval
    <3> QED
      BY <1>1, <2>1, <3>1, CheckFinds DEF Reclaimable, StaleStaging, StaleAlarm, StaleEvent
  <2> QED
    BY <2>3, <2>4
<1>2. IInv /\ ReclaimOK /\ [Next]_vars =>
        [sweep.at # "idle" /\ sweep'.at = "idle" /\ mode' = "serving"
         => \A e \in Events \ sweep.refused : ~Reclaimable(e)]_vars
  BY <1>1
<1> QED
  BY <1>2, AlwaysIInv, AlwaysReclaimOK, PTL DEF Spec, PassReclaims

-----------------------------------------------------------------------------
\* Under its final name an event is there and whole, or it is not there.
Shows(e) == entry[e].state = "final" /\ e \notin cut

LEMMA FoundWhole ==
    ASSUME IInv, IInv', NEW e \in Events
    PROVE  /\ Found(e) = IF Shows(e) THEN Contents ELSE {}
           /\ Found(e)' = IF Shows(e)' THEN Contents ELSE {}
<1>1. /\ Shows(e) => Evidence \subseteq entry[e].files
      /\ Shows(e)' => Evidence \subseteq entry'[e].files
  BY DEF IInv, EventOK, CutOK, Shows
<1>2. ASSUME NEW S, Evidence \subseteq S PROVE S \cap Evidence = Evidence
  BY <1>2
<1> QED
  BY <1>1, <1>2 DEF Shows, Found, Contents

\* Only a rename makes it appear, and only a removal takes it away.
LEMMA ShownStays ==
    ASSUME IInv, [Next]_vars, cut' = cut, NEW f \in Events, ~Publish(f)
    PROVE  Shows(f)' = Shows(f)
<1>1. ASSUME NEW e \in Events, Allocate(e) \/ WriteFile(e) \/ Publish(e) \/ SaveFails(e)
      PROVE  Shows(f)' = Shows(f)
  <2>1. CASE e # f
    BY <1>1, <2>1, CallMovesOne DEF CallStep, Shows
  <2>2. CASE e = f
    <3>1. entry[f].state # "final"
      BY <1>1, <2>2, EventFacts
      DEF Allocate, WriteFile, SaveFails, EventOK, EntryOK, SaveOK
    <3>2. entry'[f].state # "final"
      <4>1. CASE Allocate(f) \/ WriteFile(f)
        BY <2>2, <3>1, <4>1, EventFacts DEF Allocate, WriteFile, IInv
      <4>2. CASE SaveFails(f)
        BY <4>2, SaveFailsLeaves DEF Absent, IInv
      <4> QED
        BY <1>1, <2>2, <4>1, <4>2
    <3> QED
      BY <3>1, <3>2 DEF Shows
  <2> QED
    BY <2>1, <2>2
<1>2. ASSUME NEW e \in Events, UpdateWrites(e) \/ UpdateReplaces(e) \/ UpdateFails(e)
      PROVE  Shows(f)' = Shows(f)
  <2>1. PICK n \in EntryRecord : entry' = [entry EXCEPT ![e] = n] /\ n.state = entry[e].state
    BY <1>2, UpdateChanges
  <2> QED
    BY <2>1 DEF Shows, IInv
<1>3. ASSUME NEW e \in Events, ReclaimAlarmFile(e) PROVE Shows(f)' = Shows(f)
  <2>1. CASE e # f
    BY <1>3, <2>1 DEF ReclaimAlarmFile, Absent, Shows, IInv
  <2>2. CASE e = f /\ entry[f].files = {"alarm_tmp"}
    <3>1. ~Shows(f)
      BY <2>2, EventFacts DEF EventOK, CutOK, Shows
    <3> QED
      BY <1>3, <2>2, <3>1 DEF ReclaimAlarmFile, Absent, Shows, IInv
  <2>3. CASE e = f /\ entry[f].files # {"alarm_tmp"}
    BY <1>3, <2>3, EventFacts DEF ReclaimAlarmFile, Shows, IInv
  <2> QED
    BY <2>1, <2>2, <2>3
<1>4. ASSUME NEW file \in Files, Unlink(file) PROVE Shows(f)' = Shows(f)
  <2>1. CASE sweep.victim # f
    BY <1>4, <2>1 DEF Unlink, Shows, IInv
  <2>2. CASE sweep.victim = f
    BY <1>4, <2>2, EventFacts DEF Unlink, Shows, IInv
  <2> QED
    BY <2>1, <2>2
<1>5. CASE RemoveDirectory
  <2>1. sweep.victim = f => ~Shows(f)
    BY DEF Shows, IInv, SweepOK
  <2> QED
    BY <1>5, <2>1, EventFacts DEF RemoveDirectory, Absent, Shows, IInv
<1>6. ASSUME UNCHANGED entry PROVE Shows(f)' = Shows(f)
  BY <1>6 DEF Shows
<1> QED
  BY <1>1, <1>2, <1>3, <1>4, <1>5, <1>6
  DEF Next, CallStep, Prepare, Boot, Maintain, StartSweep, SweepStep, ReclaimStaging,
      KeepTemporary, RemoveExpired, SkipInGrace, RemoveOldest, BeginRemoval,
      CheckPressure, EndSweep, RemovalFails, Crash, Tick, vars

\* An event is confirmed once, when its save begins.
LEMMA StampStays ==
    ASSUME IInv, [Next]_vars, NEW f \in Events, ~Prepare(f)
    PROVE  /\ (job'[f] = "new") = (job[f] = "new")
           /\ job[f] # "new" => confirmed'[f] = confirmed[f]
<1>1. ASSUME NEW e \in Events, Prepare(e) PROVE job'[f] = job[f] /\ confirmed'[f] = confirmed[f]
  BY <1>1 DEF Prepare, IInv
<1>2. ASSUME NEW e \in Events, CallStep(e)
      PROVE  confirmed' = confirmed /\ \/ job'[f] = job[f]
                                       \/ job[f] # "new" /\ job'[f] # "new"
  BY <1>2, EventFacts
  DEF CallStep, Allocate, WriteFile, NextStep, Publish, SaveFails, UpdateWrites,
      UpdateReplaces, UpdateFails, IInv
<1>3. CASE Crash
  BY <1>3, EventFacts DEF Crash, IInv
<1>4. ASSUME UNCHANGED <<job, confirmed>>
      PROVE  job'[f] = job[f] /\ confirmed'[f] = confirmed[f]
  BY <1>4
<1> QED
  BY <1>1, <1>2, <1>3, <1>4
  DEF Next, Boot, Maintain, StartSweep, SweepStep, ReclaimStaging, ReclaimAlarmFile,
      KeepTemporary, RemoveExpired, SkipInGrace, RemoveOldest, BeginRemoval,
      CheckPressure, EndSweep, Unlink, RemoveDirectory, RemovalFails, Tick, vars

LEMMA StampsStay ==
    ASSUME IInv, [Next]_vars, \A f \in Events : ~Prepare(f) PROVE Stamps' = Stamps
<1>1. {f \in Events : job'[f] # "new"} = {f \in Events : job[f] # "new"}
  BY StampStays
<1>2. \A f \in {g \in Events : job[g] # "new"} : confirmed'[f] = confirmed[f]
  BY StampStays
<1> QED
  BY <1>1, <1>2 DEF Stamps

LEMMA StepSimulates ==
    ASSUME IInv, IInv', [Next]_vars PROVE [Vault!Next]_Vault!vars
<1> DEFINE Seen == [f \in Events |-> Found(f)]
<1>0. ASSUME NEW f \in Events, Shows(f)' = Shows(f) PROVE Found(f)' = Found(f)
  BY <1>0, FoundWhole DEF Contents
<1>1. ASSUME NEW e \in Events, Prepare(e) PROVE Vault!Confirm(e)
  <2>1. /\ job[e] = "new" /\ job' = [job EXCEPT ![e] = "allocate"]
        /\ confirmed' = [confirmed EXCEPT ![e] = now] /\ UNCHANGED <<entry, cut, now>>
    BY <1>1 DEF Prepare
  <2>2. DOMAIN Stamps = {f \in Events : job[f] # "new"}
    BY DEF Stamps
  <2>3. {f \in Events : job'[f] # "new"} = DOMAIN Stamps \cup {e}
    BY <2>1, <2>2, EventFacts DEF IInv
  <2>4. \A f \in DOMAIN Stamps \cup {e} :
           confirmed'[f] = IF f = e THEN now ELSE Stamps[f]
    BY <2>1, <2>2 DEF Stamps, IInv
  <2>5. Stamps' = [f \in DOMAIN Stamps \cup {e} |-> IF f = e THEN now ELSE Stamps[f]]
    BY <2>3, <2>4 DEF Stamps
  <2>6. UNCHANGED <<Seen, cut, now>>
    BY <2>1 DEF Found
  <2> QED
    BY <2>1, <2>2, <2>5, <2>6 DEF Vault!Confirm
<1>2. ASSUME NEW e \in Events, Publish(e), entry[e].state = "staging" PROVE Vault!Appear(e)
  <2>1. /\ job[e] = "rename" /\ entry' = [entry EXCEPT ![e].state = "final"]
        /\ UNCHANGED <<confirmed, cut, now>> /\ job' = [job EXCEPT ![e] = "update"]
    BY <1>2 DEF Publish
  <2>2. e \notin cut /\ ~Shows(e) /\ Shows(e)'
    BY <1>2, <2>1, EventFacts DEF EventOK, CutOK, Shows, IInv
  <2>3. e \in DOMAIN Stamps /\ Stamps' = Stamps
    BY <2>1, StampsStay DEF Stamps, Prepare, IInv
  <2>4. Found(e) = {} /\ Found(e)' = Contents
    BY <2>2, FoundWhole DEF Contents
  <2>5. \A f \in Events : f # e => Found(f)' = Found(f)
    BY <2>1 DEF Found, IInv
  <2>6. Seen' = [Seen EXCEPT ![e] = Contents]
    BY <2>4, <2>5
  <2> QED
    BY <2>1, <2>2, <2>3, <2>4, <2>6 DEF Vault!Appear
<1>3. ASSUME NEW e \in Events, BeginRemoval(e), cut' # cut PROVE Vault!GiveUp(e)
  <2>1. /\ entry[e].state = "final" /\ e \notin cut /\ cut' = cut \cup {e}
        /\ UNCHANGED <<job, confirmed, entry, now>>
    BY <1>3 DEF BeginRemoval
  <2>2. job[e] \notin Unsaved /\ Due(e)
    <3>1. CutOK(e)'
      BY DEF IInv, EventOK
    <3> QED
      BY <2>1, <3>1 DEF CutOK, Due, Expired, DayOf
  <2>3. e \in DOMAIN Stamps /\ Stamps[e] = confirmed[e] /\ Stamps' = Stamps
    BY <2>1, <2>2 DEF Stamps
  <2>4. Vault!Due(e)
    BY <2>2, <2>3 DEF Due, Expired, DayOf, Day, Vault!Due
  <2>5. Found(e) = Contents /\ Found(e)' = {}
    BY <2>1, FoundWhole DEF Shows, Found
  <2>6. \A f \in Events : f # e => Found(f)' = Found(f)
    BY <2>1 DEF Found
  <2>7. Seen' = [Seen EXCEPT ![e] = {}]
    BY <2>5, <2>6
  <2> QED
    BY <2>1, <2>3, <2>4, <2>5, <2>7 DEF Vault!GiveUp
<1>4. CASE Tick
  BY <1>4 DEF Tick, Stamps, Found, Vault!Next, Vault!Tick
<1>5. ASSUME cut' = cut, now' = now, \A f \in Events : ~Prepare(f),
             \A f \in Events : Publish(f) => entry[f].state # "staging"
      PROVE  UNCHANGED Vault!vars
  <2>1. Stamps' = Stamps
    BY <1>5, StampsStay
  <2>2. ASSUME NEW f \in Events PROVE Found(f)' = Found(f)
    <3>1. CASE Publish(f)
      BY <1>5, <3>1, EventFacts DEF Publish, Found
    <3>2. CASE ~Publish(f)
      BY <1>0, <1>5, <3>2, ShownStays
    <3> QED
      BY <3>1, <3>2
  <2> QED
    BY <1>5, <2>1, <2>2 DEF Vault!vars
<1>6. CASE now' # now
  <2>1. Tick
    BY <1>6
    DEF Next, Prepare, CallStep, Allocate, WriteFile, Publish, SaveFails, UpdateWrites,
        UpdateReplaces, UpdateFails, Boot, Maintain, StartSweep, SweepStep,
        ReclaimStaging, ReclaimAlarmFile, KeepTemporary, RemoveExpired, SkipInGrace,
        RemoveOldest, BeginRemoval, CheckPressure, EndSweep, Unlink, RemoveDirectory,
        RemovalFails, Crash, vars
  <2> QED
    BY <1>4, <2>1
<1>7. CASE cut' # cut
  <2>1. PICK e \in Events : BeginRemoval(e)
    BY <1>7
    DEF Next, Prepare, CallStep, Allocate, WriteFile, Publish, SaveFails, UpdateWrites,
        UpdateReplaces, UpdateFails, Boot, Maintain, StartSweep, SweepStep,
        ReclaimStaging, ReclaimAlarmFile, KeepTemporary, RemoveExpired, SkipInGrace,
        RemoveOldest, CheckPressure, EndSweep, Unlink, RemoveDirectory,
        RemovalFails, Crash, Tick, vars
  <2> QED
    BY <1>3, <1>7, <2>1 DEF Vault!Next
<1> QED
  BY <1>1, <1>2, <1>5, <1>6, <1>7 DEF Vault!Next

\* Whatever crashes, failures and passes do, a reader of final names sees a store
\* where evidence appears whole and goes once, when due.
THEOREM StoreImplementsVault == Spec => ImplementsVault
<1>1. Init => Vault!Init
  <2> SUFFICES ASSUME Init PROVE Vault!Init
    OBVIOUS
  <2>1. {f \in Events : job[f] # "new"} = {}
    BY DEF Init
  <2>2. Stamps = [e \in {} |-> 0]
    BY <2>1 DEF Stamps
  <2>3. \A e \in Events : Found(e) = {}
    BY DEF Init, Absent, Found
  <2> QED
    BY <2>2, <2>3 DEF Init, Vault!Init
<1>2. IInv /\ IInv' /\ [Next]_vars => [Vault!Next]_Vault!vars
  BY StepSimulates
<1> QED
  BY <1>1, <1>2, AlwaysIInv, PTL DEF Spec, ImplementsVault, Vault!Spec
=============================================================================
