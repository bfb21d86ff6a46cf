---------------------------- MODULE EvidenceStore ----------------------------
(***************************************************************************)
(* EvidenceStore (src/app/storage.py) at the level of file-system calls:   *)
(* save() and update_alarm() run in threads of their own, next to the      *)
(* maintenance thread that reclaims stale temporary paths, expired events  *)
(* and, under pressure, the oldest ones.  No lock is shared between them.  *)
(* One stream: parents stands for the day/machine/stream directories that  *)
(* exist, made by mkdir(parents) and removed by _remove_empty_parents.     *)
(***************************************************************************)
EXTENDS Naturals, FiniteSets

CONSTANTS
    Events,         \* the calls of save(), each with its own directory
    NoEvent,
    DayLength,      \* ticks in a day
    RetentionDays,  \* evidence_retention_days
    TmpMaxAge,      \* evidence_tmp_max_age_seconds
    Grace,          \* evidence_cleanup_grace_seconds
    High, Target,   \* evidence_max_usage_percent and ..._target_..., in directories
    MaxStall,       \* bound on the time between two file operations of a save
    MaxTime,        \* bound on the clock
    MaxFaults,      \* bound on failing file operations
    MaxCrashes

ASSUME StoreAssumption ==
    /\ NoEvent \notin Events /\ IsFiniteSet(Events)
    /\ {DayLength, RetentionDays} \subseteq Nat \ {0}
    /\ {TmpMaxAge, Grace, High, Target, MaxStall, MaxTime, MaxFaults, MaxCrashes}
          \subseteq Nat
    /\ Target < High           \* validate_storage_watermarks

\* A save that is alive is never as slow as what maintenance takes for dead.
ASSUME StallIsShort == MaxStall < TmpMaxAge

VARIABLES
    job,        \* event -> how far its save() and update_alarm() are
    confirmed,  \* event -> confirmed_at, which names its directories
    entry,      \* event -> its directory
    parents,    \* the days whose directory exists
    sweep,      \* maintain(): its statement and its local variables, and as history
                \* the events whose removal the disk refused
    mode,       \* "down", "booting" (initialize's maintain) or "serving"
    now,
    budget,     \* faults and crashes left
    cut         \* history: events whose removal has begun under their final name

vars == <<job, confirmed, entry, parents, sweep, mode, now, budget, cut>>

Evidence == {"original", "annotated", "metadata"}
Absent == [state |-> "absent", files |-> {}, mtime |-> 0]
Saving == {"allocate", "original", "annotated", "metadata", "rename"}
Updating == {"update", "replace"}
Idle == [at |-> "idle", started |-> 0, temporary |-> {}, todo |-> {},
         victim |-> NoEvent, listed |-> {}, refused |-> {}]

Day(time) == time \div DayLength
DayOf(e) == Day(confirmed[e])
Present(S) == {e \in Events : entry[e].state \in S}
Complete(e) == entry[e].state = "final" /\ Evidence \subseteq entry[e].files

Init ==
    /\ job = [e \in Events |-> "new"]
    /\ confirmed = [e \in Events |-> 0]
    /\ entry = [e \in Events |-> Absent]
    /\ parents = {}
    /\ sweep = Idle
    /\ mode = "down"
    /\ now = 0
    /\ budget = [faults |-> MaxFaults, crashes |-> MaxCrashes]
    /\ cut = {}

-----------------------------------------------------------------------------
Spend(what) ==
    /\ budget[what] > 0
    /\ budget' = [budget EXCEPT ![what] = @ - 1]

Go(e, at) == job' = [job EXCEPT ![e] = at]

\* save() up to parent.mkdir(parents=True, exist_ok=True).
Prepare(e) ==
    /\ mode = "serving"
    /\ job[e] = "new"
    /\ \A f \in Events : job[f] # "new" => confirmed[f] < now
    /\ confirmed' = [confirmed EXCEPT ![e] = now]
    /\ parents' = parents \cup {Day(now)}
    /\ Go(e, "allocate")
    /\ UNCHANGED <<entry, sweep, mode, now, budget, cut>>

AllocateInPlace(e) ==
    /\ job[e] = "allocate"
    /\ IF DayOf(e) \in parents
       THEN /\ Go(e, "original")
            /\ entry' = [entry EXCEPT ![e] = [state |-> "final", files |-> {},
                                              mtime |-> now]]
       ELSE Go(e, "save_failed") /\ UNCHANGED entry
    /\ UNCHANGED <<confirmed, parents, sweep, mode, now, budget, cut>>

\* staging.mkdir(): FileNotFoundError when the parent has gone since.
Allocate(e) ==
    /\ job[e] = "allocate"
    /\ IF DayOf(e) \in parents
       THEN /\ Go(e, "original")
            /\ entry' = [entry EXCEPT ![e] = [state |-> "staging", files |-> {},
                                              mtime |-> now]]
       ELSE Go(e, "save_failed") /\ UNCHANGED entry
    /\ UNCHANGED <<confirmed, parents, sweep, mode, now, budget, cut>>

NextStep(at) == CASE at = "original" -> "annotated"
                  [] at = "annotated" -> "metadata"
                  [] at = "metadata" -> "rename"

\* _write() of the next of the three files into the staging directory.
WriteFile(e) ==
    /\ job[e] \in Evidence
    /\ IF entry[e].state = "staging"
       THEN /\ Go(e, NextStep(job[e]))
            /\ entry' = [entry EXCEPT ![e].files = @ \cup {job[e]}, ![e].mtime = now]
       ELSE Go(e, "save_failed") /\ UNCHANGED entry
    /\ UNCHANGED <<confirmed, parents, sweep, mode, now, budget, cut>>

\* staging.rename(target); the mtime of the directory itself stays.
Publish(e) ==
    /\ job[e] = "rename"
    /\ IF entry[e].state = "staging"
       THEN Go(e, "update") /\ entry' = [entry EXCEPT ![e].state = "final"]
       ELSE Go(e, "save_failed") /\ UNCHANGED entry
    /\ UNCHANGED <<confirmed, parents, sweep, mode, now, budget, cut>>

\* The except: rmtree(ignore_errors=True) removes the staging directory, or what it
\* can of it, the file whose write failed included.
LeaveStaging(e) ==
    \E rest \in SUBSET (entry[e].files \cup ({job[e]} \cap Evidence)) :
        \/ entry' = [entry EXCEPT ![e].files = rest, ![e].mtime = now]
        \/ rest = entry[e].files /\ UNCHANGED entry

\* An operation of save() fails, and then some of the removal may as well.
SaveFails(e) ==
    /\ job[e] \in Saving
    /\ Spend("faults")
    /\ Go(e, "save_failed")
    /\ \/ entry' = [entry EXCEPT ![e] = Absent]
       \/ entry[e].state = "staging" /\ LeaveStaging(e)
    /\ UNCHANGED <<confirmed, parents, sweep, mode, now, cut>>

-----------------------------------------------------------------------------
\* update_alarm() reads metadata.json and writes its replacement beside it.
UpdateWrites(e) ==
    /\ job[e] = "update"
    /\ IF "metadata" \in entry[e].files
       THEN /\ Go(e, "replace")
            /\ entry' = [entry EXCEPT ![e].files = @ \cup {"alarm_tmp"}, ![e].mtime = now]
       ELSE Go(e, "update_failed") /\ UNCHANGED entry
    /\ UNCHANGED <<confirmed, parents, sweep, mode, now, budget, cut>>

\* os.replace(): the new metadata.json appears even where the old one is gone.
UpdateReplaces(e) ==
    /\ job[e] = "replace"
    /\ IF "alarm_tmp" \in entry[e].files
       THEN /\ Go(e, "done")
            /\ entry' = [entry EXCEPT ![e].files = (@ \ {"alarm_tmp"}) \cup {"metadata"},
                                      ![e].mtime = now]
       ELSE Go(e, "update_failed") /\ UNCHANGED entry
    /\ UNCHANGED <<confirmed, parents, sweep, mode, now, budget, cut>>

\* The finally deletes the temporary, which touches the directory.  A read that
\* fails leaves all as it was, and so does an unlink that fails too; a write that
\* fails may have made the file.
LeaveUpdate(e) ==
    \/ UNCHANGED entry
    \/ /\ job[e] = "update" /\ "metadata" \in entry[e].files
       /\ \E rest \in SUBSET {"alarm_tmp"} :
             entry' = [entry EXCEPT ![e].files = @ \cup rest, ![e].mtime = now]
    \/ /\ "alarm_tmp" \in entry[e].files
       /\ entry' = [entry EXCEPT ![e].files = @ \ {"alarm_tmp"}, ![e].mtime = now]

UpdateFails(e) ==
    /\ job[e] \in Updating
    /\ Spend("faults")
    /\ Go(e, "update_failed")
    /\ LeaveUpdate(e)
    /\ UNCHANGED <<confirmed, parents, sweep, mode, now, cut>>

-----------------------------------------------------------------------------
StartSweepOfEvents(next) ==
    /\ sweep.at = "idle"
    /\ sweep' = [Idle EXCEPT !.at = "temporary", !.started = now,
                             !.todo = {e \in Events : Complete(e)}]
    /\ mode' = next
    /\ UNCHANGED <<job, confirmed, entry, parents, now, budget, cut>>

\* maintain() begins: _owned_paths() lists staging directories, leftover alarm
\* files and complete events.  A directory under a final name that lacks a file
\* is neither, and nothing below sees it.
StartSweep(next) ==
    /\ sweep.at = "idle"
    /\ sweep' = [at |-> "temporary", started |-> now,
                 temporary |-> {<<"dir", e>> : e \in Present({"staging"})} \cup
                               {<<"alarm", e>> : e \in {f \in Present({"final"}) :
                                                         "alarm_tmp" \in entry[f].files}},
                 todo |-> {e \in Events : Complete(e)},
                 victim |-> NoEvent, listed |-> {}, refused |-> {}]
    /\ mode' = next
    /\ UNCHANGED <<job, confirmed, entry, parents, now, budget, cut>>

Boot == mode = "down" /\ StartSweep("booting")
Maintain == mode = "serving" /\ StartSweep("serving")

WithoutParent(e) == parents \ {DayOf(e)}

\* Nothing is left of a day: its directories go with its last entry.
WithoutEmptyParent(e) ==
    IF \E f \in Events \ {e} : entry[f].state # "absent" /\ DayOf(f) = DayOf(e)
    THEN parents ELSE parents \ {DayOf(e)}

NotRemoving == sweep.victim = NoEvent

\* shutil.rmtree(e) begins: it works from the listing it makes now.
BeginRemoval(e) ==
    /\ sweep' = [sweep EXCEPT !.victim = e, !.listed = entry[e].files,
                              !.temporary = @ \ {<<"dir", e>>}, !.todo = @ \ {e}]
    /\ cut' = IF entry[e].state = "final" THEN cut \cup {e} ELSE cut
    /\ UNCHANGED <<job, confirmed, entry, parents, mode, now, budget>>

AnyAge(e) == TRUE
OldEnough(e) == entry[e].mtime + TmpMaxAge <= sweep.started

ReclaimStaging(e) ==
    /\ sweep.at = "temporary" /\ NotRemoving
    /\ <<"dir", e>> \in sweep.temporary
    /\ entry[e].state = "staging"
    /\ OldEnough(e)
    /\ BeginRemoval(e)

\* A leftover alarm file goes, and with it a directory that held nothing else.
ReclaimAlarmFile(e) ==
    /\ sweep.at = "temporary" /\ NotRemoving
    /\ <<"alarm", e>> \in sweep.temporary
    /\ "alarm_tmp" \in entry[e].files
    /\ OldEnough(e)
    /\ sweep' = [sweep EXCEPT !.temporary = @ \ {<<"alarm", e>>}]
    /\ IF entry[e].files = {"alarm_tmp"}
       THEN /\ entry' = [entry EXCEPT ![e] = Absent]
            /\ parents' = WithoutEmptyParent(e)
       ELSE /\ entry' = [entry EXCEPT ![e].files = @ \ {"alarm_tmp"}, ![e].mtime = now]
            /\ UNCHANGED parents
    /\ UNCHANGED <<job, confirmed, mode, now, budget, cut>>

\* What is young, or gone or renamed since the listing, is left alone.
KeepTemporary(e) ==
    /\ sweep.at = "temporary" /\ NotRemoving
    /\ \/ /\ <<"dir", e>> \in sweep.temporary
          /\ entry[e].state = "staging" => ~OldEnough(e)
          /\ sweep' = [sweep EXCEPT !.temporary = @ \ {<<"dir", e>>}]
       \/ /\ <<"alarm", e>> \in sweep.temporary
          /\ "alarm_tmp" \in entry[e].files => ~OldEnough(e)
          /\ sweep' = [sweep EXCEPT !.temporary = @ \ {<<"alarm", e>>}]
    /\ UNCHANGED <<job, confirmed, entry, parents, mode, now, budget, cut>>

\* event_day < cutoff, with the date of the start of the pass.
Expired(e, time) == DayOf(e) + RetentionDays <= Day(time)

ExpiredLeft == {e \in sweep.todo : Expired(e, sweep.started)}

RemoveExpired(e) ==
    /\ sweep.at = "temporary" /\ NotRemoving /\ sweep.temporary = {}
    /\ e \in ExpiredLeft
    /\ BeginRemoval(e)

Used == Cardinality(Present({"staging", "final"}))

\* The status after the expired events decides whether the pass goes on.
CheckPressure ==
    /\ sweep.at = "temporary" /\ NotRemoving /\ sweep.temporary = {}
    /\ ExpiredLeft = {}
    /\ sweep' = IF Used >= High THEN [sweep EXCEPT !.at = "pressure"] ELSE Idle
    /\ mode' = IF Used >= High THEN mode ELSE "serving"
    /\ UNCHANGED <<job, confirmed, entry, parents, now, budget, cut>>

AnyLeft(e) == e \in sweep.todo
Oldest(e) == e \in sweep.todo /\ \A f \in sweep.todo : confirmed[e] <= confirmed[f]
NoGrace(e) == FALSE
InGrace(e) == entry[e].mtime + Grace > sweep.started

SkipInGrace(e) ==
    /\ sweep.at = "pressure" /\ NotRemoving
    /\ Oldest(e) /\ InGrace(e)
    /\ sweep' = [sweep EXCEPT !.todo = @ \ {e}]
    /\ UNCHANGED <<job, confirmed, entry, parents, mode, now, budget, cut>>

RemoveOldest(e) ==
    /\ sweep.at = "pressure" /\ NotRemoving
    /\ Oldest(e) /\ ~InGrace(e)
    /\ BeginRemoval(e)

EndSweep ==
    /\ sweep.at = "pressure" /\ NotRemoving
    /\ sweep.todo = {}
    /\ sweep' = Idle
    /\ mode' = "serving"
    /\ UNCHANGED <<job, confirmed, entry, parents, now, budget, cut>>

-----------------------------------------------------------------------------
\* The removal returns.  Under pressure the loop ends at the target.
AfterRemoval(used, refused) ==
    IF sweep.at = "pressure" /\ used <= Target
    THEN sweep' = Idle /\ mode' = "serving"
    ELSE /\ sweep' = [sweep EXCEPT !.victim = NoEvent, !.listed = {},
                                   !.refused = @ \cup refused]
         /\ UNCHANGED mode

\* rmtree unlinks a file of its listing; one that is gone ends it with an error.
Unlink(file) ==
    LET e == sweep.victim IN
    /\ ~NotRemoving
    /\ file \in sweep.listed
    /\ IF file \in entry[e].files
       THEN /\ entry' = [entry EXCEPT ![e].files = @ \ {file}, ![e].mtime = now]
            /\ sweep' = [sweep EXCEPT !.listed = @ \ {file}]
            /\ UNCHANGED mode
       ELSE AfterRemoval(Used, {}) /\ UNCHANGED entry
    /\ UNCHANGED <<job, confirmed, parents, now, budget, cut>>

\* rmtree's rmdir, which a file written since the listing makes fail, and then
\* _remove_empty_parents.
RemoveDirectory ==
    LET e == sweep.victim IN
    /\ ~NotRemoving
    /\ sweep.listed = {}
    /\ IF entry[e].files = {}
       THEN /\ entry' = [entry EXCEPT ![e] = Absent]
            /\ parents' = WithoutEmptyParent(e)
            /\ AfterRemoval(Used - 1, {})
       ELSE UNCHANGED <<entry, parents>> /\ AfterRemoval(Used, {})
    /\ UNCHANGED <<job, confirmed, now, budget, cut>>

\* The disk refuses an operation: _remove_owned returns False.
RemovalFails ==
    /\ ~NotRemoving
    /\ Spend("faults")
    /\ AfterRemoval(Used, {sweep.victim})
    /\ UNCHANGED <<job, confirmed, entry, parents, now, cut>>

Crash ==
    /\ mode # "down"
    /\ Spend("crashes")
    /\ mode' = "down"
    /\ sweep' = Idle
    /\ job' = [e \in Events |->
                 IF job[e] \in Saving \cup Updating THEN "lost" ELSE job[e]]
    /\ UNCHANGED <<confirmed, entry, parents, now, cut>>

\* A save that holds a staging directory goes on within MaxStall.
Tick ==
    /\ now < MaxTime
    /\ \A e \in Events :
          job[e] \in Saving \ {"allocate"} => now < entry[e].mtime + MaxStall
    /\ now' = now + 1
    /\ UNCHANGED <<job, confirmed, entry, parents, sweep, mode, budget, cut>>

CallStep(e) ==
    \/ Allocate(e) \/ WriteFile(e) \/ Publish(e) \/ SaveFails(e)
    \/ UpdateWrites(e) \/ UpdateReplaces(e) \/ UpdateFails(e)

SweepStep ==
    \/ \E e \in Events :
          \/ ReclaimStaging(e) \/ ReclaimAlarmFile(e) \/ KeepTemporary(e)
          \/ RemoveExpired(e) \/ SkipInGrace(e) \/ RemoveOldest(e)
    \/ CheckPressure \/ EndSweep
    \/ \E file \in Evidence \cup {"alarm_tmp"} : Unlink(file)
    \/ RemoveDirectory \/ RemovalFails

Next ==
    \/ \E e \in Events : Prepare(e) \/ CallStep(e)
    \/ Boot \/ Maintain \/ SweepStep \/ Crash \/ Tick

Spec == Init /\ [][Next]_vars

\* The process is restarted, passes keep being started and come to an end, and
\* time goes on.
FairSpec ==
    /\ Spec
    /\ WF_vars(Boot) /\ WF_vars(Maintain) /\ WF_vars(SweepStep) /\ WF_vars(Tick)
    /\ \A e \in Events : WF_vars(CallStep(e))

-----------------------------------------------------------------------------
TypeOK ==
    /\ job \in [Events -> {"new", "save_failed", "done", "update_failed", "lost"}
                            \cup Saving \cup Updating]
    /\ confirmed \in [Events -> 0 .. MaxTime]
    /\ entry \in [Events -> [state : {"absent", "staging", "final"},
                              files : SUBSET (Evidence \cup {"alarm_tmp"}),
                              mtime : 0 .. MaxTime]]
    /\ parents \subseteq 0 .. MaxTime
    /\ \A e \in Events : entry[e].state # "absent" => DayOf(e) \in parents
    /\ sweep.at \in {"idle", "temporary", "pressure"}
    /\ sweep.victim \in Events \cup {NoEvent}
    /\ mode \in {"down", "booting", "serving"}
    /\ now \in 0 .. MaxTime
    /\ cut \subseteq Events

\* A directory under its final name holds all three files until its removal has
\* begun, through crashes, failing writes and passes that run beside the save.
FinalIsComplete ==
    \A e \in Events :
        entry[e].state = "final" /\ e \notin cut => Evidence \subseteq entry[e].files

\* To a reader of final names (README.md:276: a directory is renamed when it is done)
\* evidence appears whole, stays whole and goes for good when due, as in a store
\* without crashes, failures, leftovers or threads.
Stamps == [e \in {f \in Events : job[f] # "new"} |-> confirmed[e]]
Contents == {"directory"} \cup Evidence
Found(e) == IF entry[e].state = "final" /\ e \notin cut
            THEN {"directory"} \cup (entry[e].files \cap Evidence) ELSE {}

Vault == INSTANCE EvidenceVault
    WITH stamp <- Stamps, seen <- [e \in Events |-> Found(e)], gone <- cut

ImplementsVault == Vault!Spec

\* Once it has its staging directory a save fails only when the disk does: no
\* pass takes the directory of a save that is still writing.
StagedSaveSucceeds ==
    [][\A e \in Events :
          job[e] \in Saving \ {"allocate"} /\ job'[e] = "save_failed"
          => budget' # budget]_vars

\* "protects events just saved" (README.md): the alarm status of an event is not
\* lost to capacity cleanup within the grace period.
UpdateWithinGrace ==
    [][\A e \in Events :
          job[e] \in Updating /\ job'[e] = "update_failed" /\ budget' = budget
          => Expired(e, now) \/ confirmed[e] + Grace <= now]_vars

\* Capacity cleanup never takes an event while the target is met, nor before an
\* older complete one that is past its grace period.
PressureTakesOldest ==
    [][\A e \in cut' \ cut :
          sweep.at = "pressure" =>
             /\ Used > Target \/ budget.faults < MaxFaults
             /\ \A f \in Events \ cut :
                   Complete(f) /\ confirmed[f] < confirmed[e] => InGrace(f)]_vars

\* A pass that ends leaves no staging directory, no temporary alarm file and no
\* complete expired event that was stale when it began (MaxStall + 1: renamed before
\* the listing), however saves, updates and earlier passes were cut off or failed;
\* but for those whose removal the disk refused in this very pass.  What an earlier
\* removal left half-removed under a final name is none of the three.
Untouched(e, age) == entry[e].mtime + age <= sweep.started

Reclaimable(e) ==
    \/ entry[e].state = "staging" /\ Untouched(e, TmpMaxAge)
    \/ "alarm_tmp" \in entry[e].files /\ Untouched(e, TmpMaxAge)
    \/ /\ Complete(e) /\ Day(sweep.started) - DayOf(e) >= RetentionDays
       /\ Untouched(e, MaxStall + 1)

PassReclaims ==
    [][sweep.at # "idle" /\ sweep'.at = "idle" /\ mode' = "serving"
       => \A e \in Events \ sweep.refused : ~Reclaimable(e)]_vars

\* README.md on evidence: "each image the LLM confirms is saved".  A save fails
\* only when the disk does.
ConfirmedIsSaved ==
    [][\A e \in Events :
          job[e] \in Saving /\ job'[e] = "save_failed" => budget' # budget]_vars

\* storage.py, "crash-safe ... retention": what has its final name goes once its
\* day has passed.
ExpiredReclaimed ==
    \A e \in Events :
        entry[e].state = "final" /\ job[e] \notin Updating /\ Expired(e, now)
        ~> entry[e].state = "absent"
=============================================================================
