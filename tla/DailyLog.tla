------------------------------ MODULE DailyLog ------------------------------
(***************************************************************************)
(* DailyLogHandler and configured_logging (src/app/logging_setup.py):      *)
(* threads that log and the log-retention thread share one handler under   *)
(* its RLock.  Midnight may fall between any two of their statements, and  *)
(* the day is read anew by each.  Only files named pipeline-<day>.log are  *)
(* modelled, a file by its day.                                            *)
(***************************************************************************)
EXTENDS Naturals

CONSTANTS
    Loggers,    \* threads that log
    Cleaner,    \* the log-retention thread
    Free,       \* nobody holds the lock of the handler
    Retention,  \* log_retention_days
    MaxDay,     \* bound on the clock
    MaxFaults   \* bound on file operations that fail

Threads == Loggers \cup {Cleaner}

ASSUME LogAssumption ==
    /\ Cleaner \notin Loggers /\ Free \notin Threads
    /\ Retention \in Nat \ {0} /\ MaxDay \in Nat /\ MaxFaults \in Nat

VARIABLES
    today,    \* beijing_today()
    main,     \* configured_logging(): "off", "on", "joining", "restored", "closed"
    thread,   \* thread -> its statement, and the day of the record it logs
    lock,     \* the handler's RLock
    day,      \* self.day, which is also the day of self.baseFilename
    open,     \* self.stream is not None
    files,    \* the days that have a file
    records,  \* history: the records written, by day of creation and of their file
    faults    \* faults left

vars == <<today, main, thread, lock, day, open, files, records, faults>>

At(t) == thread[t].at
Go(t, at) == thread' = [thread EXCEPT ![t].at = at]
NewThread(t) == [at |-> IF t = Cleaner THEN "sleep" ELSE "idle", created |-> 0]
Rest(t) == thread' = [thread EXCEPT ![t] = NewThread(t)]

Init ==
    /\ today \in 0 .. MaxDay
    /\ main = "off"
    /\ thread = [t \in Threads |-> NewThread(t)]
    /\ lock = Free
    /\ day = 0 /\ open = FALSE
    /\ files \in SUBSET (0 .. today)
    /\ records = {[created |-> d, file |-> d] : d \in files}
    /\ faults = MaxFaults

-----------------------------------------------------------------------------
\* day < today - (retention_days - 1)
ExpiredEarly(d) == d + Retention <= today + 1
Expired(d) == d + Retention <= today
Kept == {d \in files : ~Expired(d)}

Prune == files' = Kept /\ UNCHANGED faults

\* An unlink() raises; files that came before it are gone.
PruneRaises ==
    /\ faults > 0 /\ faults' = faults - 1
    /\ \E F \in SUBSET files : Kept \subseteq F /\ files' = F

\* DailyLogHandler(), and the cleanup thread is started.
Start ==
    /\ main = "off"
    /\ main' = "on"
    /\ day' = today /\ open' = TRUE
    /\ files' = Kept \cup {today}
    /\ UNCHANGED <<today, thread, lock, records, faults>>

StartRaises ==
    /\ main = "off" /\ PruneRaises
    /\ UNCHANGED <<today, main, thread, lock, day, open, records>>

\* A record is created and comes to handle(), as long as root has our handlers.
Log(t) ==
    /\ At(t) = "idle" /\ main \in {"on", "joining"}
    /\ thread' = [thread EXCEPT ![t] = [at |-> "handle", created |-> today]]
    /\ UNCHANGED <<today, main, lock, day, open, files, records, faults>>

EmitReopening(t) ==
    /\ At(t) = "handle" /\ lock = Free
    /\ lock' = t /\ Go(t, IF today = day THEN "write" ELSE "roll")
    /\ UNCHANGED <<today, main, day, open, files, records, faults>>

\* handle() takes the lock; emit() returns at once, or looks at the day.
Emit(t) ==
    /\ At(t) = "handle" /\ lock = Free
    /\ IF main = "closed"
       THEN Rest(t) /\ UNCHANGED lock
       ELSE lock' = t /\ Go(t, IF today = day THEN "write" ELSE "roll")
    /\ UNCHANGED <<today, main, day, open, files, records, faults>>

\* The file is changed in maintain().
Switch == day' = today /\ open' = (open /\ today = day)

RollKeepingLock(t) ==
    /\ At(t) = "roll"
    /\ Switch
    /\ \/ Prune /\ Go(t, "write")
       \/ PruneRaises /\ Rest(t)
    /\ UNCHANGED <<today, main, lock, records>>

\* maintain() called by emit(), which holds the lock already.
Roll(t) ==
    /\ At(t) = "roll"
    /\ Switch
    /\ \/ Prune /\ Go(t, "write") /\ UNCHANGED lock
       \/ PruneRaises /\ Rest(t) /\ lock' = Free
    /\ UNCHANGED <<today, main, records>>

\* FileHandler.emit() opens the file when there is no stream, and appends to it.
Write(t) ==
    /\ At(t) = "write"
    /\ open' = TRUE
    /\ files' = IF open THEN files ELSE files \cup {day}
    /\ records' = records \cup {[created |-> thread[t].created, file |-> day]}
    /\ Rest(t) /\ lock' = Free
    /\ UNCHANGED <<today, main, day, faults>>

\* handleError(): the record is lost and nothing else is.
WriteRaises(t) ==
    /\ At(t) = "write" /\ faults > 0
    /\ faults' = faults - 1
    /\ Rest(t) /\ lock' = Free
    /\ UNCHANGED <<today, main, day, open, files, records>>

WakesAlways ==
    /\ At(Cleaner) = "sleep" /\ main \in {"on", "joining"}
    /\ Go(Cleaner, "maintain")
    /\ UNCHANGED <<today, main, lock, day, open, files, records, faults>>

\* stopped.wait() ends.
Wakes ==
    /\ At(Cleaner) = "sleep" /\ main \in {"on", "joining"}
    /\ Go(Cleaner, IF main = "on" THEN "maintain" ELSE "ended")
    /\ UNCHANGED <<today, main, lock, day, open, files, records, faults>>

MaintainUncaught ==
    /\ At(Cleaner) = "maintain" /\ lock = Free
    /\ Switch
    /\ \/ Prune /\ Rest(Cleaner)
       \/ PruneRaises /\ Go(Cleaner, "ended")
    /\ UNCHANGED <<today, main, lock, records>>

\* maintain() by the cleanup thread, which logs what it removed or why it failed.
Maintain ==
    /\ At(Cleaner) = "maintain" /\ lock = Free
    /\ Switch
    /\ Prune \/ PruneRaises
    /\ thread' = [thread EXCEPT ![Cleaner] =
                    IF files' = files /\ faults' = faults THEN NewThread(Cleaner)
                    ELSE [at |-> "handle", created |-> today]]
    /\ UNCHANGED <<today, main, lock, records>>

\* The finally of configured_logging().
StopAndJoin ==
    /\ \/ main = "on" /\ main' = "joining"
       \/ main = "joining" /\ At(Cleaner) = "ended" /\ main' = "restored"
    /\ UNCHANGED <<today, thread, lock, day, open, files, records, faults>>

Close ==
    /\ main = "restored" /\ lock = Free
    /\ main' = "closed" /\ open' = FALSE
    /\ UNCHANGED <<today, thread, lock, day, files, records, faults>>

\* The process dies, or ends; the files stay for the next one.
Exit ==
    /\ main # "off" /\ main' = "off"
    /\ thread' = [t \in Threads |-> NewThread(t)]
    /\ lock' = Free /\ open' = FALSE /\ day' = 0
    /\ UNCHANGED <<today, files, records, faults>>

Midnight ==
    /\ today < MaxDay /\ today' = today + 1
    /\ UNCHANGED <<main, thread, lock, day, open, files, records, faults>>

ThreadStep(t) == Emit(t) \/ Roll(t) \/ Write(t) \/ WriteRaises(t)

Next ==
    \/ \E t \in Threads : ThreadStep(t)
    \/ \E t \in Loggers : Log(t)
    \/ Wakes \/ Maintain \/ StopAndJoin \/ Close
    \/ Start \/ StartRaises \/ Exit \/ Midnight

\* Threads go on; a lock that is free again and again is got some time.
Spec ==
    /\ Init /\ [][Next]_vars
    /\ \A t \in Threads : SF_vars(ThreadStep(t))
    /\ WF_vars(Wakes) /\ SF_vars(Maintain) /\ WF_vars(StopAndJoin /\ main # "on")
    /\ SF_vars(Close)

-----------------------------------------------------------------------------
TypeOK ==
    /\ today \in 0 .. MaxDay /\ day \in 0 .. today
    /\ main \in {"off", "on", "joining", "restored", "closed"}
    /\ thread \in [Threads -> [at : {"idle", "sleep", "handle", "roll", "write",
                                     "maintain", "ended"}, created : 0 .. MaxDay]]
    /\ lock \in Threads \cup {Free}
    /\ \A t \in Threads : At(t) \in {"roll", "write"} <=> lock = t
    /\ open \in BOOLEAN
    /\ files \subseteq 0 .. today
    /\ records \subseteq [created : 0 .. today, file : 0 .. today]
    /\ faults \in 0 .. MaxFaults

\* README.md, "the logs of the day and of the N-1 days before it are kept": every
\* record written is in a file as long as its own day is among these, although its
\* thread, the roll-over and the pruning may see different days, and what is open is
\* never a deleted file.
RecentKept ==
    /\ \A r \in records : r.created + Retention > today => r.file \in files
    /\ open => day \in files

\* Once closed the handler opens no file again, though threads that were waiting
\* for its lock still come to emit().
ClosedForGood == main = "closed" => ~open

\* README.md, "the logs of the day and of the N-1 days before it are kept", for whoever
\* reads the directory, over restarts: records come one at a time, a new one brings no
\* deleted ones back, each stays until its day has expired, and close() ends the writing.
Shown == {r \in records : r.file \in files}
InUse == main \in {"on", "joining", "restored"}

Journal == INSTANCE LogJournal WITH shown <- Shown, active <- InUse

ImplementsJournal == Journal!Spec

\* README.md, "also without uploads": a file past the retention goes while the
\* service runs and its files can be deleted.
ExpiredGo ==
    \A d \in 0 .. MaxDay :
        d \in files /\ Expired(d) ~> d \notin files \/ main # "on"

\* The lifespan ends: the cleanup thread is joined and the handler closed.
ShutdownEnds == main = "joining" ~> main \in {"closed", "off"}
=============================================================================
