--------------------------- MODULE DailyLogProofs ---------------------------
(***************************************************************************)
(* Theorems about DailyLog, for any threads, retention and number of days  *)
(* and faults.                                                             *)
(***************************************************************************)
EXTENDS DailyLog, TLAPS

Stages == {"idle", "sleep", "handle", "roll", "write", "maintain", "ended"}

\* The threads: who holds the lock is inside emit(), and no thread writes a record to
\* a file of a day before its own, for it compared the days or rolled over.
ThreadsOK ==
    /\ thread \in [Threads -> [at : Stages, created : 0 .. MaxDay]]
    /\ lock \in Threads \cup {Free}
    /\ \A t \in Threads : /\ thread[t].at \in {"roll", "write"} <=> lock = t
                          /\ thread[t].created <= today
                          /\ thread[t].at = "write" => thread[t].created <= day

\* The handler is open only between its construction and close(), and nobody is
\* inside emit() before and afterwards.
MainOK ==
    /\ main \in {"off", "on", "joining", "restored", "closed"}
    /\ open \in BOOLEAN
    /\ main \in {"off", "closed"} => ~open /\ lock = Free
    /\ main = "off" => \A t \in Threads : thread[t].at \in {"idle", "sleep"}

FilesOK ==
    /\ today \in 0 .. MaxDay /\ day \in 0 .. today
    /\ faults \in 0 .. MaxFaults
    /\ files \subseteq 0 .. today
    /\ records \subseteq [created : 0 .. today, file : 0 .. today]
    /\ \A r \in records : r.created <= r.file
    /\ RecentKept

IInv == ThreadsOK /\ MainOK /\ FilesOK

USE LogAssumption DEF LogAssumption

-----------------------------------------------------------------------------
LEMMA NewThreads ==
  ASSUME NEW t \in Threads, MaxDay \in Nat
  PROVE  NewThread(t) \in [at : {"idle", "sleep"}, created : {0}]
  BY DEF NewThread

LEMMA InitHolds == Init => IInv
<1> SUFFICES ASSUME Init PROVE IInv
  OBVIOUS
<1>1. ThreadsOK
  <2>1. \A t \in Threads : thread[t] \in [at : {"idle", "sleep"}, created : {0}]
    BY NewThreads DEF Init
  <2>2. thread \in [Threads -> [at : Stages, created : 0 .. MaxDay]]
    BY <2>1 DEF Init, Stages
  <2>3. today \in Nat /\ lock = Free
    BY DEF Init
  <2> QED
    BY <2>1, <2>2, <2>3 DEF ThreadsOK, Stages
<1>2. MainOK
  BY NewThreads DEF Init, MainOK
<1>3. FilesOK
  <2>1. files \subseteq 0 .. today /\ today \in 0 .. MaxDay
    BY DEF Init
  <2>2. \A r \in records : r \in [created : 0 .. today, file : 0 .. today]
                          /\ r.created = r.file /\ r.file \in files
    BY <2>1 DEF Init
  <2> QED
    BY <2>1, <2>2 DEF Init, FilesOK, RecentKept
<1> QED
  BY <1>1, <1>2, <1>3 DEF IInv

-----------------------------------------------------------------------------
\* A thread goes to another statement and keeps or gives back the lock it had.
LEMMA ThreadMoves ==
  ASSUME ThreadsOK, NEW t \in Threads, NEW x \in [at : Stages, created : 0 .. MaxDay],
         thread' = [thread EXCEPT ![t] = x],
         today \in Nat, day \in Nat, today' \in Nat, day' \in Nat, today <= today', day <= day',
         x.created <= today', x.at = "write" => x.created <= day',
         lock' \in {Free, t, lock},
         x.at \in {"roll", "write"} <=> lock' = t,
         lock \notin {Free, t} => lock' = lock
  PROVE  ThreadsOK'
<1>1. \A u \in Threads : thread'[u] = IF u = t THEN x ELSE thread[u]
  BY DEF ThreadsOK
<1>2. thread' \in [Threads -> [at : Stages, created : 0 .. MaxDay]]
  BY DEF ThreadsOK
<1>3. ASSUME NEW u \in Threads
      PROVE  /\ thread'[u].at \in {"roll", "write"} <=> lock' = u
             /\ thread'[u].created <= today'
             /\ thread'[u].at = "write" => thread'[u].created <= day'
  <2>1. CASE u = t
    BY <1>1, <2>1
  <2>2. CASE u # t
    <3>1. thread'[u] = thread[u] /\ thread[u].created \in Nat
      BY <1>1, <2>2 DEF ThreadsOK
    <3>2. lock = u <=> lock' = u
      BY <2>2
    <3> QED
      BY <3>1, <3>2 DEF ThreadsOK
  <2> QED
    BY <2>1, <2>2
<1> QED
  BY <1>2, <1>3 DEF ThreadsOK

LEMMA Gone ==
  ASSUME ThreadsOK, NEW t \in Threads, NEW at \in Stages, Go(t, at)
  PROVE  thread' = [thread EXCEPT ![t] = [at |-> at, created |-> thread[t].created]]
<1>1. thread[t] \in [at : Stages, created : 0 .. MaxDay]
  BY DEF ThreadsOK
<1>2. [thread[t] EXCEPT !.at = at] = [at |-> at, created |-> thread[t].created]
  BY <1>1
<1> QED
  BY <1>2 DEF ThreadsOK, Go

LEMMA Goes ==
  ASSUME ThreadsOK, NEW t \in Threads, NEW at \in Stages, Go(t, at),
         today \in Nat, day \in Nat, day' \in Nat, today' = today, day <= day',
         at = "write" => thread[t].created <= day',
         at \in {"roll", "write"} <=> lock' = t,
         lock' \in {Free, t, lock}, lock \notin {Free, t} => lock' = lock
  PROVE  ThreadsOK'
<1> DEFINE x == [at |-> at, created |-> thread[t].created]
<1>1. thread' = [thread EXCEPT ![t] = x]
  BY Gone
<1>2. x \in [at : Stages, created : 0 .. MaxDay] /\ x.created <= today' /\ x.at = at
      /\ x.created = thread[t].created
  BY DEF ThreadsOK
<1> HIDE DEF x
<1>3. /\ x.at = "write" => x.created <= day'
      /\ x.at \in {"roll", "write"} <=> lock' = t
      /\ today' \in Nat /\ today <= today'
  BY <1>2
<1> QED
  BY <1>1, <1>2, <1>3, ThreadMoves

LEMMA Rests ==
  ASSUME ThreadsOK, NEW t \in Threads, Rest(t),
         today \in Nat, day \in Nat, day' \in Nat, today' = today, day <= day',
         lock' \in {Free, lock}, lock' # t, lock \notin {Free, t} => lock' = lock
  PROVE  ThreadsOK'
<1> DEFINE x == NewThread(t)
<1>1. thread' = [thread EXCEPT ![t] = x]
  BY DEF Rest
<1>2. x \in [at : {"idle", "sleep"}, created : {0}]
  BY NewThreads
<1> HIDE DEF x
<1>3. x \in [at : Stages, created : 0 .. MaxDay] /\ x.created <= today'
      /\ x.at \notin {"roll", "write"}
  BY <1>2 DEF Stages
<1>4. /\ x.at = "write" => x.created <= day'
      /\ x.at \in {"roll", "write"} <=> lock' = t
      /\ today' \in Nat /\ today <= today'
  BY <1>3
<1> QED
  BY <1>1, <1>3, <1>4, ThreadMoves

\* Nothing happens to the threads while time or the file goes on.
LEMMA ThreadsStay ==
  ASSUME ThreadsOK, UNCHANGED <<thread, lock>>,
         today \in Nat, day \in Nat, today' \in Nat, day' \in Nat, today <= today',
         day <= day' \/ lock = Free
  PROVE  ThreadsOK'
<1>1. ASSUME NEW u \in Threads
      PROVE  /\ thread[u].created <= today'
             /\ thread[u].at = "write" => thread[u].created <= day'
  <2>1. thread[u].created \in Nat
    BY DEF ThreadsOK
  <2> QED
    BY <2>1 DEF ThreadsOK
<1> QED
  BY <1>1 DEF ThreadsOK

-----------------------------------------------------------------------------
\* Pruning, whole or cut off, spares the files that still count.
LEMMA PruningSpares ==
  ASSUME faults \in 0 .. MaxFaults, Prune \/ PruneRaises
  PROVE  /\ files' \subseteq files /\ Kept \subseteq files'
         /\ faults' \in 0 .. MaxFaults
<1>1. Kept \subseteq files
  BY DEF Kept
<1>2. CASE Prune
  BY <1>1, <1>2 DEF Prune
<1>3. CASE PruneRaises
  BY <1>3 DEF PruneRaises
<1> QED
  BY <1>2, <1>3

\* Pruning keeps what is recent, and the file that is open if it is of today.
LEMMA FilesPruned ==
  ASSUME FilesOK, Prune \/ PruneRaises, UNCHANGED <<today, records>>,
         day' \in 0 .. today, open' => open /\ day = today /\ day' = today
  PROVE  FilesOK'
<1>1. files' \subseteq files /\ Kept \subseteq files' /\ faults' \in 0 .. MaxFaults
  BY PruningSpares DEF FilesOK
<1>2. ASSUME NEW r \in records, r.created + Retention > today PROVE r.file \in files'
  <2>1. r.created \in Nat /\ r.file \in Nat /\ r.created <= r.file /\ r.file \in files
    BY <1>2 DEF FilesOK, RecentKept
  <2>2. today \in Nat
    BY DEF FilesOK
  <2> QED
    BY <1>1, <1>2, <2>1, <2>2 DEF Kept, Expired
<1>3. ASSUME open' PROVE day' \in files'
  <2>1. today \in Nat /\ today \in files
    BY <1>3 DEF FilesOK, RecentKept
  <2>2. ~Expired(today)
    BY <2>1 DEF Expired
  <2> QED
    BY <1>1, <1>3, <2>1, <2>2 DEF Kept
<1> QED
  BY <1>1, <1>2, <1>3 DEF FilesOK, RecentKept

LEMMA FilesStay ==
  ASSUME FilesOK, UNCHANGED <<files, records, day>>, open' => open,
         today' \in 0 .. MaxDay, today <= today', faults' \in 0 .. MaxFaults
  PROVE  FilesOK'
<1>1. today \in Nat /\ today' \in Nat /\ day \in 0 .. today' /\ files \subseteq 0 .. today'
  BY DEF FilesOK
<1>2. records \subseteq [created : 0 .. today', file : 0 .. today']
  BY <1>1 DEF FilesOK
<1>3. ASSUME NEW r \in records, r.created + Retention > today' PROVE r.file \in files
  <2>1. r.created \in Nat
    BY DEF FilesOK
  <2> QED
    BY <1>1, <1>3, <2>1 DEF FilesOK, RecentKept
<1> QED
  BY <1>1, <1>2, <1>3 DEF FilesOK, RecentKept

-----------------------------------------------------------------------------
\* What a step of the threads leaves to show of the rest.
Sized == /\ today \in Nat /\ day \in Nat /\ today <= MaxDay /\ day <= today
         /\ MaxDay \in Nat /\ \A t \in Threads : thread[t] \in [at : Stages, created : Nat]

LEMMA IInvSized == IInv => Sized
  BY DEF IInv, Sized, FilesOK, ThreadsOK

LEMMA LogKeeps ==
  ASSUME IInv, NEW t \in Loggers, Log(t) PROVE IInv'
<1>1. ThreadsOK'
  <2>1. t \in Threads /\ lock # t
    BY DEF Threads, IInv, ThreadsOK, Log, At
  <2>2. [at |-> "handle", created |-> today] \in [at : Stages, created : 0 .. MaxDay]
    BY IInvSized DEF Sized, Stages
  <2> DEFINE x == [at |-> "handle", created |-> today]
  <2>3. thread' = [thread EXCEPT ![t] = x]
    BY DEF Log
  <2>4. UNCHANGED <<today, day, lock>>
    BY DEF Log
  <2>5. today \in Nat /\ day \in Nat /\ x.created <= today' /\ today <= today' /\ day <= day'
    BY <2>4, IInvSized DEF Sized
  <2>6. x.at \notin {"roll", "write"} /\ lock' # t
    BY <2>1, <2>4
  <2>7. x \in [at : Stages, created : 0 .. MaxDay]
    BY <2>2
  <2> HIDE DEF x
  <2> QED
    BY <2>1, <2>3, <2>4, <2>5, <2>6, <2>7, ThreadMoves DEF IInv
<1>2. FilesOK'
  BY FilesStay DEF IInv, Log, FilesOK
<1> QED
  BY <1>1, <1>2 DEF IInv, MainOK, Log

LEMMA EmitKeeps ==
  ASSUME IInv, NEW t \in Threads, Emit(t) PROVE IInv'
<1>1. ThreadsOK'
  <2>1. lock = Free /\ UNCHANGED <<today, day>> /\ day <= day'
    BY IInvSized DEF Emit, Sized
  <2>2. CASE main = "closed"
    BY <2>1, <2>2, IInvSized, Rests DEF IInv, Emit, Sized
  <2>3. CASE main # "closed"
    <3> DEFINE at == IF today = day THEN "write" ELSE "roll"
    <3>1. at \in Stages /\ at \in {"roll", "write"} /\ Go(t, at) /\ lock' = t
      BY <2>3 DEF Emit, Stages
    <3>2. at = "write" => thread[t].created <= day'
      BY <2>1 DEF IInv, ThreadsOK
    <3> HIDE DEF at
    <3> QED
      BY <2>1, <3>1, <3>2, IInvSized, Goes DEF IInv, Sized
  <2> QED
    BY <2>2, <2>3
<1>2. FilesOK'
  BY FilesStay DEF IInv, Emit, FilesOK
<1>3. main # "off"
  BY DEF IInv, MainOK, Emit, At
<1> QED
  BY <1>1, <1>2, <1>3 DEF IInv, MainOK, Emit

LEMMA RollKeeps ==
  ASSUME IInv, NEW t \in Threads, Roll(t) PROVE IInv'
<1>1. /\ lock = t /\ main # "closed" /\ day' = today
      /\ UNCHANGED <<today, records, main>> /\ open' = (open /\ today = day)
  BY DEF IInv, ThreadsOK, MainOK, Roll, Switch, At
<1>2. ThreadsOK'
  <2>1. thread[t].created <= day' /\ day <= day' /\ day' \in Nat
    BY <1>1, IInvSized DEF IInv, ThreadsOK, Sized
  <2>2. CASE Go(t, "write") /\ UNCHANGED lock
    <3>1. "write" \in Stages
      BY DEF Stages
    <3> QED
      BY <1>1, <2>1, <2>2, <3>1, IInvSized, Goes DEF IInv, Sized
  <2>3. CASE Rest(t) /\ lock' = Free
    BY <1>1, <2>1, <2>3, IInvSized, Rests DEF IInv, Sized
  <2> QED
    BY <2>2, <2>3 DEF Roll
<1>3. FilesOK'
  <2>1. Prune \/ PruneRaises
    BY DEF Roll
  <2>2. day' \in 0 .. today
    BY <1>1, IInvSized DEF Sized
  <2>3. open' => open /\ day = today /\ day' = today
    BY <1>1
  <2> QED
    BY <1>1, <2>1, <2>2, <2>3, FilesPruned DEF IInv
<1> QED
  BY <1>1, <1>2, <1>3 DEF IInv, MainOK, ThreadsOK

LEMMA WriteKeeps ==
  ASSUME IInv, NEW t \in Threads, Write(t) \/ WriteRaises(t) PROVE IInv'
<1>1. /\ lock = t /\ main \notin {"off", "closed"}
      /\ UNCHANGED <<today, day, main>>
      /\ lock' = Free /\ Rest(t) /\ thread[t].at = "write"
  BY DEF IInv, ThreadsOK, MainOK, Write, WriteRaises, At
<1>2. ThreadsOK'
  BY <1>1, IInvSized, Rests DEF IInv, Sized
<1>3. FilesOK'
  <2>1. CASE WriteRaises(t)
    BY <2>1, FilesStay DEF IInv, WriteRaises, FilesOK
  <2>2. CASE Write(t)
    <3>1. thread[t].created \in 0 .. day /\ day \in 0 .. today /\ today \in 0 .. MaxDay
      BY <1>1 DEF IInv, ThreadsOK, FilesOK
    <3>2. files' = files \cup {day}
      BY <2>2 DEF Write, IInv, FilesOK, RecentKept
    <3>3. faults' \in 0 .. MaxFaults /\ today' = today /\ day' = day
      BY <2>2 DEF Write, IInv, FilesOK
    <3>4. records' = records \cup {[created |-> thread[t].created, file |-> day]}
      BY <2>2 DEF Write
    <3>5. RecentKept'
      BY <3>1, <3>2, <3>3, <3>4 DEF IInv, FilesOK, RecentKept
    <3> DEFINE new == [created |-> thread[t].created, file |-> day]
    <3>6. new \in [created : 0 .. today, file : 0 .. today] /\ new.created <= new.file
      BY <3>1
    <3>7. records' = records \cup {new}
      BY <3>4
    <3> HIDE DEF new
    <3>8. /\ records' \subseteq [created : 0 .. today, file : 0 .. today]
          /\ \A r \in records' : r.created <= r.file
      BY <3>6, <3>7 DEF IInv, FilesOK
    <3>9. files' \subseteq 0 .. today
      BY <3>1, <3>2 DEF IInv, FilesOK
    <3> QED
      BY <3>1, <3>3, <3>5, <3>8, <3>9 DEF FilesOK
  <2> QED
    BY <2>1, <2>2
<1>4. MainOK'
  BY <1>1 DEF IInv, MainOK, Write, WriteRaises
<1> QED
  BY <1>2, <1>3, <1>4 DEF IInv

\* The retention thread.
LEMMA CleanerKeeps ==
  ASSUME IInv, Wakes \/ Maintain PROVE IInv'
<1>1. Cleaner \in Threads /\ main # "off" /\ lock # Cleaner
  <2>1. Cleaner \in Threads
    BY DEF Threads
  <2>2. thread[Cleaner].at \in {"sleep", "maintain"}
    BY DEF Wakes, Maintain, At
  <2>3. main = "off" => thread[Cleaner].at # "maintain"
    BY <2>1 DEF IInv, MainOK
  <2> QED
    BY <2>1, <2>2, <2>3 DEF IInv, ThreadsOK, Wakes, Maintain, At
<1>2. CASE Wakes
  <2>1. ThreadsOK'
    <3> DEFINE at == IF main = "on" THEN "maintain" ELSE "ended"
    <3>1. at \in Stages /\ at \notin {"roll", "write"} /\ Go(Cleaner, at)
      BY <1>2 DEF Wakes, Stages
    <3> HIDE DEF at
    <3>2. UNCHANGED <<today, day, lock>> /\ day <= day'
      BY <1>2, IInvSized DEF Wakes, Sized
    <3> QED
      BY <1>1, <3>1, <3>2, IInvSized, Goes DEF IInv, Sized
  <2>2. FilesOK'
    BY <1>2, FilesStay DEF IInv, Wakes, FilesOK
  <2> QED
    BY <1>1, <1>2, <2>1, <2>2 DEF IInv, MainOK, Wakes
<1>3. CASE Maintain
  <2>1. /\ lock = Free /\ lock' = Free /\ day' = today /\ open' = (open /\ today = day)
        /\ UNCHANGED <<today, main, records>>
    BY <1>3 DEF Maintain, Switch
  <2>2. day' \in Nat /\ day <= day' /\ day' \in 0 .. today
    BY <2>1, IInvSized DEF Sized
  <2>3. ThreadsOK'
    <3>1. CASE Rest(Cleaner)
      BY <1>1, <2>1, <2>2, <3>1, IInvSized, Rests DEF IInv, Sized
    <3>2. CASE thread' = [thread EXCEPT ![Cleaner] = [at |-> "handle", created |-> today]]
      <4> DEFINE x == [at |-> "handle", created |-> today]
      <4>1. thread' = [thread EXCEPT ![Cleaner] = x]
        BY <3>2
      <4>2. x \in [at : Stages, created : 0 .. MaxDay]
        BY IInvSized DEF Sized, Stages
      <4>3. x.at = "handle" /\ x.created <= today'
        BY <2>1, IInvSized DEF Sized
      <4> HIDE DEF x
      <4>4. (x.at \in {"roll", "write"} <=> lock' = Cleaner) /\ today' \in Nat /\ today <= today'
        BY <1>1, <2>1, <4>3, IInvSized DEF Sized
      <4> QED
        BY <1>1, <2>1, <2>2, <4>1, <4>2, <4>3, <4>4, IInvSized, ThreadMoves DEF IInv, Sized
    <3> QED
      BY <1>3, <3>1, <3>2 DEF Maintain, Rest
  <2>4. FilesOK'
    <3>1. Prune \/ PruneRaises
      BY <1>3 DEF Maintain
    <3>2. open' => open /\ day = today /\ day' = today
      BY <2>1
    <3> QED
      BY <2>1, <2>2, <3>1, <3>2, FilesPruned DEF IInv
  <2> QED
    BY <1>1, <2>1, <2>3, <2>4 DEF IInv, MainOK
<1> QED
  BY <1>2, <1>3

LEMMA MainKeeps ==
  ASSUME IInv, StopAndJoin \/ Close \/ Midnight \/ UNCHANGED vars PROVE IInv'
<1>1. UNCHANGED <<thread, lock, day, files, records, faults>>
  BY DEF StopAndJoin, Close, Midnight, vars
<1>2. today' \in 0 .. MaxDay /\ today <= today' /\ today' \in Nat
  BY IInvSized DEF Sized, StopAndJoin, Close, Midnight, vars
<1>3. (open' = open \/ open' = FALSE) /\ (main' = "off" => main = "off")
      /\ (main' = "closed" => (main = "closed" /\ open' = open) \/ (open' = FALSE /\ lock = Free))
      /\ (main' = "off" => open' = open)
      /\ main' \in {main, "joining", "restored", "closed"}
  BY DEF StopAndJoin, Close, Midnight, vars
<1>4. ThreadsOK'
  BY <1>1, <1>2, IInvSized, ThreadsStay DEF IInv, Sized
<1>5. FilesOK'
  BY <1>1, <1>2, <1>3, FilesStay DEF IInv, FilesOK
<1>6. MainOK'
  <2>1. open' \in BOOLEAN
    BY <1>3 DEF IInv, MainOK
  <2>2. main' \in {"off", "on", "joining", "restored", "closed"}
    BY <1>3 DEF IInv, MainOK
  <2>3. CASE main' = "off"
    BY <1>1, <1>3, <2>1, <2>2, <2>3 DEF IInv, MainOK
  <2>4. CASE main' = "closed"
    BY <1>1, <1>3, <2>1, <2>2, <2>4 DEF IInv, MainOK
  <2> QED
    BY <2>1, <2>2, <2>3, <2>4 DEF MainOK
<1> QED
  BY <1>4, <1>5, <1>6 DEF IInv

LEMMA ProcessKeeps ==
  ASSUME IInv, Start \/ StartRaises \/ Exit PROVE IInv'
<1>1. CASE Start
  <2>1. ~open /\ lock = Free /\ \A t \in Threads : thread[t].at \in {"idle", "sleep"}
    BY <1>1 DEF IInv, MainOK, Start
  <2>2. ThreadsOK'
    BY <1>1, <2>1, IInvSized, ThreadsStay DEF IInv, Sized, Start
  <2>3. Kept \subseteq files
    BY DEF Kept
  <2>4. ASSUME NEW r \in records, r.created + Retention > today PROVE r.file \in Kept
    <3>1. r.created \in Nat /\ r.file \in Nat /\ r.created <= r.file /\ r.file \in files
      BY <2>4 DEF IInv, FilesOK, RecentKept
    <3> QED
      BY <2>4, <3>1, IInvSized DEF Kept, Expired, Sized
  <2>5. FilesOK'
    BY <1>1, <2>3, <2>4, IInvSized DEF IInv, FilesOK, RecentKept, Start, Sized
  <2> QED
    BY <1>1, <2>2, <2>5 DEF IInv, MainOK, Start
<1>2. CASE StartRaises
  <2>1. ThreadsOK'
    BY <1>2, IInvSized, ThreadsStay DEF IInv, Sized, StartRaises
  <2>2. FilesOK'
    BY <1>2, FilesPruned DEF IInv, FilesOK, MainOK, StartRaises
  <2> QED
    BY <1>2, <2>1, <2>2 DEF IInv, MainOK, StartRaises
<1>3. CASE Exit
  <2>1. \A t \in Threads : NewThread(t) \in [at : {"idle", "sleep"}, created : {0}]
    BY NewThreads
  <2>2. thread' \in [Threads -> [at : Stages, created : 0 .. MaxDay]]
    BY <1>3, <2>1 DEF Exit, Stages
  <2>3. \A t \in Threads : thread'[t].at \in {"idle", "sleep"} /\ thread'[t].created = 0
    BY <1>3, <2>1 DEF Exit
  <2>4. ThreadsOK'
    BY <1>3, <2>2, <2>3, IInvSized DEF ThreadsOK, Exit, Sized
  <2>5. FilesOK'
    BY <1>3, IInvSized DEF IInv, FilesOK, RecentKept, Exit, Sized
  <2> QED
    BY <1>3, <2>3, <2>4, <2>5 DEF IInv, MainOK, Exit
<1> QED
  BY <1>1, <1>2, <1>3

LEMMA StepKeeps == IInv /\ [Next]_vars => IInv'
<1> SUFFICES ASSUME IInv, [Next]_vars PROVE IInv'
  OBVIOUS
<1>1. CASE \E t \in Threads : ThreadStep(t)
  BY <1>1, EmitKeeps, RollKeeps, WriteKeeps DEF ThreadStep
<1>2. CASE \E t \in Loggers : Log(t)
  BY <1>2, LogKeeps
<1>3. CASE Wakes \/ Maintain
  BY <1>3, CleanerKeeps
<1>4. CASE StopAndJoin \/ Close \/ Midnight \/ UNCHANGED vars
  BY <1>4, MainKeeps
<1>5. CASE Start \/ StartRaises \/ Exit
  BY <1>5, ProcessKeeps
<1> QED
  BY <1>1, <1>2, <1>3, <1>4, <1>5 DEF Next

LEMMA AlwaysIInv == Spec => []IInv
  BY InitHolds, StepKeeps, PTL DEF Spec

-----------------------------------------------------------------------------
\* The log's state is well formed; in particular the lock is held by exactly the
\* thread inside emit().
THEOREM LogTypes == Spec => []TypeOK
<1>1. IInv => TypeOK
  BY DEF IInv, ThreadsOK, MainOK, FilesOK, TypeOK, At, Stages
<1> QED
  BY <1>1, AlwaysIInv, PTL

\* A record of a retained day is in a file, and the open file is never pruned,
\* wherever midnights fall and whatever fails.
THEOREM RecentLogsStay == Spec => []RecentKept
<1>1. IInv => RecentKept
  BY DEF IInv, FilesOK
<1> QED
  BY <1>1, AlwaysIInv, PTL

\* No thread that was late opens the file of a closed handler again.
THEOREM ClosedStaysClosed == Spec => []ClosedForGood
<1>1. IInv => ClosedForGood
  BY DEF IInv, MainOK, ClosedForGood
<1> QED
  BY <1>1, AlwaysIInv, PTL

-----------------------------------------------------------------------------
(* The handler implements the journal.  A file that has not expired is     *)
(* there, with all that was written to it, and so is the file a thread is  *)
(* about to open: nothing that was deleted is opened again.                *)

FreshKept == \A r \in records : ~Expired(r.file) => r.file \in files

OpensFresh ==
    \A t \in Threads : thread[t].at = "write" =>
        \A r \in records : r.file = day => day \in files

JInv == IInv /\ FreshKept /\ OpensFresh

LEMMA RecordDays ==
  ASSUME IInv
  PROVE  /\ today \in Nat /\ day \in Nat /\ day <= today
         /\ \A r \in records : r.file \in 0 .. today /\ r.file \in Nat
         /\ ~Expired(today)
<1>1. today \in Nat /\ day \in Nat /\ day <= today
  BY IInvSized DEF Sized
<1>2. \A r \in records : r.file \in 0 .. today
  BY DEF IInv, FilesOK
<1> QED
  BY <1>1, <1>2 DEF Expired

\* Pruning drops days of the journal that have expired.
LEMMA PruneDrops ==
  ASSUME IInv, FreshKept, Prune \/ PruneRaises, UNCHANGED <<today, records>>
  PROVE  /\ \E D \in SUBSET {d \in 0 .. today : Journal!Expired(d)} :
               Shown' = {r \in Shown : r.file \notin D}
         /\ FreshKept'
<1>1. files' \subseteq files /\ Kept \subseteq files'
  BY PruningSpares DEF IInv, FilesOK
<1> DEFINE D == files \ files'
<1>2. D \in SUBSET {d \in 0 .. today : Journal!Expired(d)}
  BY <1>1 DEF Kept, Expired, Journal!Expired, IInv, FilesOK
<1>3. Shown' = {r \in Shown : r.file \notin D}
  BY <1>1 DEF Shown
<1>4. FreshKept'
  BY <1>1 DEF FreshKept, Kept, Expired
<1> QED
  BY <1>2, <1>3, <1>4

\* Steps that touch neither files nor records, and bring no thread to write.
LEMMA Quiet ==
  ASSUME JInv, UNCHANGED <<files, records>>, today' \in Nat, today <= today',
         \A t \in Threads : thread'[t].at = "write" => thread[t].at = "write" /\ day' = day
  PROVE  Shown' = Shown /\ FreshKept' /\ OpensFresh'
<1>1. Shown' = Shown
  BY DEF Shown
<1>2. \A r \in records : Expired(r.file) => Expired(r.file)'
  BY RecordDays DEF JInv, Expired
<1>3. FreshKept'
  BY <1>2 DEF JInv, FreshKept, Expired
<1>4. OpensFresh'
  BY DEF JInv, OpensFresh
<1> QED
  BY <1>1, <1>3, <1>4

\* When the current file is that of today, what was written to it is there.
LEMMA TodayIsFresh ==
  ASSUME IInv', FreshKept', day' = today'
  PROVE  OpensFresh'
<1>1. today' \in Nat
  BY DEF IInv, FilesOK
<1>2. ASSUME NEW d \in Nat PROVE ~(d + Retention <= d)
  BY <1>2
<1>3. ASSUME NEW r \in records', r.file = day' PROVE r.file \in files'
  <2>1. ~(r.file + Retention <= today')
    BY <1>1, <1>2, <1>3
  <2> QED
    BY <2>1 DEF FreshKept, Expired
<1> QED
  BY <1>3 DEF OpensFresh

LEMMA WriterHolds ==
  ASSUME IInv, NEW t \in Threads, thread[t].at = "write" PROVE lock = t
  BY DEF IInv, ThreadsOK

LEMMA NobodyWrites ==
  /\ IInv /\ lock = Free => OpensFresh
  /\ IInv' /\ lock' = Free => OpensFresh'
  BY DEF IInv, ThreadsOK, OpensFresh

LEMMA EmitJournals ==
  ASSUME JInv, IInv', NEW t \in Threads, Emit(t)
  PROVE  Shown' = Shown /\ UNCHANGED <<today, InUse>> /\ FreshKept' /\ OpensFresh'
<1>1. UNCHANGED <<today, main, day, files, records>>
  BY DEF Emit
<1>2. Shown' = Shown /\ FreshKept' /\ UNCHANGED InUse
  BY <1>1 DEF JInv, Shown, FreshKept, Expired, InUse
<1>3. CASE today = day
  BY <1>1, <1>2, <1>3, TodayIsFresh
<1>4. CASE today # day
  <2>1. thread'[t].at # "write"
    BY <1>4, NewThreads DEF Emit, Go, Rest, JInv, IInv, ThreadsOK
  <2>2. \A u \in Threads : thread'[u].at = "write" => u = t
    <3>1. lock' \in {t, Free}
      BY DEF Emit
    <3> QED
      BY <3>1, WriterHolds DEF IInv, ThreadsOK
  <2> QED
    BY <1>1, <1>2, <2>1, <2>2 DEF OpensFresh
<1> QED
  BY <1>2, <1>1, <1>3, <1>4

LEMMA RollJournals ==
  ASSUME JInv, IInv', NEW t \in Threads, Roll(t)
  PROVE  Journal!Drop /\ FreshKept' /\ OpensFresh'
<1>1. UNCHANGED <<today, main, records>> /\ (Prune \/ PruneRaises) /\ day' = today
  BY DEF Roll, Switch
<1>2. FreshKept' /\ Journal!Drop
  BY <1>1, PruneDrops DEF JInv, InUse, Journal!Drop
<1> QED
  BY <1>1, <1>2, TodayIsFresh

LEMMA WriteJournals ==
  ASSUME JInv, IInv', NEW t \in Threads, Write(t)
  PROVE  Journal!Append /\ FreshKept' /\ OpensFresh'
<1> DEFINE new == [created |-> thread[t].created, file |-> day]
<1>1. /\ thread[t].at = "write" /\ lock = t /\ UNCHANGED <<today, main, day>> /\ lock' = Free
      /\ records' = records \cup {new}
      /\ files' = IF open THEN files ELSE files \cup {day}
  BY WriterHolds DEF JInv, Write, At
<1>2. files' = files \cup {day}
  BY <1>1 DEF JInv, IInv, FilesOK, RecentKept
<1>3. \A r \in records : r.file = day => day \in files
  BY <1>1 DEF JInv, OpensFresh
<1>4. /\ thread[t].created \in 0 .. today /\ thread[t].created <= day /\ day \in 0 .. today
  BY <1>1 DEF JInv, IInv, ThreadsOK, FilesOK
<1>5. new \in Journal!Entry /\ new.created <= new.file /\ new.file = day
  BY <1>4 DEF Journal!Entry
<1> HIDE DEF new
<1>6. Shown' = Shown \cup {new}
  BY <1>1, <1>2, <1>3, <1>5 DEF Shown
<1>7. InUse /\ UNCHANGED InUse
  BY <1>1 DEF JInv, IInv, MainOK, InUse, ThreadsOK
<1>8. FreshKept'
  BY <1>1, <1>2, <1>5 DEF JInv, FreshKept, Expired
<1>9. OpensFresh'
  BY <1>1, NobodyWrites
<1> QED
  BY <1>1, <1>5, <1>6, <1>7, <1>8, <1>9 DEF Journal!Append

LEMMA MaintainJournals ==
  ASSUME JInv, IInv', Maintain
  PROVE  Journal!Drop /\ FreshKept' /\ OpensFresh'
<1>1. /\ UNCHANGED <<today, main, records>> /\ (Prune \/ PruneRaises) /\ day' = today
  BY DEF Maintain, Switch
<1>2. FreshKept' /\ Journal!Drop
  BY <1>1, PruneDrops DEF JInv, InUse, Journal!Drop
<1> QED
  BY <1>1, <1>2, TodayIsFresh

LEMMA StartJournals ==
  ASSUME JInv, IInv', Start
  PROVE  Journal!Open /\ FreshKept' /\ OpensFresh'
<1>1. /\ main = "off" /\ main' = "on" /\ UNCHANGED <<today, records>> /\ day' = today
      /\ files' = Kept \cup {today}
  BY DEF Start
<1>2. \A r \in records : r.file \in files' <=> r.file \in files /\ ~Expired(r.file)
  BY <1>1, RecordDays DEF JInv, FreshKept, Kept
<1>3. Shown' = {r \in Shown : ~Journal!Expired(r.file)}
  BY <1>1, <1>2 DEF Shown, Expired, Journal!Expired
<1>4. ~InUse /\ InUse'
  BY <1>1 DEF InUse
<1>5. FreshKept'
  BY <1>1, <1>2 DEF JInv, FreshKept, Expired
<1> QED
  BY <1>1, <1>3, <1>4, <1>5, TodayIsFresh DEF Journal!Open

\* The other steps leave the files alone, but for a start that fails.
LEMMA OthersJournal ==
  ASSUME JInv, IInv',
         \/ \E t \in Loggers : Log(t)
         \/ \E t \in Threads : WriteRaises(t)
         \/ Wakes \/ StopAndJoin \/ Close \/ StartRaises \/ Exit \/ Midnight \/ UNCHANGED vars
  PROVE  [Journal!Next]_Journal!vars /\ FreshKept' /\ OpensFresh'
<1> USE DEF Journal!Next, Journal!vars, InUse
<1>1. today \in Nat
  BY RecordDays DEF JInv
<1>2. ASSUME NEW t \in Loggers, Log(t) PROVE [Journal!Next]_Journal!vars /\ FreshKept' /\ OpensFresh'
  <2>1. UNCHANGED <<files, records, today, day, main>>
    BY <1>2 DEF Log
  <2>2. \A u \in Threads : thread'[u].at = "write" => thread[u].at = "write"
    BY <1>2 DEF Log, JInv, IInv, ThreadsOK
  <2> QED
    BY <1>1, <2>1, <2>2, Quiet
<1>3. ASSUME NEW t \in Threads, WriteRaises(t)
      PROVE [Journal!Next]_Journal!vars /\ FreshKept' /\ OpensFresh'
  <2>1. UNCHANGED <<files, records, today, day, main>> /\ lock' = Free
    BY <1>3 DEF WriteRaises
  <2>2. FreshKept' /\ OpensFresh'
    BY <2>1, NobodyWrites DEF JInv, FreshKept, Expired
  <2> QED
    BY <2>1, <2>2 DEF Shown
<1>4. CASE Wakes
  <2>1. UNCHANGED <<files, records, today, day, main>>
    BY <1>4 DEF Wakes
  <2>2. \A u \in Threads : thread'[u].at = "write" => thread[u].at = "write"
    BY <1>4 DEF Wakes, Go, JInv, IInv, ThreadsOK
  <2> QED
    BY <1>1, <2>1, <2>2, Quiet
<1>5. CASE StopAndJoin \/ Close \/ UNCHANGED vars
  <2>1. UNCHANGED <<files, records, today, day, thread>>
    BY <1>5 DEF StopAndJoin, Close, vars
  <2>2. Shown' = Shown /\ FreshKept' /\ OpensFresh'
    BY <1>1, <2>1, Quiet
  <2> QED
    BY <1>5, <2>1, <2>2 DEF StopAndJoin, Close, Journal!Close, vars
<1>6. CASE StartRaises
  <2>1. UNCHANGED <<today, main, records, day, thread>> /\ PruneRaises
    BY <1>6 DEF StartRaises
  <2>2. FreshKept' /\ Journal!Drop
    BY <2>1, PruneDrops DEF JInv, Journal!Drop
  <2>3. lock' = Free
    BY <1>6 DEF StartRaises, JInv, IInv, MainOK
  <2> QED
    BY <2>2, <2>3, NobodyWrites
<1>7. CASE Exit
  <2>1. UNCHANGED <<files, records, today>> /\ lock' = Free /\ main' = "off"
    BY <1>7 DEF Exit
  <2>2. Shown' = Shown /\ FreshKept' /\ OpensFresh'
    BY <2>1, NobodyWrites DEF JInv, Shown, FreshKept, Expired
  <2> QED
    BY <2>1, <2>2 DEF Journal!Close
<1>8. CASE Midnight
  <2>1. today' = today + 1 /\ UNCHANGED <<files, records, day, thread, main>>
    BY <1>8 DEF Midnight
  <2>2. Shown' = Shown /\ FreshKept' /\ OpensFresh'
    BY <1>1, <2>1, Quiet
  <2> QED
    BY <2>1, <2>2 DEF Journal!Midnight
<1> QED
  BY <1>2, <1>3, <1>4, <1>5, <1>6, <1>7, <1>8

LEMMA StepJournals == JInv /\ [Next]_vars => [Journal!Next]_Journal!vars /\ JInv'
<1> SUFFICES ASSUME JInv, [Next]_vars PROVE [Journal!Next]_Journal!vars /\ JInv'
  OBVIOUS
<1>1. IInv'
  BY StepKeeps DEF JInv
<1> USE DEF Journal!Next, Journal!vars
<1>2. ASSUME NEW t \in Threads, ThreadStep(t)
      PROVE  [Journal!Next]_Journal!vars /\ FreshKept' /\ OpensFresh'
  BY <1>1, <1>2, EmitJournals, RollJournals, WriteJournals, OthersJournal DEF ThreadStep
<1>3. ASSUME Maintain \/ Start
      PROVE  [Journal!Next]_Journal!vars /\ FreshKept' /\ OpensFresh'
  BY <1>1, <1>3, MaintainJournals, StartJournals
<1> QED
  BY <1>1, <1>2, <1>3, OthersJournal DEF Next, JInv

\* Over midnights, failures, shutdowns and restarts the directory shows a journal: each
\* record stays until its day has expired, a new one brings no deleted ones back, and
\* none is written after close().
THEOREM LogImplementsJournal == Spec => ImplementsJournal
<1>1. Init => JInv /\ Journal!Init
  <2> SUFFICES ASSUME Init PROVE JInv /\ Journal!Init
    OBVIOUS
  <2>1. /\ records = {[created |-> d, file |-> d] : d \in files}
        /\ files \subseteq 0 .. today /\ today \in Nat /\ main = "off" /\ lock = Free
    BY DEF Init
  <2>2. \A r \in records : r.file \in files /\ r.created = r.file /\ r \in Journal!Entry
    BY <2>1 DEF Journal!Entry
  <2>3. Shown \subseteq {r \in Journal!Entry : r.created = r.file}
    BY <2>2 DEF Shown
  <2>4. JInv
    BY <2>1, <2>2, InitHolds, NobodyWrites DEF JInv, FreshKept
  <2> QED
    BY <2>1, <2>3, <2>4 DEF Journal!Init, InUse
<1> QED
  BY <1>1, StepJournals, PTL DEF Spec, ImplementsJournal, Journal!Spec
=============================================================================
