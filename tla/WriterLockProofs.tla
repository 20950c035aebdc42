-------------------------- MODULE WriterLockProofs --------------------------
(***************************************************************************)
(* The stale lock protocol excludes for every set of processes, any number *)
(* of crashes, restarts, reboots and failing calls, unless a remove_file   *)
(* hits a file that changed since it was judged or a creator is slower     *)
(* than the grace period (ExclusionUnlessRaced).                           *)
(***************************************************************************)
EXTENDS WriterLock, TLAPS

\* An owner record that some process of the past or present has written.
Past(o) == o.boot < boot \/ (o.boot = boot /\ o.start <= start[o.pid])

\* The verdict of Probe; it is stable, for pids are reused with later start times.
Gone(o) == ~(o.boot = boot /\ OwnerProcessIsAlive(o))

OwnersPast ==
  /\ lock # NoFile /\ lock.owner # Partial => Past(lock.owner)
  /\ \A p \in Procs : seen[p] \in Owners => Past(seen[p])

\* What a process has read and nobody has touched is still at the path.
FreshRead ==
  \A p \in Procs : pc[p] \in {"stat", "probe", "remove"} /\ fresh[p] =>
    lock # NoFile /\ lock.owner = seen[p]

\* What a process is about to remove is abandoned, if nobody has touched it.
JudgedStale ==
  \A p \in Procs : pc[p] = "remove" /\ fresh[p] =>
    IF seen[p] = Partial THEN ~lock.young ELSE Gone(seen[p])

\* A half written file without a living creator, or still within the grace period.
PartialYoung ==
  slow \/ (lock # NoFile /\ lock.owner = Partial /\ ~lock.young => lock.by = Nobody)

\* Between create_new and the end of release the path names the file of the process.
PathIsOwn ==
  \/ raced \/ slow
  \/ /\ \A p \in Procs : pc[p] \in {"write", "held", "unlink"} =>
           lock # NoFile /\ lock.by = p
     /\ \A p \in Procs : pc[p] = "write" => lock.owner = Partial
     /\ \A p \in Procs : pc[p] \in {"held", "unlink"} => lock.owner = CurrentOwner(p)

\* What Stat and Probe work on: Stat on an unreadable file, Probe on an owner.
StatReads ==
  \A p \in Procs : /\ pc[p] = "stat" => seen[p] \in {Partial, NoFile}
                   /\ pc[p] = "probe" => seen[p] \in Owners

LockInv ==
  LockTypeOK /\ StatReads /\ OwnersPast /\ FreshRead /\ JudgedStale /\ PartialYoung /\ PathIsOwn

-----------------------------------------------------------------------------

\* The initial state: no lock file, no process.
LEMMA LockInit == Init => LockInv
<1> SUFFICES ASSUME Init PROVE LockInv
  OBVIOUS
<1> USE LockAssumption DEF Init
<1>1. LockTypeOK
  BY DEF LockTypeOK
<1>2. OwnersPast /\ FreshRead /\ JudgedStale /\ StatReads
  BY DEF OwnersPast, FreshRead, JudgedStale, StatReads
<1>3. PartialYoung /\ PathIsOwn
  BY DEF PartialYoung, PathIsOwn
<1> QED BY <1>1, <1>2, <1>3 DEF LockInv

\* Acquire is called: only the program counter moves.
LEMMA AcquireKeeps == ASSUME LockInv, NEW p \in Procs, Acquire(p) PROVE LockInv'
<1> USE LockAssumption DEF Acquire, Goto
<1>1. LockTypeOK'
  BY DEF LockInv, LockTypeOK, Files, Owners, CurrentOwner
<1>2. OwnersPast'
  BY DEF LockInv, LockTypeOK, Files, Owners, OwnersPast, Past, CurrentOwner
<1>3. FreshRead'
  BY DEF LockInv, LockTypeOK, Files, FreshRead
<1>4. JudgedStale'
  BY DEF LockInv, LockTypeOK, Files, Owners, OwnersPast, Past, FreshRead, JudgedStale,
     Gone, OwnerProcessIsAlive, Alive
<1>5. PartialYoung'
  BY DEF LockInv, LockTypeOK, Files, PartialYoung, PathIsOwn
<1>6. PathIsOwn'
  BY DEF LockInv, LockTypeOK, Files, Owners, PartialYoung, PathIsOwn, CurrentOwner
<1>7. StatReads'
  BY DEF LockInv, LockTypeOK, Files, StatReads
<1> QED BY <1>1, <1>2, <1>3, <1>4, <1>5, <1>6, <1>7 DEF LockInv

\* Create_new finds no file, so by PathIsOwn nobody is inside.
LEMMA CreateKeeps == ASSUME LockInv, NEW p \in Procs, Create(p) PROVE LockInv'
<1> USE LockAssumption DEF Create, Goto
<1>1. LockTypeOK'
  BY DEF LockInv, LockTypeOK, Files, Owners, CurrentOwner
<1>2. OwnersPast'
  BY DEF LockInv, LockTypeOK, Files, Owners, OwnersPast, Past, CurrentOwner
<1>3. FreshRead'
  BY DEF LockInv, LockTypeOK, Files, FreshRead
<1>4. JudgedStale'
  BY DEF LockInv, LockTypeOK, Files, Owners, OwnersPast, Past, FreshRead, JudgedStale,
     Gone, OwnerProcessIsAlive, Alive
<1>5. PartialYoung'
  BY DEF LockInv, LockTypeOK, Files, PartialYoung, PathIsOwn
<1>6. PathIsOwn'
  <2>1. CASE raced \/ slow
    BY <2>1 DEF PathIsOwn
  <2>2. CASE ~raced /\ ~slow
    <3>1. \A q \in Procs : pc[q] \notin {"write", "held", "unlink"}
      BY <2>2 DEF LockInv, PathIsOwn
    <3>2. lock' \in Files /\ lock'.by = p /\ lock'.owner = Partial
      BY DEF Files
    <3>3. lock' # NoFile
      BY <3>2
    <3> QED BY <3>1, <3>2, <3>3 DEF LockInv, LockTypeOK, PathIsOwn
  <2> QED BY <2>1, <2>2
<1>7. StatReads'
  BY DEF LockInv, LockTypeOK, Files, StatReads
<1> QED BY <1>1, <1>2, <1>3, <1>4, <1>5, <1>6, <1>7 DEF LockInv

\* Create_new finds a file.
LEMMA ExistsKeeps == ASSUME LockInv, NEW p \in Procs, Exists(p) PROVE LockInv'
<1> USE LockAssumption DEF Exists, Goto
<1>1. LockTypeOK'
  BY DEF LockInv, LockTypeOK, Files, Owners, CurrentOwner
<1>2. OwnersPast'
  BY DEF LockInv, LockTypeOK, Files, Owners, OwnersPast, Past, CurrentOwner
<1>3. FreshRead'
  BY DEF LockInv, LockTypeOK, Files, FreshRead
<1>4. JudgedStale'
  BY DEF LockInv, LockTypeOK, Files, Owners, OwnersPast, Past, FreshRead, JudgedStale,
     Gone, OwnerProcessIsAlive, Alive
<1>5. PartialYoung'
  BY DEF LockInv, LockTypeOK, Files, PartialYoung, PathIsOwn
<1>6. PathIsOwn'
  BY DEF LockInv, LockTypeOK, Files, Owners, PartialYoung, PathIsOwn, CurrentOwner
<1>7. StatReads'
  BY DEF LockInv, LockTypeOK, Files, StatReads
<1> QED BY <1>1, <1>2, <1>3, <1>4, <1>5, <1>6, <1>7 DEF LockInv

\* The owner is written to the file that is still at the path, or to a lost one.
LEMMA WriteOwnerKeeps == ASSUME LockInv, NEW p \in Procs, WriteOwner(p) PROVE LockInv'
<1> USE LockAssumption DEF WriteOwner, Goto, NobodyFresh
<1>0. CASE ~(lock # NoFile /\ lock.by = p)
  <2>1. UNCHANGED <<lock, fresh>> /\ (raced \/ slow)
    BY <1>0 DEF LockInv, PathIsOwn
  <2>2. pc' = [pc EXCEPT ![p] = "held"]
    OBVIOUS
  <2>3. LockTypeOK' /\ OwnersPast' /\ FreshRead' /\ JudgedStale' /\ StatReads'
    BY <2>1, <2>2 DEF LockInv, LockTypeOK, OwnersPast, Past, FreshRead, JudgedStale, StatReads,
       Gone, OwnerProcessIsAlive, Alive
  <2>4. PartialYoung' /\ PathIsOwn'
    BY <2>1 DEF LockInv, PartialYoung, PathIsOwn
  <2> QED BY <2>3, <2>4 DEF LockInv
<1>1. CASE lock # NoFile /\ lock.by = p
  <2>1. /\ lock \in Files
        /\ lock' = [lock EXCEPT !.owner = CurrentOwner(p), !.young = TRUE]
        /\ fresh' = [q \in Procs |-> FALSE]
    BY <1>1 DEF LockInv, LockTypeOK
  <2>2. CurrentOwner(p) \in Owners /\ Past(CurrentOwner(p))
    BY DEF LockInv, LockTypeOK, CurrentOwner, Owners, Past
  <2>3. /\ lock' \in Files /\ lock' # NoFile /\ lock'.by = p
        /\ lock'.owner = CurrentOwner(p) /\ lock'.owner # Partial
    BY <1>1, <2>1, <2>2 DEF Files
  <2>4. LockTypeOK' /\ StatReads'
    BY <2>1, <2>3 DEF LockInv, LockTypeOK, StatReads
  <2>5. OwnersPast'
    BY <2>2, <2>3 DEF LockInv, OwnersPast, Past
  <2>6. FreshRead' /\ JudgedStale' /\ PartialYoung'
    BY <2>1, <2>3 DEF FreshRead, JudgedStale, PartialYoung
  <2>7. CurrentOwner(p)' = CurrentOwner(p)
    BY DEF CurrentOwner
  <2>8. PathIsOwn'
    BY <1>1, <2>3, <2>7 DEF LockInv, LockTypeOK, PathIsOwn
  <2> QED BY <2>4, <2>5, <2>6, <2>8 DEF LockInv
<1> QED BY <1>0, <1>1

\* What is read is at the path.
LEMMA ReadOwnerKeeps == ASSUME LockInv, NEW p \in Procs, ReadOwner(p) PROVE LockInv'
<1> USE LockAssumption DEF ReadOwner, Goto
<1>1. LockTypeOK'
  BY DEF LockInv, LockTypeOK, Files, Owners, CurrentOwner
<1>2. OwnersPast'
  BY DEF LockInv, LockTypeOK, Files, Owners, OwnersPast, Past, CurrentOwner
<1>3. FreshRead'
  BY DEF LockInv, LockTypeOK, Files, FreshRead
<1>4. JudgedStale'
  BY DEF LockInv, LockTypeOK, Files, Owners, OwnersPast, Past, FreshRead, JudgedStale,
     Gone, OwnerProcessIsAlive, Alive
<1>5. PartialYoung'
  BY DEF LockInv, LockTypeOK, Files, PartialYoung, PathIsOwn
<1>6. PathIsOwn'
  BY DEF LockInv, LockTypeOK, Files, Owners, PartialYoung, PathIsOwn, CurrentOwner
<1>7. StatReads'
  BY DEF LockInv, LockTypeOK, Files, StatReads
<1> QED BY <1>1, <1>2, <1>3, <1>4, <1>5, <1>6, <1>7 DEF LockInv

\* An unreadable file is removed only after the grace period.
LEMMA StatKeeps == ASSUME LockInv, NEW p \in Procs, Stat(p) PROVE LockInv'
<1> USE LockAssumption DEF Stat, Goto
<1>1. LockTypeOK'
  BY DEF LockInv, LockTypeOK, Files, Owners, CurrentOwner
<1>2. OwnersPast'
  BY DEF LockInv, LockTypeOK, Files, Owners, OwnersPast, Past, CurrentOwner
<1>3. FreshRead'
  BY DEF LockInv, LockTypeOK, Files, FreshRead
<1>4. JudgedStale'
  <2> SUFFICES ASSUME NEW q \in Procs, pc'[q] = "remove", fresh[q]
               PROVE  IF seen[q] = Partial THEN ~lock.young ELSE Gone(seen[q])'
    BY DEF JudgedStale
  <2>1. Gone(seen[q]) => Gone(seen[q])'
    BY DEF LockInv, LockTypeOK, Gone, OwnerProcessIsAlive, Alive
  <2>2. CASE q # p
    BY <2>1, <2>2 DEF LockInv, LockTypeOK, JudgedStale
  <2>3. CASE q = p
    <3>1. lock # NoFile /\ lock.owner = seen[p] /\ ~lock.young
      BY <2>3 DEF LockInv, LockTypeOK, FreshRead
    <3>2. seen[p] = Partial
      BY <3>1 DEF LockInv, LockTypeOK, Files, StatReads
    <3> QED BY <2>3, <3>1, <3>2
  <2> QED BY <2>2, <2>3
<1>5. PartialYoung'
  BY DEF LockInv, LockTypeOK, Files, PartialYoung, PathIsOwn
<1>6. PathIsOwn'
  BY DEF LockInv, LockTypeOK, Files, Owners, PartialYoung, PathIsOwn, CurrentOwner
<1>7. StatReads'
  BY DEF LockInv, LockTypeOK, Files, StatReads
<1> QED BY <1>1, <1>2, <1>3, <1>4, <1>5, <1>6, <1>7 DEF LockInv

\* A lock is removed only when its owner is gone.
LEMMA ProbeKeeps == ASSUME LockInv, NEW p \in Procs, Probe(p) PROVE LockInv'
<1> USE LockAssumption DEF Probe, Goto
<1>1. LockTypeOK'
  BY DEF LockInv, LockTypeOK, Files, Owners, CurrentOwner
<1>2. OwnersPast'
  BY DEF LockInv, LockTypeOK, Files, Owners, OwnersPast, Past, CurrentOwner
<1>3. FreshRead'
  BY DEF LockInv, LockTypeOK, Files, FreshRead
<1>4. JudgedStale'
  <2> SUFFICES ASSUME NEW q \in Procs, pc'[q] = "remove", fresh[q]
               PROVE  IF seen[q] = Partial THEN ~lock.young ELSE Gone(seen[q])'
    BY DEF JudgedStale
  <2>1. Gone(seen[q]) => Gone(seen[q])'
    BY DEF LockInv, LockTypeOK, Gone, OwnerProcessIsAlive, Alive
  <2>2. CASE q # p
    BY <2>1, <2>2 DEF LockInv, LockTypeOK, JudgedStale
  <2>3. CASE q = p
    <3>1. Gone(seen[p])
      BY <2>3 DEF LockInv, LockTypeOK, Gone
    <3>2. seen[p] # Partial
      BY DEF LockInv, StatReads
    <3> QED BY <2>1, <2>3, <3>1, <3>2
  <2> QED BY <2>2, <2>3
<1>5. PartialYoung'
  BY DEF LockInv, LockTypeOK, Files, PartialYoung, PathIsOwn
<1>6. PathIsOwn'
  BY DEF LockInv, LockTypeOK, Files, Owners, PartialYoung, PathIsOwn, CurrentOwner
<1>7. StatReads'
  BY DEF LockInv, LockTypeOK, Files, StatReads
<1> QED BY <1>1, <1>2, <1>3, <1>4, <1>5, <1>6, <1>7 DEF LockInv

\* An unraced removal takes away an abandoned file: nobody is inside.
LEMMA RemoveKeeps == ASSUME LockInv, NEW p \in Procs, Remove(p) PROVE LockInv'
<1> USE LockAssumption DEF Remove, Goto, NobodyFresh
<1>1. LockTypeOK'
  BY DEF LockInv, LockTypeOK, Files, Owners, CurrentOwner
<1>2. OwnersPast'
  BY DEF LockInv, LockTypeOK, Files, Owners, OwnersPast, Past, CurrentOwner
<1>3. FreshRead'
  BY DEF LockInv, LockTypeOK, Files, FreshRead
<1>4. JudgedStale'
  BY DEF LockInv, LockTypeOK, Files, Owners, OwnersPast, Past, FreshRead, JudgedStale,
     Gone, OwnerProcessIsAlive, Alive
<1>5. PartialYoung'
  BY DEF LockInv, LockTypeOK, Files, PartialYoung, PathIsOwn
<1>6. PathIsOwn'
  <2> SUFFICES ASSUME ~raced', ~slow'
               PROVE  \A q \in Procs : pc'[q] \notin {"write", "held", "unlink"}
    BY DEF PathIsOwn
  <2> SUFFICES ASSUME NEW q \in Procs, pc'[q] \in {"write", "held", "unlink"}
               PROVE  FALSE
    OBVIOUS
  <2>1. pc[q] = pc'[q] /\ ~raced /\ ~slow
    BY DEF LockInv, LockTypeOK
  <2>2. lock # NoFile /\ lock.by = q /\ lock \in Files
    BY <2>1 DEF LockInv, LockTypeOK, PathIsOwn
  <2>3. fresh[p] /\ lock.owner = seen[p]
    BY <2>2 DEF LockInv, LockTypeOK, FreshRead
  <2>4. CASE pc[q] = "write"
    <3>1. seen[p] = Partial /\ ~lock.young
      BY <2>1, <2>3, <2>4 DEF LockInv, PathIsOwn, JudgedStale
    <3> QED BY <2>1, <2>2, <2>3, <3>1 DEF LockInv, PartialYoung
  <2>5. CASE pc[q] \in {"held", "unlink"}
    <3>1. seen[p] = CurrentOwner(q)
      BY <2>1, <2>3, <2>5 DEF LockInv, PathIsOwn
    <3>2. CurrentOwner(q) \in Owners
      BY DEF LockInv, LockTypeOK, CurrentOwner, Owners
    <3>3. Gone(CurrentOwner(q))
      BY <2>3, <3>1, <3>2 DEF LockInv, JudgedStale
    <3> QED BY <2>5, <3>3 DEF Gone, OwnerProcessIsAlive, Alive, CurrentOwner
  <2> QED BY <2>1, <2>4, <2>5
<1>7. StatReads'
  BY DEF LockInv, LockTypeOK, Files, StatReads
<1> QED BY <1>1, <1>2, <1>3, <1>4, <1>5, <1>6, <1>7 DEF LockInv

\* Release reads the own lock, or gives up.
LEMMA ReleaseKeeps == ASSUME LockInv, NEW p \in Procs, Release(p) PROVE LockInv'
<1> USE LockAssumption DEF Release, Goto
<1>1. LockTypeOK'
  BY DEF LockInv, LockTypeOK, Files, Owners, CurrentOwner
<1>2. OwnersPast'
  BY DEF LockInv, LockTypeOK, Files, Owners, OwnersPast, Past, CurrentOwner
<1>3. FreshRead'
  BY DEF LockInv, LockTypeOK, Files, FreshRead
<1>4. JudgedStale'
  BY DEF LockInv, LockTypeOK, Files, Owners, OwnersPast, Past, FreshRead, JudgedStale,
     Gone, OwnerProcessIsAlive, Alive
<1>5. PartialYoung'
  BY DEF LockInv, LockTypeOK, Files, PartialYoung, PathIsOwn
<1>6. PathIsOwn'
  BY DEF LockInv, LockTypeOK, Files, Owners, PartialYoung, PathIsOwn, CurrentOwner
<1>7. StatReads'
  BY DEF LockInv, LockTypeOK, Files, StatReads
<1> QED BY <1>1, <1>2, <1>3, <1>4, <1>5, <1>6, <1>7 DEF LockInv

\* Release removes the own file: nobody else is inside.
LEMMA UnlinkKeeps == ASSUME LockInv, NEW p \in Procs, Unlink(p) PROVE LockInv'
<1> USE LockAssumption DEF Unlink, Goto, NobodyFresh
<1>1. LockTypeOK'
  BY DEF LockInv, LockTypeOK, Files, Owners, CurrentOwner
<1>2. OwnersPast'
  BY DEF LockInv, LockTypeOK, Files, Owners, OwnersPast, Past, CurrentOwner
<1>3. FreshRead'
  BY DEF LockInv, LockTypeOK, Files, FreshRead
<1>4. JudgedStale'
  BY DEF LockInv, LockTypeOK, Files, Owners, OwnersPast, Past, FreshRead, JudgedStale,
     Gone, OwnerProcessIsAlive, Alive
<1>5. PartialYoung'
  BY DEF LockInv, LockTypeOK, Files, PartialYoung, PathIsOwn
<1>6. PathIsOwn'
  BY DEF LockInv, LockTypeOK, Files, Owners, PartialYoung, PathIsOwn, CurrentOwner
<1>7. StatReads'
  BY DEF LockInv, LockTypeOK, Files, StatReads
<1> QED BY <1>1, <1>2, <1>3, <1>4, <1>5, <1>6, <1>7 DEF LockInv

\* An error return leaves the file without a writer.
LEMMA CallFailsKeeps == ASSUME LockInv, NEW p \in Procs, CallFails(p) PROVE LockInv'
<1> USE LockAssumption DEF CallFails, Goto, Orphan
<1>1. LockTypeOK'
  BY DEF LockInv, LockTypeOK, Files, Owners, CurrentOwner
<1>2. OwnersPast'
  BY DEF LockInv, LockTypeOK, Files, Owners, OwnersPast, Past, CurrentOwner
<1>3. FreshRead'
  <2>1. lock # NoFile => lock' # NoFile /\ lock'.owner = lock.owner
    BY DEF LockInv, LockTypeOK, Files
  <2> QED BY <2>1 DEF LockInv, LockTypeOK, FreshRead
<1>4. JudgedStale'
  BY DEF LockInv, LockTypeOK, Files, Owners, OwnersPast, Past, FreshRead, JudgedStale,
     Gone, OwnerProcessIsAlive, Alive
<1>5. PartialYoung'
  BY DEF LockInv, LockTypeOK, Files, PartialYoung, PathIsOwn
<1>6. PathIsOwn'
  BY DEF LockInv, LockTypeOK, Files, Owners, PartialYoung, PathIsOwn, CurrentOwner
<1>7. StatReads'
  BY DEF LockInv, LockTypeOK, Files, StatReads
<1> QED BY <1>1, <1>2, <1>3, <1>4, <1>5, <1>6, <1>7 DEF LockInv

\* An error return leaves the file with the own name.
LEMMA SyncFailsKeeps == ASSUME LockInv, NEW p \in Procs, SyncFails(p) PROVE LockInv'
<1> USE LockAssumption DEF SyncFails, Goto, NobodyFresh, CurrentOwner
<1>1. LockTypeOK'
  BY DEF LockInv, LockTypeOK, Files, Owners, CurrentOwner
<1>2. OwnersPast'
  BY DEF LockInv, LockTypeOK, Files, Owners, OwnersPast, Past, CurrentOwner
<1>3. FreshRead'
  BY DEF LockInv, LockTypeOK, Files, FreshRead
<1>4. JudgedStale'
  BY DEF LockInv, LockTypeOK, Files, Owners, OwnersPast, Past, FreshRead, JudgedStale,
     Gone, OwnerProcessIsAlive, Alive
<1>5. PartialYoung'
  BY DEF LockInv, LockTypeOK, Files, PartialYoung, PathIsOwn
<1>6. PathIsOwn'
  BY DEF LockInv, LockTypeOK, Files, Owners, PartialYoung, PathIsOwn, CurrentOwner
<1>7. StatReads'
  BY DEF LockInv, LockTypeOK, Files, StatReads
<1> QED BY <1>1, <1>2, <1>3, <1>4, <1>5, <1>6, <1>7 DEF LockInv

\* The file outlives its creator.
LEMMA CrashKeeps == ASSUME LockInv, NEW p \in Procs, Crash(p) PROVE LockInv'
<1> USE LockAssumption DEF Crash, Goto, Orphan, Alive
<1>1. LockTypeOK'
  BY DEF LockInv, LockTypeOK, Files, Owners, CurrentOwner
<1>2. OwnersPast'
  BY DEF LockInv, LockTypeOK, Files, Owners, OwnersPast, Past, CurrentOwner
<1>3. FreshRead'
  <2>1. lock # NoFile => lock' # NoFile /\ lock'.owner = lock.owner
    BY DEF LockInv, LockTypeOK, Files
  <2> QED BY <2>1 DEF LockInv, LockTypeOK, FreshRead
<1>4. JudgedStale'
  BY DEF LockInv, LockTypeOK, Files, Owners, OwnersPast, Past, FreshRead, JudgedStale,
     Gone, OwnerProcessIsAlive, Alive
<1>5. PartialYoung'
  BY DEF LockInv, LockTypeOK, Files, PartialYoung, PathIsOwn
<1>6. PathIsOwn'
  BY DEF LockInv, LockTypeOK, Files, Owners, PartialYoung, PathIsOwn, CurrentOwner
<1>7. StatReads'
  BY DEF LockInv, LockTypeOK, Files, StatReads
<1> QED BY <1>1, <1>2, <1>3, <1>4, <1>5, <1>6, <1>7 DEF LockInv

\* A pid is used again, with a later start time.
LEMMA StartKeeps == ASSUME LockInv, NEW p \in Procs, Start(p) PROVE LockInv'
<1> USE LockAssumption DEF Start, Goto, Alive
<1>1. LockTypeOK'
  BY DEF LockInv, LockTypeOK, Files, Owners, CurrentOwner
<1>2. OwnersPast'
  BY DEF LockInv, LockTypeOK, Files, Owners, OwnersPast, Past, CurrentOwner
<1>3. FreshRead'
  BY DEF LockInv, LockTypeOK, Files, FreshRead
<1>4. JudgedStale'
  BY DEF LockInv, LockTypeOK, Files, Owners, OwnersPast, Past, FreshRead, JudgedStale,
     Gone, OwnerProcessIsAlive, Alive
<1>5. PartialYoung'
  BY DEF LockInv, LockTypeOK, Files, PartialYoung, PathIsOwn
<1>6. PathIsOwn'
  BY DEF LockInv, LockTypeOK, Files, Owners, PartialYoung, PathIsOwn, CurrentOwner
<1>7. StatReads'
  BY DEF LockInv, LockTypeOK, Files, StatReads
<1> QED BY <1>1, <1>2, <1>3, <1>4, <1>5, <1>6, <1>7 DEF LockInv

\* Every owner of an earlier boot is gone.
LEMMA RebootKeeps == ASSUME LockInv, Reboot PROVE LockInv'
<1> USE LockAssumption DEF Reboot
<1>1. LockTypeOK'
  BY DEF LockInv, LockTypeOK, Files, Owners, CurrentOwner
<1>2. OwnersPast'
  BY DEF LockInv, LockTypeOK, Files, Owners, OwnersPast, Past, CurrentOwner
<1>3. FreshRead'
  BY DEF LockInv, LockTypeOK, Files, FreshRead
<1>4. JudgedStale'
  BY DEF LockInv, LockTypeOK, Files, Owners, OwnersPast, Past, FreshRead, JudgedStale,
     Gone, OwnerProcessIsAlive, Alive
<1>5. PartialYoung'
  BY DEF LockInv, LockTypeOK, Files, PartialYoung, PathIsOwn
<1>6. PathIsOwn'
  BY DEF LockInv, LockTypeOK, Files, Owners, PartialYoung, PathIsOwn, CurrentOwner
<1>7. StatReads'
  BY DEF LockInv, LockTypeOK, Files, StatReads
<1> QED BY <1>1, <1>2, <1>3, <1>4, <1>5, <1>6, <1>7 DEF LockInv

\* A file that ages without a writer is abandoned.
LEMMA AgeKeeps == ASSUME LockInv, Age PROVE LockInv'
<1> USE LockAssumption DEF Age
<1>1. LockTypeOK'
  BY DEF LockInv, LockTypeOK, Files, Owners, CurrentOwner
<1>2. OwnersPast'
  BY DEF LockInv, LockTypeOK, Files, Owners, OwnersPast, Past, CurrentOwner
<1>3. FreshRead'
  BY DEF LockInv, LockTypeOK, Files, FreshRead
<1>4. JudgedStale'
  BY DEF LockInv, LockTypeOK, Files, Owners, OwnersPast, Past, FreshRead, JudgedStale,
     Gone, OwnerProcessIsAlive, Alive
<1>5. PartialYoung'
  BY DEF LockInv, LockTypeOK, Files, PartialYoung, PathIsOwn
<1>6. PathIsOwn'
  BY DEF LockInv, LockTypeOK, Files, Owners, PartialYoung, PathIsOwn, CurrentOwner
<1>7. StatReads'
  BY DEF LockInv, LockTypeOK, Files, StatReads
<1> QED BY <1>1, <1>2, <1>3, <1>4, <1>5, <1>6, <1>7 DEF LockInv

\* Every step, and a stuttering one, keeps the invariant.
LEMMA LockNext == LockInv /\ [Next]_lockVars => LockInv'
<1> SUFFICES ASSUME LockInv, [Next]_lockVars PROVE LockInv'
  OBVIOUS
<1>1. ASSUME NEW p \in Procs, CallStep(p) PROVE LockInv'
  BY <1>1, AcquireKeeps, CreateKeeps, ExistsKeeps, WriteOwnerKeeps, ReadOwnerKeeps,
     StatKeeps, ProbeKeeps, RemoveKeeps, ReleaseKeeps, UnlinkKeeps DEF CallStep
<1>2. ASSUME NEW p \in Procs, CallFails(p) \/ SyncFails(p) \/ Crash(p) \/ Start(p)
      PROVE  LockInv'
  BY <1>2, CallFailsKeeps, SyncFailsKeeps, CrashKeeps, StartKeeps
<1>3. CASE Reboot \/ Age
  BY <1>3, RebootKeeps, AgeKeeps
<1>4. CASE UNCHANGED lockVars
  <2> USE <1>4 DEF lockVars
  <2>1. LockTypeOK' /\ StatReads' /\ FreshRead'
    BY DEF LockInv, LockTypeOK, StatReads, FreshRead
  <2>2. OwnersPast' /\ JudgedStale'
    BY DEF LockInv, OwnersPast, Past, JudgedStale, Gone, OwnerProcessIsAlive, Alive
  <2>3. PartialYoung' /\ PathIsOwn'
    BY DEF LockInv, PartialYoung, PathIsOwn, CurrentOwner
  <2> QED BY <2>1, <2>2, <2>3 DEF LockInv
<1> QED BY <1>1, <1>2, <1>3, <1>4 DEF Next

\* Two holders would be two creators of the one file at the path.
LEMMA LockInvExcludes == LockInv => ExclusionUnlessRaced
BY DEF LockInv, PathIsOwn, ExclusionUnlessRaced, MutualExclusion

\* WriterLock::acquire and release exclude for any number of processes, crashes,
\* restarts under the same pid, reboots and failing calls, as long as no
\* remove_file hits a file that changed since it was judged stale and no living
\* creator is slower than the grace period.
THEOREM LockExcludes == Spec => []ExclusionUnlessRaced
<1>1. Init => LockInv
  BY LockInit
<1>2. LockInv /\ [Next]_lockVars => LockInv'
  BY LockNext
<1>3. LockInv => ExclusionUnlessRaced
  BY LockInvExcludes
<1> QED BY <1>1, <1>2, <1>3, PTL DEF Spec
=============================================================================
