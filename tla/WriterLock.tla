----------------------------- MODULE WriterLock -----------------------------
(***************************************************************************)
(* The optional cooperating-writer lock (journal-core, file/lock.rs): a    *)
(* file next to the journal, created exclusively, that names its owner by  *)
(* pid, boot id and process start time.  Several processes acquire and     *)
(* release it; they crash, are started again under the same pid, and the   *)
(* machine reboots.  One action is one file system or procfs call, so that *)
(* the calls of several processes interleave.  Platform: Linux.            *)
(*                                                                         *)
(* Abstraction: contents of the lock file are an owner record or Partial   *)
(* (whatever read_owner cannot parse, the empty file included); its age is *)
(* whether the grace period has passed since the last write.               *)
(***************************************************************************)
EXTENDS Naturals

CONSTANTS
  Procs,        \* pids
  Nobody, Partial, NoFile,
  MaxStarts,    \* bound: starts of one pid in one boot
  MaxBoots,     \* bound: boots of the machine
  MaxFailures   \* bound: failing file system calls

VARIABLES
  lock,      \* the file at the lock path, NoFile if there is none
  pc,        \* where each process is, "dead" between its lives
  seen,      \* what read_owner returned in the running acquire
  boot,      \* the boot id
  start,     \* start time of the last process with that pid in this boot
  failures,  \* failing calls so far
  fresh,     \* history: the path still names the file, unchanged, that p read
  raced,     \* history: remove_file took away a file other than the one judged
  slow       \* history: a living creator needed longer than the grace period

lockVars == <<lock, pc, seen, boot, start, failures, fresh, raced, slow>>

Owners == [pid : Procs, boot : Nat, start : Nat]

\* A file at the path; by is the process that is about to write it or wrote it.
Files == [owner : Owners \cup {Partial}, young : BOOLEAN, by : Procs \cup {Nobody}]

ASSUME LockAssumption ==
  /\ Nobody \notin Procs
  /\ Partial \notin Owners /\ NoFile \notin Owners /\ NoFile # Partial
  /\ NoFile \notin Files
  /\ MaxStarts \in Nat /\ MaxBoots \in Nat /\ MaxFailures \in Nat

\* current_owner.
CurrentOwner(p) == [pid |-> p, boot |-> boot, start |-> start[p]]

Alive(p) == pc[p] # "dead"

\* owner_process_is_alive, on Linux: the start time of the process with that pid.
OwnerProcessIsAlive(o) == Alive(o.pid) /\ start[o.pid] = o.start

Goto(p, label) == pc' = [pc EXCEPT ![p] = label]

\* Everyone who read the file at the path has read something else now.
NobodyFresh == fresh' = [q \in Procs |-> FALSE]

Init ==
  /\ lock = NoFile
  /\ pc = [p \in Procs |-> "dead"]
  /\ seen = [p \in Procs |-> NoFile]
  /\ boot = 1 /\ start = [p \in Procs |-> 0] /\ failures = 0
  /\ fresh = [p \in Procs |-> FALSE] /\ raced = FALSE /\ slow = FALSE

-----------------------------------------------------------------------------
(* WriterLock::acquire. *)

Acquire(p) ==
  /\ pc[p] = "idle"
  /\ Goto(p, "create")
  /\ UNCHANGED <<lock, seen, boot, start, failures, fresh, raced, slow>>

\* open with create_new succeeds.
Create(p) ==
  /\ pc[p] = "create" /\ lock = NoFile
  /\ lock' = [owner |-> Partial, young |-> TRUE, by |-> p]
  /\ Goto(p, "write")
  /\ UNCHANGED <<seen, boot, start, failures, fresh, raced, slow>>

\* open with create_new fails: the file exists.
Exists(p) ==
  /\ pc[p] = "create" /\ lock # NoFile
  /\ Goto(p, "read")
  /\ UNCHANGED <<lock, seen, boot, start, failures, fresh, raced, slow>>

\* write_owner and sync_all, to the file that was opened even if it is gone
\* from the path by now.
WriteOwner(p) ==
  /\ pc[p] = "write"
  /\ IF lock # NoFile /\ lock.by = p
     THEN /\ lock' = [lock EXCEPT !.owner = CurrentOwner(p), !.young = TRUE]
          /\ NobodyFresh
     ELSE UNCHANGED <<lock, fresh>>
  /\ Goto(p, "held")
  /\ UNCHANGED <<seen, boot, start, failures, raced, slow>>

\* read_owner in lock_file_is_stale.
ReadOwner(p) ==
  /\ pc[p] = "read"
  /\ seen' = [seen EXCEPT ![p] = IF lock = NoFile THEN NoFile ELSE lock.owner]
  /\ fresh' = [fresh EXCEPT ![p] = lock # NoFile]
  /\ Goto(p, IF lock = NoFile \/ lock.owner = Partial THEN "stat" ELSE "probe")
  /\ UNCHANGED <<lock, boot, start, failures, raced, slow>>

\* Mutant: the grace period of a half written file is not honoured.
StatGraceless(p) ==
  /\ pc[p] = "stat"
  /\ Goto(p, "remove")
  /\ UNCHANGED <<lock, seen, boot, start, failures, fresh, raced, slow>>

\* The metadata of a file that could not be read: within the grace period it is
\* being created, otherwise it is stale; so is a file that is not there.
Stat(p) ==
  /\ pc[p] = "stat"
  /\ Goto(p, IF lock # NoFile /\ lock.young THEN "idle" ELSE "remove")
  /\ UNCHANGED <<lock, seen, boot, start, failures, fresh, raced, slow>>

\* Mutant: the boot id of the owner is not compared.
ProbeAnyBoot(p) ==
  /\ pc[p] = "probe"
  /\ Goto(p, IF OwnerProcessIsAlive(seen[p]) THEN "idle" ELSE "remove")
  /\ UNCHANGED <<lock, seen, boot, start, failures, fresh, raced, slow>>

\* The boot id and the liveness of the owner that was read; WouldBlock if alive.
Probe(p) ==
  /\ pc[p] = "probe"
  /\ Goto(p, IF seen[p].boot = boot /\ OwnerProcessIsAlive(seen[p])
             THEN "idle" ELSE "remove")
  /\ UNCHANGED <<lock, seen, boot, start, failures, fresh, raced, slow>>

\* remove_file of a stale lock: whatever the path names by now.  NotFound is fine.
Remove(p) ==
  /\ pc[p] = "remove"
  /\ lock' = NoFile
  /\ NobodyFresh
  /\ raced' = (raced \/ (lock # NoFile /\ ~fresh[p]))
  /\ Goto(p, "create")
  /\ UNCHANGED <<seen, boot, start, failures, slow>>

-----------------------------------------------------------------------------
(* WriterLock::release, also called by drop. *)

\* read_owner; anything but the own lock, errors included, ends the call.
Release(p) ==
  /\ pc[p] = "held"
  /\ Goto(p, IF lock # NoFile /\ lock.owner = CurrentOwner(p) THEN "unlink" ELSE "idle")
  /\ UNCHANGED <<lock, seen, boot, start, failures, fresh, raced, slow>>

\* remove_file of the own lock.
Unlink(p) ==
  /\ pc[p] = "unlink"
  /\ lock' = NoFile
  /\ NobodyFresh
  /\ Goto(p, "idle")
  /\ UNCHANGED <<seen, boot, start, failures, raced, slow>>

-----------------------------------------------------------------------------
(* Failing calls, crashes, reboots, time. *)

\* The file that p opened has no writer any more.
Orphan(p) ==
  IF lock # NoFile /\ lock.by = p THEN [lock EXCEPT !.by = Nobody] ELSE lock

\* create_new, write_owner or remove_file fails: the call returns the error and
\* cleans nothing up.
CallFails(p) ==
  /\ pc[p] \in {"create", "write", "remove", "unlink"}
  /\ failures < MaxFailures
  /\ failures' = failures + 1
  /\ lock' = Orphan(p)
  /\ Goto(p, "idle")
  /\ UNCHANGED <<seen, boot, start, fresh, raced, slow>>

\* sync_all fails: the owner is written, the caller has no lock.
SyncFails(p) ==
  /\ pc[p] = "write" /\ lock # NoFile /\ lock.by = p
  /\ failures < MaxFailures
  /\ failures' = failures + 1
  /\ lock' = [owner |-> CurrentOwner(p), young |-> TRUE, by |-> Nobody]
  /\ NobodyFresh
  /\ Goto(p, "idle")
  /\ UNCHANGED <<seen, boot, start, raced, slow>>

Crash(p) ==
  /\ Alive(p)
  /\ lock' = Orphan(p)
  /\ Goto(p, "dead")
  /\ UNCHANGED <<seen, boot, start, failures, fresh, raced, slow>>

\* A process with this pid starts; start times grow within a boot.
Start(p) ==
  /\ ~Alive(p) /\ start[p] < MaxStarts
  /\ start' = [start EXCEPT ![p] = @ + 1]
  /\ Goto(p, "idle")
  /\ UNCHANGED <<lock, seen, boot, failures, fresh, raced, slow>>

\* The file survives; start times count from the boot again.
Reboot ==
  /\ boot < MaxBoots
  /\ boot' = boot + 1
  /\ start' = [p \in Procs |-> 0]
  /\ pc' = [p \in Procs |-> "dead"]
  /\ lock' = IF lock = NoFile THEN NoFile ELSE [lock EXCEPT !.by = Nobody]
  /\ UNCHANGED <<seen, failures, fresh, raced, slow>>

\* STALE_GRACE passes since the last write of the file.
Age ==
  /\ lock # NoFile /\ lock.young
  /\ lock' = [lock EXCEPT !.young = FALSE]
  /\ slow' = (slow \/ (lock.owner = Partial /\ lock.by # Nobody))
  /\ UNCHANGED <<pc, seen, boot, start, failures, fresh, raced>>

CallStep(p) ==
  \/ Acquire(p) \/ Create(p) \/ Exists(p) \/ WriteOwner(p)
  \/ ReadOwner(p) \/ Stat(p) \/ Probe(p) \/ Remove(p)
  \/ Release(p) \/ Unlink(p)

Next ==
  \/ \E p \in Procs :
       \/ CallStep(p)
       \/ CallFails(p) \/ SyncFails(p)
       \/ Crash(p) \/ Start(p)
  \/ Reboot \/ Age

Spec == Init /\ [][Next]_lockVars

\* The behaviours in which no lock file gets older than the grace period.
QuickSpec ==
  Init /\ [][Next /\ (lock # NoFile /\ lock.young => lock' = NoFile \/ lock'.young)]_lockVars

\* Callers that keep trying and running, and time that passes.
FairSpec == Spec /\ WF_lockVars(Age) /\ \A p \in Procs : WF_lockVars(CallStep(p))

-----------------------------------------------------------------------------

\* Type invariant of the lock file and the processes.
LockTypeOK ==
  /\ lock \in Files \cup {NoFile}
  /\ pc \in [Procs -> {"dead", "idle", "create", "write", "read", "stat", "probe",
                       "remove", "held", "unlink"}]
  /\ seen \in [Procs -> Owners \cup {Partial, NoFile}]
  /\ boot \in Nat /\ start \in [Procs -> Nat] /\ failures \in Nat
  /\ fresh \in [Procs -> BOOLEAN] /\ raced \in BOOLEAN /\ slow \in BOOLEAN

\* "Cooperating SDK writer exclusion": no two processes hold the lock of one
\* journal at the same time (acquire returned Ok, release was not called).
MutualExclusion ==
  \A p, q \in Procs : pc[p] = "held" /\ pc[q] = "held" => p = q

\* The stale lock protocol (lock_file_is_stale, remove_file in acquire) gives
\* exclusion through crashes, pid reuse, reboots and failing calls as long as no
\* remove_file hits a file that changed since it was judged, and a living
\* creator writes its owner within the grace period.
ExclusionUnlessRaced == raced \/ slow \/ MutualExclusion

\* A lock that a crashed, rebooted or finished process left behind does not stop
\* the next writer: a process that keeps trying while the others are quiet
\* gets the lock again and again, unless a call failed (a lock whose release
\* failed names a living process and stays).
AbandonedLockReclaimed ==
  \A p \in Procs :
    <>[](failures = 0 /\ Alive(p) /\ \A q \in Procs \ {p} : pc[q] \in {"idle", "dead"})
      => []<>(pc[p] = "held")
=============================================================================
