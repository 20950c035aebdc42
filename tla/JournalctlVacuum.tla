------------------------- MODULE JournalctlVacuum -------------------------
(***************************************************************************)
(* `journalctl --vacuum-size/-files/-time' (cmd/journalctl/main.rs,        *)
(* vacuum_order.rs, vacuum_metadata.rs): one pass over a directory that    *)
(* classifies every name, removes empty archived files on the spot, and    *)
(* then removes archived files from the oldest on until every limit holds. *)
(* The order is a heap of runs: the files of one sequence number id form a *)
(* run in sequence order, a disposed file is a run of its own, and the run *)
(* whose head is oldest goes first.                                        *)
(*                                                                         *)
(* The directory is shared: another process may remove archived files and  *)
(* the writer may rotate its active file while the pass is under way.      *)
(***************************************************************************)
EXTENDS Integers, FiniteSets, FiniteSetsExt, SequencesExt

CONSTANTS
  VacuumSetups,   \* [files: name -> file, rotated: name -> name, opts, now,
                  \*  listing: the order in which read_dir returns the names]
  VacuumFaults,   \* how many removals may fail with an error
  VacuumBirthFloor \* least birth time believed (one second, on Linux)

VARIABLES
  vcFile,      \* name -> what the directory entry is and holds
  vcRotated,   \* name of an active file -> name it gets when it is archived
  vcOpts,      \* [use, files, retention], 0 = no limit
  vcNow,       \* the wall clock
  vcDisk,      \* names present in the directory
  vcPhase,     \* "scan" | "delete" | "done"
  vcTodo,      \* sequence of the names read_dir has still to return
  vcPool,      \* candidates, before they are ordered
  vcCand,      \* candidates, sorted by VacuumOrder::new
  vcHeads,     \* the heap of runs [next, end] over vcCand
  vcActive, vcSum, vcIdx, \* active_files, sum, idx of the enumerate loop
  vcDeleted,   \* names the pass removed (ghost for freed)
  vcFaults,    \* removals that failed so far
  vcDisturbed  \* another process changed the directory

vacuumVars == <<vcFile, vcRotated, vcOpts, vcNow, vcDisk, vcPhase, vcTodo,
                vcPool, vcCand, vcHeads, vcActive, vcSum, vcIdx, vcDeleted,
                vcFaults, vcDisturbed>>

VacuumInit ==
  /\ \E s \in VacuumSetups :
       /\ vcFile = s.files /\ vcRotated = s.rotated
       /\ vcOpts = s.opts /\ vcNow = s.now
       /\ vcDisk = DOMAIN s.files \ Range(s.rotated)
       /\ vcTodo = s.listing
  /\ vcPhase = "scan"
  /\ vcPool = {} /\ vcCand = <<>> /\ vcHeads = <<>>
  /\ vcActive = 0 /\ vcSum = 0 /\ vcIdx = 0
  /\ vcDeleted = {} /\ vcFaults = 0 /\ vcDisturbed = FALSE

----------------------------------------------------------------------------
\* The age of a candidate.

Earlier(current, stamp) == IF stamp > 0 /\ stamp < current THEN stamp ELSE current

\* fold of `earlier' over the times of the inode; a birth time in the first
\* second of the epoch is what file systems without one report
OldestRealtime(stamps, realtime) ==
  Min({realtime} \cup
      {stamps[k] : k \in {j \in DOMAIN stamps :
          stamps[j] >= IF j = "created" THEN VacuumBirthFloor ELSE 1}})

PatchVacuumRealtime(f) == OldestRealtime(f.stamps, f.realtime)

RetentionLimit == IF vcOpts.retention = 0 \/ vcOpts.retention > vcNow THEN 0
                  ELSE vcNow - vcOpts.retention

\* parse_vacuum_candidate: what the name says
Protected(f) == f.kind \in {"active", "odd"}
Candidate(f) == f.kind \in {"archived", "disposed"}

\* vacuum_journal_file_empty: shorter than a header, or no entry in it
JournalFileEmpty(f) == f.holds \in {"stub", "nothing"}

SumUsage(S) == MapThenSumSet(LAMBDA n : vcFile[n].usage, S)

----------------------------------------------------------------------------
\* The order of removal.

HaveSeqno(c) == c.seqid # 0

SortedBefore(a, b) ==
  IF HaveSeqno(a) # HaveSeqno(b) THEN HaveSeqno(a)
  ELSE IF a.seqid # b.seqid THEN a.seqid < b.seqid
  ELSE IF a.seqnum # b.seqnum THEN a.seqnum < b.seqnum
  ELSE a.name < b.name

\* VacuumOrder::less on the candidates two runs expose
OlderHead(a, b) ==
  IF a.realtime # b.realtime THEN a.realtime < b.realtime
  ELSE IF HaveSeqno(a) # HaveSeqno(b) THEN HaveSeqno(a)
  ELSE IF a.seqid # b.seqid THEN a.seqid < b.seqid
  ELSE a.name < b.name

SameRun(a, b) == HaveSeqno(a) /\ HaveSeqno(b) /\ a.seqid = b.seqid

Runs(cand) ==
  LET starts == {i \in DOMAIN cand : i = 1 \/ ~SameRun(cand[i - 1], cand[i])}
  IN  [k \in 1..Cardinality(starts) |->
         LET order == SetToSortSeq(starts, <)
         IN  [next |-> order[k],
              end  |-> IF k = Len(order) THEN Len(cand) + 1 ELSE order[k + 1]]]

SwapHeads(h, i, j) == [h EXCEPT ![i] = h[j], ![j] = h[i]]

RECURSIVE Down(_, _, _)
Down(cand, h, i) ==
  LET Lt(x, y) == OlderHead(cand[h[x].next], cand[h[y].next])
      left     == 2 * i
      child    == IF left + 1 <= Len(h) /\ Lt(left + 1, left) THEN left + 1 ELSE left
  IN  IF left > Len(h) \/ ~Lt(child, i) THEN h
      ELSE Down(cand, SwapHeads(h, i, child), child)

RECURSIVE Heapify(_, _, _)
Heapify(cand, h, i) ==
  IF i = 0 THEN h ELSE Heapify(cand, Down(cand, h, i), i - 1)

NewOrder(cand) == LET h == Runs(cand) IN Heapify(cand, h, Len(h) \div 2)

\* Iterator::next: the root moves on along its run, or the last run of the
\* heap takes its place
NextOrder(cand, h) ==
  LET moved == [h EXCEPT ![1].next = @ + 1]
      rest  == IF moved[1].next < moved[1].end THEN moved
               ELSE IF Len(h) = 1 THEN <<>>
               ELSE <<h[Len(h)]>> \o SubSeq(h, 2, Len(h) - 1)
  IN  Down(cand, rest, 1)

----------------------------------------------------------------------------
\* The scan: one directory entry at a time.

RemoveCandidate(n, gone, kept) ==
  \/ /\ n \in vcDisk
     /\ vcDisk' = vcDisk \ {n} /\ vcDeleted' = vcDeleted \cup {n}
     /\ UNCHANGED vcFaults /\ gone
  \/ /\ n \notin vcDisk                                       \* NotFound
     /\ UNCHANGED <<vcDisk, vcDeleted, vcFaults>> /\ kept
  \/ /\ n \in vcDisk /\ vcFaults < VacuumFaults               \* any other error
     /\ vcFaults' = vcFaults + 1
     /\ UNCHANGED <<vcDisk, vcDeleted>> /\ kept

ScanProtected(n) ==
  /\ n \in vcDisk /\ Protected(vcFile[n])
  /\ vcActive' = vcActive + 1
  /\ vcSum' = vcSum + vcFile[n].usage
  /\ UNCHANGED <<vcDisk, vcDeleted, vcFaults, vcPool>>

ScanEmpty(n) ==
  /\ n \in vcDisk /\ Candidate(vcFile[n]) /\ JournalFileEmpty(vcFile[n])
  /\ RemoveCandidate(n, TRUE, TRUE)
  /\ UNCHANGED <<vcActive, vcSum, vcPool>>

ScanCandidate(n) ==
  /\ n \in vcDisk /\ Candidate(vcFile[n]) /\ vcFile[n].holds = "entries"
  /\ vcPool' = vcPool \cup
       {[name |-> n, usage |-> vcFile[n].usage, seqid |-> vcFile[n].seqid,
         seqnum |-> vcFile[n].seqnum, realtime |-> PatchVacuumRealtime(vcFile[n])]}
  /\ vcSum' = vcSum + vcFile[n].usage
  /\ UNCHANGED <<vcDisk, vcDeleted, vcFaults, vcActive>>

\* not a journal name, no longer there, or a file that cannot be read
ScanSkip(n) ==
  /\ \/ n \notin vcDisk
     \/ vcFile[n].kind = "other"
     \/ Candidate(vcFile[n]) /\ vcFile[n].holds = "unreadable"
  /\ UNCHANGED <<vcDisk, vcDeleted, vcFaults, vcPool, vcActive, vcSum>>

VacuumScan ==
  /\ vcPhase = "scan"
  /\ vcTodo # <<>>
  /\ vcTodo' = Tail(vcTodo)
  /\ LET n == Head(vcTodo) IN
       ScanProtected(n) \/ ScanEmpty(n) \/ ScanCandidate(n) \/ ScanSkip(n)
  /\ UNCHANGED <<vcFile, vcRotated, vcOpts, vcNow, vcPhase, vcCand, vcHeads,
                 vcIdx, vcDisturbed>>

----------------------------------------------------------------------------
\* Between the scan and the removals: creation times from the extended
\* attribute, read only where they can change the outcome.

WithinUseAndFiles ==
  /\ vcOpts.use = 0 \/ vcSum <= vcOpts.use
  /\ vcOpts.files = 0 \/ vcActive + Cardinality(vcPool) <= vcOpts.files

SequenceOnly == \A a, b \in vcPool : SameRun(a, b)

\* mutant: a shared sequence id is taken to settle the ages too
PatchCreationTimeBroken(c) ==
  IF SequenceOnly \/ (RetentionLimit = 0 /\ WithinUseAndFiles) THEN c
  ELSE [c EXCEPT !.realtime = Earlier(@, vcFile[c.name].crtime)]

PatchCreationTime(c) ==
  IF \/ RetentionLimit = 0 /\ WithinUseAndFiles
     \/ SequenceOnly /\ (RetentionLimit = 0 \/ c.realtime < RetentionLimit)
  THEN c
  ELSE [c EXCEPT !.realtime = Earlier(@, vcFile[c.name].crtime)]

VacuumPrepare ==
  /\ vcPhase = "scan" /\ vcTodo = <<>>
  /\ vcCand' = SetToSortSeq({PatchCreationTime(c) : c \in vcPool}, SortedBefore)
  /\ vcHeads' = NewOrder(vcCand')
  /\ vcPhase' = "delete"
  /\ UNCHANGED <<vcFile, vcRotated, vcOpts, vcNow, vcDisk, vcTodo, vcPool,
                 vcActive, vcSum, vcIdx, vcDeleted, vcFaults, vcDisturbed>>

----------------------------------------------------------------------------
\* The removals.

LimitsHold(c, sum, left) ==
  /\ vcOpts.retention = 0 \/ c.realtime >= RetentionLimit
  /\ vcOpts.use = 0 \/ sum <= vcOpts.use
  /\ vcOpts.files = 0 \/ left <= vcOpts.files

Root == vcCand[vcHeads[1].next]

VacuumRemove ==
  /\ vcPhase = "delete" /\ vcHeads # <<>>
  /\ ~LimitsHold(Root, vcSum, vcActive + Len(vcCand) - vcIdx)
  /\ RemoveCandidate(Root.name, vcSum' = vcSum - Root.usage, UNCHANGED vcSum)
  /\ vcIdx' = vcIdx + 1
  /\ vcHeads' = NextOrder(vcCand, vcHeads)
  /\ UNCHANGED <<vcFile, vcRotated, vcOpts, vcNow, vcPhase, vcTodo, vcPool,
                 vcCand, vcActive, vcDisturbed>>

VacuumStop ==
  /\ vcPhase = "delete"
  /\ vcHeads # <<>> => LimitsHold(Root, vcSum, vcActive + Len(vcCand) - vcIdx)
  /\ vcPhase' = "done"
  /\ UNCHANGED <<vcFile, vcRotated, vcOpts, vcNow, vcDisk, vcTodo, vcPool,
                 vcCand, vcHeads, vcActive, vcSum, vcIdx, vcDeleted, vcFaults,
                 vcDisturbed>>

----------------------------------------------------------------------------
\* What other processes do to the directory meanwhile.

OthersRemove ==
  /\ vcPhase # "done" /\ ~vcDisturbed
  /\ \E n \in vcDisk : Candidate(vcFile[n]) /\ vcDisk' = vcDisk \ {n}
  /\ vcDisturbed' = TRUE
  /\ UNCHANGED <<vcFile, vcRotated, vcOpts, vcNow, vcPhase, vcTodo, vcPool,
                 vcCand, vcHeads, vcActive, vcSum, vcIdx, vcDeleted, vcFaults>>

\* a rename: an open read_dir may return the new name too, or not
WriterRotates ==
  /\ vcPhase # "done" /\ ~vcDisturbed
  /\ \E n \in DOMAIN vcRotated :
       /\ n \in vcDisk
       /\ vcDisk' = (vcDisk \ {n}) \cup {vcRotated[n]}
       /\ \/ UNCHANGED vcTodo
          \/ vcPhase = "scan" /\ vcTodo' = Append(vcTodo, vcRotated[n])
  /\ vcDisturbed' = TRUE
  /\ UNCHANGED <<vcFile, vcRotated, vcOpts, vcNow, vcPhase, vcPool,
                 vcCand, vcHeads, vcActive, vcSum, vcIdx, vcDeleted, vcFaults>>

VacuumNext ==
  VacuumScan \/ VacuumPrepare \/ VacuumRemove \/ VacuumStop
  \/ OthersRemove \/ WriterRotates

VacuumSpec == VacuumInit /\ [][VacuumNext]_vacuumVars

----------------------------------------------------------------------------
\* What a pass should remove, with every time of every file known.

FullAge(n) == Earlier(PatchVacuumRealtime(vcFile[n]), vcFile[n].crtime)
AsCandidate(n) == [name |-> n, seqid |-> vcFile[n].seqid, seqnum |-> vcFile[n].seqnum,
             realtime |-> FullAge(n), usage |-> vcFile[n].usage]

\* the files of S with no earlier file of their own history in S
Firsts(S) == {c \in S : \A d \in S : SameRun(c, d) => ~SortedBefore(d, c)}

RECURSIVE Surplus(_, _, _)
Surplus(S, use, count) ==
  IF S = {} THEN {}
  ELSE LET c == CHOOSE x \in Firsts(S) :
                  \A y \in Firsts(S) : x = y \/ OlderHead(x, y)
       IN  IF LimitsHold(c, use, count) THEN {}
           ELSE {c.name} \cup Surplus(S \ {c}, use - c.usage, count - 1)

Originals == DOMAIN vcFile \ Range(vcRotated)

\* VacuumExact: a pass that nothing disturbs, and whose removals all succeed,
\* deletes the empty archived files and exactly the files that have to go,
\* oldest first, for the limits to hold: the heap of runs, the lazily read
\* creation times (main.rs patch_vacuum_creation_times) and the running sum
\* and count lose and add nothing.
VacuumExact ==
  (vcPhase = "done" /\ ~vcDisturbed /\ vcFaults = 0) =>
    LET journals == {n \in Originals : Candidate(vcFile[n])}
        full     == {n \in journals : vcFile[n].holds = "entries"}
        fixed    == {n \in Originals : Protected(vcFile[n])}
    IN  vcDeleted =
          {n \in journals : JournalFileEmpty(vcFile[n])} \cup
          Surplus({AsCandidate(n) : n \in full}, SumUsage(full \cup fixed),
                  Cardinality(full) + Cardinality(fixed))

\* VacuumHistory: whatever other processes do and whichever removal fails, a
\* pass never leaves a hole in a history of its own making: when it removes a
\* file, every candidate of the same sequence number id before it was tried
\* first, so what remains of it is there only because its removal failed.
VacuumHistory ==
  \A a, b \in vcPool :
    (a.seqid = b.seqid /\ a.seqnum < b.seqnum /\ b.name \in vcDeleted /\ vcFaults = 0)
      => a.name \notin vcDisk

(***************************************************************************)
(* A vacuuming pass among other processes removes the files its limits     *)
(* name, oldest first, and never more.                                     *)
(***************************************************************************)
VacuumSound ==
  /\ VacuumExact
  /\ VacuumHistory
=============================================================================
