------------------------------ MODULE LogFiles ------------------------------
(***************************************************************************)
(* The directory a Log owns and its bookkeeping of it: journal file names, *)
(* the order of a Chain (journal-registry), and OwnedChain                 *)
(* (journal-log-writer/src/log/chain.rs), which tracks the files, their    *)
(* committed sizes and their total, and deletes by retention policy.       *)
(*                                                                         *)
(* Everything works on a state s: disk maps names to files, made counts    *)
(* the files created, now is the wall clock; inner, sizes, total and the   *)
(* rest are the Log's memory.  A fallible call returns an outcome [s, ok]; *)
(* Then continues it the way the ? operator does.  A fault f names the I/O *)
(* step that fails in this call.                                           *)
(***************************************************************************)
EXTENDS Integers, Sequences, FiniteSets, TLC, FiniteSetsExt

CONSTANTS
    Own,        \* the machine directory of this Log
    Machines    \* every machine directory below the root (numbers: path order)

ASSUME OwnMachine == Own \in Machines /\ Machines \subseteq Nat

-----------------------------------------------------------------------------
(* Names and files.                                                        *)

NoName == [m |-> 0, kind |-> "none", id |-> 0, hs |-> 0, hr |-> 0]

\* <source>.journal
ActiveName(m) == [m |-> m, kind |-> "active", id |-> 0, hs |-> 0, hr |-> 0]

\* <source>@<seqnum-id>-<head-seqnum>-<head-realtime>.journal
ArchiveName(m, id, hs, hr) ==
    [m |-> m, kind |-> "archived", id |-> id, hs |-> hs, hr |-> hr]

\* <source>@<stamp>-<random>.journal~
DisposedName(m, stamp, random) ==
    [m |-> m, kind |-> "disposed", id |-> 0, hs |-> random, hr |-> stamp]

Rank(n) == CASE n.kind = "disposed" -> 0 [] n.kind = "archived" -> 1 [] OTHER -> 2

\* Ord for Status, then for File.
Before(a, b) ==
    \/ Rank(a) < Rank(b)
    \/ /\ Rank(a) = Rank(b)
       /\ \/ a.hr < b.hr
          \/ a.hr = b.hr /\ a.id < b.id
          \/ a.hr = b.hr /\ a.id = b.id /\ a.hs < b.hs
          \/ a.hr = b.hr /\ a.id = b.id /\ a.hs = b.hs /\ a.m < b.m

FirstOf(names) == CHOOSE n \in names : \A k \in names \ {n} : Before(n, k)
LastOf(names)  == CHOOSE n \in names : \A k \in names \ {n} : Before(k, n)

\* fid is the file's identity, supported whether append-open accepts the
\* header, geo its hash table geometry.  The other header fields are read off
\* the entries; an entry is [id, s, r, m, b].
NewFile(fid, id, boot, geo) ==
    [fid |-> fid, st |-> "online", supported |-> TRUE, id |-> id,
     boot |-> boot, geo |-> geo, ents |-> <<>>]

HeadSeqnum(f)   == IF f.ents = <<>> THEN 0 ELSE Head(f.ents).s
HeadRealtime(f) == IF f.ents = <<>> THEN 0 ELSE Head(f.ents).r
TailSeqnum(f)   == IF f.ents = <<>> THEN 0 ELSE f.ents[Len(f.ents)].s
TailRealtime(f) == IF f.ents = <<>> THEN 0 ELSE f.ents[Len(f.ents)].r
TailMonotonic(f) == IF f.ents = <<>> THEN 0 ELSE f.ents[Len(f.ents)].m
TailBoot(f)     == IF f.ents = <<>> THEN f.boot ELSE f.ents[Len(f.ents)].b

\* The end of the tail object, in units of one entry; a fresh file has one.
CommittedSize(f) == 1 + Len(f.ents)

\* Mutant: the name does not tell two files of one seqnum id apart.
ArchiveById(m, f) == ArchiveName(m, f.id, 1, 1)

Archive(m, f) == ArchiveName(m, f.id, HeadSeqnum(f), HeadRealtime(f))

-----------------------------------------------------------------------------
(* Outcomes and faults.                                                    *)

Ok(s)  == [s |-> s, ok |-> TRUE]
Err(s) == [s |-> s, ok |-> FALSE]

Then(o, F(_)) == IF o.ok THEN F(o.s) ELSE o
\* F of what an earlier step made, whether it succeeded or not.
With(o, F(_)) == F(o)

NoFault == [step |-> "none", n |-> NoName]
Fails(f, step) == f.step = step
UnlinkFails(f, n) == f.step = "unlink" /\ f.n = n

Monus(a, b) == IF a > b THEN a - b ELSE 0

Drop(fun, keys) == [k \in DOMAIN fun \ keys |-> fun[k]]
SizeOf(s, n) == IF n \in DOMAIN s.sizes THEN s.sizes[n] ELSE 0
Total(sizes) == FoldSet(LAMBDA n, t : sizes[n] + t, 0, DOMAIN sizes)

-----------------------------------------------------------------------------
(* OwnedChain.                                                             *)

OwnNames(s) == {n \in DOMAIN s.disk : n.m = Own}

\* OwnedChain::new: every parseable name of the directory, with its size.
ScanChain(s) ==
    LET sizes == [n \in OwnNames(s) |-> CommittedSize(s.disk[n])]
    IN [s EXCEPT !.inner = OwnNames(s), !.sizes = sizes, !.total = Total(sizes)]

\* tail_state: the file with the highest tail sequence number, then head time.
TailFiles(s, include_active) ==
    {n \in OwnNames(s) : n.kind = "archived" \/ (include_active /\ n.kind # "archived")}

TailBefore(s, a, b) ==
    \/ TailSeqnum(s.disk[a]) < TailSeqnum(s.disk[b])
    \/ /\ TailSeqnum(s.disk[a]) = TailSeqnum(s.disk[b])
       /\ HeadRealtime(s.disk[a]) < HeadRealtime(s.disk[b])

\* read_dir gives no order: among equals any file may be the one kept.
TailCandidates(s, names) == {n \in names : \A k \in names : ~TailBefore(s, n, k)}

\* online_chain_file.
OnlineChainFiles(s) ==
    TailCandidates(s, {n \in OwnNames(s) : n.kind = "archived" /\ s.disk[n].st = "online"})

RemoveTracked(s, n) ==
    [s EXCEPT !.total = Monus(@, SizeOf(s, n)),
              !.sizes = Drop(@, {n}),
              !.inner = @ \ {n}]

UpdateFileSize(s, n, size) ==
    [s EXCEPT !.total = Monus(@, SizeOf(s, n)) + size,
              !.sizes = (n :> size) @@ @]

\* dispose_file: rename to a fresh *.journal~ name stamped with nanoseconds
\* (every other time is in microseconds), sync, forget.
DisposeFile(s, n, f) ==
    LET target == DisposedName(n.m, 1000 * s.now, s.made)
        moved  == [s EXCEPT !.disk = Drop((target :> s.disk[n]) @@ @, {n}), !.made = @ + 1]
    IN IF n \notin DOMAIN s.disk THEN Ok(RemoveTracked(s, n))
       ELSE IF Fails(f, "rename") THEN Err(s)
       ELSE IF Fails(f, "dirsync") THEN Err(moved)
       ELSE Ok(RemoveTracked(moved, n))

\* archive_file: rename to the chain name and move the tracked size along.
ArchiveFile(s, n, header, f) ==
    LET target  == Archive(Own, header)
        renames == n # target /\ n \in DOMAIN s.disk
        moved   == IF renames
                   THEN [s EXCEPT !.disk = Drop((target :> s.disk[n]) @@ @, {n})]
                   ELSE s
        tracked == [moved EXCEPT !.sizes = (target :> SizeOf(s, n)) @@ Drop(@, {n}),
                                 !.inner = (@ \ {n}) \cup {target}]
    IN IF renames /\ Fails(f, "rename") THEN Err(s)
       ELSE IF renames /\ Fails(f, "dirsync") THEN Err(moved)
       ELSE Ok(tracked)

\* archive_existing_active_file: only a nonempty file is renamed, and one that
\* vanished is forgotten (its size stays in the total).
ArchiveExistingActive(s, sync, f) ==
    LET n == LastOf(s.inner)
    IN IF s.inner = {} \/ n.kind # "active" THEN Ok(s)
       ELSE IF n \notin DOMAIN s.disk
            THEN Ok([s EXCEPT !.sizes = Drop(@, {n}), !.inner = @ \ {n}])
       ELSE IF Fails(f, "open") THEN Err(s)
       ELSE IF s.disk[n].ents = <<>> THEN Ok(s)
       ELSE IF sync /\ Fails(f, "sync") THEN Err(s)
       ELSE ArchiveFile(s, n, s.disk[n], f)

\* refresh_retained_sizes with an artifact sizer: each size is stored as it is
\* measured, in no particular order, and the total at the end.  A failing sizer
\* leaves the sizes measured before it (those at the places f.done) and the old
\* total; stale is a ghost for that.
Place(n, names) == Cardinality({k \in names : Before(k, n)}) + 1
RefreshSizes(s, artifact, f) ==
    LET size(n) == (IF n \in DOMAIN s.disk THEN CommittedSize(s.disk[n]) ELSE 0) + artifact
        done  == {n \in DOMAIN s.sizes : Fails(f, "sizer") => Place(n, DOMAIN s.sizes) \in f.done}
        sizes == [n \in DOMAIN s.sizes |-> IF n \in done THEN size(n) ELSE s.sizes[n]]
    IN IF done # DOMAIN s.sizes THEN Err([s EXCEPT !.sizes = sizes, !.stale = TRUE])
       ELSE Ok([s EXCEPT !.sizes = sizes, !.total = Total(sizes), !.stale = FALSE])

-----------------------------------------------------------------------------
(* Retention.  A limit of 0 is a limit that is not set.                    *)

\* deleted holds the identities of the files reported by RetainedDeleted events
\* of the current call (0 for a file that was already gone).
Identity(s, n) == IF n \in DOMAIN s.disk THEN s.disk[n].fid ELSE 0

\* The file is gone (it may have been gone before): forget it, report it.
Deleted(s, n) ==
    [s EXCEPT !.disk = Drop(@, {n}), !.inner = @ \ {n}, !.sizes = Drop(@, {n}),
              !.total = Monus(@, SizeOf(s, n)), !.deleted = @ \cup {Identity(s, n)}]

\* delete_oldest_file: the oldest that is not protected; a failed unlink keeps
\* the file and its accounting.
DeleteOldest(s, protected, f) ==
    LET n == FirstOf(s.inner \ {protected})
    IN IF UnlinkFails(f, n) THEN Err(s) ELSE Ok(Deleted(s, n))

OverCount(s, pol) == pol.files # 0 /\ Cardinality(s.inner) > pol.files

OverSize(s, pol) == pol.bytes # 0 /\ s.total > pol.bytes /\ s.inner # {}

RECURSIVE RetainByFileCount(_, _, _, _)
RetainByFileCount(o, pol, protected, f) ==
    IF ~o.ok \/ ~OverCount(o.s, pol) \/ o.s.inner \ {protected} = {} THEN o
    ELSE RetainByFileCount(DeleteOldest(o.s, protected, f), pol, protected, f)

\* Mutant: the active file is not protected from the size limit.
RECURSIVE RetainByTotalSizeAny(_, _, _, _)
RetainByTotalSizeAny(o, pol, protected, f) ==
    IF ~o.ok \/ ~OverSize(o.s, pol) THEN o
    ELSE RetainByTotalSizeAny(DeleteOldest(o.s, NoName, f), pol, protected, f)

RECURSIVE RetainByTotalSize(_, _, _, _)
RetainByTotalSize(o, pol, protected, f) ==
    IF ~o.ok \/ ~OverSize(o.s, pol) \/ o.s.inner \ {protected} = {} THEN o
    ELSE RetainByTotalSize(DeleteOldest(o.s, protected, f), pol, protected, f)

\* Chain::drain: the head time (disposed files: the stamp) of the name decides.
Drained(s, cutoff) == {n \in s.inner : n.kind # "active" /\ n.hr <= cutoff}

\* delete_files_older_than: every drained file is tried, failures are put back.
RetainByEntryAge(o, pol, protected, f) ==
    LET old    == Drained(o.s, Monus(o.s.now, pol.age)) \ {protected}
        failed == {n \in old : UnlinkFails(f, n)}
        s      == FoldSet(LAMBDA n, acc : Deleted(acc, n), o.s, old \ failed)
    IN IF ~o.ok \/ pol.age = 0 THEN o
       ELSE [s |-> s, ok |-> failed = {}]

\* retain: the three limits in order, an error stops; then the directory sync.
Retain(s, pol, protected, f) ==
    With(RetainByEntryAge(RetainByTotalSize(RetainByFileCount(Ok(s), pol, protected, f),
                                            pol, protected, f), pol, protected, f), LAMBDA o :
         IF o.ok /\ o.s.inner # s.inner /\ Fails(f, "dirsync") THEN Err(o.s) ELSE o)
=============================================================================
