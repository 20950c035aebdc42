--------------------------- MODULE DirectoryReader ---------------------------
(***************************************************************************)
(* DirectoryReader: several files read as one journal, one after the other *)
(* when their headers prove that they do not overlap, else merged by       *)
(* comparing the next entry of each.                                       *)
(*   dr : [files, index, pseek, bound, cand, key, dir, newest, apart,      *)
(*         rchanged, merging]                                              *)
(*     index   file of the current entry, 0 for none (usize::MAX)          *)
(*     pseek   pending_realtime_seek, bound = [t, dir] realtime_seek_bound *)
(*     cand    per file, the key of its next entry or NoKey                *)
(*     newest  boot -> the newest entry known of it, apart: non_overlapping*)
(***************************************************************************)
EXTENDS JournalReader

NoKey == [sid |-> 0, q |-> 0, b |-> 0, m |-> 0, t |-> 0, h |-> 0]
NoBound == [t |-> NoTime, dir |-> "none"]

DirRet(err, v, dr) == [err |-> err, v |-> v, dr |-> dr]

\* effective_header: the tail a recovered file really has.
LastEntry(f) ==
    LET i == EntryCount(f)
    IN IF i = 0 THEN NoKey
       ELSE LET e == Journals[f.j][i] IN [sid |-> SeqIds[f.j], q |-> e.q, b |-> e.b, m |-> e.m, t |-> e.t, h |-> e.h]
HeadTime(f) == IF f.n = 0 THEN 0 ELSE Journals[f.j][1].t

\* current_directory_entry_key: NoKey stands for no current entry.
KeyOf(rd) ==
    LET o == IF rd.row # 0 THEN rd.row ELSE rd.loc.v
        e == EntryAt(rd.f, o)
    IN IF rd.row = 0 /\ rd.loc.k # "at" THEN NoKey
       ELSE [sid |-> SeqIds[rd.f.j], q |-> e.q, b |-> e.b, m |-> e.m, t |-> e.t, h |-> e.h]

BootNewest(files) ==
    With({LastEntry(files[i].f) : i \in DOMAIN files} \ {NoKey}, LAMBDA tails :
    [b \in {k.b : k \in tails} |->
       (CHOOSE k \in tails : k.b = b /\ \A o \in tails : o.b = b => o.m <= k.m).t])

\* directory_files_non_overlapping looks at the headers as they were at opening.
NonOverlapping(files) ==
    /\ files # <<>>
    /\ \A i \in 1..(Len(files) - 1) :
         LET f == files[i].f  g == files[i + 1].f
         IN /\ SeqIds[f.j] = SeqIds[g.j] /\ f.n > 0 /\ g.n > 0
            /\ Journals[f.j][f.n].q < Journals[g.j][1].q
            /\ Journals[f.j][f.n].t < Journals[g.j][1].t

Cmp(a, b) == IF a < b THEN -1 ELSE IF a > b THEN 1 ELSE 0
First2(a, b) == IF a # 0 THEN a ELSE b
CompareBoots(newest, a, b) ==
    IF a \in DOMAIN newest /\ b \in DOMAIN newest THEN Cmp(newest[a], newest[b]) ELSE 0
CompareKeys(newest, a, b) ==
    IF a = b THEN 0
    ELSE First2(IF a.sid = b.sid THEN Cmp(a.q, b.q) ELSE 0,
         First2(IF a.b = b.b THEN Cmp(a.m, b.m) ELSE CompareBoots(newest, a.b, b.b),
         First2(Cmp(a.t, b.t), Cmp(a.h, b.h))))
Beyond(newest, a, b, dir) == IF dir = "fwd" THEN CompareKeys(newest, a, b) > 0 ELSE CompareKeys(newest, a, b) < 0

Unchanged(files) == [i \in DOMAIN files |-> [files[i] EXCEPT !.f.changed = FALSE]]
NoCands(files) == [i \in DOMAIN files |-> NoKey]

\* from_readers: files by the time of their first entry.
OpenDirectory(readers) ==
    LET files == Unchanged(SortSeq(readers, LAMBDA r, s : HeadTime(r.f) < HeadTime(s.f)))
    IN [files |-> files, index |-> 0, pseek |-> NoTime, bound |-> NoBound, cand |-> NoCands(files),
        key |-> NoKey, dir |-> "none", newest |-> BootNewest(files), apart |-> NonOverlapping(files),
        rchanged |-> FALSE, merging |-> FALSE]

Reset(dr) == [dr EXCEPT !.merging = FALSE, !.pseek = NoTime, !.bound = NoBound, !.index = 0, !.key = NoKey,
                        !.dir = "none", !.cand = NoCands(dr.files)]
DirSeekHead(dr) == [Reset(dr) EXCEPT !.files = [i \in DOMAIN @ |-> SeekHead(@[i])]]
DirSeekTail(dr) == [Reset(dr) EXCEPT !.files = [i \in DOMAIN @ |-> SeekTail(@[i])]]
DirSeekRealtime(dr, t) == [Reset(dr) EXCEPT !.pseek = t]

\* advance_candidate_reader
Advance(dr, i, dir) ==
    With(StepValid(dr.files[i], dir), LAMBDA got :
    DirRet(got.err, got.v, [dr EXCEPT !.files[i] = [got.rd EXCEPT !.f.changed = FALSE],
                                      !.rchanged = @ \/ got.rd.f.changed]))

PrepareMergeStale(dr, dir) ==
    IF dr.pseek # NoTime
    THEN [dr EXCEPT !.files = [i \in DOMAIN @ |-> SeekRealtime(@[i], dr.pseek)],
                    !.bound = [t |-> dr.pseek, dir |-> dir], !.pseek = NoTime, !.dir = dir]
    ELSE [dr EXCEPT !.dir = dir]
PrepareMerge(dr, dir) ==
    LET at(rd, t) == SeekRealtime(rd, t)
    IN IF dr.pseek # NoTime
       THEN [dr EXCEPT !.files = [i \in DOMAIN @ |-> at(@[i], dr.pseek)], !.cand = NoCands(dr.files),
                       !.bound = [t |-> dr.pseek, dir |-> dir], !.pseek = NoTime, !.dir = dir]
       ELSE IF dr.dir = dir THEN dr
       ELSE [dr EXCEPT !.files = [i \in DOMAIN @ |-> IF dr.key # NoKey THEN at(@[i], dr.key.t)
                                                     ELSE IF dir = "fwd" THEN SeekHead(@[i]) ELSE SeekTail(@[i])],
                       !.cand = NoCands(dr.files), !.dir = dir]

InBound(dr, key) ==
    dr.bound = NoBound \/ (IF dr.bound.dir = "fwd" THEN key.t >= dr.bound.t ELSE key.t <= dr.bound.t)
AfterCurrent(dr, key, dir) == dr.key = NoKey \/ Beyond(dr.newest, key, dr.key, dir)

RECURSIVE FillCandidate(_, _, _)
FillCandidate(dr, i, dir) ==
    With(Advance(dr, i, dir), LAMBDA got :
    With(KeyOf(got.dr.files[i]), LAMBDA key :
    IF dr.cand[i] # NoKey THEN DirRet("", TRUE, dr)
    ELSE IF got.err # "" \/ ~got.v \/ got.dr.rchanged THEN got
    ELSE IF InBound(got.dr, key) /\ AfterCurrent(got.dr, key, dir) THEN [got EXCEPT !.dr.cand[i] = key]
    ELSE FillCandidate(got.dr, i, dir)))

RestartMerge(dr) ==
    [dr EXCEPT !.rchanged = FALSE, !.newest = BootNewest(dr.files), !.apart = FALSE,
               !.pseek = IF dr.key = NoKey THEN dr.bound.t ELSE @, !.dir = "none", !.cand = NoCands(dr.files)]

RECURSIVE StepMerge(_, _)
\* Candidates are filled file by file; a file whose tail had to be recovered starts over.
StepMerge(dr0, dir) ==
    With(PrepareMerge([dr0 EXCEPT !.merging = TRUE], dir), LAMBDA dr :
    With(FoldLeft(LAMBDA acc, i : IF acc.err # "" \/ acc.dr.rchanged THEN acc ELSE FillCandidate(acc.dr, i, dir),
                  DirRet("", TRUE, dr), [i \in DOMAIN dr.files |-> i]), LAMBDA filled :
    LET done == filled.dr
    IN With(FoldLeft(LAMBDA acc, i : IF done.cand[i] = NoKey THEN acc
                                  ELSE IF acc = 0 THEN i
                                  ELSE IF Beyond(done.newest, done.cand[acc], done.cand[i], dir) THEN i ELSE acc,
                  0, [i \in DOMAIN done.files |-> i]), LAMBDA best :
    IF filled.err # "" THEN DirRet(filled.err, FALSE, done)
    ELSE IF done.rchanged THEN StepMerge(RestartMerge(done), dir)
    ELSE IF best = 0 THEN DirRet("", FALSE, [done EXCEPT !.index = 0, !.bound = NoBound])
    ELSE DirRet("", TRUE, [done EXCEPT !.index = best, !.key = done.cand[best], !.cand[best] = NoKey, !.bound = NoBound]))))

CanStepSequential(dr, dir) ==
    /\ dr.apart /\ ~dr.merging /\ dr.pseek = NoTime
    /\ ~(dr.dir \notin {"none", dir} /\ dr.key # NoKey)

HasFilter(rd) == rd.pend.set \/ rd.expr # NoExpr

\* step_sequential_forward and _backward from file i on.
RECURSIVE SequentialFrom(_, _)
SequentialFrom(dr, dir) ==
    LET i == IF dr.index # 0 THEN dr.index ELSE IF dir = "fwd" THEN 1 ELSE Len(dr.files)
    IN With(Advance([dr EXCEPT !.index = i], i, dir), LAMBDA got :
    LET next == i + (IF dir = "fwd" THEN 1 ELSE -1)
    IN IF got.err # "" THEN [got EXCEPT !.v = FALSE]
       ELSE IF got.dr.rchanged THEN [got EXCEPT !.v = FALSE]
       ELSE IF got.v THEN DirRet("", TRUE, [got.dr EXCEPT !.key = KeyOf(got.dr.files[i])])
       ELSE IF next \in DOMAIN dr.files THEN SequentialFrom([got.dr EXCEPT !.index = next], dir)
       ELSE DirRet("", FALSE, [got.dr EXCEPT !.index = 0, !.key = IF HasFilter(got.dr.files[1]) THEN @ ELSE NoKey]))

StepSequential(dr, dir) ==
    LET turned == [dr EXCEPT !.files = [i \in DOMAIN @ |-> IF dir = "fwd" THEN SeekHead(@[i]) ELSE SeekTail(@[i])],
                             !.index = IF dir = "fwd" THEN 1 ELSE Len(dr.files),
                             !.cand = NoCands(dr.files), !.key = NoKey, !.bound = NoBound, !.dir = dir]
    IN IF dr.files = <<>> THEN DirRet("", FALSE, [dr EXCEPT !.index = 0, !.key = NoKey])
       ELSE SequentialFrom(IF dr.dir # dir THEN turned ELSE dr, dir)

\* A tail recovered while files are read one after the other makes them overlap.
StepMergedInner(dr, dir) ==
    With(IF CanStepSequential(dr, dir) THEN StepSequential(dr, dir) ELSE DirRet("", FALSE, dr), LAMBDA got :
    IF CanStepSequential(dr, dir) /\ (got.err # "" \/ ~got.dr.rchanged) THEN got
    ELSE StepMerge(IF CanStepSequential(dr, dir) THEN RestartMerge(got.dr) ELSE dr, dir))

\* step_merged: a failed step leaves the reader at the entry it was at.
DirStep(dr, dir) ==
    LET i == dr.index
        before == IF dr.key # NoKey /\ i # 0 /\ dr.files[i].loc.k = "at" THEN dr.files[i].loc.v ELSE 0
    IN With(StepMergedInner(dr, dir), LAMBDA got :
    LET back == [got.dr EXCEPT !.index = i]
    IN IF got.err = "" THEN got
       ELSE IF before = 0 THEN DirRet(got.err, FALSE, back)
       ELSE DirRet(got.err, FALSE, [back EXCEPT !.files[i] = SetLocation([@ EXCEPT !.row = 0], At(before)),
                                                !.cand[i] = NoKey]))

\* invalidate_filter_candidates
InvalidateCandidates(dr) ==
    IF dr.apart /\ ~dr.merging /\ dr.dir # "none" /\ dr.key # NoKey /\ dr.index # 0
    THEN [dr EXCEPT !.cand = NoCands(dr.files)]
    ELSE [dr EXCEPT !.pseek = IF dr.key = NoKey /\ @ = NoTime THEN dr.bound.t ELSE @,
                    !.merging = dr.key # NoKey, !.dir = "none", !.bound = NoBound, !.cand = NoCands(dr.files)]
DirAddMatch(dr, x) ==
    LET ready == InvalidateCandidates(dr)
    IN [ready EXCEPT !.files = [i \in DOMAIN @ |-> ReaderAddMatch(@[i], x)]]
\* add_conjunction and add_disjunction stop at the first file that fails.
DirSetOperation(dr, conj) ==
    LET ready == InvalidateCandidates(dr)
    IN FoldLeft(LAMBDA acc, i : IF acc.err # "" THEN acc
                                ELSE With(ReaderSetOperation(acc.dr.files[i], conj), LAMBDA got :
                                     DirRet(got.err, TRUE, [acc.dr EXCEPT !.files[i] = got.rd])),
                DirRet("", TRUE, ready), [i \in DOMAIN dr.files |-> i])
DirFlush(dr) ==
    [dr EXCEPT !.files = [i \in DOMAIN @ |-> FlushMatches(@[i])], !.pseek = NoTime, !.merging = FALSE, !.index = 0,
               !.key = NoKey, !.dir = "none", !.bound = NoBound, !.cand = NoCands(dr.files)]

-----------------------------------------------------------------------------
(* seek_cursor_direction: every file by its own indexes, then the others    *)
(* again next to the entry chosen.                                          *)

AnchorFile(dr, i, a, dir) ==
    With(SeekCursorAnchor(dr.files[i], a, dir), LAMBDA got :
    DirRet(got.err, TRUE, [dr EXCEPT !.files[i] = [got.rd EXCEPT !.f.changed = FALSE], !.rchanged = @ \/ got.rd.f.changed]))

AnchorFirst(dr, a, dir) ==
    FoldLeft(LAMBDA acc, i : IF acc.err # "" THEN acc
                             ELSE With(AnchorFile(acc.dr, i, a, dir), LAMBDA got :
                                  IF got.err # "" THEN got ELSE [got EXCEPT !.dr.cand[i] = KeyOf(got.dr.files[i])]),
             DirRet("", TRUE, dr), [i \in DOMAIN dr.files |-> i])

BestAnchored(dr, a, dir) ==
    LET idx == [i \in DOMAIN dr.files |-> i]
        exact == SelectSeq(idx, LAMBDA i : dr.cand[i] # NoKey /\ a.seq = <<dr.cand[i].sid, dr.cand[i].q>>)
    IN IF exact # <<>> THEN exact[Len(exact)]
       ELSE FoldLeft(LAMBDA acc, i : IF dr.cand[i] = NoKey THEN acc ELSE IF acc = 0 THEN i
                                     ELSE IF Beyond(dr.newest, dr.cand[acc], dr.cand[i], dir) THEN i ELSE acc, 0, idx)

AnchorRest(dr, best, dir) ==
    LET key == dr.cand[best]
        next == [seq |-> <<key.sid, key.q>>, mono |-> <<key.b, key.m>>, t |-> key.t]
        keeps(d, i) == d.cand[i] # NoKey /\ Beyond(d.newest, d.cand[i], key, dir)
    IN FoldLeft(LAMBDA acc, i :
                  IF acc.err # "" \/ i = best \/ keeps(acc.dr, i) THEN acc
                  ELSE With(AnchorFile([acc.dr EXCEPT !.cand[i] = NoKey], i, next, dir), LAMBDA got :
                       With(KeyOf(got.dr.files[i]), LAMBDA cand :
                       IF got.err # "" \/ cand = NoKey \/ ~Beyond(got.dr.newest, cand, key, dir) THEN got
                       ELSE [got EXCEPT !.dr.cand[i] = cand])),
                DirRet("", TRUE, dr), [i \in DOMAIN dr.files |-> i])

RECURSIVE DirSeekAnchor(_, _, _)
DirSeekAnchor(dr0, a, dir) ==
    LET dr == [Reset(dr0) EXCEPT !.dir = dir, !.merging = TRUE, !.rchanged = FALSE]
    IN With(AnchorFirst(dr, a, dir), LAMBDA first :
    With(BestAnchored(first.dr, a, dir), LAMBDA best :
    With(AnchorRest(first.dr, best, dir), LAMBDA rest :
    LET renew(d) == [d EXCEPT !.newest = BootNewest(d.files)]
    IN IF first.err # "" THEN first
       ELSE IF first.dr.rchanged THEN DirSeekAnchor(renew(first.dr), a, dir)
       ELSE IF best = 0 THEN first
       ELSE IF rest.err # "" THEN rest
       ELSE IF rest.dr.rchanged THEN DirSeekAnchor(renew(rest.dr), a, dir)
       ELSE DirRet("", TRUE, [rest.dr EXCEPT !.index = best, !.key = first.dr.cand[best], !.cand[best] = NoKey]))))
=============================================================================
