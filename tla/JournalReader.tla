---------------------------- MODULE JournalReader ----------------------------
(***************************************************************************)
(* JournalCursor, JournalReader and FileReader: one reader of one file.    *)
(*   rd : [f, loc, arr, expr, eof, pend, row]                              *)
(*     loc  [k, v] : "head", "tail", "time" (a realtime) or "at" (an entry)*)
(*     arr  [total, pos] : cursor in the global list (total 0: none)       *)
(*     expr the installed filter, pend the one being built                 *)
(*     eof  [dir, n] : recovery_eof, the end last observed under recovery  *)
(*     row  offset of the loaded entry, 0 when there is none               *)
(* Every operation of the reader returns [err, v, rd].                     *)
(***************************************************************************)
EXTENDS ReaderFilter

NoArr == [total |-> 0, pos |-> 0]
NoEof == [dir |-> "none", n |-> 0]
Head0 == [k |-> "head", v |-> 0]
Tail0 == [k |-> "tail", v |-> 0]
At(o) == [k |-> "at", v |-> o]

Ret(err, v, rd) == [err |-> err, v |-> v, rd |-> rd]

-----------------------------------------------------------------------------
(* JournalCursor                                                            *)

CursorSet(rd, loc) ==
    [rd EXCEPT !.loc = loc, !.arr = NoArr,
               !.expr = IF loc.k = "at" THEN Invalidate(@) ELSE @]
CursorFilter(rd, e) == [rd EXCEPT !.expr = IF rd.loc.k = "at" THEN Invalidate(e) ELSE e]
ClearFilter(rd) == CursorSet([rd EXCEPT !.expr = NoExpr], Head0)

\* The global list, when entries are declared.
StoreArray(rd, pos) ==
    With(Slot(rd.f, All, pos), LAMBDA s :
    IF pos = 0 THEN Ret("", 0, rd)
    ELSE IF s.err # "" THEN Ret(s.err, 0, rd)
    ELSE Ret("", s.v, [rd EXCEPT !.arr = [total |-> IF @.total = 0 THEN EntryCount(rd.f) ELSE @.total, pos |-> pos]]))

\* A position found by a search over the whole list, with a cursor of its own.
SearchArray(rd, key, needle, dir) ==
    With(Partition(rd.f, All, EntryCount(rd.f), key, needle, dir), LAMBDA found :
    IF EntryCount(rd.f) = 0 THEN Ret("", 0, rd)
    ELSE IF found.err # "" THEN Ret(found.err, 0, rd)
    ELSE StoreArray([rd EXCEPT !.arr = IF found.v = 0 THEN @ ELSE NoArr], found.v))

ResolveTail(rd) ==
    LET n == EntryCount(rd.f)
    IN IF n = 0 THEN Ret("", 0, rd) ELSE IF ~Reachable(rd.f, All, n) THEN Ret("bounds", 0, rd)
       ELSE StoreArray([rd EXCEPT !.arr = NoArr], n)

\* resolve_missing_array_cursor: strictly past the entry the reader is at.
MissingArray(rd, dir) == SearchArray(rd, "offset", IF dir = "fwd" THEN rd.loc.v + 1 ELSE rd.loc.v - 1, dir)

StepArray(rd, dir) ==
    IF rd.arr = NoArr THEN MissingArray(rd, dir)
    ELSE LET pos == rd.arr.pos + (IF dir = "fwd" THEN 1 ELSE -1)
         IN IF pos < 1 \/ pos > rd.arr.total THEN Ret("", 0, rd) ELSE StoreArray(rd, pos)

ResolveArray(rd, dir) ==
    CASE rd.loc.k = "head" -> IF dir = "back" \/ EntryCount(rd.f) = 0 THEN Ret("", 0, rd)
                              ELSE StoreArray([rd EXCEPT !.arr = NoArr], 1)
      [] rd.loc.k = "tail" -> IF dir = "fwd" THEN Ret("", 0, rd) ELSE ResolveTail(rd)
      [] rd.loc.k = "time" -> SearchArray(rd, "realtime", rd.loc.v, dir)
      [] rd.loc.k = "at"   -> StepArray(rd, dir)

Filtered(rd, got) == Ret(got.err, got.v, [rd EXCEPT !.f = got.f, !.expr = got.e])

\* The item of the global list next to a key: v = 0 when there is none.
GlobalBound(f, key, needle, dir) ==
    With(IF EntryCount(f) = 0 THEN Fine(0) ELSE Partition(f, All, EntryCount(f), key, needle, dir), LAMBDA pos :
    IF pos.err # "" \/ pos.v = 0 THEN pos ELSE Slot(f, All, pos.v))

FilterTime(rd, dir) ==
    With(GlobalBound(rd.f, "realtime", rd.loc.v, dir), LAMBDA at :
    IF at.err # "" \/ at.v = 0 THEN Ret(at.err, 0, rd)
    ELSE Filtered(rd, FilterSeek(rd.f, rd.expr, at.v, dir)))

\* Where a filter is asked from: its cursors and the first offset that may match, 0 for none.
FilterStart(rd, dir) ==
    CASE rd.loc.k = "head" -> [err |-> "", f |-> rd.f, e |-> MapCursors(rd.expr, "head"), v |-> IF dir = "fwd" THEN 1 ELSE 0]
      [] rd.loc.k = "tail" -> IF dir = "fwd" THEN [err |-> "", f |-> rd.f, e |-> rd.expr, v |-> 0]
                              ELSE With(FilterTail(rd.f, rd.expr), LAMBDA tail :
                                   [err |-> tail.err, f |-> tail.f, e |-> tail.e, v |-> Outermost])
      [] rd.loc.k = "at"   -> [err |-> "", f |-> rd.f, e |-> rd.expr, v |-> rd.loc.v + (IF dir = "fwd" THEN 1 ELSE -1)]

ResolveFilter(rd, dir) ==
    IF rd.loc.k = "time" THEN FilterTime(rd, dir)
    ELSE IF rd.loc.k # "at" /\ EntryCount(rd.f) = 0 THEN Ret("", 0, rd)
    ELSE With(FilterStart(rd, dir), LAMBDA from :
         IF from.err # "" THEN Ret(from.err, 0, [rd EXCEPT !.f = from.f, !.expr = from.e])
         ELSE IF from.v = 0 THEN Ret("", 0, rd)
         ELSE Filtered(rd, FilterStep(from.f, from.e, from.v, dir)))

StepInner(rd, dir) ==
    With(IF rd.expr = NoExpr THEN ResolveArray(rd, dir) ELSE ResolveFilter(rd, dir), LAMBDA got :
    IF got.err # "" \/ got.v = 0 THEN [got EXCEPT !.v = FALSE]
    ELSE Ret("", TRUE, [got.rd EXCEPT !.loc = At(got.v)]))

\* reset_after_recovery
ResetAfterRecovery(rd, before) ==
    LET moved == [rd EXCEPT !.loc = before, !.arr = NoArr]
    IN With(RefreshExpr(rd.f, rd.expr), LAMBDA fresh :
    IF rd.expr = NoExpr THEN Ret("", TRUE, moved)
    ELSE Ret(fresh.err, TRUE, [moved EXCEPT !.f = fresh.f, !.expr = fresh.e]))

\* step: an error of a torn tail bounds the reader to the intact prefix, once.
RECURSIVE TryStep(_, _, _)
TryStep(rd, dir, first) ==
    With(StepInner(rd, dir), LAMBDA got :
    With(Recover(got.rd.f, got.err), LAMBDA rec :
    With(ResetAfterRecovery([got.rd EXCEPT !.f = rec.f], got.rd.loc), LAMBDA reset :
    IF got.err = "" \/ ~first THEN got
    ELSE IF rec.err # "" THEN Ret(rec.err, FALSE, got.rd)
    ELSE IF ~rec.v THEN Ret(got.err, FALSE, [got.rd EXCEPT !.f = rec.f])
    ELSE IF reset.err # "" THEN Ret(reset.err, FALSE, reset.rd)
    ELSE TryStep(reset.rd, dir, FALSE))))
CursorStep(rd, dir) == TryStep(rd, dir, TRUE)

-----------------------------------------------------------------------------
(* JournalReader                                                            *)

SetLocation(rd, loc) == CursorSet([rd EXCEPT !.eof = NoEof], loc)

\* The pending filter is installed once it has been built without error.
Install(rd) ==
    With(BuildFilter(rd.f, rd.pend), LAMBDA b :
    IF ~rd.pend.set THEN Ret("", TRUE, rd)
    ELSE IF b.err # "" THEN Ret(b.err, FALSE, [rd EXCEPT !.f = b.f, !.pend = b.p])
    ELSE Ret("", TRUE, CursorFilter([rd EXCEPT !.f = b.f, !.pend = NoPending], b.e)))

\* step_recovery_eof: the end of a recovered file is looked at again, once for
\* each direction and declared count.  v: the prefix has changed and is tried once more.
RecoveryEof(rd, dir) ==
    LET observed == [dir |-> dir, n |-> rd.f.n]
    IN With(RefreshRecovery(rd.f), LAMBDA fresh :
       IF rd.f.rec = NoRec \/ rd.eof = observed THEN Ret("", FALSE, rd)
       ELSE IF fresh.err # "" THEN Ret(fresh.err, FALSE, rd)
       ELSE IF ~fresh.v THEN Ret("", FALSE, [rd EXCEPT !.f = fresh.f, !.eof = observed])
       ELSE ResetAfterRecovery([rd EXCEPT !.f = fresh.f], rd.loc))

RECURSIVE StepEnd(_, _, _)
StepEnd(rd, dir, first) ==
    With(CursorStep(rd, dir), LAMBDA got :
    With(RecoveryEof(got.rd, dir), LAMBDA eof :
    IF got.err # "" THEN got
    ELSE IF got.v THEN [got EXCEPT !.rd.eof = NoEof]
    ELSE IF ~first THEN [got EXCEPT !.rd.eof = [dir |-> dir, n |-> rd.f.n]]
    ELSE IF eof.err # "" \/ ~eof.v THEN [eof EXCEPT !.v = FALSE]
    ELSE StepEnd(eof.rd, dir, FALSE)))
ReaderStep(rd, dir) ==
    With(Install(rd), LAMBDA ready :
    IF rd.eof = [dir |-> dir, n |-> rd.f.n] THEN Ret("", FALSE, rd)
    ELSE IF ready.err # "" THEN ready
    ELSE StepEnd(ready.rd, dir, TRUE))

RecoverAfterError(rd, before, err) ==
    With(Recover(rd.f, err), LAMBDA rec :
    IF rec.err = "" /\ rec.v THEN ResetAfterRecovery([rd EXCEPT !.f = rec.f], before)
    ELSE Ret(rec.err, FALSE, CursorSet([rd EXCEPT !.f = rec.f], before)))

ReaderAddMatch(rd, x) == [rd EXCEPT !.eof = NoEof, !.pend = AddMatch(@, x)]
ReaderSetOperation(rd, conj) ==
    With(SetOperation(rd.f, rd.pend, conj), LAMBDA got :
    Ret(got.err, TRUE, [rd EXCEPT !.eof = NoEof, !.f = got.f, !.pend = got.p]))
FlushMatches(rd) == [ClearFilter([rd EXCEPT !.eof = NoEof]) EXCEPT !.pend = NoPending, !.row = 0]

-----------------------------------------------------------------------------
(* FileReader                                                               *)

\* recover_missing_header_tail: a file whose last declared object is missing is torn.
Opened(j, n, extent) ==
    With([j |-> j, n |-> n, im |-> ImageOf(j, n), extent |-> extent, rec |-> NoRec, changed |-> FALSE, seen |-> FALSE], LAMBDA f :
    LET torn == Recover(f, "bounds")
    IN [f |-> IF f.im.tail > extent THEN torn.f ELSE f,
        loc |-> Head0, arr |-> NoArr, expr |-> NoExpr, eof |-> NoEof, pend |-> NoPending, row |-> 0])

SeekHead(rd) == SetLocation([rd EXCEPT !.row = 0], Head0)
SeekTail(rd) == SetLocation([rd EXCEPT !.row = 0], Tail0)
SeekRealtime(rd, t) == SetLocation([rd EXCEPT !.row = 0], [k |-> "time", v |-> t])

\* step_valid: a row that cannot be loaded bounds the reader and is tried again.
RECURSIVE StepValid(_, _)
StepValid(rd0, dir) ==
    LET rd == [rd0 EXCEPT !.row = 0]
    IN With(ReaderStep(rd, dir), LAMBDA got :
    LET at == got.rd.loc.v
    IN With(RecoverAfterError(got.rd, rd.loc, "bounds"), LAMBDA undo :
    IF got.err # "" \/ ~got.v THEN got
    ELSE IF EntryPresent(got.rd.f, at) THEN [got EXCEPT !.rd.row = at]
    ELSE IF undo.err # "" THEN undo
    ELSE IF undo.v THEN StepValid(undo.rd, dir)
    ELSE Ret("bounds", FALSE, undo.rd)))

-----------------------------------------------------------------------------
(***************************************************************************)
(* Positioning by a cursor's parts (cursor_direction): by sequence number  *)
(* when the file belongs to the cursor's sequence, else by the boot and    *)
(* its monotonic clock, else by wall clock, else next to the boot.         *)
(*   anchor : [seq, mono, t], seq = <<id, number>>, mono = <<boot, clock>>,*)
(*            NoPair and NoTime when the cursor does not have the part     *)
(***************************************************************************)
CONSTANT SeqIds   \* name -> sequence id of the journal

NoPair == <<>>
NoTime == -1
BootField == 9    \* the field _BOOT_ID
BootDatum(b) == <<BootField, b>>

Got(err, v, f) == [err |-> err, v |-> v, f |-> f]

\* cursor_bound: the entry of a list next to the needle; x = All for every entry.
CursorBound(f, x, key, needle, dir) ==
    IF x = All THEN With(GlobalBound(f, key, needle, dir), LAMBDA item : Got(item.err, item.v, f))
    ELSE With(DataCursor(f, x), LAMBDA c :
         With(CursorPartition(c.f, x, c.v, key, needle, dir), LAMBDA post :
         IF c.err # "" THEN Got(c.err, 0, c.f) ELSE Got(post.err, post.v, c.f)))

\* Alternate between the entries of the match and of the boot until both agree.
RECURSIVE BothAt(_, _, _, _, _)
BothAt(f, x, other, o, dir) ==
    With(CursorBound(f, x, "offset", o, dir), LAMBDA cand :
    IF cand.err # "" \/ cand.v = 0 \/ cand.v = o THEN cand
    ELSE BothAt(cand.f, other, x, cand.v, dir))

CursorMonotonic(f, x, b, needle, dir) ==
    LET boot == BootDatum(b)
        found == FindDatum(f, boot)
    IN With(CursorBound(f, boot, "monotonic", needle, dir), LAMBDA first :
    IF found.err # "" THEN Got(found.err, 0, f)
    ELSE IF ~found.v THEN Got("", 0, f)
    ELSE IF first.err # "" \/ first.v = 0 \/ x = All THEN first
    ELSE BothAt(first.f, x, boot, first.v, dir))

\* cursor_adjacent_boot: boot after boot in the direction, until one has a match.
RECURSIVE AdjacentBoot(_, _, _, _, _)
AdjacentBoot(f, x, b, dir, previous) ==
    LET boot == BootDatum(b)
        found == FindDatum(f, boot)
    IN With(CursorBound(f, boot, "offset", IF dir = "fwd" THEN Outermost ELSE 0, Opposite(dir)), LAMBDA edge :
    With(CursorBound(edge.f, All, "offset", edge.v + (IF dir = "fwd" THEN 1 ELSE -1), dir), LAMBDA past :
    LET stuck == previous # 0 /\ (IF dir = "fwd" THEN past.v <= previous ELSE past.v >= previous)
        nextBoot == EntryAt(past.f, past.v).b
    IN With(CursorMonotonic(past.f, x, nextBoot, IF dir = "fwd" THEN 0 ELSE Outermost, dir), LAMBDA cand :
    IF found.err # "" THEN Got(found.err, 0, f)
    ELSE IF ~found.v THEN Got("", 0, f)
    ELSE IF edge.err # "" \/ edge.v = 0 THEN edge
    ELSE IF past.err # "" \/ past.v = 0 \/ x = All THEN past
    ELSE IF stuck THEN Got("config", 0, past.f)
    ELSE IF ~EntryPresent(past.f, past.v) THEN Got("bounds", 0, past.f)
    ELSE IF cand.err # "" \/ cand.v # 0 THEN cand
    ELSE AdjacentBoot(cand.f, x, nextBoot, dir, past.v))))

InitialOffset(f, x, a, dir) ==
    With(CursorMonotonic(f, x, a.mono[1], a.mono[2], dir), LAMBDA mono :
    LET bySeq == a.seq # NoPair /\ a.seq[1] = SeqIds[f.j]
        f1 == IF bySeq \/ a.mono = NoPair THEN f ELSE mono.f
    IN IF ~bySeq /\ a.mono # NoPair /\ (mono.err # "" \/ mono.v # 0) THEN mono
       ELSE IF ~bySeq /\ a.t = NoTime /\ a.mono # NoPair THEN AdjacentBoot(f1, x, a.mono[1], dir, 0)
       ELSE With(IF bySeq THEN <<"sequence", a.seq[2]>> ELSE IF a.t # NoTime THEN <<"realtime", a.t>>
                 ELSE <<"offset", IF dir = "fwd" THEN 0 ELSE Outermost>>, LAMBDA by :
            CursorBound(f1, x, by[1], by[2], dir)))

\* seek_cursor_anchor over a filter, or over all entries without one: [err, v, f, e].  The nearest for a disjunction; for a
\* conjunction the farthest of the first matches.
RECURSIVE AnchorIn(_, _, _, _)
AnchorIn(f0, e0, a, dir) ==
    With(PrepareRecovery(f0, e0, "fwd"), LAMBDA ready :
    LET f == ready.f
        e == ready.e
    IN With(InitialOffset(f, IF e = NoExpr THEN All ELSE e.x, a, dir), LAMBDA one :
    With(FoldLeft(LAMBDA acc, child :
             IF acc.err # "" \/ acc.stop THEN [acc EXCEPT !.s = Append(@, child)]
             ELSE With(AnchorIn(acc.f, child, a, dir), LAMBDA got :
                  LET pick == IF e.k = "disj" THEN Nearer(dir, acc.v, got.v) ELSE Nearer(Opposite(dir), acc.v, got.v)
                  IN [err |-> got.err, stop |-> e.k = "conj" /\ got.v = 0, v |-> pick,
                      f |-> got.f, s |-> Append(acc.s, got.e)]),
         [err |-> "", stop |-> FALSE, v |-> 0, f |-> f, s |-> <<>>], e.s), LAMBDA all :
    LET moved == [e EXCEPT !.s = all.s]
    IN IF ready.err # "" THEN [err |-> ready.err, v |-> 0, f |-> f, e |-> e]
       ELSE CASE e.k = "none" -> [err |-> "", v |-> 0, f |-> f, e |-> e]
              [] e.k \in {"match", "absent"} -> [err |-> one.err, v |-> one.v, f |-> one.f, e |-> e]
              [] e.k = "disj" -> [err |-> all.err, v |-> all.v, f |-> all.f, e |-> moved]
              [] e.k = "conj" -> IF all.err # "" \/ all.stop THEN [err |-> all.err, v |-> 0, f |-> all.f, e |-> moved]
                                 ELSE FilterSeek(all.f, moved, all.v, dir))))

\* seek_anchor: again while recovery moves the end of the file.
RECURSIVE SeekAnchor(_, _, _)
SeekAnchor(rd, a, dir) ==
    With(AnchorIn(rd.f, rd.expr, a, dir), LAMBDA got :
    With(Recover(got.f, got.err), LAMBDA rec :
    LET torn == [rd EXCEPT !.f = rec.f, !.expr = got.e]
    IN With(IF rd.expr = NoExpr THEN [err |-> "", f |-> rec.f, e |-> got.e] ELSE RefreshExpr(rec.f, got.e), LAMBDA fresh :
    LET retry == [torn EXCEPT !.f = fresh.f, !.expr = fresh.e]
    IN IF got.err # "" /\ rec.err # "" THEN Ret(rec.err, FALSE, torn)
       ELSE IF got.err # "" /\ ~rec.v THEN Ret(got.err, FALSE, torn)
       ELSE IF got.err # "" \/ got.f.rec # rd.f.rec
       THEN IF fresh.err # "" THEN Ret(fresh.err, FALSE, retry) ELSE SeekAnchor(retry, a, dir)
       ELSE Ret("", got.v # 0,
                CursorSet([rd EXCEPT !.f = got.f, !.expr = got.e],
                          IF got.v # 0 THEN At(got.v) ELSE IF dir = "fwd" THEN Tail0 ELSE Head0)))))

\* FileReader::seek_cursor_anchor: the row found is loaded as well.
RECURSIVE SeekCursorAnchor(_, _, _)
SeekCursorAnchor(rd0, a, dir) ==
    With(Install([rd0 EXCEPT !.row = 0, !.eof = NoEof]), LAMBDA ready :
    With(SeekAnchor(ready.rd, a, dir), LAMBDA got :
    With(RecoverAfterError(got.rd, Head0, "bounds"), LAMBDA undo :
    IF ready.err # "" THEN ready
    ELSE IF got.err # "" \/ ~got.v THEN got
    ELSE IF EntryPresent(got.rd.f, got.rd.loc.v) THEN [got EXCEPT !.rd.row = got.rd.loc.v]
    ELSE IF undo.err # "" THEN undo
    ELSE IF undo.v THEN SeekCursorAnchor(undo.rd, a, dir)
    ELSE Ret("bounds", FALSE, undo.rd))))
=============================================================================
