---------------------------- MODULE ReaderFilter ----------------------------
(***************************************************************************)
(* Filters of a reader.  A match is a cursor over the entries of one DATA  *)
(* object: the entry inlined in the object, then the arrays of its chain.  *)
(* Matches of the same field are alternatives, different fields must all   *)
(* match, and explicit conjunctions and disjunctions combine such groups.  *)
(*   match cursor c : [at, total, pend, recp, ppend, dir]                  *)
(*       at      -1 empty, 0 at the inlined entry, p at item p             *)
(*       total   the items its list was created with                       *)
(*       pend, recp, ppend : recovery_pending, recovered_population,       *)
(*               position_pending                                          *)
(*       dir     filter_direction ("none" when the position is not valid)  *)
(*   expression : [k |-> "none"], [k |-> "match", x, c] or                 *)
(*                [k |-> "conj" or "disj", s]                              *)
(***************************************************************************)
EXTENDS ReaderFile

Outermost == 1000       \* NonZeroU64::MAX as an offset
Opposite(dir) == IF dir = "fwd" THEN "back" ELSE "fwd"

-----------------------------------------------------------------------------
(* InlinedCursor                                                            *)

NewCursor(total) ==
    [at |-> 0, total |-> total, pend |-> FALSE, recp |-> FALSE, ppend |-> FALSE, dir |-> "fwd"]
Emptied(c) == [c EXCEPT !.at = -1, !.total = 0]

CursorHead(c) == [c EXCEPT !.at = IF c.at = -1 THEN -1 ELSE 0, !.dir = "fwd"]
\* Without an array list the cursor stays where it is.  [err, v]: the moved cursor.
CursorTail(f, x, c) ==
    IF c.total = 0 THEN Fine([c EXCEPT !.dir = "back"])
    ELSE IF ~Reachable(f, x, c.total) THEN Failing("bounds")
    ELSE Fine([c EXCEPT !.at = c.total, !.dir = "back"])

CursorValue(f, x, c) ==
    IF c.at = -1 THEN Fine(0) ELSE IF c.at = 0 THEN Fine(Inlined(f, x)) ELSE Slot(f, x, c.at)

\* next_until and previous_until: [err, v, c], v = 0 when no item is left.
RECURSIVE Until(_, _, _, _, _)
Until(f, x, c, needle, dir) ==
    With(CursorValue(f, x, c), LAMBDA now :
    LET done == IF dir = "fwd" THEN now.v >= needle ELSE now.v <= needle
        last == IF dir = "fwd" THEN c.at = c.total ELSE c.at = 0
    IN IF now.err # "" THEN [err |-> now.err, v |-> 0, c |-> c]
       ELSE IF now.v = 0 THEN [err |-> "", v |-> 0, c |-> c]
       ELSE IF done THEN [err |-> "", v |-> now.v, c |-> c]
       ELSE IF last THEN [err |-> "", v |-> 0, c |-> c]
       ELSE Until(f, x, [c EXCEPT !.at = @ + (IF dir = "fwd" THEN 1 ELSE -1)], needle, dir))

\* The cursor is at the head for a forward and at the tail for a backward search.
PrepareDirection(f, x, c, dir) ==
    IF c.dir = dir THEN Fine(c)
    ELSE IF dir = "fwd" THEN Fine(CursorHead(c)) ELSE CursorTail(f, x, c)

\* seek_realtime: the item at or next to an offset, array by array.
RECURSIVE SeekArrays(_, _, _, _, _, _)
SeekArrays(f, x, c, needle, dir, k) ==
    With(Arrays(f, x)[k], LAMBDA a :
    With(PastArray(a, c.total), LAMBDA past :
    With(IF NodeError(f, a) # "" THEN Failing(NodeError(f, a))
         ELSE PartitionPoint(f, x, "offset", needle, dir, a.skip + 1, past), LAMBDA at :
    LET slot == IF dir = "back" \/ at.v = past THEN at.v - 1 ELSE at.v
    IN With(Slot(f, x, slot), LAMBDA here :
    LET moved == [c EXCEPT !.at = slot]
    IN IF at.err # "" THEN [err |-> at.err, v |-> 0, c |-> c]
       ELSE IF dir = "back" /\ at.v = a.skip + 1
       THEN With(CursorValue(f, x, c), LAMBDA stay : [err |-> stay.err, v |-> stay.v, c |-> c])
       ELSE IF here.err # "" THEN [err |-> here.err, v |-> 0, c |-> c]
       ELSE IF at.v < past THEN [err |-> "", v |-> here.v, c |-> moved]
       ELSE IF past <= c.total THEN SeekArrays(f, x, moved, needle, dir, k + 1)
       ELSE [err |-> "", v |-> IF dir = "back" THEN here.v ELSE 0, c |-> moved]))))

SeekCursor(f, x, c0, needle, dir) ==
    LET c == [CursorHead(c0) EXCEPT !.dir = dir]
        inl == Inlined(f, x)
    IN IF c.at = -1 THEN [err |-> "", v |-> 0, c |-> c]
       ELSE IF dir = "fwd" /\ inl >= needle THEN [err |-> "", v |-> inl, c |-> c]
       ELSE IF dir = "back" /\ inl > needle THEN [err |-> "", v |-> 0, c |-> c]
       ELSE IF c.total = 0 THEN [err |-> "", v |-> IF dir = "back" THEN inl ELSE 0, c |-> c]
       ELSE SeekArrays(f, x, c, needle, dir, 1)

\* directed_partition_point over the inlined entry and the arrays: the offset, or 0.
CursorPartition(f, x, c, key, needle, dir) ==
    LET inl == Inlined(f, x)
    IN With(Precedes(f, key, needle, dir, inl), LAMBDA below :
    LET hit == IF (dir = "fwd") # below.v THEN inl ELSE 0
    IN With(IF c.total = 0 THEN Fine(0) ELSE Partition(f, x, c.total, key, needle, dir), LAMBDA pos :
    With(IF pos.err # "" \/ pos.v = 0 THEN pos ELSE Slot(f, x, pos.v), LAMBDA item :
    IF c.at = -1 THEN Fine(0)
    ELSE IF below.err # "" THEN below
    ELSE IF item.err # "" THEN item
    ELSE IF hit = 0 THEN item ELSE IF item.v = 0 THEN Fine(hit)
    ELSE Fine(IF (dir = "fwd") = (item.v < hit) THEN item.v ELSE hit))))

-----------------------------------------------------------------------------
(* A cursor for a DATA object, bounded to the recovered prefix.             *)

\* InlinedCursor::for_reader: [err, v, f].
ForReader(f, x, c) ==
    LET seen == [f EXCEPT !.seen = TRUE]
        rc == [c EXCEPT !.recp = TRUE]
    IN With(PostingCount(f, x, c.total, 1, 0, Inlined(f, x)), LAMBDA count :
    IF f.rec = NoRec THEN [err |-> "", v |-> c, f |-> f]
    ELSE IF f.rec.last = 0 \/ Inlined(f, x) > f.rec.last THEN [err |-> "", v |-> Emptied(rc), f |-> seen]
    ELSE IF c.total = 0 THEN [err |-> "", v |-> rc, f |-> seen]
    ELSE [err |-> count.err, v |-> [rc EXCEPT !.at = 0, !.total = count.v], f |-> seen])

BuildCursor(f, x) ==
    IF Image(f).data[x].at > f.extent THEN [err |-> "bounds", v |-> NewCursor(0), f |-> f]
    ELSE ForReader(f, x, NewCursor(Len(Image(f).data[x].posts) - 1))

\* reader_data_cursor: a torn tail met here is recovered and the cursor built again, once.
RECURSIVE TryCursor(_, _, _)
TryCursor(f, x, first) ==
    With(BuildCursor(f, x), LAMBDA built :
    IF built.err = "" \/ ~first THEN built
    ELSE With(Recover(built.f, built.err), LAMBDA again :
         IF again.err # "" THEN [built EXCEPT !.err = again.err, !.f = again.f]
         ELSE IF again.v THEN TryCursor(again.f, x, FALSE) ELSE [built EXCEPT !.f = again.f]))
DataCursor(f, x) == TryCursor(f, x, TRUE)

-----------------------------------------------------------------------------
(* FilterExpr                                                               *)

NoMatch == [k |-> "none"]
NoExpr == [k |-> "absent"]

RECURSIVE MapCursors(_, _)
\* visit_cursors with one of the updates the code makes.
Updated(c, what) ==
    CASE what = "invalidate" -> [c EXCEPT !.dir = "none"]
      [] what = "pending"    -> [c EXCEPT !.pend = TRUE]
      [] what = "refreshed"  -> [c EXCEPT !.pend = FALSE]
      [] what = "positioned" -> [c EXCEPT !.ppend = FALSE]
      [] what = "head"       -> [CursorHead(c) EXCEPT !.ppend = FALSE]
MapCursors(e, what) ==
    CASE e.k \in {"none", "absent"} -> e
      [] e.k = "match" -> [e EXCEPT !.c = Updated(@, what)]
      [] OTHER -> [e EXCEPT !.s = [i \in DOMAIN @ |-> MapCursors(@[i], what)]]
Invalidate(e) == MapCursors(e, "invalidate")

RECURSIVE Cursors(_)
Cursors(e) ==
    CASE e.k \in {"none", "absent"} -> {}
      [] e.k = "match" -> {e.c}
      [] OTHER -> UNION {Cursors(e.s[i]) : i \in DOMAIN e.s}

RECURSIVE RefreshPass(_, _)
\* [err, f, e]: every match again from its DATA object.
RefreshAll(f, s) ==
    FoldLeft(LAMBDA acc, child : IF acc.err # "" THEN [acc EXCEPT !.s = Append(@, child)]
                                 ELSE With(RefreshPass(acc.f, child), LAMBDA one :
                                      [err |-> one.err, f |-> one.f, s |-> Append(acc.s, one.e)]),
             [err |-> "", f |-> f, s |-> <<>>], s)
RefreshPass(f, e) ==
    CASE e.k \in {"none", "absent"} -> [err |-> "", f |-> f, e |-> e]
      [] e.k = "match" ->
           With(DataCursor(f, e.x), LAMBDA got :
           [err |-> got.err, f |-> got.f,
            e |-> IF got.err # "" THEN e
                  ELSE [e EXCEPT !.c = [got.v EXCEPT !.pend = TRUE, !.ppend = TRUE]]])
      [] OTHER -> With(RefreshAll(f, e.s), LAMBDA all :
                  [err |-> all.err, f |-> all.f, e |-> [e EXCEPT !.s = all.s]])

\* refresh_recovery_batch: passes until the recovered prefix stands still.
RECURSIVE RefreshLoop(_, _)
RefreshLoop(f, s) ==
    With(RefreshAll(f, s), LAMBDA all :
    IF all.err # "" THEN all
    ELSE IF all.f.rec = f.rec
    THEN [all EXCEPT !.s = [i \in DOMAIN @ |-> MapCursors(@[i], "refreshed")]]
    ELSE RefreshLoop(all.f, all.s))
RefreshBatch(f, s) == RefreshLoop([f EXCEPT !.seen = TRUE], [i \in DOMAIN s |-> MapCursors(s[i], "pending")])
RefreshExpr(f, e) == With(RefreshBatch(f, <<e>>), LAMBDA one : [err |-> one.err, f |-> one.f, e |-> one.s[1]])

RECURSIVE TailIn(_, _)
TailAll(f, s) ==
    FoldLeft(LAMBDA acc, child : With(IF acc.err # "" THEN [err |-> acc.err, e |-> child] ELSE TailIn(f, child), LAMBDA one :
                                 [err |-> one.err, s |-> Append(acc.s, one.e)]),
             [err |-> "", s |-> <<>>], s)
TailIn(f, e) ==
    CASE e.k \in {"none", "absent"} -> [err |-> "", e |-> e]
      [] e.k = "match" -> With(CursorTail(f, e.x, e.c), LAMBDA t :
                          [err |-> t.err, e |-> IF t.err = "" THEN [e EXCEPT !.c = t.v] ELSE e])
      [] OTHER -> With(TailAll(f, e.s), LAMBDA all :
                  [err |-> all.err, e |-> [e EXCEPT !.s = all.s]])

\* Matches that recovery left pending are built again first: [err, f, e].
Settled(f, e) ==
    IF f.seen /\ \E c \in Cursors(e) : c.pend THEN RefreshExpr(f, e) ELSE [err |-> "", f |-> f, e |-> e]
AtTail(fresh) ==
    With(TailIn(fresh.f, fresh.e), LAMBDA t :
    [err |-> t.err, f |-> fresh.f, e |-> IF fresh.f.seen /\ t.err = "" THEN MapCursors(t.e, "positioned") ELSE t.e])

\* tail: [err, f, e].
FilterTail(f, e) == With(Settled(f, e), LAMBDA fresh : IF fresh.err # "" THEN fresh ELSE AtTail(fresh))

PrepareRecovery(f, e, dir) ==
    With(Settled(f, e), LAMBDA fresh :
    IF ~f.seen \/ fresh.err # "" \/ ~\E c \in Cursors(fresh.e) : c.ppend THEN fresh
    ELSE IF dir = "fwd" THEN [fresh EXCEPT !.e = MapCursors(@, "head")]
    ELSE AtTail(fresh))

-----------------------------------------------------------------------------
(* next_inner and previous_inner: the nearest match at or past the needle.  *)

RECURSIVE StepIn(_, _, _, _)
Nearer(dir, a, b) == IF a = 0 THEN b ELSE IF b = 0 THEN a ELSE IF (dir = "fwd") = (a < b) THEN a ELSE b
StepBranch(f, s, needle, dir) ==
    FoldLeft(LAMBDA acc, child :
                IF acc.err # "" THEN [acc EXCEPT !.s = Append(@, child)]
                ELSE With(StepIn(f, child, needle, dir), LAMBDA one :
                     [err |-> one.err, v |-> Nearer(dir, acc.v, one.v), s |-> Append(acc.s, one.e)]),
             [err |-> "", v |-> 0, s |-> <<>>], s)
\* One round over the operands of a conjunction, each from where the last one got.
StepRound(f, s, needle, dir) ==
    FoldLeft(LAMBDA acc, i :
                IF acc.err # "" \/ acc.v = 0 THEN acc
                ELSE With(StepIn(f, acc.s[i], acc.v, dir), LAMBDA one :
                     [err |-> one.err, v |-> one.v, s |-> [acc.s EXCEPT ![i] = one.e]]),
             [err |-> "", v |-> needle, s |-> s],
             [i \in DOMAIN s |-> IF dir = "fwd" THEN i ELSE Len(s) + 1 - i])
RECURSIVE StepRounds(_, _, _, _)
StepRounds(f, s, needle, dir) ==
    With(StepRound(f, s, needle, dir), LAMBDA round :
    IF round.err # "" \/ round.v = 0 \/ round.v = needle THEN round
    ELSE StepRounds(f, round.s, round.v, dir))
StepIn(f, e, needle, dir) ==
    CASE e.k = "none" -> [err |-> "", v |-> 0, e |-> e]
      [] e.k = "match" ->
           With(PrepareDirection(f, e.x, e.c, dir), LAMBDA ready :
           With(Until(f, e.x, ready.v, needle, dir), LAMBDA moved :
           IF ready.err # "" THEN [err |-> ready.err, v |-> 0, e |-> e]
           ELSE [err |-> moved.err, v |-> moved.v, e |-> [e EXCEPT !.c = moved.c]]))
      [] e.k = "conj" -> With(StepRounds(f, e.s, needle, dir), LAMBDA all :
                         [err |-> all.err, v |-> all.v, e |-> [e EXCEPT !.s = all.s]])
      [] e.k = "disj" -> With(StepBranch(f, e.s, needle, dir), LAMBDA all :
                         [err |-> all.err, v |-> all.v, e |-> [e EXCEPT !.s = all.s]])

\* next and previous: [err, v, f, e].
FilterStep(f, e, needle, dir) ==
    With(PrepareRecovery(f, e, dir), LAMBDA ready :
    With(StepIn(ready.f, ready.e, needle, dir), LAMBDA moved :
    IF ready.err # "" THEN [err |-> ready.err, v |-> 0, f |-> ready.f, e |-> ready.e]
    ELSE [err |-> moved.err, v |-> moved.v, f |-> ready.f, e |-> moved.e]))

RECURSIVE SeekIn(_, _, _, _)
SeekIn(f, e, needle, dir) ==
    CASE e.k = "none" -> [err |-> "", v |-> 0, e |-> e]
      [] e.k = "match" -> With(SeekCursor(f, e.x, e.c, needle, dir), LAMBDA got :
                          [err |-> got.err, v |-> got.v, e |-> [e EXCEPT !.c = got.c]])
      [] e.k = "conj" ->
           With(FoldLeft(LAMBDA acc, i :
                           IF acc.err # "" \/ acc.v = 0 THEN acc
                           ELSE With(SeekIn(f, acc.s[i], acc.v, dir), LAMBDA one :
                                [err |-> one.err, v |-> one.v, s |-> [acc.s EXCEPT ![i] = one.e]]),
                         [err |-> "", v |-> needle, s |-> e.s],
                         [i \in DOMAIN e.s |-> IF dir = "fwd" THEN i ELSE Len(e.s) + 1 - i]), LAMBDA round :
           LET then == [e EXCEPT !.s = round.s]
           IN IF round.err # "" \/ round.v = 0 \/ round.v = needle THEN [err |-> round.err, v |-> round.v, e |-> then]
              ELSE StepIn(f, then, round.v, dir))
      [] e.k = "disj" ->
           With(FoldLeft(LAMBDA acc, child :
                           IF acc.err # "" THEN [acc EXCEPT !.s = Append(@, child)]
                           ELSE With(SeekIn(f, child, needle, dir), LAMBDA one :
                                [err |-> one.err, v |-> Nearer(dir, acc.v, one.v), s |-> Append(acc.s, one.e)]),
                         [err |-> "", v |-> 0, s |-> <<>>], e.s), LAMBDA all :
           [err |-> all.err, v |-> all.v, e |-> [e EXCEPT !.s = all.s]])
FilterSeek(f, e, needle, dir) ==
    With(PrepareRecovery(f, e, "fwd"), LAMBDA ready :
    With(SeekIn(ready.f, Invalidate(ready.e), needle, dir), LAMBDA got :
    IF ready.err # "" THEN [err |-> ready.err, v |-> 0, f |-> ready.f, e |-> ready.e]
    ELSE [err |-> got.err, v |-> got.v, f |-> ready.f, e |-> got.e]))

-----------------------------------------------------------------------------
(* JournalFilter: the pending matches and the groups built so far.          *)

NoPending == [set |-> FALSE, cur |-> <<>>, level1 |-> <<>>, level0 |-> <<>>]

\* A datum is <<field, value>>; the pending matches stay sorted by field.
AddMatch(p, x) ==
    LET before == SelectSeq(p.cur, LAMBDA y : y[1] < x[1])
        after == SelectSeq(p.cur, LAMBDA y : y[1] >= x[1])
    IN [p EXCEPT !.set = TRUE, !.cur = before \o <<x>> \o after]

\* build_match_expr: [err, f, e].
MatchExpr(f, x) ==
    LET found == FindDatum(f, x)
    IN With(DataCursor(f, x), LAMBDA got :
    IF found.err # "" THEN [err |-> found.err, f |-> f, e |-> NoMatch]
    ELSE IF ~found.v THEN [err |-> "", f |-> f, e |-> NoMatch]
    ELSE [err |-> got.err, f |-> got.f, e |-> [k |-> "match", x |-> x, c |-> got.v]])

MatchAll(f, xs) ==
    FoldLeft(LAMBDA acc, x : IF acc.err # "" THEN acc
                             ELSE With(MatchExpr(acc.f, x), LAMBDA one :
                                  [err |-> one.err, f |-> one.f, s |-> Append(acc.s, one.e)]),
             [err |-> "", f |-> f, s |-> <<>>], xs)

Grouped(kind, s) == IF Len(s) = 1 THEN s[1] ELSE [k |-> kind, s |-> s]

CommitCurrentTaking(f, p) ==
    With(MatchAll(f, p.cur), LAMBDA all :
    [err |-> all.err, f |-> all.f,
     p |-> [p EXCEPT !.cur = <<>>, !.level1 = IF all.s = <<>> THEN @ ELSE Append(@, Grouped("conj", all.s))]])
\* convert_current_matches: the groups of equal field, all of which must match.
CommitCurrent(f, p) ==
    LET fields == SetToSortSeq({p.cur[i][1] : i \in DOMAIN p.cur}, <)
    IN With(FoldLeft(LAMBDA acc, fd :
                    IF acc.err # "" THEN acc
                    ELSE With(MatchAll(acc.f, SelectSeq(p.cur, LAMBDA y : y[1] = fd)), LAMBDA all :
                         [err |-> all.err, f |-> all.f, s |-> Append(acc.s, Grouped("disj", all.s))]),
                  [err |-> "", f |-> f, s |-> <<>>], fields), LAMBDA groups :
    IF p.cur = <<>> THEN [err |-> "", f |-> f, p |-> p]
    ELSE IF groups.err # "" THEN [err |-> groups.err, f |-> groups.f, p |-> p]
    ELSE [err |-> "", f |-> groups.f, p |-> [p EXCEPT !.cur = <<>>, !.level1 = Append(@, Grouped("conj", groups.s))]])
CommitLevel1(p) ==
    IF p.level1 = <<>> THEN p
    ELSE [p EXCEPT !.level0 = Append(@, Grouped("disj", p.level1)), !.level1 = <<>>]
SetOperation(f, p, conj) ==
    With(CommitCurrent(f, [p EXCEPT !.set = TRUE]), LAMBDA c :
    IF c.err # "" \/ ~conj THEN c ELSE [c EXCEPT !.p = CommitLevel1(@)])

\* build: [err, f, p, e].
BuildFilter(f, p) ==
    With(CommitCurrent(f, p), LAMBDA c :
    With(CommitLevel1(c.p), LAMBDA p1 :
    LET stale == \E i \in DOMAIN p1.level0 : \E cur \in Cursors(p1.level0[i]) : cur.pend \/ cur.recp
    IN With(IF c.f.rec # NoRec \/ stale THEN RefreshBatch(c.f, p1.level0)
         ELSE [err |-> "", f |-> c.f, s |-> p1.level0], LAMBDA fresh :
    IF c.err # "" THEN [err |-> c.err, f |-> c.f, p |-> c.p, e |-> NoExpr]
    ELSE IF fresh.err # "" THEN [err |-> fresh.err, f |-> fresh.f, p |-> [p1 EXCEPT !.level0 = fresh.s], e |-> NoExpr]
    ELSE IF fresh.s = <<>> THEN [err |-> "malformed", f |-> fresh.f, p |-> p1, e |-> NoExpr]
    ELSE [err |-> "", f |-> fresh.f, p |-> NoPending, e |-> Grouped("conj", fresh.s)])))
=============================================================================
