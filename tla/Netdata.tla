------------------------------- MODULE Netdata -------------------------------
(***************************************************************************)
(* The Netdata function over a directory of journals (journal/src/         *)
(* netdata.rs): request parsing, file selection, one exploration per file  *)
(* with a shared page window and sampling state, merging, the expansion of *)
(* the rows, zero-count facets, and a client that pages through the answer *)
(* with the time of the last row it was shown.                             *)
(*                                                                         *)
(* A file of the directory is [rows, open, mtime, src]; its place in the   *)
(* sequence is the order of its path.                                      *)
(***************************************************************************)
EXTENDS Explorer

CONSTANTS
    Requests,        \* raw requests: what a caller may send
    Directories,     \* the directories it may be asked of
    Now,             \* the wall clock, in seconds
    Second,          \* microseconds in a second
    UsecFrom,        \* numbers from here on are microseconds (10^12)
    RelativeMax,     \* API_RELATIVE_TIME_MAX_SECONDS
    MissingAfter,    \* NETDATA_MISSING_AFTER_RELATIVE_SECONDS
    DefaultWindow,   \* DEFAULT_TIME_WINDOW_SECONDS
    Every,           \* DATA_ONLY_CHECK_EVERY_ROWS
    Buckets,         \* DEFAULT_HISTOGRAM_BUCKETS
    DeltaDefault,    \* NETDATA_JOURNAL_VS_REALTIME_DELTA_DEFAULT_USEC
    DeltaMax,        \* NETDATA_JOURNAL_VS_REALTIME_DELTA_MAX_USEC
    MaxPages         \* pages a client asks for

VARIABLE nd

Abs(n) == IF n < 0 THEN -n ELSE n

-----------------------------------------------------------------------------
(* The request.                                                            *)

\* relative_window_to_absolute: small numbers count back from now, or from
\* the end of the window; a window of the future is moved back to now.
AbsoluteWindow(after0, before0) ==
    LET before1 == IF Abs(before0) <= RelativeMax THEN Now - Abs(before0) ELSE before0
        after1 == IF Abs(after0) <= RelativeMax
                  THEN before1 - (IF after0 = 0 THEN MissingAfter ELSE Abs(after0)) + 1 ELSE after0
        lo == Least(after1, before1)
        hi == Most(after1, before1)
    IN <<lo - SatSub(hi, Now), hi - SatSub(hi, Now)>>

ToUsec(n, endOfSecond) ==
    IF n >= UsecFrom THEN n ELSE n * Second + (IF endOfSecond THEN Second - 1 ELSE 0)

\* normalize_time_window.
TimeWindow(after, before) ==
    LET w == IF after = 0 /\ before = 0 THEN <<Now - DefaultWindow, Now>> ELSE AbsoluteWindow(after, before)
        from == IF w[1] = w[2] THEN w[2] - DefaultWindow ELSE Least(w[1], w[2])
    IN [after |-> ToUsec(Most(from, 0), FALSE), before |-> ToUsec(Most(w[2], 0), TRUE)]

\* request_anchor_and_direction: a tail request goes backward to its anchor, an
\* anchor outside the window is forgotten and the direction with it.
AnchorAndDirection(raw, w, tail) ==
    LET at == ToUsec(raw.anchor, FALSE)
        anchor == [kind |-> "realtime", at |-> at]
        auto == [kind |-> "auto", at |-> 0]
    IN IF raw.anchor = 0 THEN [anchor |-> auto, forward |-> raw.forward]
       ELSE IF tail THEN [anchor |-> anchor, forward |-> FALSE]
       ELSE IF at < w.after \/ at > w.before THEN [anchor |-> auto, forward |-> FALSE]
       ELSE [anchor |-> anchor, forward |-> raw.forward]

\* NetdataRequest::parse.
ParseRequest(raw) ==
    Using(raw.dataOnly /\ raw.since # 0 /\ raw.tail, LAMBDA tail :
    Using(TimeWindow(raw.after, raw.before), LAMBDA w :
    Using(AnchorAndDirection(raw, w, tail), LAMBDA ad :
       [after |-> w.after, before |-> w.before, since |-> raw.since, anchor |-> ad.anchor, forward |-> ad.forward,
        limit |-> Most(raw.last, 2), dataOnly |-> raw.dataOnly, delta |-> raw.dataOnly /\ raw.delta,
        tail |-> tail, sampling |-> raw.sampling, sources |-> raw.sources, filters |-> raw.filters,
        facets |-> raw.facets, hist |-> raw.hist, fts |-> raw.fts])))

NormalDelta(d) == Least(Most(d, DeltaDefault), DeltaMax)

HeadTime(rows) == IF rows = <<>> THEN 0 ELSE rows[1].t
TailTime(rows) == IF rows = <<>> THEN 0 ELSE Last(rows).t

\* tail_after_realtime_bound.
TailAfter(r) == IF r.tail /\ r.anchor.kind = "realtime" THEN Most(r.after, r.anchor.at + 1) ELSE r.after

\* before_realtime_bound_excluding_anchor.
PageBefore(r) ==
    IF ~r.tail /\ ~r.forward /\ r.anchor.kind = "realtime" THEN Least(r.before, SatSub(r.anchor.at, 1)) ELSE r.before

\* to_explorer_query and file_query.  A tail anchor becomes a lower bound, the
\* anchor of a backward page an upper one, both leaving the anchor's own time out.
ToExplorerQuery(r, files, rows, slack) ==
    LET analysis == ~r.dataOnly \/ r.delta
        anchored == r.anchor.kind = "realtime"
        tailAnchor == r.tail /\ anchored
        pageAnchor == ~tailAnchor /\ ~r.forward /\ anchored
        numbered == rows # <<>> /\ rows[1].q # 0
    IN [after |-> TailAfter(r), before |-> PageBefore(r),
        anchor |-> IF tailAnchor \/ pageAnchor THEN [kind |-> "auto", at |-> 0] ELSE r.anchor,
        forward |-> r.forward, limit |-> r.limit, filters |-> r.filters,
        facets |-> IF analysis THEN r.facets ELSE <<>>,
        hist |-> IF analysis THEN r.hist ELSE NoField,
        histAfter |-> r.after, histBefore |-> r.before, buckets |-> Buckets,
        fts |-> r.fts, first |-> TRUE, exclude |-> Cardinality(DOMAIN r.filters) > 1,
        useSource |-> TRUE, slack |-> NormalDelta(slack),
        stopFull |-> r.dataOnly /\ ~tailAnchor /\ ~r.delta, every |-> Every,
        sampling |-> [budget |-> IF analysis THEN r.sampling ELSE 0, files |-> files,
                      head |-> HeadTime(rows), tail |-> TailTime(rows),
                      headSeq |-> IF rows = <<>> THEN 0 ELSE rows[1].q,
                      tailSeq |-> IF rows = <<>> THEN 0 ELSE Last(rows).q,
                      entries |-> IF numbered THEN Last(rows).q - rows[1].q + 1 ELSE Len(rows)]]

\* unfiltered_vocabulary.
UnfilteredVocabulary(r) == [r EXCEPT !.filters = <<>>, !.hist = NoField, !.limit = 0, !.fts = <<>>]

-----------------------------------------------------------------------------
(* The files.                                                              *)

MatchesSource(r, file) == r.sources = {} \/ file.src \in r.sources

\* journal_file_order_info: what cannot be opened is dated by its modification.
OrderInfo(file, learned) ==
    [first |-> IF file.open THEN HeadTime(file.rows) ELSE 0,
     last |-> IF file.open /\ file.rows # <<>> THEN TailTime(file.rows) ELSE file.mtime,
     mtime |-> file.mtime,
     delta |-> IF learned = 0 THEN DeltaDefault ELSE NormalDelta(learned)]

\* journal_file_order_may_overlap_request.
MayOverlap(info, r) ==
    \/ info.last = 0
    \/ info.last + DeltaMax >= r.after /\ SatSub(info.first, DeltaMax) <= r.before

\* compare_journal_file_order: the path decides the same way in both directions.
OrderBefore(a, b, forward) ==
    LET key(v) == <<v.last, v.mtime, v.first>>
        newer(k, l) == \/ k[1] > l[1]
                       \/ k[1] = l[1] /\ k[2] > l[2]
                       \/ k[1] = l[1] /\ k[2] = l[2] /\ k[3] > l[3]
    IN IF key(a) = key(b) THEN a.path < b.path
       ELSE IF forward THEN newer(key(b), key(a)) ELSE newer(key(a), key(b))

\* select_journal_files_for_request.
SelectFiles(dir, learned, r) ==
    LET info(i) == OrderInfo(dir[i], learned[i])
        fit == {i \in DOMAIN dir : MatchesSource(r, dir[i]) /\ MayOverlap(info(i), r)}
        described == {[info(i) EXCEPT !.mtime = @] @@ [path |-> i] : i \in fit}
    IN SetToSortSeq(described, LAMBDA a, b : OrderBefore(a, b, r.forward))

NotModified(r, selected) == r.since # 0 /\ \A i \in DOMAIN selected : selected[i].last <= r.since

-----------------------------------------------------------------------------
(* The combined result.                                                    *)

Nothing == [rows |-> <<>>, facets |-> EmptyBag, hist |-> EmptyBag, matched |-> 0, unsampled |-> 0,
            estimated |-> 0, last |-> 0, delta |-> 0, files |-> {}, skipped |-> {}, zero |-> {},
            lost |-> {}, partial |-> FALSE, timed |-> FALSE, cancelled |-> FALSE]

SortRows(rows, forward) ==
    LET before(a, b) == IF a.t # b.t THEN (IF forward THEN a.t < b.t ELSE a.t > b.t)
                        ELSE IF a.f # b.f THEN a.f < b.f ELSE a.i < b.i
    IN SetToSortSeq({rows[k] : k \in DOMAIN rows}, before)

\* Mutant: the boundary is the first row that does not fit.
RetainBoundaryGroupLate(rows, forward, limit) ==
    IF limit = 0 THEN <<>>
    ELSE IF Len(rows) <= limit THEN rows
    ELSE SelectSeq(rows, LAMBDA row : IF forward THEN row.t <= rows[limit + 1].t ELSE row.t >= rows[limit + 1].t)

\* retain_boundary_group: everything as good as the last row that fits.
RetainBoundaryGroup(rows, forward, limit) ==
    IF limit = 0 THEN <<>>
    ELSE IF Len(rows) <= limit THEN rows
    ELSE SelectSeq(rows, LAMBDA row : IF forward THEN row.t <= rows[limit].t ELSE row.t >= rows[limit].t)

\* make_row_timestamps_unique_same_file.
UniqueSameFile(rows, forward) ==
    LET step(acc, row) ==
            IF acc.file = row.f /\ row.t >= acc.from /\ row.t <= acc.to
            THEN IF forward THEN [acc EXCEPT !.to = @ + 1, !.out = Append(@, [row EXCEPT !.t = acc.to + 1])]
                 ELSE [acc EXCEPT !.from = SatSub(@, 1), !.out = Append(@, [row EXCEPT !.t = SatSub(acc.from, 1)])]
            ELSE [file |-> row.f, from |-> row.t, to |-> row.t, out |-> Append(acc.out, row)]
    IN FoldLeft(step, [file |-> 0, from |-> 0, to |-> 0, out |-> <<>>], rows).out

\* sort_and_limit, done again for every file merged.
SortAndLimit(rows, forward, limit) ==
    UniqueSameFile(RetainBoundaryGroup(SortRows(rows, forward), forward, limit), forward)

\* CombinedResult::merge.  The histogram's bars depend on the request alone, so
\* merge_histogram always finds the shape it has.
Merge(c, f, res, forward, limit) ==
    [c EXCEPT !.rows = SortAndLimit(@ \o [k \in DOMAIN res.rows |-> res.rows[k] @@ [f |-> f]], forward, limit),
              !.facets = @ (+) res.facets, !.hist = @ (+) res.hist, !.matched = @ + res.matched,
              !.unsampled = @ + res.unsampled, !.estimated = @ + res.estimated,
              !.last = Most(@, res.last), !.delta = Most(@, res.delta)]

\* remaining_files_cannot_affect_data_page: the next file speaks for all.
RemainingCannotAffect(c, r, selected, next) ==
    next > Len(selected) \/
    (LET times == {c.rows[i].t : i \in DOMAIN c.rows}
         info == selected[next]
     IN /\ times # {}
        /\ IF r.forward THEN info.first > Max(times) + info.delta
           ELSE info.last < SatSub(Min(times), info.delta))

\* add_zero_count_facet_values_from_files, ..._selected_filter_values: values a
\* reader could choose although nothing matches them now.
ZeroValues(dir, c, r) ==
    LET fields == {r.facets[i] : i \in DOMAIN r.facets}
        data(f) == UNION {{dir[f].rows[i].d[k] : k \in DOMAIN dir[f].rows[i].d} : i \in DOMAIN dir[f].rows}
    IN {v \in UNION {data(f) : f \in c.files} : v[1] \in fields}
       \cup UNION {{f} \X r.filters[f] : f \in DOMAIN r.filters \cap (fields \cup {r.hist})}

-----------------------------------------------------------------------------
(* Actions.  nd.phase: idle, files, exploring, expand, done.               *)

Idle(dir) ==
    [dir |-> dir, raw |-> <<>>, req |-> <<>>, selected |-> <<>>, at |-> 1, c |-> Nothing, page |-> <<>>,
     shared |-> <<>>, main |-> <<>>, learned |-> [i \in DOMAIN dir |-> 0], shown |-> <<>>, sound |-> TRUE,
     asked |-> "none", code |-> 0, phase |-> "idle"]

NoExploration == Exploration(<<>>, [after |-> NoTime, before |-> NoTime, limit |-> 0, hist |-> NoField,
                                    facets |-> <<>>, filters |-> <<>>, exclude |-> FALSE], "traversal", <<>>, <<>>)

\* explore_files up to its loop.
StartFiles(n, r) ==
    LET slots(q) == IF q.hist = NoField THEN q.buckets ELSE NewHistogram(q).count
    IN [n EXCEPT !.req = r, !.at = 1, !.c = Nothing, !.phase = "files",
                 !.page = <<WindowFor(r.forward, r.anchor, r.tail, r.delta, r.limit)>>,
                 !.shared = Using(ToExplorerQuery(r, Len(n.selected), <<>>, DeltaDefault),
                                  LAMBDA q : SamplingForQuery(q, slots(q)))]

\* run_directory_request_json_with_options up to explore_files.
Requested(raw) ==
    Using(ParseRequest(raw), LAMBDA r :
    Using([nd EXCEPT !.raw = raw, !.main = <<>>, !.selected = SelectFiles(nd.dir, nd.learned, r)], LAMBDA n :
        IF NotModified(r, n.selected) THEN [n EXCEPT !.req = r, !.c = Nothing, !.code = 304, !.phase = "done"]
        ELSE StartFiles(n, r)))

Receive(raw) == nd.phase = "idle" /\ nd' = Requested(raw) /\ UNCHANGED x

MoreFiles == nd.phase = "files" /\ nd.at <= Len(nd.selected)
File == nd.selected[nd.at].path

NoMoreFiles ==
    /\ nd.phase = "files" /\ nd.at > Len(nd.selected)
    /\ nd' = [nd EXCEPT !.phase = "expand"]
    /\ UNCHANGED x

\* should_stop_before_file.
Flagged(c, reason) ==
    [c EXCEPT !.partial = TRUE, !.cancelled = @ \/ reason = "cancelled", !.timed = @ \/ reason = "timeout"]

StopBeforeFile ==
    /\ MoreFiles /\ nd.asked # "none"
    /\ nd' = [nd EXCEPT !.c = Flagged(@, nd.asked), !.phase = "expand"]
    /\ UNCHANGED x

OpenFails ==
    /\ MoreFiles /\ nd.asked = "none" /\ ~nd.dir[File].open
    /\ nd' = [nd EXCEPT !.c.skipped = @ \cup {File}, !.at = @ + 1]
    /\ UNCHANGED x

\* explore_single_file: a control of its own, the window and the samples shared.
OpenFile ==
    LET rows == nd.dir[File].rows
        q == ToExplorerQuery(nd.req, Len(nd.selected), rows, nd.selected[nd.at].delta)
    IN /\ MoreFiles /\ nd.asked = "none" /\ nd.dir[File].open
       /\ nd' = [nd EXCEPT !.c.files = @ \cup {File}, !.phase = "exploring"]
       /\ x' = [Exploration(rows, q, "traversal", nd.page, nd.shared) EXCEPT
                    !.delta = nd.req.dataOnly /\ nd.req.delta]

\* A row's data cannot be read: what the window and the samples saw stays.
ReadFails ==
    /\ nd.phase = "exploring" /\ Met
    /\ x' = [Ended(x) EXCEPT !.phase = "failed"]
    /\ UNCHANGED nd

\* record_explore_result.
SkipFile ==
    /\ nd.phase = "exploring" /\ x.phase = "failed"
    /\ nd' = [nd EXCEPT !.c.skipped = @ \cup {File}, !.at = @ + 1, !.page = x.page, !.shared = x.shared,
                        !.phase = "files"]
    /\ x' = NoExploration

\* update_learned_realtime_delta.
Learned(n, f, info, delta) ==
    IF delta # 0 /\ NormalDelta(delta) > info.delta /\ delta > info.delta
    THEN [n EXCEPT !.learned[f] = NormalDelta(delta)] ELSE n

\* finish_explored_file.
FinishFile ==
    LET info == nd.selected[nd.at]
        reason == IF nd.asked = "cancelled" THEN "cancelled" ELSE x.stop
        early(merged) == /\ nd.req.dataOnly /\ ~nd.req.delta /\ ~nd.req.tail
                         /\ Len(merged.rows) >= nd.req.limit
                         /\ RemainingCannotAffect(merged, nd.req, nd.selected, nd.at + 1)
        n == [Learned(nd, File, info, x.res.delta) EXCEPT
                !.page = x.page, !.shared = x.shared, !.at = @ + 1]
    IN /\ nd.phase = "exploring" /\ x.phase = "done"
       /\ \E merged \in {Merge(nd.c, File, x.res, x.q.forward, nd.req.limit)} :
            nd' = [n EXCEPT !.c = IF reason = "none" THEN merged ELSE Flagged(merged, reason),
                            !.phase = IF reason # "none" \/ early(merged) THEN "expand" ELSE "files"]
       /\ x' = NoExploration

\* finalize_combined_result: values to choose from, or a second run over the files
\* for the values the filters hide.
Finalized(n, c) ==
    LET zero == IF n.req.dataOnly \/ c.cancelled THEN {} ELSE ZeroValues(n.dir, c, n.req)
        again == n.main = <<>> /\ ~n.req.dataOnly /\ ~c.partial /\ DOMAIN n.req.filters # {}
    IN Using(IF n.main = <<>> THEN [c EXCEPT !.zero = zero]
             ELSE [n.main[1] EXCEPT !.zero = @ \cup BagToSet(c.facets)], LAMBDA answer :
       IF again THEN StartFiles([n EXCEPT !.main = <<answer>>], UnfilteredVocabulary(n.req))
       ELSE [n EXCEPT !.c = answer, !.code = IF answer.cancelled THEN 499 ELSE 200, !.phase = "done",
                      !.req = ParseRequest(n.raw), !.sound = @ /\ ~answer.partial /\ answer.skipped = {},
                      !.shown = Append(@, {<<answer.rows[k].f, answer.rows[k].i>> : k \in DOMAIN answer.rows})])

\* expand_row_payloads: rows that cannot be read again are dropped and the answer
\* is partial.
Expand(lost) ==
    /\ nd.phase = "expand"
    /\ nd' = Finalized(nd, [nd.c EXCEPT !.rows = SelectSeq(@, LAMBDA row : row \notin lost),
                                       !.lost = lost, !.partial = @ \/ lost # {}])
    /\ UNCHANGED x

\* A client asks for the rows after the last one it was shown.
NextPage ==
    /\ nd.phase = "done" /\ nd.code = 200 /\ nd.c.rows # <<>> /\ Len(nd.shown) < MaxPages
    /\ ~nd.req.tail
    /\ nd' = Requested([nd.raw EXCEPT !.anchor = Last(nd.c.rows).t])
    /\ UNCHANGED x

\* The caller cancels, or its deadline passes, at any time.
NdAsk(reason) ==
    /\ nd.phase \notin {"idle", "done"} /\ nd.asked = "none"
    /\ nd' = [nd EXCEPT !.asked = reason]
    /\ x' = IF nd.phase = "exploring" THEN [x EXCEPT !.asked = reason] ELSE x

NdExplore == nd.phase = "exploring" /\ ExplorerStep /\ UNCHANGED nd

NdStep ==
    \/ \E raw \in Requests : Receive(raw)
    \/ NoMoreFiles \/ StopBeforeFile \/ OpenFails \/ OpenFile \/ ReadFails \/ SkipFile \/ FinishFile
    \/ \E lost \in {{}} \cup {{nd.c.rows[k]} : k \in DOMAIN nd.c.rows} : Expand(lost)
    \/ NextPage \/ NdExplore
    \/ \E reason \in {"cancelled", "timeout"} : NdAsk(reason)

-----------------------------------------------------------------------------
(* What an exploration and a Netdata request owe their caller, against       *)
(* definitions that look at all rows at once.                                *)

CONSTANT Explorations  \* explorations a caller of FileReader::explore may ask for

QueryInit ==
    \/ \E dir \in Directories : nd = Idle(dir) /\ x = NoExploration
    \/ \E e \in Explorations : nd = [Idle(<<>>) EXCEPT !.phase = "direct"] /\ x = e

Direct == nd.phase = "direct" /\ UNCHANGED nd

QueryNext ==
    \/ NdStep
    \/ Direct /\ (ExplorerStep \/ \E reason \in {"cancelled", "timeout"} : Ask(reason))

QuerySpec == QueryInit /\ [][QueryNext]_<<nd, x>>

-----------------------------------------------------------------------------
(* Reference definitions.                                                  *)

ValuesOf(row, f) == {k \in DOMAIN row.d : row.d[k][1] = f}

\* Source time of a row: of its first Source field in first-value mode, of its
\* last readable one otherwise; 0 without one.
RefSource(q, row) ==
    LET all == ValuesOf(row, Source)
        usable == IF q.first THEN {k \in all : k = Min(all)} ELSE all
        read == {k \in usable : row.d[k][2] # Unparsed}
    IN IF ~q.useSource \/ read = {} THEN 0 ELSE row.d[Max(read)][2]

RefTime(q, row) == EffectiveRealtime(RefSource(q, row), row.t)

RefFts(q, row) ==
    /\ \A k \in DOMAIN row.d : FtsVerdict(q, row.d[k][2]) # "negative"
    /\ HasPositiveFts(q) => \E k \in DOMAIN row.d : FtsVerdict(q, row.d[k][2]) = "positive"

RefRowIds(q, rows, excluded) ==
    {i \in DOMAIN rows : Matches(q, excluded, rows[i]) /\ TimestampInRange(q, RefTime(q, rows[i])) /\ RefFts(q, rows[i])}

\* The first rows in the query's direction that its anchor lets pass; behind the
\* end it starts from there are none.
RefPage(q, rows) ==
    LET behind == q.stopFull /\ q.anchor.kind = (IF q.forward THEN "tail" ELSE "head")
        fit == {i \in RefRowIds(q, rows, NoField) : ~behind /\ RowWithinAnchor(q, RefTime(q, rows[i]))}
        ahead(i) == Cardinality({j \in fit : IF q.forward THEN j < i ELSE j > i})
    IN {i \in fit : ahead(i) < q.limit}

Counted(q, row, f) ==
    LET all == ValuesOf(row, f)
    IN IF all = {} THEN SetToBag({Unset})
       ELSE IF q.first THEN SetToBag({row.d[Min(all)][2]})
       ELSE FoldSet(LAMBDA k, bag : Add(bag, row.d[k][2], 1), EmptyBag, all)

Keyed(key, bag) == [p \in {<<key, v>> : v \in DOMAIN bag} |-> bag[p[2]]]

RefFacets(q, rows) ==
    FoldSet(LAMBDA f, out :
              FoldSet(LAMBDA i, bag : bag (+) Keyed(f, Counted(q, rows[i], f)), out, RefRowIds(q, rows, ExcludedFor(q, f))),
            EmptyBag, {q.facets[i] : i \in DOMAIN q.facets})

\* The one bar whose time span holds t; an unbounded query's late rows are all
\* in its last bar.
RefBar(q, t) ==
    LET h == NewHistogram(q)
    IN IF t >= BarEnd(h, h.count - 1) THEN h.count - 1
       ELSE CHOOSE i \in 0..(h.count - 1) : BarStart(h, i) <= t /\ t < BarEnd(h, i)

RefHistogram(q, rows) ==
    IF q.hist = NoField THEN EmptyBag
    ELSE FoldSet(LAMBDA i, bag : bag (+) Keyed(RefBar(q, RefTime(q, rows[i])), Counted(q, rows[i], q.hist)),
                 EmptyBag, RefRowIds(q, rows, NoField))

\* A row's source time is no further from its commit time than the slack allows.
WithinSlack(q, rows) == \A i \in DOMAIN rows : rows[i].t - RefTime(q, rows[i]) <= q.slack

Ran == x.phase = "done" /\ x.stop = "none"
PageOf(e) == {e.res.rows[k].i : k \in DOMAIN e.res.rows}
Sum(bag) == BagCardinality(bag)

-----------------------------------------------------------------------------
(* Properties of an exploration.                                           *)

\* However the passes are split and combined (explore_traversal), an exploration
\* that ran to its end returned the first rows in order and counted exactly the
\* matching rows in its facets and in the bars that hold their times.
TraversalExact ==
    (Ran /\ x.strategy = "traversal" /\ x.q.sampling.budget = 0 /\ ~x.delta /\ WithinSlack(x.q, x.file)) =>
        /\ PageOf(x) = RefPage(x.q, x.file)
        /\ ~x.q.stopFull => /\ x.res.facets = RefFacets(x.q, x.file)
                            /\ x.res.hist = RefHistogram(x.q, x.file)

\* What explore_indexed counts from field and data indexes is what a traversal
\* of the rows counts (explore_compare expects no less).
IndexExact ==
    (Ran /\ x.strategy = "index") =>
        /\ PageOf(x) = RefPage(x.q, x.file)
        /\ x.res.facets = RefFacets(x.q, x.file)
        /\ x.res.hist = RefHistogram(x.q, x.file)

\* Sampling one file leaves its page alone, and every row that matched by time
\* is in the histogram once: under its value, as unsampled, or in an estimate.
SamplingConserves ==
    (Ran /\ nd.phase = "direct" /\ x.q.sampling.budget # 0) =>
        /\ PageOf(x) = RefPage(x.q, x.file)
        /\ x.q.hist # NoField => IF x.res.estimated = 0 THEN Sum(x.res.hist) = x.res.matched
                                 ELSE Sum(x.res.hist) <= x.res.matched

-----------------------------------------------------------------------------
(* Properties of a request.                                                *)

Answered == nd.phase = "done" /\ nd.code = 200
Clean == ~nd.c.partial /\ nd.c.skipped = {}

\* The query of the request as if there were one file holding everything.
WholeQuery(r) == ToExplorerQuery(r, 0, <<>>, DeltaMax)

WantedRows(dir, r) ==
    UNION {{[f |-> f, i |-> i, t |-> RefTime(WholeQuery(r), dir[f].rows[i])] :
              i \in {j \in RefRowIds(WholeQuery(r), dir[f].rows, NoField) :
                       RowWithinAnchor(WholeQuery(r), RefTime(WholeQuery(r), dir[f].rows[j]))}} :
           f \in {g \in DOMAIN dir : dir[g].open /\ MatchesSource(r, dir[g])}}

\* A row belongs on the page when fewer than limit rows are strictly better.
BelongsOnPage(row, rows, r) ==
    Cardinality({o \in rows : IF r.forward THEN o.t < row.t ELSE o.t > row.t}) < r.limit

\* Rows whose source times keep the order of the file and stay within its slack:
\* the promise below is made for these.
Steady(dir) ==
    \A f \in DOMAIN dir : \A i \in DOMAIN dir[f].rows :
        LET time(k) == RefTime(WholeQuery(nd.req), dir[f].rows[k])
        IN /\ dir[f].rows[i].t - time(i) <= DeltaDefault
           /\ i > 1 => time(i - 1) < time(i)

\* An answer that is not called partial and skipped nothing shows the whole page:
\* the limit best rows of all files and every row as good as the last of them
\* (retain_boundary_group), whether files were left out by time, explored early or late.
PageExact ==
    (Answered /\ Clean /\ Steady(nd.dir)) =>
        LET wanted == WantedRows(nd.dir, nd.req)
        IN Last(nd.shown) = {<<row.f, row.i>> : row \in {w \in wanted : BelongsOnPage(w, wanted, nd.req)}}

\* A client that pages with the time of the last row it was shown is shown no row
\* twice, and has seen every row when it gets an empty page, as long as no page
\* was partial (before_realtime_bound_excluding_anchor).
PagingComplete ==
    (Answered /\ nd.sound /\ Steady(nd.dir) /\ ~nd.req.tail) =>
        /\ \A j, k \in DOMAIN nd.shown : j # k => nd.shown[j] \cap nd.shown[k] = {}
        /\ nd.c.rows = <<>> /\ nd.raw.anchor # 0 =>
             UNION {nd.shown[k] : k \in DOMAIN nd.shown}
                = {<<w.f, w.i>> : w \in WantedRows(nd.dir, ParseRequest([nd.raw EXCEPT !.anchor = 0]))}

\* The combined counts of a full request are the sums over its files, and every
\* matching row is counted once on the page window.
CombinedExact ==
    (Answered /\ Clean /\ ~nd.req.dataOnly /\ nd.req.sampling = 0 /\ nd.main = <<>>) =>
        LET q == WholeQuery(nd.req)
            total(ref(_)) == FoldSet(LAMBDA f, bag : bag (+) ref(nd.dir[f].rows), EmptyBag, nd.c.files)
            w == nd.page[1]
        IN /\ nd.c.facets = total(LAMBDA rows : RefFacets(q, rows))
           /\ nd.c.hist = total(LAMBDA rows : RefHistogram(q, rows))
           /\ nd.req.anchor.kind = "auto" => w.matched = Cardinality(WantedRows(nd.dir, nd.req))

\* A page that says nothing follows it (items.after backward, items.before
\* forward) really is the last one, even where later files displaced rows from it.
NoFalseEnd ==
    (Answered /\ Clean /\ ~nd.req.dataOnly /\ nd.req.sampling = 0 /\ nd.main = <<>> /\ nd.req.anchor.kind = "auto") =>
        LET w == nd.page[1]
            more == IF nd.req.forward THEN w.before + w.shifts ELSE w.after + w.shifts
        IN more = 0 => w.matched = Cardinality(Last(nd.shown))

\* Nothing is left out silently: a row missing from the page of a full answer
\* was in a file reported as skipped, in a row reported as lost, or the answer
\* is partial; and a cancelled request never answers as if it were complete.
NothingSilent ==
    (Answered /\ Steady(nd.dir) /\ (nd.req.dataOnly => ~nd.req.delta)) =>
        LET wanted == {w \in WantedRows(nd.dir, nd.req) : w.f \notin nd.c.skipped}
        IN \/ nd.c.partial
           \/ {<<w.f, w.i>> : w \in {v \in wanted : BelongsOnPage(v, WantedRows(nd.dir, nd.req), nd.req)}}
                 \subseteq Last(nd.shown)

(***************************************************************************)
(* An exploration counts every matching row once, whether it walks the     *)
(* rows, combines the postings or samples.                                 *)
(***************************************************************************)
ExplorationExact ==
  /\ TraversalExact
  /\ IndexExact
  /\ SamplingConserves

(***************************************************************************)
(* The answer to a Netdata request over all files of a directory: its page *)
(* is exact, the pages after one another leave nothing out, and an answer  *)
(* that is not whole says so.                                              *)
(***************************************************************************)
AnswersComplete ==
  /\ PageExact
  /\ PagingComplete
  /\ CombinedExact
  /\ NoFalseEnd
  /\ NothingSilent
=============================================================================
