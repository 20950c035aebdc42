------------------------------ MODULE Explorer ------------------------------
(***************************************************************************)
(* One exploration of one file (FileReader::explore_with_strategy): its    *)
(* passes, one action per row met.  A caller may cancel, or its deadline   *)
(* pass, between any two rows.                                             *)
(***************************************************************************)
EXTENDS ExplorerScan

(***************************************************************************)
(* NetdataPageWindow (journal/src/netdata.rs): the times of the rows that  *)
(* may end up on the page, over all files of a request, and how many       *)
(* matching rows lie before and after it.                                  *)
(***************************************************************************)
\* for_request: a tail anchor bounds the page below, any other one above
\* (backward) or below (forward).
WindowFor(forward, anchor, tail, delta, limit) ==
    [forward |-> forward, limit |-> limit,
     start |-> IF tail \/ anchor.kind # "realtime" THEN NoTime ELSE anchor.at,
     stop |-> IF tail /\ anchor.kind = "realtime" THEN anchor.at ELSE NoTime,
     heap |-> EmptyBag, matched |-> 0, before |-> 0, shifts |-> 0,
     after |-> IF tail /\ delta /\ anchor.kind = "realtime" THEN 1 ELSE 0]

Retained(w) == BagCardinality(w.heap)
OldestRetained(w) == Min(BagToSet(w.heap))
NewestRetained(w) == Max(BagToSet(w.heap))

BeyondStart(w, t) == w.start # NoTime /\ IF w.forward THEN t <= w.start ELSE t >= w.start
BeyondStop(w, t) == w.stop # NoTime /\ IF w.forward THEN t >= w.stop ELSE t <= w.stop

\* candidate_to_keep.
PageCandidate(w, t) ==
    /\ w.limit # 0 /\ ~BeyondStart(w, t) /\ ~BeyondStop(w, t)
    /\ Retained(w) < w.limit \/ (OldestRetained(w) <= t /\ t <= NewestRetained(w))

Replace(bag, old, new) == (bag (-) SetToBag({old})) (+) SetToBag({new})

\* observe: the page keeps the best `limit` times; a row equal to the worst one
\* takes its place without being counted on either side.
Observe(w, t) ==
    LET edge == IF w.forward THEN NewestRetained(w) ELSE OldestRetained(w)
        worse == IF w.forward THEN t > edge ELSE t < edge
        side(v) == IF v THEN [w EXCEPT !.before = @ + 1] ELSE [w EXCEPT !.after = @ + 1]
        counted == [w EXCEPT !.matched = @ + 1]
    IN IF BeyondStart(w, t) THEN side(~w.forward)
       ELSE IF BeyondStop(w, t) THEN side(w.forward)
       ELSE IF w.limit = 0 THEN w
       ELSE IF Retained(w) < w.limit THEN [counted EXCEPT !.heap = @ (+) SetToBag({t})]
       ELSE IF worse THEN IF w.forward THEN [counted EXCEPT !.before = @ + 1]
                          ELSE [counted EXCEPT !.after = @ + 1]
       ELSE [counted EXCEPT !.heap = Replace(@, edge, t), !.shifts = IF t = edge THEN @ ELSE @ + 1]

\* can_stop_delta_file.
CanStopDeltaFile(w, t, slack) ==
    /\ w.limit # 0 /\ Retained(w) >= w.limit
    /\ IF w.forward THEN t > NewestRetained(w) + slack ELSE t < SatSub(OldestRetained(w), slack)

-----------------------------------------------------------------------------
VARIABLE x

\* A pass: the facets it counts, its histogram field and the filter it leaves out.
Pass(kind, facets, hist, excluded) ==
    [kind |-> kind, facets |-> facets, hist |-> hist, excluded |-> excluded]

NoResult == [rows |-> <<>>, facets |-> EmptyBag, hist |-> EmptyBag, matched |-> 0, fmatched |-> 0,
             sampled |-> 0, unsampled |-> 0, estimated |-> 0, last |-> 0, delta |-> 0]

\* facet_pass_groups: facets whose own filter is left out get a group of their own.
ExcludedFor(q, f) == IF q.exclude /\ f \in DOMAIN q.filters THEN f ELSE NoField

FacetGroups(q) ==
    FoldLeft(LAMBDA groups, f :
                LET same == {i \in DOMAIN groups : groups[i].excluded = ExcludedFor(q, f)}
                IN IF same = {} THEN Append(groups, Pass("facets", {f}, NoField, ExcludedFor(q, f)))
                   ELSE [groups EXCEPT ![Min(same)].facets = @ \cup {f}],
             <<>>, q.facets)

CanCombine(q) == \A i \in DOMAIN FacetGroups(q) : FacetGroups(q)[i].excluded = NoField

\* explore_traversal: one combined pass, or the main pass and one per group.
TraversalPasses(q) ==
    LET facets == {q.facets[i] : i \in DOMAIN q.facets}
    IN IF CanCombine(q)
       THEN IF NeedsMainPass(q) \/ facets # {} THEN <<Pass("combined", facets, q.hist, NoField)>> ELSE <<>>
       ELSE (IF NeedsMainPass(q) THEN <<Pass("main", {}, q.hist, NoField)>> ELSE <<>>) \o FacetGroups(q)

\* explore_indexed: the rows by traversal, the counts from the index.
IndexedPasses(q) ==
    (IF q.limit = 0 THEN <<>> ELSE <<Pass("main", {}, NoField, NoField)>>)
    \o [i \in DOMAIN FacetGroups(q) |-> [FacetGroups(q)[i] EXCEPT !.kind = "indexed"]]
    \o (IF q.hist = NoField THEN <<>> ELSE <<Pass("indexed", {}, q.hist, NoField)>>)

\* validate_query and validate_indexed_query.
ValidQuery(q, strategy) ==
    /\ q.after # NoTime /\ q.before # NoTime => q.after <= q.before
    /\ \A i, j \in DOMAIN q.facets : q.facets[i] = q.facets[j] => i = j
    /\ strategy = "index" =>
         ~q.first /\ ~HasFts(q) /\ ~(q.useSource /\ (BoundedTime(q) \/ q.hist # NoField))

Passes(q, strategy) == IF strategy = "index" THEN IndexedPasses(q) ELSE TraversalPasses(q)

\* An exploration that has not started its first pass.  page and shared are
\* what the control carries: a page window and a sampling state, or <<>>.
Exploration(file, q, strategy, page, shared) ==
    [file |-> file, q |-> q, strategy |-> strategy, page |-> page, shared |-> shared,
     delta |-> FALSE, todo |-> Passes(q, strategy), pass |-> <<>>, visit |-> <<>>, seen |-> 0,
     sampling |-> <<>>, res |-> NoResult, next |-> CheckEvery, since |-> 0, stop |-> "none",
     asked |-> "none", phase |-> IF ValidQuery(q, strategy) THEN "between" ELSE "failed"]

-----------------------------------------------------------------------------
(* Passes.                                                                 *)

Wants(e) ==
    [facets |-> e.pass.facets, hist |-> e.pass.hist,
     source |-> IF e.pass.kind = "facets" THEN FacetNeedsSource(e.q)
                ELSE MainNeedsSource(e.q) \/ FacetNeedsSource(e.q)]

\* sampling_state_for_combined: a shared state takes precedence over the query's own.
PassSampling(e, pass) ==
    LET own == SamplingForQuery(e.q, IF e.q.hist = NoField THEN e.q.buckets ELSE NewHistogram(e.q).count)
    IN IF pass.kind # "combined" THEN <<>>
       ELSE IF e.shared # <<>> THEN <<BeginFile(e.shared[1], e.q.sampling)>> ELSE own

Begun(e) ==
    LET pass == Head(e.todo)
    IN [e EXCEPT !.todo = Tail(@), !.pass = pass, !.seen = 0, !.phase = "scan",
                 !.visit = VisitOrder(e.q, pass.excluded, e.file), !.sampling = PassSampling(e, pass)]

Ended(e) ==
    [e EXCEPT !.phase = "between", !.visit = <<>>, !.pass = <<>>,
              !.shared = IF @ # <<>> /\ e.sampling # <<>> THEN e.sampling ELSE @, !.sampling = <<>>]

\* Mutant: rows on the wrong side of the range count as candidates.
CandidatesUnchecked(e, pass) ==
    IF DOMAIN e.q.filters = {} THEN DOMAIN e.file
    ELSE LET order == VisitOrder(e.q, pass.excluded, e.file) IN {order[k] : k \in DOMAIN order}

\* indexed_candidate_set: every row when the query restricts nothing.
Candidates(e, pass) ==
    IF DOMAIN e.q.filters = {} /\ ~BoundedTime(e.q) THEN DOMAIN e.file
    ELSE LET order == VisitOrder(e.q, pass.excluded, e.file)
             past == {k \in DOMAIN order : StopByCommitTime(e.q, e.file[order[k]].t)}
             reached == IF past = {} THEN DOMAIN order ELSE 1..(Min(past) - 1)
         IN {order[k] : k \in {n \in reached : TimestampInRange(e.q, e.file[order[n]].t)}}

Has(row, f) == \E i \in DOMAIN row.d : row.d[i][1] = f

\* The data of a field in a set of rows, each as <<row, place>>.
DataOf(file, rows, f) == UNION {{<<i, k>> : k \in {n \in DOMAIN file[i].d : file[i].d[n][1] = f}} : i \in rows}

\* indexed_count_facet_group: postings of every value, then the rows without one.
IndexedFacet(file, rows, f, bag) ==
    Add(FoldSet(LAMBDA p, acc : Add(acc, file[p[1]].d[p[2]], 1), bag, DataOf(file, rows, f)),
        <<f, Unset>>, Cardinality({i \in rows : ~Has(file[i], f)}))

\* indexed_count_histogram.
IndexedBars(e, all, field, bag) ==
    LET rows == {i \in all : TimestampInRange(e.q, e.file[i].t)}
    IN Using([i \in rows |-> BucketIndex(NewHistogram(e.q), e.file[i].t)], LAMBDA bar :
       LET valued == FoldSet(LAMBDA p, acc : Add(acc, <<bar[p[1]], e.file[p[1]].d[p[2]][2]>>, 1), bag,
                             DataOf(e.file, rows, field))
       IN FoldSet(LAMBDA i, acc : Add(acc, <<bar[i], Unset>>, 1), valued, {i \in rows : ~Has(e.file[i], field)}))

CountIndexed(e) ==
    Using(Head(e.todo), LAMBDA pass :
    Using(Candidates(e, pass), LAMBDA rows :
       [e EXCEPT !.todo = Tail(@),
                 !.res.fmatched = IF pass.hist = NoField THEN @ + Cardinality(rows) ELSE @,
                 !.res.facets = FoldSet(LAMBDA f, bag : IndexedFacet(e.file, rows, f, bag), @, pass.facets),
                 !.res.hist = IF pass.hist = NoField THEN @ ELSE IndexedBars(e, rows, pass.hist, @)]))

-----------------------------------------------------------------------------
(* Rows.                                                                   *)

RowId(e) == Head(e.visit)
Row(e) == e.file[RowId(e)]

\* should_stop_after_rows: rows_seen is counted per pass, next_check_rows is the
\* control's and goes on from pass to pass.
ChecksControl(e) == e.seen + 1 >= e.next

Charged(e) ==
    [e EXCEPT !.next = IF ChecksControl(e) THEN e.seen + 1 + CheckEvery ELSE @,
              !.since = IF ChecksControl(e) THEN 0 ELSE @ + 1]

Stepped(e) == [Charged(e) EXCEPT !.visit = Tail(@), !.seen = @ + 1]

IncludesMain(e) == e.pass.kind = "main" \/ (e.pass.kind = "combined" /\ NeedsMainPass(e.q))
IncludesFacets(e) == e.pass.kind = "facets" \/ (e.pass.kind = "combined" /\ e.pass.facets # {})

\* row_candidate_to_keep, or the page window's answer.
CandidateToKeep(e, t) ==
    LET times == {e.res.rows[i].t : i \in DOMAIN e.res.rows}
    IN IF e.page # <<>> THEN PageCandidate(e.page[1], t)
       ELSE /\ e.q.limit # 0 /\ RowWithinAnchor(e.q, t)
            /\ Len(e.res.rows) < e.q.limit \/ IF e.q.forward THEN t <= Max(times) ELSE t >= Min(times)

\* combined_sampling_decision.
Decision(e) ==
    IF e.sampling = <<>> THEN [s |-> <<>>, verdict |-> "none", rows |-> 0, from |-> 0, to |-> 0]
    ELSE Decide(e.sampling[1], Row(e).t, Row(e).q, CandidateToKeep(e, Row(e).t))

Decided(e, d) ==
    [e EXCEPT !.sampling = IF @ = <<>> THEN @ ELSE <<d.s>>,
              !.res.sampled = IF d.verdict = "sample" THEN @ + 1 ELSE @]

\* record_combined_unsampled_row.
Unread(e, n) ==
    [e EXCEPT !.res.last = Most(@, Row(e).t),
              !.res.matched = IF IncludesMain(e) THEN @ + n ELSE @,
              !.res.fmatched = IF IncludesFacets(e) THEN @ + n ELSE @]

SkippedFields(e) ==
    [Unread(e, 1) EXCEPT !.res.unsampled = @ + 1,
        !.res.hist = IF e.q.hist = NoField THEN @
                     ELSE Add(@, <<BucketIndex(NewHistogram(e.q), Row(e).t), Unsampled>>, 1)]

StoppedAndEstimated(e, d) ==
    [Unread(e, d.rows) EXCEPT !.res.estimated = @ + d.rows,
        !.res.hist = IF e.q.hist = NoField THEN @
                     ELSE EstimatedRange(NewHistogram(e.q), d.from, d.to, d.rows, @)]

\* apply_value, finish_facet_row and finish_histogram_row.
FacetCounts(facets, z, bag) ==
    LET counted == FoldLeft(LAMBDA acc, v : IF v[1] \in facets THEN Add(acc, v, 1) ELSE acc, bag, z.values)
    IN FoldSet(LAMBDA f, acc : Add(acc, <<f, Unset>>, 1), counted, facets \ z.seen)

HistogramCounts(e, z, t, bag) ==
    LET field == e.pass.hist
        counted(bar) ==
            FoldLeft(LAMBDA acc, v : IF v[1] = field THEN Add(acc, <<bar, v[2]>>, 1) ELSE acc, bag, z.values)
    IN IF field = NoField THEN bag
       ELSE Using(BucketIndex(NewHistogram(e.q), t), LAMBDA bar :
                Add(counted(bar), <<bar, Unset>>, IF field \in z.seen THEN 0 ELSE 1))

\* push_explorer_row_if_wanted.
Pushed(e, t) ==
    IF RowWithinAnchor(e.q, t) /\ Len(e.res.rows) < e.q.limit
    THEN Append(e.res.rows, [i |-> RowId(e), t |-> t]) ELSE e.res.rows

\* should_stop_when_rows_full.
RowsFull(q, rows, t, matched) ==
    /\ q.stopFull /\ q.limit # 0 /\ Len(rows) >= q.limit
    /\ matched # 0 /\ matched % Most(q.every, 1) = 0
    /\ LET times == {rows[i].t : i \in DOMAIN rows}
       IN IF q.forward THEN t > Max(times) + q.slack ELSE t < SatSub(Min(times), q.slack)

\* accepted_effective_realtime records the distance even of a row it rejects.
Measured(e, z) ==
    [e EXCEPT !.res.delta = IF z.source # 0 /\ z.source < Row(e).t THEN Most(@, Row(e).t - z.source) ELSE @]

\* apply_main_scanned_row, apply_combined_scanned_row and the facet pass.
Applied(e, z, t) ==
    LET matched == e.res.matched + (IF IncludesMain(e) THEN 1 ELSE 0)
        observed == IF e.page # <<>> /\ IncludesMain(e) THEN <<Observe(e.page[1], t)>> ELSE e.page
        deltaStop(a) == /\ e.delta /\ a.page # <<>> /\ matched % Most(e.q.every, 1) = 0
                        /\ CanStopDeltaFile(a.page[1], t, e.q.slack)
        stops(a) == e.pass.kind # "facets" /\ (deltaStop(a) \/ RowsFull(e.q, a.res.rows, t, matched))
    IN Using([e EXCEPT
                !.page = observed,
                !.res.last = Most(@, Row(e).t), !.res.matched = matched,
                !.res.fmatched = IF IncludesFacets(e) THEN @ + 1 ELSE @,
                !.res.facets = FacetCounts(e.pass.facets, z, @),
                !.res.hist = HistogramCounts(e, z, t, @),
                !.res.rows = IF e.pass.kind = "facets" THEN @ ELSE Pushed(e, t)],
             LAMBDA applied : IF stops(applied) THEN Ended(applied) ELSE applied)

-----------------------------------------------------------------------------
(* Actions.                                                                *)

Scanning == x.phase = "scan"
Met == Scanning /\ x.visit # <<>>
Interrupted == ChecksControl(x) /\ x.asked # "none"
Framed == Met /\ ~Interrupted /\ ~StopByCommitTime(x.q, Row(x).t) /\ ~SkipByCommitTime(x.q, Row(x).t)

\* The caller cancels or the deadline passes; nobody notices yet.
Ask(reason) == x.phase \notin {"done", "failed"} /\ x.asked = "none" /\ x' = [x EXCEPT !.asked = reason]

\* Passes begin until the control has stopped the exploration.
BeginPass ==
    /\ x.phase = "between" /\ x.todo # <<>> /\ x.stop = "none"
    /\ Head(x.todo).kind # "indexed"
    /\ x' = Begun(x)

CountFromIndex ==
    /\ x.phase = "between" /\ x.todo # <<>> /\ x.stop = "none"
    /\ Head(x.todo).kind = "indexed"
    /\ x' = CountIndexed(x)

Finish ==
    /\ x.phase = "between" /\ (x.todo = <<>> \/ x.stop # "none")
    /\ x' = [x EXCEPT !.phase = "done"]

NoMoreRows == Scanning /\ x.visit = <<>> /\ x' = Ended(x)

StopAtControl ==
    /\ Met /\ Interrupted
    /\ x' = Ended([Stepped(x) EXCEPT !.stop = x.asked])

StopPastRange == Met /\ ~Interrupted /\ StopByCommitTime(x.q, Row(x).t) /\ x' = Ended(Stepped(x))

SkipOutsideRange ==
    /\ Met /\ ~Interrupted /\ ~StopByCommitTime(x.q, Row(x).t) /\ SkipByCommitTime(x.q, Row(x).t)
    /\ x' = Stepped(x)

SkipUnsampled ==
    /\ Framed
    /\ \E d \in {Decision(x)} :
         d.verdict = "skip" /\ x' = Stepped(SkippedFields(Decided(x, d)))

StopEstimated ==
    /\ Framed
    /\ \E d \in {Decision(x)} :
         d.verdict = "estimate" /\ x' = Charged(Ended(StoppedAndEstimated(Decided(x, d), d)))

ScanOneRow ==
    /\ Framed
    /\ \E d \in {Decision(x)}, z \in {ScanRow(x.q, Wants(x), Row(x))} :
       \E t \in {AcceptedRealtime(x.q, z, Row(x).t)}, e \in {Measured(Decided(x, d), z)} :
       \E read \in {IF t = NoTime THEN e ELSE Applied(e, z, t)} :
         /\ d.verdict \in {"none", "keep", "sample"}
         /\ x' = IF read.phase = "between" THEN Charged(read) ELSE Stepped(read)

ExplorerStep ==
    \/ BeginPass \/ CountFromIndex \/ Finish \/ NoMoreRows \/ StopAtControl \/ StopPastRange
    \/ SkipOutsideRange \/ SkipUnsampled \/ StopEstimated \/ ScanOneRow
=============================================================================
