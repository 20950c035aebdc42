---------------------------- MODULE ExplorerScan ----------------------------
(***************************************************************************)
(* The pure half of the explorer (journal/src/explorer.rs): what a query   *)
(* asks of one row, how a histogram is cut, how sampling decides and       *)
(* estimates.  A row is [t, q, d]: commit time, sequence number and its    *)
(* data as a sequence of <<field, value>> in entry order.  Values are      *)
(* numbers; under the field Source the number is the parsed source time    *)
(* and Unparsed a text that is none.                                       *)
(***************************************************************************)
EXTENDS Integers, Sequences, SequencesExt, FiniteSetsExt, Bags

CONSTANTS
    Durations,    \* widths a histogram bar may have, in ascending order
    MaxBars,      \* bars of the largest histogram (1000)
    DefaultSpan,  \* width of a histogram without an end (3600 s)
    MaxSlots,     \* EXPLORER_SAMPLING_SLOTS_MAX
    Recalibrate,  \* EXPLORER_SAMPLING_RECALIBRATE_ROWS
    CheckEvery    \* EXPLORER_CONTROL_CHECK_EVERY_ROWS

ASSUME ExplorerConstants ==
    /\ Durations \in Seq(Nat \ {0}) /\ Durations # <<>> /\ Durations[1] = 1
    /\ {MaxBars, DefaultSpan, MaxSlots, Recalibrate, CheckEvery} \subseteq Nat \ {0}

Source == "_SOURCE_REALTIME_TIMESTAMP"
Unset == 0          \* the label "-"
Unsampled == -1     \* the label "[unsampled]"
Estimated == -2     \* the label "[estimated]"
Unparsed == -3
NoField == "none"
NoTime == -1        \* an Option<u64> without a value

\* Op of a value that an earlier step has computed.
Using(v, Op(_)) == Op(v)

SatSub(a, b) == IF a > b THEN a - b ELSE 0
Least(a, b) == IF a < b THEN a ELSE b
Most(a, b) == IF a > b THEN a ELSE b
Add(bag, key, n) == IF n = 0 THEN bag ELSE bag (+) (key :> n)

-----------------------------------------------------------------------------
(* What a query needs of a row.                                            *)

HasFts(q) == q.fts # <<>>
HasPositiveFts(q) == \E i \in DOMAIN q.fts : ~q.fts[i].neg
NeedsMainPass(q) == q.limit > 0 \/ q.hist # NoField
BoundedTime(q) == q.after # NoTime \/ q.before # NoTime
MainNeedsSource(q) == q.useSource /\ (BoundedTime(q) \/ NeedsMainPass(q))
FacetNeedsSource(q) == q.useSource /\ BoundedTime(q)

\* match_fts_query: the first term that matches decides.
FtsVerdict(q, value) ==
    LET hits == {i \in DOMAIN q.fts : value \in q.fts[i].values}
    IN IF hits = {} THEN "none"
       ELSE IF q.fts[Min(hits)].neg THEN "negative" ELSE "positive"

TimestampInRange(q, t) ==
    (q.after = NoTime \/ t >= q.after) /\ (q.before = NoTime \/ t <= q.before)

StopByCommitTime(q, t) ==
    IF q.forward THEN q.before # NoTime /\ t > q.before + q.slack
    ELSE q.after # NoTime /\ t < q.after

SkipByCommitTime(q, t) ==
    IF q.forward THEN q.after # NoTime /\ t < q.after
    ELSE q.before # NoTime /\ t > q.before + q.slack

RowWithinAnchor(q, t) ==
    q.anchor.kind = "realtime" => IF q.forward THEN t > q.anchor.at ELSE t <= q.anchor.at

EffectiveRealtime(source, commit) ==
    IF source # 0 /\ source < commit THEN source ELSE commit

\* configure_explorer_filters and the reader's matches: alternatives within a
\* field, all fields together, a filter without values or excluded left out.
Matches(q, excluded, row) ==
    \A f \in DOMAIN q.filters \ {excluded} :
        q.filters[f] # {} => \E i \in DOMAIN row.d : row.d[i][1] = f /\ row.d[i][2] \in q.filters[f]

-----------------------------------------------------------------------------
(* Where a pass starts and the rows it meets, in its direction.            *)

SeekForExplorer(q) ==
    LET anchor == IF q.stopFull THEN q.anchor ELSE [kind |-> "auto", at |-> 0]
    IN CASE anchor.kind = "realtime" -> anchor
         [] q.forward /\ anchor.kind = "tail" -> anchor
         [] ~q.forward /\ anchor.kind = "head" -> anchor
         [] q.forward /\ q.after # NoTime -> [kind |-> "realtime", at |-> SatSub(q.after, q.slack)]
         [] ~q.forward /\ q.before # NoTime -> [kind |-> "realtime", at |-> q.before + q.slack]
         [] OTHER -> [kind |-> IF q.forward THEN "head" ELSE "tail", at |-> 0]

\* Whether stepping from a location in a direction reaches a row.
Reaches(loc, forward, t) ==
    CASE loc.kind = "head" -> forward
      [] loc.kind = "tail" -> ~forward
      [] OTHER -> IF forward THEN t >= loc.at ELSE t <= loc.at

InOrder(q, n) == IF q.forward THEN [i \in 1..n |-> i] ELSE [i \in 1..n |-> n + 1 - i]

VisitOrder(q, excluded, rows) ==
    SelectSeq(InOrder(q, Len(rows)),
              LAMBDA i : Reaches(SeekForExplorer(q), q.forward, rows[i].t) /\ Matches(q, excluded, rows[i]))

-----------------------------------------------------------------------------
(* One row's data.  want = [facets, hist, source]: the fields a pass       *)
(* counts, and whether it needs the source time.                           *)

Identities(want) ==
    want.facets \cup ({want.hist} \ {NoField}) \cup (IF want.source THEN {Source} ELSE {})

NoScan == [seen |-> {}, source |-> 0, positive |-> FALSE, negative |-> FALSE,
           values |-> <<>>, stopped |-> FALSE]

\* classify_data_for_accumulator.  The class of a datum depends on the query alone,
\* so a class remembered under the datum's offset is the class computed again.
Class(q, want, datum) ==
    LET verdict == IF HasFts(q) THEN FtsVerdict(q, datum[2]) ELSE "none"
    IN [verdict |-> verdict, taken |-> datum[1] \in Identities(want) /\ verdict # "negative"]

\* handle_row_offset_class and handle_row_value_class.
ScanDatum(q, want, z, datum) ==
    LET class == Class(q, want, datum)
        used == class.taken /\ (q.first => datum[1] \notin z.seen)
        seen == IF class.taken THEN z.seen \cup {datum[1]} ELSE z.seen
    IN IF z.stopped THEN z
       ELSE [seen |-> seen,
             source |-> IF used /\ datum[1] = Source /\ want.source /\ datum[2] # Unparsed
                        THEN datum[2] ELSE z.source,
             positive |-> z.positive \/ class.verdict = "positive",
             negative |-> z.negative \/ class.verdict = "negative",
             values |-> IF used THEN Append(z.values, datum) ELSE z.values,
             stopped |-> q.first /\ ~HasFts(q) /\ seen = Identities(want)]

\* scan_current_row and scan_row_data_or_default: a pass that wants nothing of
\* a row does not read its data.
ScanRow(q, want, row) ==
    IF Identities(want) = {} /\ ~HasFts(q) THEN NoScan
    ELSE FoldLeft(LAMBDA z, datum : ScanDatum(q, want, z, datum), NoScan, row.d)

RejectedByFts(q, z) == HasFts(q) /\ (z.negative \/ (HasPositiveFts(q) /\ ~z.positive))

\* accepted_effective_realtime, or NoTime.
AcceptedRealtime(q, z, commit) ==
    LET t == EffectiveRealtime(z.source, commit)
    IN IF TimestampInRange(q, t) /\ ~RejectedByFts(q, z) THEN t ELSE NoTime

-----------------------------------------------------------------------------
(* Histograms.                                                             *)

HistogramBounds(q) ==
    LET start == IF q.histAfter # NoTime THEN q.histAfter ELSE IF q.after # NoTime THEN q.after ELSE 0
        end == IF q.histBefore # NoTime THEN q.histBefore
               ELSE IF q.before # NoTime THEN q.before ELSE start + DefaultSpan
    IN [start |-> start, end |-> IF end <= start THEN start + 1 ELSE end]

\* histogram_bar_width_usec: the widest bar that still gives enough bars.
BarWidth(duration, target) ==
    LET fit == {i \in DOMAIN Durations : duration \div Durations[i] >= target}
    IN IF fit = {} THEN Durations[1] ELSE Durations[Max(fit)]

Baseline(t, width) == t - (t % width)

\* new_histogram: [start, width, count, end], bar i covering
\* [start + width * i, start + width * (i + 1)) and the last one all to the end.
NewHistogram(q) ==
    Using(HistogramBounds(q), LAMBDA b :
    Using(BarWidth(b.end - b.start, Most(q.buckets, 1)), LAMBDA width :
    LET start == Baseline(b.start, width)
        end == Baseline(b.end, width) + width
        count == (end - start) \div width + 1
        capped == Most((end - start) \div MaxBars, 1)
    IN IF count <= MaxBars + 1 THEN [start |-> start, width |-> width, count |-> count, end |-> end]
       ELSE [start |-> start, width |-> capped, count |-> MaxBars + 1, end |-> start + capped * MaxBars]))

BarStart(h, i) == h.start + h.width * i
BarEnd(h, i) == IF i + 1 = h.count THEN h.end + 1 ELSE BarStart(h, i) + h.width

\* histogram_bucket_index_from_bounds, with the first bar's own width.
BucketIndex(h, t) ==
    Least(SatSub(t, h.start) \div Most(BarEnd(h, 0) - BarStart(h, 0), 1), h.count - 1)

\* add_estimated_histogram_range.
EstimatedRange(h, from, to, entries, bag) ==
    LET lo == Most(from, h.start)
        hi == Least(to, BarEnd(h, h.count - 1))
        share(i) == SatSub(Least(BarEnd(h, i), hi), Most(BarStart(h, i), lo))
    IN IF entries = 0 \/ from >= to \/ lo >= hi THEN bag
       ELSE FoldLeft(LAMBDA acc, i : Add(acc, <<i - 1, Estimated>>, (share(i - 1) * entries) \div (hi - lo)),
                     bag, [i \in 1..h.count |-> i])

-----------------------------------------------------------------------------
(* Sampling.  s is an ExplorerSamplingState.                               *)

SamplingForQuery(q, slots) ==
    LET n == Most(2, Least(slots, MaxSlots))
    IN IF q.sampling.budget = 0 \/ q.sampling.files = 0 \/ q.after = NoTime \/ q.before = NoTime
          \/ q.after >= q.before
       THEN <<>>
       ELSE <<[start |-> q.after, end |-> q.before, step |-> Most(SatSub((q.before - q.after) \div n, 1), 1),
               after |-> q.sampling.budget \div 2,
               perFile |-> Most((q.sampling.budget \div 4) \div q.sampling.files, q.limit),
               perSlot |-> Most((q.sampling.budget \div 4) \div n, q.limit),
               files |-> q.sampling.files, forward |-> q.forward,
               head |-> q.sampling.head, tail |-> q.sampling.tail, headSeq |-> q.sampling.headSeq,
               tailSeq |-> q.sampling.tailSeq, entries |-> q.sampling.entries,
               first |-> NoTime, sampled |-> 0, fileSampled |-> 0, fileUnsampled |-> 0,
               every |-> 0, skipped |-> 0, recal |-> 0, slots |-> [i \in 0..(n - 1) |-> 0]]>>

\* begin_file: the budget is shared, what was learnt of a file is not.
BeginFile(s, f) ==
    [s EXCEPT !.head = f.head, !.tail = f.tail, !.headSeq = f.headSeq, !.tailSeq = f.tailSeq,
              !.entries = f.entries, !.first = NoTime, !.fileSampled = 0, !.fileUnsampled = 0,
              !.every = 0, !.skipped = 0, !.recal = 0]

SlotFor(s, t) ==
    Least((Most(s.start, Least(t, s.end)) - s.start) \div s.step, Max(DOMAIN s.slots))

ScannedRows(s) == Most(s.fileSampled + s.fileUnsampled, 1)

OverlappingTimeframe(s, t) ==
    IF s.forward
    THEN LET oldest == IF s.first # NoTime THEN s.first ELSE IF s.head # 0 THEN s.head ELSE s.start
             newest == IF s.tail # 0 THEN Least(s.end, s.tail) ELSE s.end
         IN [after |-> IF t < oldest THEN SatSub(t, 1) ELSE oldest,
             before |-> IF newest <= oldest THEN oldest + 1 ELSE newest]
    ELSE LET newest == IF s.first # NoTime THEN s.first ELSE IF s.tail # 0 THEN s.tail ELSE s.end
             oldest == IF s.head # 0 THEN Most(s.start, s.head) ELSE s.start
             bounded == IF newest <= oldest THEN oldest + 1 ELSE newest
         IN [after |-> oldest, before |-> IF bounded < t THEN t + 1 ELSE bounded]

\* remaining_time_details.
RemainingTime(s, t) ==
    Using(OverlappingTimeframe(s, t), LAMBDA o :
    Using(IF t <= o.after THEN SatSub(t, 1) ELSE o.after, LAMBDA after :
    LET before == IF t >= o.before THEN t + 1 ELSE o.before
        end == IF before <= after THEN after + 1 ELSE before
        from == IF s.forward THEN t ELSE after
        to == IF s.forward THEN end ELSE t
    IN [total |-> Most(end - after, 1), remaining |-> SatSub(to, from), from |-> from, to |-> to]))

\* progress_by_time(t) > EXPLORER_SAMPLING_ESTIMATE_AFTER_PROGRESS (1 %).
ProgressedByTime(s, t) ==
    Using(OverlappingTimeframe(s, t), LAMBDA o :
    LET total == Most(SatSub(o.before, o.after), 1)
        elapsed == Least(IF s.forward THEN SatSub(t, o.after) ELSE SatSub(o.before, t), total)
    IN 100 * elapsed > total)

\* estimate_remaining_rows_by_seqnum, or 0 when it has nothing to say.
RemainingBySeqnum(s, seqnum) ==
    LET span == IF s.forward THEN SatSub(seqnum, s.headSeq) ELSE SatSub(s.tailSeq, seqnum)
        expected == Least(s.entries, (ScannedRows(s) * s.entries) \div Most(span, 1))
    IN IF s.entries = 0 \/ s.headSeq = 0 \/ s.tailSeq = 0 \/ seqnum = 0 \/ span = 0 \/ expected = 0
       THEN 0 ELSE Most(SatSub(expected, ScannedRows(s)), 1)

RemainingByTime(s, t) ==
    Using(RemainingTime(s, t), LAMBDA r :
    Using((ScannedRows(s) * r.total) \div Least(Most(SatSub(r.total, r.remaining), 1), r.total), LAMBDA total :
    Using(IF s.entries # 0 THEN Least(total, s.entries) ELSE total, LAMBDA bounded :
        Most(SatSub(bounded, ScannedRows(s)), 1))))

RemainingRows(s, t, seqnum) ==
    Using(RemainingBySeqnum(s, seqnum), LAMBDA rows : IF rows # 0 THEN rows ELSE RemainingByTime(s, t))

Recalibrated(s, t, seqnum) ==
    [s EXCEPT !.every = Most(RemainingRows(s, t, seqnum) \div Most(s.after \div s.files, 1), 1), !.recal = 0]

\* decide: [s, verdict, rows, from, to].  A row that may be on the page is
\* always read in full and not charged to the budget.
Decide(s0, t, seqnum, keep) ==
    Using([s0 EXCEPT !.first = IF @ = NoTime THEN t ELSE @], LAMBDA s :
    Using(SlotFor(s, t), LAMBDA slot :
    LET enabled == s.sampled < s.after \/ s.fileSampled < s.perFile \/ s.slots[slot] < s.perSlot
        calibrate == ~enabled /\ (s.recal >= Recalibrate \/ s.every = 0)
        turn == ~enabled /\ ~calibrate /\ s.skipped >= s.every
        base == IF calibrate THEN Recalibrated(s, t, seqnum)
                ELSE IF turn THEN [s EXCEPT !.skipped = 0] ELSE s
        taken == [base EXCEPT !.sampled = @ + 1, !.fileSampled = @ + 1, !.slots[slot] = @ + 1]
        passed == [s EXCEPT !.skipped = @ + 1, !.recal = @ + 1, !.fileUnsampled = @ + 1]
        out(st, verdict) == [s |-> st, verdict |-> verdict, rows |-> 0, from |-> 0, to |-> 0]
    IN IF keep THEN out(s, "keep")
       ELSE IF enabled \/ calibrate \/ turn THEN out(taken, "sample")
       ELSE IF passed.fileUnsampled > passed.fileSampled /\ ProgressedByTime(passed, t)
            THEN Using(RemainingTime(passed, t), LAMBDA r :
                     [s |-> passed, verdict |-> "estimate", rows |-> RemainingRows(passed, t, seqnum),
                      from |-> r.from, to |-> r.to])
       ELSE out(passed, "skip")))
=============================================================================
