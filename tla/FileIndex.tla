------------------------------ MODULE FileIndex ------------------------------
(* The index of one journal file (crate journal-index): how FileIndexer      *)
(* builds it from a file that may be growing, what the filter expressions    *)
(* select from its bitmaps, how its sparse histogram counts a time range,    *)
(* and which rows find_log_entries returns for one page of a query.          *)
(*                                                                           *)
(* A file is a sequence of entries [rt, src, vals] of which the first        *)
(* `linked` can be reached through the global entry array; `open` holds the  *)
(* items of the last entry that their DATA objects do not list yet.  The     *)
(* offset of an entry is its place in the sequence.  `src` is the value of   *)
(* the source timestamp field (NoSource when the entry has none, Unparsable  *)
(* when the value is no number) and `vals` the set of its other              *)
(* <<field, value>> pairs.  Positions are counted from 1.                    *)
EXTENDS Integers, FiniteSets, FiniteSetsExt, Sequences, SequencesExt

CONSTANTS UsecPerSec,   \* microseconds in a second, scaled down
          OffsetWidth,  \* an index keeps entry offsets modulo 2^32, scaled down
          MaxUnique,    \* limits.max_unique_values_per_field
          Skipped       \* pairs whose payload is too large or compressed

ASSUME FileIndexAssumption ==
  /\ UsecPerSec \in Nat \ {0}
  /\ OffsetWidth \in Nat \ {0}
  /\ MaxUnique \in Nat

NoSource == 0
Unparsable == -1

\* The items of an entry, and whether the DATA object of one lists the entry.
SourceItem(e) == <<0, e.src>>
ItemsOf(e) == e.vals \cup (IF e.src = NoSource THEN {} ELSE {SourceItem(e)})
Posted(f, i, item) == i < Len(f.entries) \/ item \notin f.open

ToSeconds(t) == t \div UsecPerSec
ToMicros(s) == s * UsecPerSec
-----------------------------------------------------------------------------
(* FileIndexer: the three passes over the file.                              *)

Lex(a, b) == a[1] < b[1] \/ (a[1] = b[1] /\ a[2] < b[2])

\* collect_source_field_info: every entry listed by a DATA object of the source
\* timestamp field with a readable value, whatever the tail captured at the
\* start.
SourcePairs(f, src) ==
  IF src THEN {<<f.entries[i].src, i>> :
                 i \in {i \in DOMAIN f.entries : f.entries[i].src > 0 /\ Posted(f, i, SourceItem(f.entries[i]))}}
  ELSE {}

\* build_histogram: the other entries up to the captured tail, under their
\* realtime, and all of them in time order.
TimedOffsets(sources, f, tail) ==
  LET timed == {p[2] : p \in sources}
      rest  == {i \in 1..f.linked : i <= tail /\ i \notin timed}
  IN SetToSortSeq(sources \cup {<<f.entries[i].rt, i>> : i \in rest}, Lex)

\* Histogram::from_timestamp_offset_pairs: the occupied buckets, each with the
\* number of entries up to its end.
BucketOf(t, dur) == (ToSeconds(t) \div dur) * dur
HistogramOf(pairs, dur) ==
  LET starts == SetToSortSeq({BucketOf(pairs[i][1], dur) : i \in DOMAIN pairs}, <)
  IN [k \in DOMAIN starts |->
        [start |-> starts[k],
         count |-> Max({i \in DOMAIN pairs : BucketOf(pairs[i][1], dur) = starts[k]})]]

\* The data objects of a field, newest first, as its chain links them.
FieldChain(f, field) ==
  LET first(p) == Min({i \in DOMAIN f.entries : p \in f.entries[i].vals})
      pairs == {p \in UNION {f.entries[i].vals : i \in DOMAIN f.entries} : p[1] = field}
      Newer(p, q) == first(p) > first(q) \/ (first(p) = first(q) /\ p[2] > q[2])
  IN SetToSortSeq(pairs, Newer)

\* collect_data_entry_indices: the positions of the entries up to the tail in
\* which a data object appears, or an error when one was never timed.
EntryIndices(f, pairs, p, tail) ==
  LET offs  == {i \in DOMAIN f.entries : p \in f.entries[i].vals /\ Posted(f, i, p) /\ i <= tail}
      known == {pairs[k][2] : k \in DOMAIN pairs}
  IN [missing |-> ~(offs \subseteq known), bits |-> {k \in DOMAIN pairs : pairs[k][2] \in offs}]

\* index_field_values: bitmaps of a field's values up to the limit.
IndexFieldValues(st, f, pairs, field, tail) ==
  LET Step(s, p) ==
        LET e == EntryIndices(f, pairs, p, tail) IN
        IF s.missing \/ s.cut THEN s
        ELSE IF s.unique >= MaxUnique THEN [s EXCEPT !.cut = TRUE]
        ELSE IF p \in Skipped THEN s
        ELSE IF e.missing THEN [s EXCEPT !.missing = TRUE]
        ELSE IF e.bits = {} THEN s
        ELSE [s EXCEPT !.unique = @ + 1, !.bitmaps = @ \cup {[pair |-> p, bits |-> e.bits]}]
      done == FoldLeft(Step, [missing |-> st.missing, bitmaps |-> st.bitmaps, unique |-> 0, cut |-> FALSE],
                       FieldChain(f, field))
  IN [missing |-> done.missing, bitmaps |-> done.bitmaps,
      truncated |-> st.truncated \cup (IF done.cut THEN {field} ELSE {})]

\* build_entries_index over the requested fields, in their order.
EntriesIndex(f, pairs, fields, tail) ==
  FoldLeft(LAMBDA st, field : IndexFieldValues(st, f, pairs, field, tail),
           [missing |-> FALSE, bitmaps |-> {}, truncated |-> {}], fields)

FileFields(f) == {p[1] : p \in UNION {f.entries[i].vals : i \in DOMAIN f.entries}}

\* entry_offsets of the finished index.
StoredOffsets(pairs) == [k \in DOMAIN pairs |-> pairs[k][2] % OffsetWidth]
-----------------------------------------------------------------------------
(* FileIndex accessors.                                                      *)

StartTime(ix) == ix.hist[1].start
EndTime(ix) == ix.hist[Len(ix.hist)].start + ix.dur
TotalEntries(ix) == ix.hist[Len(ix.hist)].count
IsFresh(ix, now) == ~ix.online \/ now - ix.at < 1
Bits(ix, p) == UNION {b.bits : b \in {b \in ix.bitmaps : b.pair = p}}
HasPair(ix, p) == \E b \in ix.bitmaps : b.pair = p

\* count_entries_in_time_range; 0 also stands for the None of an unaligned
\* range, which its callers replace by 0.
CountInRange(ix, bits, from, to) ==
  LET h  == ix.hist
      lo == Cardinality({k \in DOMAIN h : h[k].start < from}) + 1
      hi == Cardinality({k \in DOMAIN h : h[k].start < to})
      first == IF lo = 1 THEN 1 ELSE h[lo - 1].count + 1
  IN IF from >= to \/ from % ix.dur # 0 \/ to % ix.dur # 0 THEN 0
     ELSE IF bits = {} \/ lo > Len(h) \/ lo > hi THEN 0
     ELSE Cardinality({b \in bits : first <= b /\ b <= h[hi].count})
-----------------------------------------------------------------------------
(* Filter expressions.                                                       *)

FilterNone == [op |-> "none"]
MatchField(field) == [op |-> "field", field |-> field]
MatchPair(p) == [op |-> "pair", pair |-> p]

\* FilterExpr::and and ::or: nested expressions of the same kind are
\* flattened, None is dropped and a single operand stands for itself.
Flattened(op, filters) ==
  LET Add(s, g) == IF g.op = op THEN s \o g.of
                   ELSE IF g.op = "none" THEN s ELSE Append(s, g)
      flat == FoldLeft(Add, <<>>, filters)
  IN CASE Len(flat) = 0 -> FilterNone
       [] Len(flat) = 1 -> flat[1]
       [] OTHER -> [op |-> op, of |-> flat]
FilterAnd(filters) == Flattened("and", filters)
FilterOr(filters) == Flattened("or", filters)

\* resolve: the expression over the index's bitmaps.  A target without a
\* bitmap is None, which empties a conjunction and drops out of a disjunction.
RECURSIVE Resolve(_, _)
Resolve(g, ix) ==
  LET parts == [k \in DOMAIN g.of |-> Resolve(g.of[k], ix)]
      kept  == SelectSeq(parts, LAMBDA r : r.op # "none")
  IN CASE g.op = "none" -> g
       [] g.op = "pair" -> IF HasPair(ix, g.pair) THEN [op |-> "bits", bits |-> Bits(ix, g.pair)]
                           ELSE FilterNone
       [] g.op = "field" ->
            LET maps == {b \in ix.bitmaps : b.pair[1] = g.field} IN
            IF maps = {} THEN FilterNone ELSE [op |-> "bits", bits |-> UNION {b.bits : b \in maps}]
       [] g.op = "and" -> IF kept # parts THEN FilterNone ELSE [op |-> "and", of |-> parts]
       [] g.op = "or" -> IF kept = <<>> THEN FilterNone ELSE [op |-> "or", of |-> kept]

\* FilterExpr<Bitmap>::evaluate.
RECURSIVE EvaluateBits(_)
EvaluateBits(r) ==
  CASE r.op = "none" -> {}
    [] r.op = "bits" -> r.bits
    [] r.op = "and" -> {b \in EvaluateBits(r.of[1]) : \A k \in DOMAIN r.of : b \in EvaluateBits(r.of[k])}
    [] r.op = "or" -> UNION {EvaluateBits(r.of[k]) : k \in DOMAIN r.of}
Evaluate(g, ix) == EvaluateBits(Resolve(g, ix))
-----------------------------------------------------------------------------
(* find_log_entries.  The parameters of a query: [anchor, forward, limit,    *)
(* src, filter, after, before, regex, resume], with NoBound for an unset     *)
(* bound, NoLimit for no limit, 0 for no resume position and a regular       *)
(* expression as <<the pairs it matches>> or <<>>.                           *)

NoBound == -1
NoLimit == -1
HeadAnchor == -1
TailAnchor == -2
Unfiltered == [op |-> "unset"]

\* LogQueryParamsBuilder::build.
BuildRejects(q) == q.after # NoBound /\ q.before # NoBound /\ q.after >= q.before

\* get_entry_timestamp: the source timestamp of the entry at an offset, the
\* realtime of an entry without one, an error for one that is no number or
\* for an offset at which the file has no entry.
TimestampError == -1
EntryTimestamp(f, off, src) ==
  IF off \notin DOMAIN f.entries THEN TimestampError
  ELSE IF src /\ f.entries[off].src = Unparsable THEN TimestampError
  ELSE IF src /\ f.entries[off].src # NoSource THEN f.entries[off].src
  ELSE f.entries[off].rt

\* partition_point_entries: the first position not before (or not up to) the
\* anchor, found by bisection; 0 when a probed entry cannot be read.
RECURSIVE Bisect(_, _, _, _, _)
Bisect(times, left, right, anchor, through) ==
  LET mid == (left + right) \div 2 IN
  IF left = right THEN left
  ELSE IF times[mid] = TimestampError THEN 0
  ELSE IF times[mid] < anchor \/ (through /\ times[mid] = anchor)
       THEN Bisect(times, mid + 1, right, anchor, through)
       ELSE Bisect(times, left, mid, anchor, through)

\* query_anchor_usec, query_bitmap and candidate_entry_offsets.
QueryAnchor(ix, anchor) ==
  CASE anchor = HeadAnchor -> ToMicros(StartTime(ix))
    [] anchor = TailAnchor -> ToMicros(EndTime(ix))
    [] OTHER -> anchor
QueryBits(ix, q) == IF q.filter = Unfiltered THEN DOMAIN ix.offs ELSE Evaluate(q.filter, ix)
CandidateOffsets(ix, bits) ==
  LET at == SetToSortSeq({b \in bits : ix.offs[b] # 0}, <) IN [k \in DOMAIN at |-> ix.offs[at[k]]]

\* forward_start_index and backward_start_index; an error is -1, 0 means that
\* nothing is left in that direction.
StartIndex(q, times, anchor) ==
  LET n == Len(times)
      forward  == Bisect(times, 1, n + 1, anchor, FALSE)
      backward == Bisect(times, 1, n + 1, anchor, TRUE)
  IN IF q.forward
     THEN IF q.resume # 0 THEN (IF q.resume + 1 <= n THEN q.resume + 1 ELSE 0)
          ELSE IF forward = 0 THEN -1 ELSE IF forward <= n THEN forward ELSE 0
     ELSE IF q.resume # 0 THEN (IF q.resume > 1 /\ q.resume <= n THEN q.resume - 1 ELSE 0)
          ELSE IF backward = 0 THEN -1 ELSE backward - 1

\* forward_boundary_decision and backward_boundary_decision.
Boundary(q, t) ==
  LET early == q.after # NoBound /\ t < q.after
      late  == q.before # NoBound /\ t >= q.before
  IN CASE q.forward /\ early -> "skip"
       [] q.forward /\ late -> "stop"
       [] ~q.forward /\ late -> "skip"
       [] ~q.forward /\ early -> "stop"
       [] OTHER -> "include"

\* entry_matches_regex: one of the entry's payloads matches.
MatchesRegex(f, off, q) == q.regex = <<>> \/ \E p \in f.entries[off].vals : p \in q.regex[1]

\* collect_forward and collect_backward from a start position.
CollectRows(ix, f, q, cands, times, start) ==
  LET limit == IF q.limit = NoLimit THEN Len(cands) ELSE q.limit
      Visit(s, k) ==
        IF s.stop \/ s.error THEN s
        ELSE IF times[k] = TimestampError THEN [s EXCEPT !.error = TRUE]
        ELSE CASE Boundary(q, times[k]) = "stop" -> [s EXCEPT !.stop = TRUE]
               [] Boundary(q, times[k]) = "skip" -> s
               [] OTHER ->
                    IF ~MatchesRegex(f, cands[k], q) THEN s
                    ELSE [s EXCEPT !.rows = Append(@, [file |-> ix.file, off |-> cands[k], ts |-> times[k], pos |-> k]),
                                   !.stop = Len(s.rows) + 1 >= limit]
      order == IF q.forward THEN [k \in 1..(Len(cands) - start + 1) |-> start + k - 1]
               ELSE [k \in 1..start |-> start - k + 1]
  IN FoldLeft(Visit, [stop |-> FALSE, error |-> FALSE, rows |-> <<>>], order)

FindLogEntries(ix, f, q) ==
  LET bits   == QueryBits(ix, q)
      cands  == CandidateOffsets(ix, bits)
      times  == [k \in DOMAIN cands |-> EntryTimestamp(f, cands[k], q.src)]
      start  == StartIndex(q, times, QueryAnchor(ix, q.anchor))
      none   == [error |-> FALSE, rows |-> <<>>]
  IN IF bits = {} \/ q.limit = 0 \/ cands = <<>> THEN none
     ELSE IF start = -1 THEN [error |-> TRUE, rows |-> <<>>]
     ELSE IF start = 0 THEN none
     ELSE LET c == CollectRows(ix, f, q, cands, times, start)
          IN [error |-> c.error, rows |-> IF c.error THEN <<>> ELSE c.rows]
=============================================================================
