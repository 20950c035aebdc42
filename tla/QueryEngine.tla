----------------------------- MODULE QueryEngine -----------------------------
(* The query engine over indexed files (crate journal-engine): indexing a    *)
(* batch of files through a cache while the files grow, log queries by page  *)
(* over the indexes of several files, and histograms whose buckets are kept  *)
(* in a cache of their own.  The journal files are written by others: their  *)
(* entries, their state and their names change between any two steps.        *)
EXTENDS FileIndex

CONSTANTS Paths,          \* the names a journal file may have
          ActivePath,     \* the one of them that is an active file's name
          Setups,         \* initial contents: [files, src, growth, asks]
          Asks,           \* what the clients of a setup may ask: [ranges, lists, queries, filters, batches]
          NewEntries,     \* entries a writer may append
          DefaultFacets,
          Durations,      \* VALID_DURATIONS, ascending
          TargetBuckets,  \* 50, scaled down
          PoolThreads,    \* compute_thread_count
          LruCapacity,    \* HistogramEngine::with_capacity
          MaxPages, MaxClock

VARIABLES journal,  \* [path -> [exists, online, entries, linked, open, tail, sdk, gen]]
          clock,    \* seconds
          growth,   \* how many changes the writers may still make
          grown,    \* ghost: the writers have changed a file
          src,      \* whether the source timestamp field is used
          asks,     \* the setup's clients
          cache,    \* FileIndexCache: a set of [key, ix]
          batch,    \* the batch of the current request
          work,     \* [path -> progress of its indexing thread]
          ranges,   \* registry metadata: [path -> TimeRange]
          lru,      \* responses of the HistogramEngine, most recent first
          hist,     \* the last histogram answered
          page      \* the log query in progress

evars == <<journal, clock, growth, grown, src, asks, cache, batch, work, ranges, lru, hist, page>>

Absent == [exists |-> FALSE, online |-> FALSE, entries |-> <<>>, linked |-> 0, open |-> {}, tail |-> 0,
           sdk |-> FALSE, gen |-> 0]
Unknown == [kind |-> "unknown"]
Idle == [phase |-> "idle", n |-> 0, dur |-> 1, range |-> <<0, 0>>, facets |-> <<>>, keys |-> {}, responses |-> <<>>]
NoWork == [stage |-> "none"]
NoHist == [asked |-> <<>>, buckets |-> <<>>]
NoPage == [on |-> FALSE]
-----------------------------------------------------------------------------
(* Time ranges and keys.                                                     *)

\* calculate_bucket_duration: the longest one that still gives enough buckets.
BucketDuration(len) ==
  LET fits == {d \in ToSet(Durations) : len \div d >= TargetBuckets}
  IN IF fits = {} THEN 1 ELSE Max(fits)

\* QueryTimeRange::new and ::buckets.
AlignedStart(r) == LET d == BucketDuration(r[2] - r[1]) IN (r[1] \div d) * d
AlignedEnd(r) == LET d == BucketDuration(r[2] - r[1]) IN ((r[2] + d - 1) \div d) * d
BucketsOf(r) ==
  LET d == BucketDuration(r[2] - r[1])
  IN [k \in 1..((AlignedEnd(r) - AlignedStart(r)) \div d) |->
        <<AlignedStart(r) + (k - 1) * d, AlignedStart(r) + k * d>>]

\* Facets::new.
FacetsOf(list) == SetToSortSeq(IF list = <<>> THEN DefaultFacets ELSE ToSet(list), <)

\* FileIndexKey::new_with_namespace, in one namespace and one version.
IndexKey(p, facets) == [file |-> p, facets |-> facets, src |-> src]

\* find_files_in_range of the registry's metadata.
InRange(r, from, to) == r.kind \in {"unknown", "active"} \/ (r.from < to /\ r.to > from)
FilesInRange(from, to) == {p \in Paths : journal[p].exists /\ InRange(ranges[p], from, to)}
-----------------------------------------------------------------------------
(* The writers.  The header's tail moves with the ENTRY object, before the   *)
(* links, in a file of systemd-journald; the Writer of this repository       *)
(* (`sdk`) makes the links first, then moves the tail, and counts the entry  *)
(* in n_entries, without which the global array does not show it, last.      *)

\* The last entry is linked everywhere and counted.
Settled(f) == f.linked = Len(f.entries) /\ f.open = {} /\ f.tail = Len(f.entries)

\* The ENTRY object is written.
PutEntry(p) ==
  /\ growth > 0 /\ journal[p].exists /\ journal[p].online /\ Settled(journal[p])
  /\ \E e \in NewEntries :
       /\ journal[p].entries # <<>> => e.rt >= Last(journal[p].entries).rt
       /\ journal' = [journal EXCEPT ![p].entries = Append(@, e), ![p].open = ItemsOf(e),
                                     ![p].tail = IF journal[p].sdk THEN @ ELSE @ + 1]
  /\ growth' = growth - 1
  /\ grown' = TRUE
  /\ UNCHANGED <<clock, src, asks, cache, batch, work, ranges, lru, hist, page>>

\* One item's DATA object lists the entry, in whatever order the items have.
PostItem(p, item) ==
  /\ item \in journal[p].open
  /\ journal[p].sdk \/ journal[p].linked = Len(journal[p].entries)
  /\ journal' = [journal EXCEPT ![p].open = @ \ {item}]
  /\ UNCHANGED <<clock, growth, grown, src, asks, cache, batch, work, ranges, lru, hist, page>>

\* entry_added: the header's tail.
MoveTail(p) ==
  /\ journal[p].sdk /\ journal[p].open = {} /\ journal[p].tail < Len(journal[p].entries)
  /\ journal' = [journal EXCEPT ![p].tail = @ + 1]
  /\ UNCHANGED <<clock, growth, grown, src, asks, cache, batch, work, ranges, lru, hist, page>>

\* The global array shows the entry.
LinkEntry(p) ==
  /\ journal[p].linked < Len(journal[p].entries) /\ journal[p].tail = Len(journal[p].entries)
  /\ journal' = [journal EXCEPT ![p].linked = @ + 1]
  /\ UNCHANGED <<clock, growth, grown, src, asks, cache, batch, work, ranges, lru, hist, page>>

\* journald takes an active file offline for a flush and back online.
Flush(p) ==
  /\ p = ActivePath /\ journal[p].exists /\ growth > 0
  /\ journal' = [journal EXCEPT ![p].online = ~@]
  /\ growth' = growth - (IF journal[p].online THEN 1 ELSE 0)
  /\ grown' = TRUE
  /\ UNCHANGED <<clock, src, asks, cache, batch, work, ranges, lru, hist, page>>

\* Rotation: the active file is archived under a new name and a successor
\* takes its place; the registry follows the two events.
Rotate(p) ==
  LET a == journal[ActivePath] IN
  /\ growth > 0 /\ a.exists /\ p # ActivePath /\ ~journal[p].exists
  /\ a.entries # <<>> /\ Settled(a)
  /\ journal' = [journal EXCEPT ![p] = [a EXCEPT !.online = FALSE],
                                ![ActivePath] = [Absent EXCEPT !.exists = TRUE, !.online = TRUE, !.sdk = a.sdk,
                                                        !.gen = 1 + Max({journal[q].gen : q \in Paths})]]
  /\ ranges' = [ranges EXCEPT ![p] = Unknown, ![ActivePath] = Unknown]
  /\ growth' = growth - 1
  /\ grown' = TRUE
  /\ UNCHANGED <<clock, src, asks, cache, batch, work, lru, hist, page>>

Tick ==
  /\ clock < MaxClock /\ clock' = clock + 1
  /\ UNCHANGED <<journal, growth, grown, src, asks, cache, batch, work, ranges, lru, hist, page>>
-----------------------------------------------------------------------------
(* batch_compute_file_indexes.                                               *)

\* The request: the files the registry finds, the facets and the time range.
StartBatch(r, list) ==
  /\ batch.phase \in {"idle", "ready"} /\ batch.n < Asks[asks].batches
  /\ batch' = [phase |-> "lookup", n |-> batch.n + 1, dur |-> BucketDuration(r[2] - r[1]), range |-> r,
               facets |-> FacetsOf(list), keys |-> FilesInRange(AlignedStart(r), AlignedEnd(r)), responses |-> <<>>]
  /\ page' = NoPage /\ hist' = NoHist
  /\ UNCHANGED <<journal, clock, growth, grown, src, asks, cache, work, ranges, lru>>

\* compatible_bucket_duration.
CompatibleBucket(ix, dur) == ix.dur <= dur /\ dur % ix.dur = 0

\* partition_cached_index.
UsableIndex(ix, dur) == IsFresh(ix, clock) /\ CompatibleBucket(ix, dur)

\* lookup_cached_indexes and partition_cache_results: a lookup that fails is
\* a miss.  The threads of the pool then start on what is missing.
LookupCached ==
  /\ batch.phase = "lookup"
  /\ \E failed \in SUBSET batch.keys :
       LET hit(p) == {c \in cache : c.key = IndexKey(p, batch.facets) /\ UsableIndex(c.ix, batch.dur)}
           hits   == {p \in batch.keys \ failed : hit(p) # {}}
           order  == SetToSortSeq(hits, <)
       IN /\ failed \subseteq {c.key.file : c \in cache}
          /\ batch' = [batch EXCEPT !.phase = "compute",
                         !.responses = [k \in DOMAIN order |-> (CHOOSE c \in hit(order[k]) : TRUE).ix]]
          /\ work' = [p \in Paths |-> IF p \in batch.keys \ hits THEN [stage |-> "queued"] ELSE NoWork]
  /\ UNCHANGED <<journal, clock, growth, grown, src, asks, cache, ranges, lru, hist, page>>

\* The request is cancelled: its caller gets an error and the threads'
\* results are dropped.
Cancel ==
  /\ batch.phase \in {"lookup", "compute"}
  /\ batch' = [batch EXCEPT !.phase = "idle", !.responses = <<>>]
  /\ work' = [p \in Paths |-> NoWork]
  /\ UNCHANGED <<journal, clock, growth, grown, src, asks, cache, ranges, lru, hist, page>>

\* Ghost: the entries up to the header's tail that are linked everywhere.
SettledEntries(f) == IF Settled(f) \/ f.tail < Len(f.entries) THEN f.tail ELSE f.tail - 1

\* FileIndexer::index, first step: open the file, capture its tail and
\* whether it counts as online.
WasOnlineHeader(p) == journal[p].online
WasOnline(p) == journal[p].online \/ p = ActivePath
IndexBegin(p) ==
  /\ batch.phase = "compute" /\ p = Min({q \in Paths : work[q].stage = "queued"} \cup {p})
  /\ work[p].stage = "queued"
  /\ Cardinality({q \in Paths : work[q].stage \in {"sources", "times", "bitmaps"}}) < PoolThreads
  /\ work' = [work EXCEPT ![p] =
       IF ~journal[p].exists THEN [stage |-> "failed"]
       ELSE [stage |-> "sources", tail |-> journal[p].tail, settled |-> SettledEntries(journal[p]), at |-> clock,
             online |-> WasOnline(p), gen |-> journal[p].gen]]
  /\ UNCHANGED <<journal, clock, growth, grown, src, asks, cache, batch, ranges, lru, hist, page>>

\* The file a thread has open: the one of the name it opened, or the archived
\* one it has become.
Opened(w, p) == IF journal[p].gen = w.gen /\ journal[p].exists THEN journal[p]
                ELSE CHOOSE f \in {journal[q] : q \in Paths} : f.exists /\ f.gen = w.gen

IndexSources(p) ==
  /\ batch.phase = "compute" /\ work[p].stage = "sources"
  /\ work' = [work EXCEPT ![p] = [stage |-> "times", tail |-> @.tail, settled |-> @.settled, at |-> @.at, online |-> @.online,
                                  gen |-> @.gen, sources |-> SourcePairs(Opened(@, p), src)]]
  /\ UNCHANGED <<journal, clock, growth, grown, src, asks, cache, batch, ranges, lru, hist, page>>

IndexTimes(p) ==
  /\ batch.phase = "compute" /\ work[p].stage = "times"
  /\ LET w == work[p]
         pairs == TimedOffsets(w.sources, Opened(w, p), w.tail)
     IN work' = [work EXCEPT ![p] =
          IF pairs = <<>> THEN [stage |-> "failed"]
          ELSE [stage |-> "bitmaps", tail |-> w.tail, settled |-> w.settled, at |-> w.at, online |-> w.online, gen |-> w.gen, pairs |-> pairs]]
  /\ UNCHANGED <<journal, clock, growth, grown, src, asks, cache, batch, ranges, lru, hist, page>>

IndexBitmaps(p) ==
  /\ batch.phase = "compute" /\ work[p].stage = "bitmaps"
  /\ LET w == work[p]
         f == Opened(w, p)
         e == EntriesIndex(f, w.pairs, batch.facets, w.tail)
     IN work' = [work EXCEPT ![p] =
          IF e.missing THEN [stage |-> "failed"]
          ELSE [stage |-> "done",
                ix |-> [file |-> p, at |-> w.at, online |-> w.online, dur |-> batch.dur,
                        hist |-> HistogramOf(w.pairs, batch.dur), offs |-> StoredOffsets(w.pairs),
                        bitmaps |-> e.bitmaps, fields |-> FileFields(f), indexed |-> ToSet(batch.facets),
                        truncated |-> e.truncated, tail |-> w.tail, settled |-> w.settled, gen |-> w.gen]]]
  /\ UNCHANGED <<journal, clock, growth, grown, src, asks, cache, batch, ranges, lru, hist, page>>

\* update_time_range.
TimeRangeOf(ix) == [kind |-> IF ix.online THEN "active" ELSE "bounded", from |-> StartTime(ix), to |-> EndTime(ix)]

\* store_computed_indexes: the metadata, the cache and the responses; a file
\* whose indexing failed is left out of the answer.
StoreComputed ==
  /\ batch.phase = "compute"
  /\ \A p \in Paths : work[p].stage \in {"none", "failed", "done"}
  /\ LET done  == {p \in Paths : work[p].stage = "done"}
         order == SetToSortSeq(done, <)
         keyOf(p) == IndexKey(p, batch.facets)
     IN /\ ranges' = [p \in Paths |-> IF p \in done THEN TimeRangeOf(work[p].ix) ELSE ranges[p]]
        /\ cache' = {c \in cache : c.key \notin {keyOf(p) : p \in done}}
                    \cup {[key |-> keyOf(p), ix |-> work[p].ix] : p \in done}
        /\ batch' = [batch EXCEPT !.phase = "ready", !.responses = @ \o [k \in DOMAIN order |-> work[order[k]].ix]]
  /\ work' = [p \in Paths |-> NoWork]
  /\ UNCHANGED <<journal, clock, growth, grown, src, asks, lru, hist, page>>
-----------------------------------------------------------------------------
(* Log queries by page: retrieve_log_entries.                                *)

NoPositions == [p \in Paths |-> 0]

MultiFileAnchor(ixs, anchor) ==
  CASE anchor = HeadAnchor -> Min({ToMicros(StartTime(ixs[k])) : k \in DOMAIN ixs})
    [] anchor = TailAnchor -> Max({ToMicros(EndTime(ixs[k])) : k \in DOMAIN ixs})
    [] OTHER -> anchor

CanContainAnchor(ix, q, anchor) ==
  IF q.forward THEN ToMicros(EndTime(ix)) >= anchor ELSE ToMicros(StartTime(ix)) <= anchor

\* relevant_file_indexes and sort_relevant_indexes (a stable sort).
RelevantInOrder(ixs, q) ==
  LET anchor == MultiFileAnchor(ixs, q.anchor)
      at == {k \in DOMAIN ixs : CanContainAnchor(ixs[k], q, anchor)}
      key(k) == IF q.forward THEN StartTime(ixs[k]) ELSE -EndTime(ixs[k])
      order == SetToSortSeq(at, LAMBDA a, b : key(a) < key(b) \/ (key(a) = key(b) /\ a < b))
  IN [k \in DOMAIN order |-> ixs[order[k]]]

\* can_prune_file: forward the file starts after the last row collected,
\* backward it ends before the first one.
CanPrune(ix, rows, q) ==
  IF q.forward THEN ToMicros(StartTime(ix)) > Last(rows).ts
  ELSE ToMicros(EndTime(ix)) < rows[1].ts

\* merge_log_entries: two sorted runs, the earlier file first among equals.
Merge(a, b, limit, forward) ==
  LET Take(s, k) ==
        IF Len(s.out) = limit \/ (s.i > Len(a) /\ s.j > Len(b)) THEN s
        ELSE IF s.j > Len(b) \/ (s.i <= Len(a) /\ IF forward THEN a[s.i].ts <= b[s.j].ts ELSE a[s.i].ts >= b[s.j].ts)
        THEN [s EXCEPT !.i = @ + 1, !.out = Append(@, a[s.i])]
        ELSE [s EXCEPT !.j = @ + 1, !.out = Append(@, b[s.j])]
  IN FoldLeft(Take, [i |-> 1, j |-> 1, out |-> <<>>], [k \in 1..(Len(a) + Len(b)) |-> k]).out

\* update_pagination_state and next_resume_position.
NextResume(now, pos, forward) ==
  IF now = 0 THEN pos ELSE IF forward THEN Max({now, pos}) ELSE Min({now, pos})
PositionsAfterFresh(at, rows, forward) ==
  FoldLeft(LAMBDA s, r : [s EXCEPT ![r.file] = NextResume(@, r.pos, forward)], NoPositions, rows)
PositionsAfter(at, rows, forward) ==
  FoldLeft(LAMBDA s, r : [s EXCEPT ![r.file] = NextResume(@, r.pos, forward)], at, rows)

\* The rows of one file: its own resume position, and nothing from a file
\* whose query fails.
QueryFile(ix, q, at) ==
  FindLogEntries(ix, journal[ix.file], [q EXCEPT !.resume = at[ix.file], !.src = src]).rows

\* retrieve_log_entries, cancelled before the file numbered `cut`: the files one
\* after the other, until the page is full and the next file can be pruned.
VisitFiles(order, q, at, cut) ==
  LET limit == IF q.limit = NoLimit THEN 1000 ELSE q.limit
      Visit(s, k) ==
        IF \/ s.stop \/ k >= cut
           \/ Len(s.rows) >= limit /\ s.rows # <<>> /\ CanPrune(order[k], s.rows, q)
        THEN [s EXCEPT !.stop = TRUE]
        ELSE [s EXCEPT !.rows = Merge(@, QueryFile(order[k], q, at), limit, q.forward)]
  IN FoldLeft(Visit, [stop |-> FALSE, rows |-> <<>>], [k \in DOMAIN order |-> k]).rows

Retrieve(ixs, q, at, cut) ==
  LET paged(rows) == [rows |-> rows, at |-> PositionsAfter(at, rows, q.forward)]
      visited(order) == IF order = <<>> THEN [rows |-> <<>>, at |-> NoPositions]
                        ELSE paged(VisitFiles(order, q, at, cut))
  IN IF q.limit = 0 \/ ixs = <<>> THEN [rows |-> <<>>, at |-> NoPositions]
     ELSE visited(RelevantInOrder(ixs, q))

\* extract_entry_data: the whole page fails when a row cannot be read.
Readable(rows) == \A k \in DOMAIN rows : rows[k].off \in DOMAIN journal[rows[k].file].entries

\* execute_page.
NextPage(q) ==
  /\ batch.phase = "ready"
  /\ (~page.on /\ ~BuildRejects(q)) \/ (page.on /\ page.q = q /\ Len(page.pages) < MaxPages /\ ~page.failed)
  /\ \E cut \in IF page.on /\ page.cut THEN {100} ELSE {1, 100} :
     \E got \in {Retrieve(batch.responses, q, IF page.on THEN page.at ELSE NoPositions, cut)} :
          page' = [on |-> TRUE, q |-> q, at |-> got.at, failed |-> ~Readable(got.rows),
                   cut |-> (page.on /\ page.cut) \/ cut = 1,
                   pages |-> Append(IF page.on THEN page.pages ELSE <<>>, got.rows)]
  /\ hist' = NoHist
  /\ UNCHANGED <<journal, clock, growth, grown, src, asks, cache, batch, work, ranges, lru>>
-----------------------------------------------------------------------------
(* HistogramEngine::compute_from_indexes.                                    *)

\* bucket_requests_for.
Requests(g) == LET b == BucketsOf(batch.range) IN
  [k \in DOMAIN b |-> [from |-> b[k][1], to |-> b[k][2], facets |-> batch.facets, filter |-> g]]

Overlaps(ix, r) == StartTime(ix) < r.to /\ EndTime(ix) > r.from

\* filter_bitmap_for_bucket, update_bucket_totals, record_unindexed_fields and
\* count_indexed_field_values of the files that overlap a bucket.
SumOver(S, F(_)) == FoldSet(LAMBDA k, n : n + F(k), 0, S)
Response(r) ==
  LET ixs == batch.responses
      at  == {k \in DOMAIN ixs : Overlaps(ixs[k], r)}
      all(k) == 1..TotalEntries(ixs[k])
      sel(k) == IF r.filter = FilterNone THEN all(k) ELSE Evaluate(r.filter, ixs[k])
      pairs  == {b.pair : b \in UNION {ixs[k].bitmaps : k \in at}}
      count(k, bits) == CountInRange(ixs[k], bits, r.from, r.to)
  IN [total    |-> SumOver(at, LAMBDA k : count(k, all(k))),
      filtered |-> SumOver(at, LAMBDA k : count(k, sel(k))),
      counts   |-> [p \in pairs |-> <<SumOver(at, LAMBDA k : count(k, Bits(ixs[k], p))),
                                      SumOver(at, LAMBDA k : count(k, Bits(ixs[k], p) \cap sel(k)))>>],
      unindexed |-> UNION {ixs[k].fields \ ixs[k].indexed : k \in at},
      cacheable |-> \A k \in at : ~ixs[k].online]

Cached(r) == \E k \in DOMAIN lru : lru[k].req = r
PutLru(s, item) == SubSeq(<<item>> \o SelectSeq(s, LAMBDA x : x.req # item.req), 1,
                          Min({LruCapacity, Len(SelectSeq(s, LAMBDA x : x.req # item.req)) + 1}))
Promote(s, r) == LET at == SelectSeq(s, LAMBDA x : x.req = r) IN
                 IF at = <<>> THEN s ELSE PutLru(s, at[1])

\* buckets_to_compute, cache_computed_responses and histogram_from_responses.
\* The responses are put from a hash map, in any order; the reads that follow
\* make the recency that of the requests, so the order only shows when one of
\* the puts evicts.
ComputeHistogram(g) ==
  /\ batch.phase = "ready"
  /\ \E reqs \in {Requests(g)} : \E new \in {{r \in ToSet(reqs) : ~Cached(r)}} :
     \E resp \in {[r \in new |-> Response(r)]} :
     LET keep == {r \in new : resp[r].cacheable}
     IN \E order \in IF Len(lru) + Cardinality(keep) <= LruCapacity THEN {SetToSeq(keep)}
                     ELSE {s \in [1..Cardinality(keep) -> keep] : ToSet(s) = keep} :
          \E put \in {FoldLeft(LAMBDA s, r : PutLru(s, [req |-> r, resp |-> resp[r]]), lru, order)} :
          LET find(r) == SelectSeq(put, LAMBDA x : x.req = r)
              got(r)  == IF find(r) # <<>> THEN <<find(r)[1].resp>> ELSE IF r \in new THEN <<resp[r]>> ELSE <<>>
          IN /\ hist' = [asked |-> reqs,
                         buckets |-> [k \in DOMAIN reqs |-> got(reqs[k])]]
             /\ lru' = FoldLeft(Promote, put, reqs)
  /\ page' = NoPage
  /\ UNCHANGED <<journal, clock, growth, grown, src, asks, cache, batch, work, ranges>>
-----------------------------------------------------------------------------
EngineInit ==
  \E s \in Setups :
    /\ journal = [p \in Paths |-> IF p \in DOMAIN s.files THEN s.files[p] ELSE Absent]
    /\ src = s.src /\ asks = s.asks /\ growth = s.growth /\ grown = FALSE
    /\ clock = 0 /\ cache = {} /\ batch = Idle /\ work = [p \in Paths |-> NoWork]
    /\ ranges = [p \in Paths |-> Unknown]
    /\ lru = <<>> /\ hist = NoHist /\ page = NoPage

EngineNext ==
  \/ \E p \in Paths : \/ PutEntry(p) \/ MoveTail(p) \/ LinkEntry(p) \/ Flush(p) \/ Rotate(p)
                     \/ \E item \in journal[p].open : PostItem(p, item)
  \/ Tick
  \/ \E r \in Asks[asks].ranges, list \in Asks[asks].lists : StartBatch(r, list)
  \/ LookupCached \/ Cancel \/ StoreComputed
  \/ \E p \in Paths : IndexBegin(p) \/ IndexSources(p) \/ IndexTimes(p) \/ IndexBitmaps(p)
  \/ \E q \in Asks[asks].queries : NextPage(q)
  \/ \E g \in Asks[asks].filters : ComputeHistogram(g)

-----------------------------------------------------------------------------
(* What the query engine promises, stated over the files' own entries and    *)
(* not over the indexes it computes with.                                    *)

\* The time the indexer gives an entry: its source timestamp when that is a
\* number, its realtime otherwise.
TimeOf(e) == IF src /\ e.src > 0 THEN e.src ELSE e.rt

\* The file an index was made of, under whatever name it has now.
FileOf(ix) == CHOOSE f \in {journal[p] : p \in Paths} : f.exists /\ f.gen = ix.gen
ListedIn(ix) == ToSet(ix.offs)

\* An entry satisfies a filter expression, by its own pairs.
RECURSIVE Satisfies(_, _)
Satisfies(e, g) ==
  CASE g.op = "none" -> FALSE
    [] g.op = "unset" -> TRUE
    [] g.op = "pair" -> g.pair \in e.vals
    [] g.op = "field" -> \E p \in e.vals : p[1] = g.field
    [] g.op = "and" -> \A k \in DOMAIN g.of : Satisfies(e, g.of[k])
    [] g.op = "or" -> \E k \in DOMAIN g.of : Satisfies(e, g.of[k])

\* Every index in the cache is exact for the entries that were committed when
\* its thread captured the tail, however the file grew under the three passes
\* of FileIndexer::index: each of them is listed once, the list is in time
\* order, the histogram counts each bucket, and a bitmap holds exactly the
\* listed entries up to the tail that carry its pair.  The one entry that may
\* have been at the tail and still being linked at the start can be missing,
\* listed under its realtime, or missing from bitmaps.  Entries behind the tail
\* are listed only when they have a source timestamp, and then in no bitmap.
FileIndexExact ==
  \A c \in cache :
    LET ix == c.ix
        f  == FileOf(ix)
    IN \E late \in IF ix.settled < ix.tail THEN BOOLEAN ELSE {FALSE} :
       LET e(k) == f.entries[ix.offs[k]]
           time(k) == IF late /\ ix.offs[k] = ix.tail THEN e(k).rt ELSE TimeOf(e(k)) IN
       /\ 1..ix.settled \subseteq ListedIn(ix)
       /\ Cardinality(ListedIn(ix)) = Len(ix.offs)
       /\ \A k \in DOMAIN ix.offs : ix.offs[k] <= ix.tail \/ (src /\ e(k).src > 0)
       /\ \A k \in 2..Len(ix.offs) : time(k - 1) <= time(k)
       /\ \A s \in 0..ToSeconds(Max({time(k) : k \in DOMAIN ix.offs})) + 1 :
            (s % ix.dur = 0) =>
              CountInRange(ix, DOMAIN ix.offs, s, s + ix.dur)
                = Cardinality({k \in DOMAIN ix.offs : BucketOf(time(k), ix.dur) = s})
       /\ \A field \in ix.indexed \ ix.truncated :
            \A p \in {p \in UNION {f.entries[i].vals : i \in DOMAIN f.entries} : p[1] = field} \ Skipped :
              LET carry(n) == {k \in DOMAIN ix.offs : ix.offs[k] <= n /\ p \in e(k).vals} IN
              carry(ix.settled) \subseteq Bits(ix, p) /\ Bits(ix, p) \subseteq carry(ix.tail)

\* Nothing written behind the tail that an indexing thread captured gets into
\* the index: "any entries written to the file after indexing begins are
\* ignored" says the comment of FileIndexer.
LaterEntriesIgnored == \A c \in cache : ListedIn(c.ix) \subseteq 1..c.ix.tail

\* An index that claims its file was offline is never recomputed, so it must
\* hold everything the file of its name will ever hold: a flush that takes an
\* active file offline for a moment must not freeze its index.
OfflineIndexFinal ==
  \A c \in cache : ~c.ix.online =>
    /\ journal[c.key.file].exists /\ journal[c.key.file].gen = c.ix.gen
    /\ DOMAIN journal[c.key.file].entries \subseteq ListedIn(c.ix)

\* Indexes that a page can be compared with: of the file that still has the
\* name, of settled entries and nothing behind their tail, with no value left out and no source
\* timestamp that the row reader refuses.
Comparable(ix) ==
  /\ journal[ix.file].exists /\ journal[ix.file].gen = ix.gen
  /\ ListedIn(ix) = 1..ix.tail /\ ix.settled = ix.tail /\ ix.truncated = {}
  /\ \A i \in ListedIn(ix) : ~(src /\ journal[ix.file].entries[i].src = Unparsable)

\* The rows of a query in the given files: <<file, offset>>.
Wanted(q) ==
  {<<p, i>> \in (Paths \X (1..Max({0} \cup {Len(journal[p].entries) : p \in Paths}))) :
     \E k \in DOMAIN batch.responses :
       LET ix == batch.responses[k]
           e  == journal[p].entries[i]
           anchor == MultiFileAnchor(batch.responses, q.anchor)
       IN /\ ix.file = p /\ i \in ListedIn(ix)
          /\ Satisfies(e, q.filter)
          /\ q.regex = <<>> \/ e.vals \cap q.regex[1] # {}
          /\ q.after = NoBound \/ TimeOf(e) >= q.after
          /\ q.before = NoBound \/ TimeOf(e) < q.before
          /\ IF q.forward THEN TimeOf(e) >= anchor ELSE TimeOf(e) <= anchor}
RowTime(r) == TimeOf(journal[r[1]].entries[r[2]])

FilterIndexed(g) ==
  LET used == CASE g.op = "pair" -> {g.pair[1]} [] g.op = "field" -> {g.field}
                [] g.op \in {"and", "or"} -> {IF g.of[k].op = "pair" THEN g.of[k].pair[1] ELSE g.of[k].field : k \in DOMAIN g.of}
                [] OTHER -> {}
  IN used \subseteq ToSet(batch.facets)

\* The pages a query has returned so far: as <<file, offset>> rows, in order.
Returned == FlattenSeq([k \in DOMAIN page.pages |->
                          [j \in DOMAIN page.pages[k] |-> <<page.pages[k][j].file, page.pages[k][j].off>>]])

PageCheck(q) ==
  LET want == Wanted(q)
      got  == ToSet(Returned)
      left == want \ got
      size == IF q.limit = NoLimit THEN Cardinality(want) ELSE Min({Cardinality(want), q.limit * Len(page.pages)})
  IN /\ got \subseteq want
     /\ Cardinality(got) = Len(Returned)
     /\ Len(Returned) = size
     /\ \A r \in left, s \in got : IF q.forward THEN RowTime(s) <= RowTime(r) ELSE RowTime(s) >= RowTime(r)
     /\ \A k \in 2..Len(Returned) :
          IF q.forward THEN RowTime(Returned[k - 1]) <= RowTime(Returned[k])
          ELSE RowTime(Returned[k - 1]) >= RowTime(Returned[k])

Checkable == /\ page.on /\ ~page.cut
             /\ FilterIndexed(page.q.filter)
             /\ \A k \in DOMAIN batch.responses : Comparable(batch.responses[k])

Disjoint == \A k, l \in DOMAIN batch.responses : k # l =>
  \/ EndTime(batch.responses[k]) <= StartTime(batch.responses[l])
  \/ EndTime(batch.responses[l]) <= StartTime(batch.responses[k])

\* The pages of a log query are the matching rows of all the files in time
\* order, each row once and none skipped: a page never ends before a row that
\* belongs on it, and the next one resumes exactly behind it, whatever files
\* were pruned, left untouched or partly consumed on the way.  Backward the
\* promise is checked for files whose time ranges do not overlap.
PagesExact == (Checkable /\ (page.q.forward \/ Disjoint)) => PageCheck(page.q)

\* The same for backward queries over files that overlap: "if file ends before
\* our earliest entry, skip all remaining files" says the comment at the test
\* that ends the search.
BackwardPagesExact == (Checkable /\ ~page.q.forward) => PageCheck(page.q)

\* No row is returned twice and every page is in the order asked for, even
\* when a page was cut short by a cancellation.
PagesOnce ==
  (page.on /\ \A k \in DOMAIN batch.responses : Comparable(batch.responses[k])) =>
    /\ Cardinality(ToSet(Returned)) = Len(Returned)
    /\ \A k \in DOMAIN page.pages : \A j \in 2..Len(page.pages[k]) :
         IF page.q.forward THEN page.pages[k][j - 1].ts <= page.pages[k][j].ts
         ELSE page.pages[k][j - 1].ts >= page.pages[k][j].ts

\* While no file changes, a histogram has every bucket of its range, and a
\* bucket counts the entries of all the files of the directory in it, those
\* that satisfy the filter, and those of each indexed pair: whether it was
\* computed now, answered from the cache of another query or of another bucket
\* width, and however the files' indexes were obtained.
HistogramExact ==
  (hist.asked # <<>> /\ ~grown /\ FilterIndexed(hist.asked[1].filter)) =>
    \A k \in DOMAIN hist.asked :
      LET r  == hist.asked[k]
          in(p) == {i \in DOMAIN journal[p].entries : r.from <= ToSeconds(TimeOf(journal[p].entries[i]))
                                                     /\ ToSeconds(TimeOf(journal[p].entries[i])) < r.to}
          n(p, P(_)) == Cardinality({i \in in(p) : P(journal[p].entries[i])})
          sum(P(_)) == SumOver({p \in Paths : journal[p].exists}, LAMBDA p : n(p, P))
          sel(e) == r.filter = FilterNone \/ Satisfies(e, r.filter)
      IN /\ hist.buckets[k] # <<>>
         /\ LET b == hist.buckets[k][1] IN
            /\ b.total = sum(LAMBDA e : TRUE)
            /\ b.filtered = sum(sel)
            /\ \A p \in DOMAIN b.counts :
                 b.counts[p] = <<sum(LAMBDA e : p \in e.vals), sum(LAMBDA e : p \in e.vals /\ sel(e))>>

(***************************************************************************)
(* An index, whenever it was built and however long it was cached,         *)
(* describes its file: exactly up to the captured tail, and for good when  *)
(* the file was offline.                                                   *)
(***************************************************************************)
EngineIndexExact ==
  /\ FileIndexExact
  /\ OfflineIndexFinal

(***************************************************************************)
(* Pages and histograms answered from cached indexes and buckets are those *)
(* that a scan of the files would give, and no row is on two pages.        *)
(***************************************************************************)
EngineAnswersExact ==
  /\ PagesOnce
  /\ PagesExact
  /\ HistogramExact
=============================================================================
