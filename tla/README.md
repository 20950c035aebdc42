# A verification project for the systemd journal SDK

The repository implements the systemd journal file format: a writer, readers, verifiers,
a log of rotated files on top of the writer, query engines and tools around them, in Rust
(the reference here) and in Go. This directory holds TLA+ models of the Rust code, TLC
configurations that check them on small instances, and TLAPS proofs, for all instances, of
what the storage core promises.

Paths below are relative to `src/rust/src/`; `core/` stands for
`crates/journal-core/src/file/`.

## 1. Inventory

### The file

A journal file is a header, two hash tables and an append-only arena of objects: DATA
(one per distinct `NAME=value` payload), FIELD (one per name), ENTRY (one per log entry,
with the offsets of its DATA objects) and ENTRY_ARRAY (chunks of offset lists). Objects
are linked: hash chains of DATA and of FIELD objects, a DATA list per FIELD, a chain of
arrays with all entries, and per DATA object an inline first posting and a chain of arrays
with the others. The header counts objects and entries and names the tail object, tail
entry and tail array. One process writes, any number map the file and read it at the same
time; there is no lock between them.

### Components

| component | state | operations | hard behaviour | what makes it correct |
|---|---|---|---|---|
| Low-level writer (`core/writer.rs`, `writer_entry_arrays.rs`, `file_mut.rs`) | poisoned flag, append offset, tail object, next sequence number, field cache, publication counter | append of an entry; early refusals; every store may fail | concurrent readers see every intermediate store; failure in the middle; integer limits; remembered link states | the committed index is exact at every store; an error poisons; sequence numbers and stamps ordered |
| Chains (`core/file_payload.rs`, `chain_guard.rs`, `array_chain.rs`) | two words of a cycle detector | guarded walks | damaged files with cycles | a cycle is always detected, an intact chain never rejected |
| Verifiers (`journal/src/verify_graph*`) | maps of the walked objects | `verify_index` (strict), object graph verification | two sets of checks that must agree | accepts what a healthy writer leaves; accepts no half-published append |
| Indexed snapshots (`journal/src/indexed_snapshot.rs`) | captured bounds | capture, visits by value, by field, of all entries | the writer goes on appending during a visit; stale windows | a visit emits exactly the captured population |
| Crash and reopening (`core/file_mut.rs`, `writer.rs`) | the file | `open_for_append`, a new writer | death between two stores; a reused arena | acknowledged entries survive, committed ones never change |
| Writer lock (`core/lock.rs`) | a lock file with pid, boot id, start time | acquire, release | check and removal are separate calls; stale owners; pid reuse; reboots | exclusion; abandoned locks are reclaimed |
| Sealing (`core/writer_seal.rs`, `crates/journal-core/src/seal.rs`, `fss.rs`) | epoch, key state, pending HMAC | evolve, seek, append tag, keyed verification | time jumps over epochs, reopening, tampering | entries are sealed in the epoch of their stamp; a change is detected |
| Journal log (`crates/journal-log-writer/src/log/`) | chain of owned files and sizes, active file, rotation counters, sequence number, clock, poisoned | write, rotate, sync, close, drop, retention, startup | failure between archive, rename and create; retention racing deletion | one active file, sizes match files, sequence numbers continue, entries are lost only to a reported deletion |
| Root retention (`log/root_retention.rs`) | an inventory of a tree | inspect, finalize, inspect, prune | stale inventory, other programs | the live file is never pruned, what is reported is what was done |
| Registry (`crates/journal-registry`) | ordered chains of files, watches, event queue | scan, watch, unwatch, events, lookup by time | events out of order with the directory | order and lookup are right, the registry follows the directory |
| Reader, cursors, tail recovery (`core/reader.rs`, `cursor.rs`, `offset_array.rs`, `filter.rs`, `reader_recovery.rs`, `journal/src/directory.rs`) | position, direction, filter, recovered prefix; per directory the merge state | seek, step, filter | a file that grows under a bisection, torn tails, reversals | no match skipped or repeated; a failure loses nothing |
| Mapping windows (`core/mmap.rs`, `guarded_cell.rs`, `row_view.rs`) | windows, pins, copies | map, widen, evict, pin, grow | truncation under a mapping, eviction under a row | a payload handed out stays readable; budgets hold |
| Index and query engine (`crates/journal-index`, `journal-engine`) | file indexes, their cache, a pool, cached buckets | index, page, histogram | files grow and rotate while they are indexed; cancellation | an answer is the one the entries give |
| Explorer and Netdata function (`journal/src/explorer.rs`, `netdata.rs`) | page window, sampling state, facets, histogram | explorations by traversal and by index, paged queries, tail and delta | early stops, ties, sampling, deadlines | pages are exact and complete, estimates conserve rows |
| `journalctl` (`cmd/journalctl/`) | cursor file, selection, vacuum heap, parser state | show, follow, select, vacuum, parse | kills between print and cursor, a journal that changes, option order | nothing skipped or repeated; the oldest files go first |
| Compression and hashing; host identity; legacy `jf` crates; Go SDK; experiments | | | | not modelled (section 7) |

Interactions: the log owns one writer at a time and drives it through `add_entry`; the
writer and everything that reads share only the file; a publication (`post_change`) is a
one-way wake-up; the lock is a separate layer that a caller puts around a writer; the
verifier is the documented gate before an uncertain file is opened for append again; the
registry tells the engine which files cover a time range; the Netdata function runs one
exploration per file; `journalctl` reads through a directory reader and removes files
beside a running log.

The hazards that follow from this, with the line where each bites and the property that
covers it, are in `PROJECT.json`.

## 2. State of the plan

The file and its writer came first, because every other part relies on what the writer
leaves in the file at each moment; then what shares the file with it (snapshots, recovery,
verifiers, windows), then what owns files (lock, log, retention), then what reads them
(reader, registry, engine, explorer, `journalctl`). All of these are modelled and checked.

The proofs follow the same order. Done: the writer, its calls, its refinement of an
append-only log, the same over crashes and reopenings, every chain of the file as readers
walk it (the list of all entries, the postings, the hash tables, the lists of the fields),
how the two verifiers are related, the lock, and the mapping windows. What could follow, in
this order: that the strict verifier accepts what these chains are (`VerifierExact`); the
bound argument of snapshot visits; the accounting of `OwnedChain` in `LogFiles`.

## 3. Modules

| module | models | part of |
|---|---|---|
| `Chains` | link walks of `core/file.rs`, `file_payload.rs`, `writer_entry_arrays.rs` as recursive functions | everything that reads the file |
| `JournalWriter` | the writer, one action per group of stores that nothing can separate | |
| `VerifyIndex` | both verifiers as predicates of the file | extends `JournalWriter` |
| `AppendLog` | what a writer promises, alone and over restarts | abstract specification |
| `WriterProperties` | the properties over the file, the refinement mapping | extends `VerifyIndex` |
| `IndexedSnapshot` | capture and visits, one read per action | composed with the writer |
| `WriterRecovery` | crash and reopening | composed with writer and verifier |
| `ChainGuard` | the two cycle detectors, over every link graph | |
| `MappedWindows`, `RowView` | the window manager; a writer and a reader of one file through their own managers, the rows of the reader | |
| `WriterLock` | the cooperating-writer lock, several processes | |
| `SealedWriter` | key evolution and tags; the keyed verifier | |
| `LogFiles`, `RootRetention`, `JournalLog` | names, order and `OwnedChain`; dedicated-root maintenance; the life of a `Log` | over the `AppendLog` interface of the writer |
| `ReaderFile`, `ReaderFilter`, `JournalReader`, `DirectoryReader`, `ReaderProperties` | arrays, bisection and tail recovery; filters; one reader; several files as one; a client and its properties | |
| `FileRegistry` | paths, chains, lookups, the event loop | |
| `FileIndex`, `QueryEngine` | the index of a file; cache, pool, pages, histograms and their properties | |
| `ExplorerScan`, `Explorer`, `Netdata` | row tests, bars and sampling; explorations; requests over a directory, and the properties of the three | |
| `JournalctlShow`, `JournalctlSelect`, `JournalctlVacuum`, `TimestampParse`, `CommandLine` | what the command prints and where it leaves its cursor; what it selects; what it removes; `--since`/`--until`; the order of options | |
| `JournalWriterProofs`, `WriterCallProofs`, `GlobalListProofs`, `HashChainProofs`, `PostingsProofs`, `RecoveryProofs`, `WriterLockProofs`, `MappingProofs` | theorems | TLAPS |
| `MCWriter`, `MCSnapshot`, `MCStorage`, `MCLog`, `MCReader`, `MCTools`, `MCServices` | instances for TLC | |

**`JournalWriter`.** The variables `data`, `field`, `entry`, `array`, `hdr`, `dht` and `fht`
are the file; `w` and `cache` are the fields of `JournalWriter` that outlive a call; `pc`
and `op` are the running append with its locals; `result`, `notified` and `acked` are what
the caller and the live readers were told. Offsets are ordinals of objects: 1 and 2 are the
hash tables. An append is the sequence `BeginAppend`; per field `ReuseData`, or `StartData`,
`WriteData`, `LinkDataHash`, `PublishDataBucket`, `CountData`, the FIELD object by
`CachedField`, `FoundField` or its creation, and the push on the field's list; `Finish`
(sorting and removal of duplicates) and `WriteEntry`; the global array; the postings of each
item; the stores of `entry_added` (`CommitObjects` to `CommitCount`); and `Publish`.
`FailAppend` may take the place of every fallible step, `Overflow` stands for the compact
offset limit, `MeetDamage` for a link that leads nowhere (`NoDamageMet` shows that this does
not happen in a file the writer has built by itself; it is a step of `WriterRecovery`). What
is dropped: object sizes, payload bytes and hashes (payloads are assigned to buckets, so
collisions remain), compression, the realtime stamp (which is stored and not compared).
Sealing is in `SealedWriter`, on a coarser file.

A new object's words are what lies at its place: `initialize_mutable_object_header` stores
type and size only. In a file that grows these words are zero; `residue` holds them after
a reopening.

**`VerifyIndex`** has one conjunct per check of the Rust code, over the objects up to the
header's tail object, for the strict verifier (`VerifyIndexOk`) and for the object graph
verifier (`VerifyGraphOk`). Checks of sizes, alignment, flags and hashes have nothing to
look at in this abstraction.

**`IndexedSnapshot`** makes one read of the file per action. A read through a window of a
word that changed after the capture may yield the zero it was (`Windowed`), as a copied
window can; `required_posting` and `posting_slot` read such a zero again.

**`WriterRecovery`** adds `Crash` and `Reopen`. Stores that were made survive (the process
dies, not the machine). `Reopen` requires `VerifyIndexOk`, the documented condition.

**`AppendLog`** has a set of entries that only grows, at most one pending call and a flag of
a writer that gave up. `LogSpec` is one writer; `DurableSpec` adds `Restart`, by which a new
writer follows one that gave up or was closed. The mapping takes the entries below the next
sequence number for the log; that readers walk exactly these is `CommittedIndexExact`, a
part of `CommittedLinked`, which is proved.

**`WriterLock`** has one action per file system or procfs call, with the Linux liveness
test. `fresh`, `raced` and `slow` are history variables.

**`MappedWindows`, `RowView`.** Window lookup, widening, eviction, pins and copies in units
of a page; whole-file mapping; the three bounds modes; a file that is extended and cut. The
headers are as the writer wrote them. Unaligned offsets and failing flushes are left out.

**`SealedWriter`.** Squaring modulo small numbers, tags at epoch ends,
failed appends, the reopening of a sealed file without seal options (`ReopenUnsealed`), and a
verifier over a file in which one object was changed. The HMAC is ideal: it tells apart whatever it covers.

**`JournalLog`.** Every call is one action that runs to its end or to the I/O step that
fails. The clock moves between calls and jumps past all stamps between two Logs; a Log with
chain names is not opened over a strict active file; the sequence numbers of a root are
those of its own writer (`RootGaps = {0}` in the run). A sizer that fails half way leaves the
sizes measured before it beside the old total (`RefreshSizes`, over every set of files that it
may have got through); the ghost `stale` marks such a state, and `AccountingKept` speaks of
the others.

**Readers.** Realtime does not decrease within a file, boots of different files do not
interleave, cursors name an entry that existed, and a file is torn only at its end. Promises
are not made after a failed directory cursor seek, nor at the end of an unfiltered
sequential directory.

**Registry.** Names are reduced to the fields their parser yields. Events arrive in the
order they were queued, after any further change of the directories, after an unwatch, or
twice; a rename from or to a place that nobody watches arrives as one half, and a change of
contents as a kind the handler ignores. Active files grow, and an index made of one
(`IndexFile`) reaches the metadata later (`UpdateTimeRange`), when the file may have grown,
been renamed, removed or replaced. Each of `RegistrySetups` says which files there are and what may happen, so that
the hazards meet in small groups and not all of them at once: two roots and a subdirectory, renames
across them, watch, unwatch and watch again, repeats, growth around an index.
`RegistryFollows` excepts by name what the code leaves wrong (section 6).

**Engine.** Files grow one store at a time: the ENTRY object, the global array, each DATA
object's posting and the header's tail, in the order of this repository's `Writer` (postings,
then the tail, then the count that shows the entry in the global array) or in the order of
systemd-journald (tail with the object, global array, then postings). They become archived,
are replaced and removed; indexes are made in three passes between which this happens.
`FileIndexExact` says what an index then holds: all entries that were settled at the captured
tail, with their bits; the one being linked then at most in part; and of later entries those
with a source timestamp, in no bitmap. The DATA objects of an entry join their field's chain
with the ENTRY object; this only moves the step at which a field counts as truncated.

**Queries.** The promises are made for directories whose files do not change during a
request; rows of one time in one file are ordered by their place. A control check happens
every `CheckEvery` rows, as in the code.

**`journalctl`.** Names are resolved in one step (`ResolveNames`); in follow mode the code
resolves the boot before its loop and the units at the first opening, a moment later, when a
pattern may match a unit that has logged in between. Show, follow and select run over a
journal in realtime order that grows and is vacuumed; a kill may come at any step and a write
of the cursor file may fail. A vacuum pass shares its directory with a rotating writer and a remover of files. Timestamps
use a calendar of constant radices with zones that have gaps and folds.

## 4. Runs

Parts that do not act on each other are checked side by side in one run: a behaviour
exercises one of them and leaves the others in an initial state, and each property speaks of
one part.

| run | what is checked | bounds |
|---|---|---|
| `writer_compact` | `SeqnumOrder`, `HealthyArenaPublished`, `AckedAccounting`, `PublicationLag`, `LinkStateFresh`, `NoDamageMet`, `EntriesWriteOnce`, `StoresPoisoned` | compact format with 16 offsets, numbers up to the limit 6, stamps up to 3, two boots, trusted and untrusted callers, repeated, refused and dropped payloads, cache of 1, publication every 2 |
| `lock` | `ExclusionUnlessRaced`, `AbandonedLockReclaimed` | 2 processes, 2 starts each, 2 boots, 1 failing call |
| `snapshot` | `SnapshotExact` (a visit reports no damage and emits the captured population), `VisitEnds` | 4 entries, 3 payloads of 2 fields in one bucket |
| `storage` | recovery: `AckedSurvive`, `CommittedOnlyGrows`, `DurableLog`, `StrictImpliesGraph`; cycle detectors: `ChainWalksSound` (right verdicts, array walks restart, walks end); windows: `MappingSound` (objects and rows readable, pins released, budget kept, nothing mapped behind the file) | 2 crashes, 3 entries, 2 payloads; 4 objects; 4 manager setups, rows of 2 payloads |
| `log` | `AckedKept`, `NumberingOrdered`, `DirectoryKept` (the live file is kept, one file is online, sizes and counts agree, retention bounds hold), `MaintenanceExact` | chain, strict and root mode, 2 machines, 3 entries, 8 files, 2 Logs, 1 failing step or lost file |
| `reader_writer` | readers: `ReadsExact` (every step and seek stands on the nearest match, errors have a cause), `FailuresKept` (a failed call keeps position and filter, a healed tail is read); writer of a regular file: `TypeOK`; `CommittedLinked` (exact committed index, field lists and field cache at every store); `VerifierExact` (a healthy file verifies, an accepted cut has nothing of a running append); `ImplementsAppendLog`; `AppendReturns` | journals of up to 5 entries in arrays of 1, 2 and 4 slots, 3 calls, one growth; 4 entries, 3 payloads of 2 fields with collisions in both tables, cache of 1 |
| `tools` | `ShowSound`, `FollowPrints`, `SelectSound`; engine: `EngineIndexExact`, `EngineAnswersExact` | 4 rows, 1 vacuum; 3 files, 3 pages |
| `services` | `ExplorationExact`, `AnswersComplete`, `SealExact`, `RegistryExact`, `ArgumentsExact`, `VacuumSound` | 4 pages; 3 sealed appends; 8 registry setups of up to 3 directory changes, 3 calls, 2 indexings and a repeated event; 3 parses; 4 arguments; 1 fault |
| `lock_race`, `reopen_residue`, `engine_prune`, `engine_tail` | violated: see Findings | |

**Why the bounds are enough.** With `MinCapacity = 1` (4 in the code) the arrays of the
global chain and of a shared payload grow to a second and third array within 4 entries, so
every case of array growth, promotion of an inline posting, exact fill and new tail array
occurs. A cache of one name is full and cleared at the second. Two names in one field bucket
and two payloads in one data bucket give hash chains with a predecessor. `SeqnumOptions`
holds "none", 0, a value above the next and the maximum, so gaps, refusals and exhaustion
occur. `CompactMax = 16` is reached in the middle of an append, at several kinds of objects.
In recovery two crashes are needed for the residue of a residue. In `ChainGuard` 4 offsets
give every combination of ordered prefix, tail and cycle up to length 4, with each stale
checkpoint; the detector's doubling happens at steps 2 and 4. A log of 3 entries with
rotation after one has an archived, a rotated and an active file while retention keeps two,
and the second Log starts over what each end of the first left. A reader's file of 5 entries
has three arrays, so that a bisection has one on each side; three calls are a seek, a step
and a reversal. Three files in the engine give an overlapping pair and a third that a search
may skip. Four pages are one more than the rows need.

Every other `Max...` constant is a bound of the model, not of the code. When they are
reached nothing more happens, which is why deadlock is not checked: a writer between calls,
a finished visit, a closed log and dead processes may stop for ever.

**Fairness.** `reader_writer`: weak fairness of the steps inside a call. An append runs on its
caller's thread without waiting for anyone, so it goes on as long as that thread runs; no
call has to be made. `snapshot`: weak fairness of the reads inside a visit, none of the
writer. `storage`: weak fairness of the two chain walks. `lock`: weak fairness of each
process's calls, including that a caller tries again, and of the passing of time; the
property speaks of processes that stay alive and of behaviours without a failing call: a
`sync_all` or `remove_file` that fails leaves a lock that names a living process, which the
code reports as an error and which stays until that process ends. `tools`: weak fairness of
the loop of `--follow`, which polls without waiting for anyone.

Each property of a passing run has a mutant in `PROJECT.json`: a definition of the model
changed the way a bug would change the code (operators commented `Mutant:` next to the
original), which makes TLC report that property.

## 5. Proofs

Proved for every value of the constants, from `ConstantsAssumption` (types of the constants;
`Junk` is not an offset), `LockAssumption` (distinct special values) and `MappingAssumption`
(objects of the file do not overlap, an entry is written after the data it points to, and a
manager has a chunk size and room for a window) only, except for the two hypotheses that the
theorems about chains state, `MaxOffset < TailModulus` (H) and `CallerContract` (C), which are
discussed below:

| theorem | states | argument |
|---|---|---|
| `TypeCorrect` | `Spec => []TypeOK` | `TypeOK` is inductive; one lemma per group of actions |
| `StoresArePoisoned` | `Spec => StoresPoisoned` | `PoisonCover`: beyond the first possible store `pc` has left `idle` and `field`, and the flag is set; only `Publish` clears it, and it stores nothing |
| `ArenaPublished` | `Spec => []HealthyArenaPublished` | `ArenaInv`: the arena is dense up to the append offset; what the header does not count is in `num_written_objects`, except between the stores of `entry_added`, where the invariant follows the program counter |
| `SeqnumsOrdered` | `Spec => []SeqnumOrder` | `SeqnumInv`: while an append runs, all stored numbers are below its own, then at most its own; ties the order to file offsets by "no ENTRY beyond the append offset" |
| `EntriesAreWrittenOnce` | `Spec => EntriesWriteOnce` | new objects go to the append offset, where by `SeqnumInv` no ENTRY is |
| `AppendsAreAccounted` | `Spec => []AckedAccounting` | `AccountInv`: the count is the caller's, one ahead from the count store to the end of the call and for good when `post_change` failed |
| `PublicationsKeepUp` | `Spec => []PublicationLag` | `LagInv`: what was not published is in the publication counter |
| `LinkStatesAreFresh` | `Spec => []LinkStateFresh` | `FreshInv`: an item not yet linked has on disk the state its lookup remembered, since an append links only its own items and each payload has one DATA object among them; a repeated item goes by the state its first copy left |
| `WriterImplementsLog` | `Spec => ImplementsAppendLog` | `RequestInv` (the items collected so far are the DATA objects of the wanted payloads handled so far, so that the ENTRY holds the whole request) and `StampInv` (the clamped stamp exceeds that of the newest entry of the boot); `CommitCount` maps to the step that adds the entry, `Finish` and the failing steps to those that end a call, all others to stuttering |
| `GlobalListIsExact` | from H, `Spec => []CommittedListed`, the part of `CommittedIndexExact` about the list of all entries | `ListInv`: the arrays of the global list are a chain, each with the number of slots before it; the arrays that DATA objects refer to lie apart from it, so that no posting is stored into it; the header's tail hints name its last array; and its slot is filled before the count covers it. `ChainFlatten` says what the walk collects from such a chain |
| `CacheIsCoherent` | `Spec => []CacheCoherent`, a part of `CommittedLinked` | `HashInv`: the DATA and the FIELD objects that are linked are, bucket by bucket, chains in ascending offsets that end with 0 and at the table's tail, with one object per payload and per name; an object is on its chain from the store that links it, and the step between (written and not linked, linked and not the tail) follows the program counter |
| `FieldIndexIsComplete` | from H, `Spec => []CommittedFieldsListed`, a part of `CommittedLinked` | `HashInv` has, for each FIELD object, its list of DATA objects in descending offsets; every item of a stored entry, and every item that the running append has collected, is on the list of its name |
| `WriterMeetsNoDamage` | from H, `Spec => []NoDamageMet` | `PostParts`: every array belongs to the global list, to one DATA object or, just written, to none; those of a DATA object are a chain in which each knows the slots before it, and they hold its postings up to its count. Then `TailArrayLast`: the walk for the array of the last posting stops in the file |
| `CommittedIsLinked` | from H and C, `Spec => []CommittedLinked` | in addition the postings of a DATA object are, in file order and once each, the entries that hold its payload, except that the entry being written is posted to the items already linked; what a reader accepts of them up to the next sequence number is the committed ones |
| `AckedSurvivesCrashes` | `RecoverySpec => []AckedSurvive` | `SurviveInv`: every crash adds at most one counted entry that nobody was told of |
| `SeqnumsOrderedOverCrashes` | `RecoverySpec => []SeqnumOrder` | `RecoveryInv`: a running writer has `RunInv`, a dead one leaves `ClosedInv`; a file that `verify_index` accepts restores the first from the second |
| `RecoveryImplementsLog` | `RecoverySpec => DurableLog` | the lemma `AcceptedEntries`: an accepted file has exactly the counted entries up to its tail object, because the strict verifier compares their number and the committed ones are among them (`CountInv`); so a reopening neither loses nor adds one, and goes on above the last |
| `StrictIsStricter` | `RecoverySpec => []StrictImpliesGraph` | of any file whose objects have the right types, at every moment of `RecoveryInv`: a posting that the strict verifier has met on its own walk of a DATA object is one that `data_references_entry` finds, in the chain of the bucket that the object's own hash names; so what strict verification replaces is implied by what it checks instead |
| `WindowsAreSound` | `MappingSpec => []MappingSound` | `MappingInv`: what was added lies in the announced arena and in the file; the writer knows the file's length and its windows lie within it; a pointer handed out is in a pinned window that covers it or in a copy; a row that does not know of pins has none; and the budget of both managers |
| `LockExcludes` | `Spec => []ExclusionUnlessRaced` | `LockInv`: a read that nobody has disturbed is still at the path, a verdict "stale" is stable because pids are reused only with later start times, and the path names the file of whoever is between `create_new` and the end of `release` |

None of the properties is inductive by itself: most speak of a writer between calls and
need the running append; `ExclusionUnlessRaced` needs to know why a file that is removed
belongs to nobody; the refinements need that what was asked for, what was collected and what
is stored agree at every store. Each inductive invariant was checked by TLC on the
instances of the runs before its proof. The many actions of the writer are grouped by what
they leave alone (`NextGroups` and the frame lemmas), so that an invariant is argued once
per group.

H says that every offset fits the header field of the tail array, a u32: files below 4 GiB.
The code does not enforce it (section 6, the truncating casts), and without it the writer
would go on from a wrong tail. C says that a caller who sets `trusted_unique_payloads`, which
makes the writer skip its search for duplicates, gives every payload of an entry once; it says
nothing of other callers, whose repeated payloads the proof covers. Without it an entry is
posted once per copy (section 6), and only the part about postings is lost:
`CacheIsCoherent`, `FieldIndexIsComplete`, `WriterMeetsNoDamage` and `GlobalListIsExact` do
not need it.

`CommittedLinked` is what the models above the file rely on, and it is far from inductive. A
posting is stored several steps before the count that covers it, an array is linked before
its first slot is filled, and an append that fails leaves such stores for good, so the
invariants speak of slots, links and counts separately and say for every program counter
which of them are ahead. Three facts carry the argument. No array has two owners, so a store
into one chain leaves the others as they were. An object is linked behind all objects of its
chain and the append offset only grows, so chains are ascending and cannot close. And a
writer that failed is poisoned, so that what is half done stays as it is and lies beyond
every count.

`WindowsAreSound` is argued on one operation of a window manager at a time, and the calls
of a reader or a writer are compositions of these. Each operation (find, widen, map, make
room, pin, copy, extend and cut the file) is shown to keep the budget, to leave the ranges of
the pinned windows covered with all their references (`Grows`), and to end with a window over
the range that was asked for whenever that range is in the file. The hard case is eviction
when every window is pinned: `make_room` then drops nothing, and it is the limit on pins, one
copy instead of a pin once it is reached, that keeps the number of windows at one above the
limit. A whole-file window is mapped again, with every pin forgotten, when a range reaches
past it; as long as the file has not grown none does (`Steady`), which is all that
`RowDataValid` says of it, too.

The walks are recursive functions, and the library's induction theorems take an operator, which the provers cannot
instantiate. `GlobalListProofs` goes round this: `<` is well founded on the naturals, so a
set of numbers that has 0 and is closed under successors has them all (`SetInduction`), and
that gives for every walk the function that iterates its step (`Iterates`, `FlattenWalk`,
`VisitWalk`, `TailArrayLast`).

**Only model-checked.** Liveness (`AppendReturns`, `VisitEnds`, `AbandonedLockReclaimed`,
`FollowPrints`, the ends of `ChainWalksSound`): fairness is out of the prover's reach.
`VerifierExact`: the verifiers count, over the whole file, the
objects and references of each kind, and that these counts are those of the writer is not
part of the invariants above. `SnapshotExact`: the proved index is that of the file at one
moment, and a visit makes its reads at many. `CommittedOnlyGrows`, and the chains after a
reopening: the residue of lost objects (section 6) breaks the hash chains' invariant, so that
another one is needed there; the refinement `DurableLog` takes the committed entries by their
numbers, which `GlobalListIsExact` ties to the walk for a writer that runs. The components
above the storage core: their steps are whole calls, written as functions of a state with folds and
`RECURSIVE` operators (`QueryEngine`, the filters and merges of the reader, the
queries), and a module with a `RECURSIVE` operator cannot be proved about.

## 6. Findings

* `lock_race`: acquiring removes a lock file by path some calls after judging it, and takes
  a file that vanished for a stale one. If the holder releases and takes the lock again in
  between, the new lock is deleted and two processes hold it. Two racing reclaims of one
  stale lock have the same end. `lock` and `LockExcludes` show that this is the only hole
  beside a creator slower than the grace period.
* `reopen_residue`: after a crash the arena behind the tail object is reused without being
  cleared, and new objects keep words of lost ones; a file that verified, was reopened and
  appended to need not verify again. `storage` and `RecoveryImplementsLog` show that the
  committed entries are unharmed.
* `engine_prune`: a full backward page stops the search at a file that ends before its
  latest row instead of its earliest, and misses rows of overlapping files.
* `engine_tail`: entries written while a file is indexed are listed in its index when they
  carry a source timestamp (`crates/journal-index/src/file_indexer.rs:423` asks for no tail),
  though the comments of the indexer (`file_indexer.rs:76`, `:153`) say that they are ignored.
  They are in no bitmap: an unfiltered query and a histogram's totals have them, and a filter on
  an indexed field does not.

Met while modelling, not the subject of a run:

* The header's tail array offset (`core/writer_entry_arrays.rs:306`) and the entry offsets
  of an index (`crates/journal-index/src/file_indexer.rs:199`) are stored by a truncating
  32-bit cast in a format that may exceed 4 GiB. (With a small `TailModulus`,
  `HealthyFileVerifies` is violated.)
* A payload repeated by a trusted caller is posted once per copy
  (`core/writer_entry_arrays.rs:504`); a comment of the verifier says once per entry
  (`journal/src/verify_graph/strict.rs:219`).
* Sampled requests may return fewer rows than a page has (`journal/src/netdata.rs:1878`).
* A sizer that fails at one file leaves new sizes of the files before it and the old total
  (`crates/journal-log-writer/src/log/chain.rs:497-505`). Each file deleted until the next
  refresh is then taken off the total with a size the total does not contain. Only
  `retain_by_total_size` reads the total, and `apply_retention` refreshes first
  (`log/mod.rs:231-257`) and gives up when that fails, so with a sizer it is not acted on.
* The registry promises on `unwatch_directory` to "remove its files from the repository"
  (`crates/journal-registry/src/registry/mod.rs:205`), but files in subdirectories that are
  not a machine's stay (`repository/collection.rs:254` removes the directory of that very
  name), and so do events already in the channel, which `process_event` (`mod.rs:225-253`)
  handles without a look at `watched_directories`: watch, create, unwatch, delete, watch
  leaves a file in the registry that is gone.
* A directory reader returns the entry of a copied file twice, goes to the first entry on
  `next` after `seek_tail`, and keeps mixed positions after a failed cursor seek; a reader
  that turns round at the end returns its last row again.
* A sealing writer that is opened for append without seal options goes on unsealed, and
  `create_successor` drops them.
* A filter that selects nothing counts as no filter in histograms
  (`crates/journal-index/src/filter.rs:67`); an entry with two source timestamps is listed
  twice.
* `--until` moves the cursor file over the row that ended the output; the cursor file is
  renamed into place without an `fsync`; `--follow` misses late entries of another file.

## 7. Not modelled

* The SIGBUS handler: it turns a fault into an error or a zero page, which no state of these
  models has. Compression and hashing: byte-level codecs. Host identity: platform I/O whose
  results are inputs of the lock and the log.
* Text: request parsing and response rendering of the Netdata function, output modes,
  colours, globs and patterns of `journalctl`, zone files, spellings of options and of
  timestamps.
* The table of the engine, which formats finished rows.
* The Go SDK implements the same contracts a second time; the legacy crates are the
  predecessor of `journal-core`, kept for one reader; the experiments are not the product.
