--------------------------- MODULE JournalWriter ---------------------------
(***************************************************************************)
(* The low-level writer of one journal file (journal-core, file/writer.rs  *)
(* and file/writer_entry_arrays.rs) at the grain of the stores that a      *)
(* process mapping the same file, or the next opener after a crash, can    *)
(* observe.  One append of one entry is a sequence of actions:             *)
(*                                                                         *)
(*   BeginAppend                     options, seqnum, monotonic clamp      *)
(*   per field                       find or create DATA, FIELD, links     *)
(*   Finish, WriteEntry              the ENTRY object                      *)
(*   PlaceEntry .. GlobalHeader      the global entry array                *)
(*   LinkItem .. DataCount           the postings of every DATA item       *)
(*   CommitObjects .. CommitCount    the header stores of entry_added      *)
(*   Publish                         post_change, and the Ok of the call   *)
(*                                                                         *)
(* Any fallible step may fail instead (FailAppend): the call returns and   *)
(* leaves the file as it is at that moment.                                *)
(*                                                                         *)
(* Abstraction: offsets are ordinals of objects in the arena (the two hash *)
(* table objects are 1 and 2), object sizes, hashes, realtime stamps and   *)
(* payload bytes are dropped; hash chains are kept (payloads and names are *)
(* assigned to buckets), so is everything that links objects.              *)
(***************************************************************************)
EXTENDS Chains

CONSTANTS
  Payloads,          \* the NAME=value payloads
  Names,             \* field names
  FieldOf,           \* payload -> its field name
  Buckets,           \* hash buckets, of both hash tables
  DataBucket,        \* payload -> bucket
  FieldBucket,       \* name -> bucket
  Boots,             \* boot ids
  Rejected,          \* a field that accept_entry_field refuses
  Dropped,           \* a field that accept_entry_field skips (JournalApp policy)
  Requests,          \* the field lists callers submit
  SeqnumOptions,     \* EntryWriteOptions.seqnum values, NoSeqnum for None
  Monotonics,        \* monotonic stamps callers submit
  TrustedOptions,    \* values of EntryWriteOptions.trusted_unique_payloads
  SeqnumMax,         \* u64::MAX, for sequence numbers
  MonotonicMax,      \* u64::MAX, for monotonic stamps
  MinCapacity,       \* capacity of a first array (4 in the code)
  Compact,           \* the file has the compact format
  CompactMax,        \* last offset a compact file can hold (JOURNAL_COMPACT_SIZE_MAX)
  TailModulus,       \* 2^32: the header's tail array offset is a u32
  CacheMax,          \* FIELD_CACHE_MAX_ENTRIES
  PublishEvery,      \* live_publish_every_entries
  Junk,              \* a word that is neither zero nor the offset of an object
  MaxOffset,         \* bound: the device holds no object beyond it
  MaxEntries         \* bound: appends stop once the file has this many entries

NoSeqnum == -1
NoBoot == "no boot"

ASSUME ConstantsAssumption ==
  /\ FieldOf \in [Payloads -> Names]
  /\ DataBucket \in [Payloads -> Buckets]
  /\ FieldBucket \in [Names -> Buckets]
  /\ Rejected \notin Payloads /\ Dropped \notin Payloads /\ Rejected # Dropped
  /\ Requests \subseteq Seq(Payloads \cup {Rejected, Dropped})
  /\ SeqnumOptions \subseteq Nat \cup {NoSeqnum}
  /\ Monotonics \subseteq Nat
  /\ TrustedOptions \subseteq BOOLEAN
  /\ SeqnumMax \in Nat /\ MonotonicMax \in Nat
  /\ \A m \in Monotonics : m <= MonotonicMax
  /\ MinCapacity \in Nat \ {0}
  /\ Compact \in BOOLEAN
  /\ CompactMax \in Nat /\ TailModulus \in Nat \ {0}
  /\ CacheMax \in Nat \ {0} /\ PublishEvery \in Nat
  /\ MaxOffset \in Nat /\ MaxEntries \in Nat
  /\ Junk \in Nat /\ Junk > MaxOffset

VARIABLES
  data,     \* DATA objects by offset
  field,    \* FIELD objects by offset
  entry,    \* ENTRY objects by offset
  array,    \* ENTRY_ARRAY objects by offset
  hdr,      \* the journal header
  dht,      \* data hash table
  fht,      \* field hash table
  residue,  \* words left behind by earlier writers at offsets not yet reused
  w,        \* the fields of JournalWriter that outlive a call
  cache,    \* JournalWriter.field_cache
  pc,       \* the step the running append is at, "idle" between calls
  op,       \* locals of the running append
  result,   \* what the last call returned
  notified, \* n_entries at the last post_change
  acked     \* number of appends that returned Ok

objects == <<data, field, entry, array>>
tables == <<dht, fht>>
caller == <<result, notified, acked>>
vars == <<data, field, entry, array, hdr, dht, fht, residue, w, cache, pc, op,
          result, notified, acked>>

Offsets == 1..MaxOffset

NoOp == [todo |-> <<>>, items |-> {}, left |-> {}, seqnum |-> 0, boot |-> NoBoot,
         mono |-> 0, trusted |-> FALSE, entry |-> 0, cur |-> 0, field |-> 0,
         arr |-> 0, slot |-> 0, prev |-> 0, n |-> 0, want |-> {}]

\* create_header and the two hash table objects of create; a fresh JournalWriter.
Init ==
  /\ data = [o \in {} |-> 0] /\ field = [o \in {} |-> 0]
  /\ entry = [o \in {} |-> 0] /\ array = [o \in {} |-> 0]
  /\ residue = [o \in {} |-> 0]
  /\ hdr = [n_objects |-> 2, tail_object |-> 2, n_entries |-> 0, n_data |-> 0,
            n_fields |-> 0, n_arrays |-> 0, entry_array |-> 0, tail_array |-> 0,
            tail_array_n |-> 0, head_seqnum |-> 0, tail_seqnum |-> 0,
            tail_boot |-> NoBoot, tail_mono |-> 0, tail_entry |-> 0]
  /\ dht = [b \in Buckets |-> [head |-> 0, tail |-> 0]]
  /\ fht = [b \in Buckets |-> [head |-> 0, tail |-> 0]]
  /\ w = [poisoned |-> FALSE, append_offset |-> 3, tail_object |-> 2,
          next_seqnum |-> 1, num_written |-> 0, since |-> 0]
  /\ cache = [n \in {} |-> 0]
  /\ pc = "idle" /\ op = NoOp /\ result = "none" /\ notified = 0 /\ acked = 0

-----------------------------------------------------------------------------
(* Helpers. *)

\* The word at position k (in 8-byte units) of an offset about to be reused.
\* initialize_mutable_object_header writes the type and the size only.
Word(o, k) ==
  IF o \in DOMAIN residue /\ k \in DOMAIN residue[o] THEN residue[o][k] ELSE 0

\* ensure_compact_object_fits.
Fits(o) == Compact => o <= CompactMax

\* Mutant: the append offset stays where it is.
ObjectAddedInPlace(ww) ==
  [ww EXCEPT !.tail_object = ww.append_offset, !.num_written = ww.num_written + 1]

\* object_added, for an object created at the append offset.
ObjectAdded(ww) ==
  [ww EXCEPT !.tail_object = ww.append_offset,
             !.append_offset = ww.append_offset + 1,
             !.num_written = ww.num_written + 1]

\* The call returns r; its locals are gone.
Return(r) == pc' = "idle" /\ op' = NoOp /\ result' = r /\ UNCHANGED <<notified, acked>>

Goto(label) == pc' = label /\ UNCHANGED caller

DataNext == [o \in DOMAIN data |-> data[o].next_hash]
FieldNext == [o \in DOMAIN field |-> field[o].next_hash]

\* find_data_match_parts: the DATA objects with payload p that the hash chain reaches.
FindData(p) ==
  {o \in Met(dht[DataBucket[p]].head, DataNext) \cap DOMAIN data : data[o].payload = p}

\* find_field_offset.
FindField(n) ==
  {o \in Met(fht[FieldBucket[n]].head, FieldNext) \cap DOMAIN field : field[o].name = n}

\* FieldCache::insert: a full cache is cleared before a new name goes in.
CacheInsert(n, o) ==
  IF Cardinality(DOMAIN cache) >= CacheMax /\ n \notin DOMAIN cache
  THEN [x \in {n} |-> o]
  ELSE Put(cache, n, o)

Max2(a, b) == IF a >= b THEN a ELSE b

\* next_entry_array_capacity.
NextCapacity(index, previous) ==
  Max2(IF index > previous THEN (index + 1) * 2 ELSE previous * 2, MinCapacity)

\* A fresh ENTRY_ARRAY with its unwritten words.
NewArray(o, capacity) ==
  [next |-> Word(o, 2), slots |-> [i \in 1..capacity |-> Word(o, i + 2)]]

-----------------------------------------------------------------------------
(* The start of a call. *)

EntrySeqnum(s) == IF s = NoSeqnum THEN w.next_seqnum ELSE s

\* entry_seqnum_for_options.
SeqnumAccepted(s) ==
  /\ EntrySeqnum(s) # 0
  /\ EntrySeqnum(s) # SeqnumMax
  /\ EntrySeqnum(s) >= w.next_seqnum

\* clamp_same_boot_monotonic; a value above MonotonicMax is its checked_add failing.
ClampMonotonic(b, m) ==
  IF hdr.n_entries = 0 \/ hdr.tail_boot # b \/ m > hdr.tail_mono
  THEN m
  ELSE hdr.tail_mono + 1

\* add_entry_fields_with_options up to prepare_entry_items.
BeginAppend(fields, s, b, m, trusted) ==
  /\ pc = "idle" /\ ~w.poisoned
  /\ hdr.n_entries < MaxEntries
  /\ SeqnumAccepted(s)
  /\ ClampMonotonic(b, m) <= MonotonicMax
  /\ op' = [NoOp EXCEPT !.todo = fields, !.seqnum = EntrySeqnum(s), !.boot = b,
                        !.mono = ClampMonotonic(b, m), !.trusted = trusted,
                        !.want = {fields[i] : i \in DOMAIN fields} \cap Payloads]
  /\ Goto("field")
  /\ UNCHANGED <<objects, hdr, tables, residue, w, cache>>

\* The early returns: nothing was touched.
RefuseOptions(s, b, m) ==
  /\ pc = "idle" /\ ~w.poisoned
  /\ ~SeqnumAccepted(s) \/ ClampMonotonic(b, m) > MonotonicMax
  /\ Return("rejected")
  /\ UNCHANGED <<objects, hdr, tables, residue, w, cache>>

RefusePoisoned ==
  /\ pc = "idle" /\ w.poisoned
  /\ Return("poisoned")
  /\ UNCHANGED <<objects, hdr, tables, residue, w, cache>>

-----------------------------------------------------------------------------
(* prepare_entry_items: one field of the request. *)

AtField == pc = "field" /\ op.todo # <<>>

Payload == Head(op.todo)

\* Mutant: the item list is restarted for every field.
AddItemOnly(o, n, arr, tail, tail_n) ==
  {[offset |-> o, copy |-> 1, n |-> n, array |-> arr, tail |-> tail, tail_n |-> tail_n]}

\* The items with a DATA item added.  The duplicates that dedup_by removes are
\* never added; the ones a trusted caller keeps are numbered.
AddItem(o, n, arr, tail, tail_n) ==
  LET copies == {it \in op.items : it.offset = o}
  IN  IF copies # {} /\ ~op.trusted THEN op.items
      ELSE op.items \cup {[offset |-> o, copy |-> Cardinality(copies) + 1, n |-> n,
                           array |-> arr, tail |-> tail, tail_n |-> tail_n]}

SkipField ==
  /\ AtField /\ Payload = Dropped
  /\ op' = [op EXCEPT !.todo = Tail(@)]
  /\ Goto("field")
  /\ UNCHANGED <<objects, hdr, tables, residue, w, cache>>

RejectField ==
  /\ AtField /\ Payload = Rejected
  /\ Return("rejected")
  /\ UNCHANGED <<objects, hdr, tables, residue, w, cache>>

\* add_data finds the payload and remembers its ResolvedDataLinkState.
ReuseData ==
  /\ AtField /\ Payload \in Payloads
  /\ \E d \in FindData(Payload) :
       op' = [op EXCEPT !.todo = Tail(@),
                        !.items = AddItem(d, data[d].n, data[d].array,
                                          data[d].tail, data[d].tail_n)]
  /\ Goto("field")
  /\ UNCHANGED <<objects, hdr, tables, residue, w, cache>>

\* Mutant: a new DATA object does not poison the writer.
StartDataHealthy ==
  /\ AtField /\ Payload \in Payloads
  /\ FindData(Payload) = {}
  /\ Ends(dht[DataBucket[Payload]].head, DataNext)
  /\ Fits(w.append_offset)
  /\ Goto("data")
  /\ UNCHANGED <<objects, hdr, tables, residue, w, cache, op>>

\* write_new_data_object up to the first possible store.
StartData ==
  /\ AtField /\ Payload \in Payloads
  /\ FindData(Payload) = {}
  /\ Ends(dht[DataBucket[Payload]].head, DataNext)
  /\ Fits(w.append_offset)
  /\ w' = [w EXCEPT !.poisoned = TRUE]
  /\ Goto("data")
  /\ UNCHANGED <<objects, hdr, tables, residue, cache, op>>

WriteData ==
  /\ pc = "data"
  /\ w.append_offset <= MaxOffset
  /\ LET o == w.append_offset
     IN  /\ data' = Put(data, o, [payload |-> Payload, next_hash |-> Word(o, 3),
                                  next_field |-> Word(o, 4), entry |-> Word(o, 5),
                                  array |-> Word(o, 6), n |-> Word(o, 7),
                                  tail |-> IF Compact THEN Word(o, 8) ELSE 0,
                                  tail_n |-> IF Compact THEN Word(o, 8) ELSE 0])
         /\ op' = [op EXCEPT !.cur = o]
  /\ w' = ObjectAdded(w)
  /\ Goto("hash_next")
  /\ UNCHANGED <<field, entry, array, hdr, tables, residue, cache>>

\* data_hash_table_set_tail_offset: the old tail first, then the bucket.
LinkDataHash ==
  /\ pc = "hash_next"
  /\ LET t == dht[DataBucket[Payload]].tail
     IN  /\ t = 0 \/ t \in DOMAIN data
         /\ data' = IF t = 0 THEN data ELSE [data EXCEPT ![t].next_hash = op.cur]
  /\ Goto("bucket")
  /\ UNCHANGED <<field, entry, array, hdr, tables, residue, w, cache, op>>

PublishDataBucket ==
  /\ pc = "bucket"
  /\ dht' = [dht EXCEPT ![DataBucket[Payload]] =
               [head |-> IF @.head = 0 THEN op.cur ELSE @.head, tail |-> op.cur]]
  /\ Goto("count_data")
  /\ UNCHANGED <<objects, hdr, fht, residue, w, cache, op>>

\* update_data_hash_chain_depth walks the whole chain, then n_data is stored.
CountData ==
  /\ pc = "count_data"
  /\ Ends(dht[DataBucket[Payload]].head, DataNext)
  /\ hdr' = [hdr EXCEPT !.n_data = @ + 1]
  /\ Goto("add_field")
  /\ UNCHANGED <<objects, tables, residue, w, cache, op>>

-----------------------------------------------------------------------------
(* add_field and link_data_to_field. *)

Name == FieldOf[Payload]

CachedField ==
  /\ pc = "add_field" /\ Name \in DOMAIN cache
  /\ op' = [op EXCEPT !.field = cache[Name]]
  /\ Goto("next_field")
  /\ UNCHANGED <<objects, hdr, tables, residue, w, cache>>

FoundField ==
  /\ pc = "add_field" /\ Name \notin DOMAIN cache
  /\ \E f \in FindField(Name) :
       /\ op' = [op EXCEPT !.field = f]
       /\ cache' = CacheInsert(Name, f)
  /\ Goto("next_field")
  /\ UNCHANGED <<objects, hdr, tables, residue, w>>

WriteField ==
  /\ pc = "add_field" /\ Name \notin DOMAIN cache
  /\ FindField(Name) = {}
  /\ Ends(fht[FieldBucket[Name]].head, FieldNext)
  /\ Fits(w.append_offset)
  /\ w.append_offset <= MaxOffset
  /\ LET o == w.append_offset
     IN  /\ field' = Put(field, o, [name |-> Name, next_hash |-> Word(o, 3),
                                    head |-> Word(o, 4)])
         /\ op' = [op EXCEPT !.field = o]
  /\ w' = ObjectAdded(w)
  /\ Goto("field_next_hash")
  /\ UNCHANGED <<data, entry, array, hdr, tables, residue, cache>>

LinkFieldHash ==
  /\ pc = "field_next_hash"
  /\ LET t == fht[FieldBucket[Name]].tail
     IN  /\ t = 0 \/ t \in DOMAIN field
         /\ field' = IF t = 0 THEN field ELSE [field EXCEPT ![t].next_hash = op.field]
  /\ Goto("field_bucket")
  /\ UNCHANGED <<data, entry, array, hdr, tables, residue, w, cache, op>>

PublishFieldBucket ==
  /\ pc = "field_bucket"
  /\ fht' = [fht EXCEPT ![FieldBucket[Name]] =
               [head |-> IF @.head = 0 THEN op.field ELSE @.head, tail |-> op.field]]
  /\ Goto("count_field")
  /\ UNCHANGED <<objects, hdr, dht, residue, w, cache, op>>

CountField ==
  /\ pc = "count_field"
  /\ Ends(fht[FieldBucket[Name]].head, FieldNext)
  /\ hdr' = [hdr EXCEPT !.n_fields = @ + 1]
  /\ cache' = CacheInsert(Name, op.field)
  /\ Goto("next_field")
  /\ UNCHANGED <<objects, tables, residue, w, op>>

\* The new DATA becomes the head of its field's list: first its own link.
SetNextField ==
  /\ pc = "next_field"
  /\ op.field \in DOMAIN field
  /\ data' = [data EXCEPT ![op.cur].next_field = field[op.field].head]
  /\ Goto("head_data")
  /\ UNCHANGED <<field, entry, array, hdr, tables, residue, w, cache, op>>

\* add_new_data returns ResolvedDataLinkState::empty() for the new object.
SetHeadData ==
  /\ pc = "head_data"
  /\ op.field \in DOMAIN field
  /\ field' = [field EXCEPT ![op.field].head = op.cur]
  /\ op' = [op EXCEPT !.todo = Tail(@), !.items = AddItem(op.cur, 0, 0, 0, 0),
                      !.cur = 0, !.field = 0]
  /\ Goto("field")
  /\ UNCHANGED <<data, entry, array, hdr, tables, residue, w, cache>>

-----------------------------------------------------------------------------
(* finish_entry_items and write_entry_object. *)

\* No field was accepted.
FinishEmpty ==
  /\ pc = "field" /\ op.todo = <<>> /\ op.items = {}
  /\ Return("rejected")
  /\ UNCHANGED <<objects, hdr, tables, residue, w, cache>>

\* Mutant: an entry of known payloads only does not poison the writer.
FinishHealthy ==
  /\ pc = "field" /\ op.todo = <<>> /\ op.items # {}
  /\ Fits(w.append_offset)
  /\ Goto("entry")
  /\ UNCHANGED <<objects, hdr, tables, residue, w, cache, op>>

Finish ==
  /\ pc = "field" /\ op.todo = <<>> /\ op.items # {}
  /\ Fits(w.append_offset)
  /\ w' = [w EXCEPT !.poisoned = TRUE]
  /\ Goto("entry")
  /\ UNCHANGED <<objects, hdr, tables, residue, cache, op>>

\* Mutant: the entry gets the boot id of the entry before it.
WriteEntryOldBoot ==
  /\ pc = "entry"
  /\ w.append_offset <= MaxOffset
  /\ LET o == w.append_offset
     IN  /\ entry' = Put(entry, o, [seqnum |-> op.seqnum, boot |-> hdr.tail_boot,
                                    mono |-> op.mono,
                                    items |-> {<<it.offset, it.copy>> : it \in op.items}])
         /\ op' = [op EXCEPT !.entry = o, !.left = op.items]
  /\ w' = ObjectAdded(w)
  /\ Goto("place")
  /\ UNCHANGED <<data, field, array, hdr, tables, residue, cache>>

WriteEntry ==
  /\ pc = "entry"
  /\ w.append_offset <= MaxOffset
  /\ LET o == w.append_offset
     IN  /\ entry' = Put(entry, o, [seqnum |-> op.seqnum, boot |-> op.boot,
                                    mono |-> op.mono,
                                    items |-> {<<it.offset, it.copy>> : it \in op.items}])
         /\ op' = [op EXCEPT !.entry = o, !.left = op.items]
  /\ w' = ObjectAdded(w)
  /\ Goto("place")
  /\ UNCHANGED <<data, field, array, hdr, tables, residue, cache>>

-----------------------------------------------------------------------------
(* append_to_entry_array: the global entry array. *)

\* allocate_new_array.
Allocate(capacity) ==
  /\ Fits(w.append_offset)
  /\ w.append_offset <= MaxOffset
  /\ array' = Put(array, w.append_offset, NewArray(w.append_offset, capacity))
  /\ w' = ObjectAdded(w)
  /\ hdr' = [hdr EXCEPT !.n_arrays = @ + 1]

GlobalWalk == TailArray(hdr.entry_array, array, hdr.n_entries + 1, TRUE)

\* entry_array_tail_offset and entry_array_tail_entries: the header's hints, or a walk.
GlobalTail == IF hdr.tail_array # 0 THEN hdr.tail_array ELSE GlobalWalk.at
GlobalUsed == IF hdr.tail_array_n # 0 THEN hdr.tail_array_n
              ELSE hdr.n_entries - GlobalWalk.before

PlaceFirst ==
  /\ pc = "place" /\ hdr.entry_array = 0
  /\ Allocate(MinCapacity)
  /\ op' = [op EXCEPT !.arr = w.append_offset, !.slot = 0]
  /\ Goto("set_slot")
  /\ UNCHANGED <<data, field, entry, tables, residue, cache>>

PlaceInTail ==
  /\ pc = "place" /\ hdr.entry_array # 0
  /\ GlobalTail \in DOMAIN array
  /\ GlobalUsed \in 0..(Len(array[GlobalTail].slots) - 1)
  /\ op' = [op EXCEPT !.arr = GlobalTail, !.slot = GlobalUsed]
  /\ Goto("set_slot")
  /\ UNCHANGED <<objects, hdr, tables, residue, w, cache>>

\* grow_entry_array_tail.
PlaceInNew ==
  /\ pc = "place" /\ hdr.entry_array # 0
  /\ GlobalTail \in DOMAIN array
  /\ GlobalUsed >= Len(array[GlobalTail].slots)
  /\ Allocate(NextCapacity(hdr.n_entries, Len(array[GlobalTail].slots)))
  /\ op' = [op EXCEPT !.arr = w.append_offset, !.slot = 0, !.prev = GlobalTail]
  /\ Goto("link_array")
  /\ UNCHANGED <<data, field, entry, tables, residue, cache>>

\* The old tail array points to the new one before the new one has an entry.
LinkArray ==
  /\ pc = "link_array"
  /\ op.prev \in DOMAIN array
  /\ array' = [array EXCEPT ![op.prev].next = op.arr]
  /\ Goto("set_slot")
  /\ UNCHANGED <<data, field, entry, hdr, tables, residue, w, cache, op>>

\* The slot is stored; what is published next depends on whose array it is.
SetSlot ==
  /\ pc = "set_slot"
  /\ op.arr \in DOMAIN array
  /\ op.slot + 1 \in DOMAIN array[op.arr].slots
  /\ array' = [array EXCEPT ![op.arr].slots[op.slot + 1] = op.entry]
  /\ Goto(CASE op.cur = 0 -> "global_header"
            [] op.cur # 0 /\ op.n = 2 -> "data_array"
            [] op.cur # 0 /\ op.n # 2 /\ Compact -> "data_tail"
            [] op.cur # 0 /\ op.n # 2 /\ ~Compact -> "data_count")
  /\ UNCHANGED <<data, field, entry, hdr, tables, residue, w, cache, op>>

\* Mutant: the entry is counted before its postings are linked.
GlobalHeaderCounts ==
  /\ pc = "global_header"
  /\ hdr' = [hdr EXCEPT !.entry_array = IF @ = 0 THEN op.arr ELSE @,
                        !.tail_array = op.arr % TailModulus,
                        !.tail_array_n = op.slot + 1, !.n_entries = @ + 1]
  /\ op' = [op EXCEPT !.arr = 0, !.slot = 0, !.prev = 0]
  /\ Goto("link")
  /\ UNCHANGED <<objects, tables, residue, w, cache>>

\* The header's tail array offset is stored "as u32".
GlobalHeader ==
  /\ pc = "global_header"
  /\ hdr' = [hdr EXCEPT !.entry_array = IF @ = 0 THEN op.arr ELSE @,
                        !.tail_array = op.arr % TailModulus,
                        !.tail_array_n = op.slot + 1]
  /\ op' = [op EXCEPT !.arr = 0, !.slot = 0, !.prev = 0]
  /\ Goto("link")
  /\ UNCHANGED <<objects, tables, residue, w, cache>>

-----------------------------------------------------------------------------
(* link_data_to_entry: the postings of one DATA item, in offset order. *)

\* The next item; linking starts with a read of its DATA object.
NextItem(it) ==
  /\ it \in op.left /\ it.offset \in DOMAIN data
  /\ \A j \in op.left : \/ it.offset < j.offset
                        \/ it.offset = j.offset /\ it.copy <= j.copy

\* Mutant: a repeated item uses the link state of the first lookup.
LinkStateRemembered(it) == it

\* The link state found with the payload, or (a repeated item) the one on disk.
LinkState(it) ==
  IF it.copy = 1 THEN it
  ELSE [it EXCEPT !.n = data[it.offset].n, !.array = data[it.offset].array,
                  !.tail = data[it.offset].tail, !.tail_n = data[it.offset].tail_n]

\* append_to_data_entry_array_tail takes the compact hint unless it is unusable.
HintUsable(v) ==
  /\ Compact /\ v.tail # 0 /\ v.tail_n # 0
  /\ v.tail_n <= v.n - 1
  /\ v.tail \in DOMAIN array
  /\ array[v.tail].next = 0
  /\ v.tail_n <= Len(array[v.tail].slots)

\* append_data_entry_array_link_tail: the array to append to and its used slots.
DataTail(v) ==
  IF HintUsable(v) THEN [at |-> v.tail, used |-> v.tail_n]
  ELSE LET t == TailArray(v.array, array, v.n - 1, FALSE)
       IN  [at |-> t.at, used |-> v.n - 1 - t.before]

\* Mutant: the loop over the items does not move on.
LinkFirstAgain(it) ==
  /\ pc = "link" /\ NextItem(it) /\ LinkState(it).n = 0
  /\ data' = [data EXCEPT ![it.offset].entry = op.entry]
  /\ op' = [op EXCEPT !.cur = it.offset, !.n = 1]
  /\ Goto("data_count")
  /\ UNCHANGED <<field, entry, array, hdr, tables, residue, w, cache>>

\* link_data_first_entry: the inline posting, and then the count.
LinkFirst(it) ==
  /\ pc = "link" /\ NextItem(it) /\ LinkState(it).n = 0
  /\ data' = [data EXCEPT ![it.offset].entry = op.entry]
  /\ op' = [op EXCEPT !.cur = it.offset, !.n = 1, !.left = @ \ {it}]
  /\ Goto("data_count")
  /\ UNCHANGED <<field, entry, array, hdr, tables, residue, w, cache>>

\* promote_data_entry_array.
LinkSecond(it) ==
  /\ pc = "link" /\ NextItem(it) /\ LinkState(it).n = 1
  /\ Allocate(MinCapacity)
  /\ op' = [op EXCEPT !.cur = it.offset, !.n = 2, !.left = @ \ {it},
                      !.arr = w.append_offset, !.slot = 0]
  /\ Goto("set_slot")
  /\ UNCHANGED <<data, field, entry, tables, residue, cache>>

LinkInTail(it) ==
  /\ pc = "link" /\ NextItem(it)
  /\ LET v == LinkState(it)
         t == DataTail(v)
     IN  /\ v.n >= 2 /\ v.array # 0
         /\ t.at \in DOMAIN array
         /\ t.used \in 0..(Len(array[t.at].slots) - 1)
         /\ op' = [op EXCEPT !.cur = it.offset, !.n = v.n + 1, !.left = @ \ {it},
                             !.arr = t.at, !.slot = t.used]
  /\ Goto("set_slot")
  /\ UNCHANGED <<objects, hdr, tables, residue, w, cache>>

LinkInNew(it) ==
  /\ pc = "link" /\ NextItem(it)
  /\ LET v == LinkState(it)
         t == DataTail(v)
     IN  /\ v.n >= 2 /\ v.array # 0
         /\ t.at \in DOMAIN array
         /\ t.used >= Len(array[t.at].slots)
         /\ Allocate(NextCapacity(v.n - 1, Len(array[t.at].slots)))
         /\ op' = [op EXCEPT !.cur = it.offset, !.n = v.n + 1, !.left = @ \ {it},
                             !.arr = w.append_offset, !.slot = 0, !.prev = t.at]
  /\ Goto("link_array")
  /\ UNCHANGED <<data, field, entry, tables, residue, cache>>

LinkItem == \E it \in op.left : LinkFirst(it) \/ LinkSecond(it) \/ LinkInTail(it) \/ LinkInNew(it)

\* Mutant: the array is allocated and the DATA object never learns of it.
DataArrayForgotten ==
  /\ pc = "data_array"
  /\ Goto(IF Compact THEN "data_tail" ELSE "data_count")
  /\ UNCHANGED <<objects, hdr, tables, residue, w, cache, op>>

DataArray ==
  /\ pc = "data_array"
  /\ data' = [data EXCEPT ![op.cur].array = op.arr]
  /\ Goto(IF Compact THEN "data_tail" ELSE "data_count")
  /\ UNCHANGED <<field, entry, array, hdr, tables, residue, w, cache, op>>

\* set_compact_data_tail.
DataHint ==
  /\ pc = "data_tail"
  /\ data' = [data EXCEPT ![op.cur].tail = op.arr, ![op.cur].tail_n = op.slot + 1]
  /\ Goto("data_count")
  /\ UNCHANGED <<field, entry, array, hdr, tables, residue, w, cache, op>>

DataCount ==
  /\ pc = "data_count"
  /\ data' = [data EXCEPT ![op.cur].n = op.n]
  /\ op' = [op EXCEPT !.cur = 0, !.n = 0, !.arr = 0, !.slot = 0, !.prev = 0]
  /\ Goto("link")
  /\ UNCHANGED <<field, entry, array, hdr, tables, residue, w, cache>>

Linked ==
  /\ pc = "link" /\ op.left = {}
  /\ Goto("commit_objects")
  /\ UNCHANGED <<objects, hdr, tables, residue, w, cache, op>>

-----------------------------------------------------------------------------
(* entry_added: the header stores that commit the entry, in program order. *)

CommitObjects ==
  /\ pc = "commit_objects"
  /\ hdr' = [hdr EXCEPT !.n_objects = @ + w.num_written]
  /\ Goto("commit_tail_object")
  /\ UNCHANGED <<objects, tables, residue, w, cache, op>>

CommitTailObject ==
  /\ pc = "commit_tail_object"
  /\ hdr' = [hdr EXCEPT !.tail_object = w.tail_object]
  /\ Goto("commit_head")
  /\ UNCHANGED <<objects, tables, residue, w, cache, op>>

CommitHead ==
  /\ pc = "commit_head"
  /\ hdr' = [hdr EXCEPT !.head_seqnum = IF @ = 0 THEN op.seqnum ELSE @]
  /\ Goto("commit_tail")
  /\ UNCHANGED <<objects, tables, residue, w, cache, op>>

CommitTail ==
  /\ pc = "commit_tail"
  /\ hdr' = [hdr EXCEPT !.tail_seqnum = op.seqnum, !.tail_mono = op.mono,
                        !.tail_boot = op.boot]
  /\ Goto("commit_tail_entry")
  /\ UNCHANGED <<objects, tables, residue, w, cache, op>>

CommitTailEntry ==
  /\ pc = "commit_tail_entry"
  /\ hdr' = [hdr EXCEPT !.tail_entry = op.entry]
  /\ Goto("commit_count")
  /\ UNCHANGED <<objects, tables, residue, w, cache, op>>

\* Mutant: the next sequence number ignores the one the caller chose.
CommitCountByOne ==
  /\ pc = "commit_count"
  /\ hdr' = [hdr EXCEPT !.n_entries = @ + 1]
  /\ w' = [w EXCEPT !.next_seqnum = @ + 1, !.num_written = 0]
  /\ Goto("publish")
  /\ UNCHANGED <<objects, tables, residue, cache, op>>

\* Mutant: the entry count is not stored.
CommitCountForgotten ==
  /\ pc = "commit_count"
  /\ w' = [w EXCEPT !.next_seqnum = op.seqnum + 1, !.num_written = 0]
  /\ Goto("publish")
  /\ UNCHANGED <<objects, hdr, tables, residue, cache, op>>

\* n_entries makes the entry visible; the writer's own counters follow.
CommitCount ==
  /\ pc = "commit_count"
  /\ hdr' = [hdr EXCEPT !.n_entries = @ + 1]
  /\ w' = [w EXCEPT !.next_seqnum = op.seqnum + 1, !.num_written = 0]
  /\ Goto("publish")
  /\ UNCHANGED <<objects, tables, residue, cache, op>>

\* Mutant: the entry at hand is not counted.
DueLate == PublishEvery = 1 \/ (PublishEvery >= 2 /\ w.since >= PublishEvery)

\* publish_after_entry: this append calls post_change.
Due == PublishEvery = 1 \/ (PublishEvery >= 2 /\ w.since + 1 >= PublishEvery)

SinceAfter == IF PublishEvery < 2 THEN w.since ELSE IF Due THEN 0 ELSE w.since + 1

Publish ==
  /\ pc = "publish"
  /\ w' = [w EXCEPT !.poisoned = FALSE, !.since = SinceAfter]
  /\ notified' = IF Due THEN hdr.n_entries ELSE notified
  /\ acked' = acked + 1
  /\ pc' = "idle" /\ op' = NoOp /\ result' = "ok"
  /\ UNCHANGED <<objects, hdr, tables, residue, cache>>

\* Mutant: the flag is cleared before post_change.
FailPublishHealthy ==
  /\ pc = "publish" /\ Due
  /\ w' = [w EXCEPT !.since = SinceAfter, !.poisoned = FALSE]
  /\ Return("io")
  /\ UNCHANGED <<objects, hdr, tables, residue, cache>>

\* post_change fails: the entry is in the file, the caller is told otherwise.
FailPublish ==
  /\ pc = "publish" /\ Due
  /\ w' = [w EXCEPT !.since = SinceAfter]
  /\ Return("io")
  /\ UNCHANGED <<objects, hdr, tables, residue, cache>>

-----------------------------------------------------------------------------
(* The ways out of a running append. *)

Commits == {"commit_objects", "commit_tail_object", "commit_head", "commit_tail",
            "commit_tail_entry", "commit_count"}

\* Mutant: the failing call takes back the entry object it has written.
FailAppendUndo ==
  /\ pc \notin Commits \cup {"idle", "publish"}
  /\ Return("io")
  /\ entry' = [o \in DOMAIN entry \ {op.entry} |-> entry[o]]
  /\ UNCHANGED <<data, field, array, hdr, tables, residue, w, cache>>

\* A window cannot be mapped, the file cannot grow, the write lock is lost.
FailAppend ==
  /\ pc \notin Commits \cup {"idle", "publish"}
  /\ Return("io")
  /\ UNCHANGED <<objects, hdr, tables, residue, w, cache>>

\* ObjectExceedsFileBounds: the compact format has no room for the next object.
Creates ==
  \/ AtField /\ Payload \in Payloads /\ FindData(Payload) = {}
  \/ pc = "field" /\ op.todo = <<>> /\ op.items # {}
  \/ pc = "add_field" /\ Name \notin DOMAIN cache /\ FindField(Name) = {}
  \/ /\ pc = "place"
     /\ \/ hdr.entry_array = 0
        \/ /\ GlobalTail \in DOMAIN array
           /\ GlobalUsed >= Len(array[GlobalTail].slots)
  \/ /\ pc = "link"
     /\ \E it \in op.left :
          /\ NextItem(it)
          /\ \/ LinkState(it).n = 1
             \/ /\ LinkState(it).n >= 2 /\ LinkState(it).array # 0
                /\ DataTail(LinkState(it)).at \in DOMAIN array
                /\ DataTail(LinkState(it)).used >=
                     Len(array[DataTail(LinkState(it)).at].slots)

Overflow ==
  /\ Creates /\ ~Fits(w.append_offset)
  /\ Return("full")
  /\ UNCHANGED <<objects, hdr, tables, residue, w, cache>>

\* The step meets a link that leads nowhere, in a circle or to a wrong object.
Damaged ==
  \/ /\ AtField /\ Payload \in Payloads /\ FindData(Payload) = {}
     /\ ~Ends(dht[DataBucket[Payload]].head, DataNext)
  \/ pc = "hash_next" /\ dht[DataBucket[Payload]].tail \notin DOMAIN data \cup {0}
  \/ pc = "count_data" /\ ~Ends(dht[DataBucket[Payload]].head, DataNext)
  \/ /\ pc = "add_field" /\ Name \notin DOMAIN cache /\ FindField(Name) = {}
     /\ ~Ends(fht[FieldBucket[Name]].head, FieldNext)
  \/ pc = "field_next_hash" /\ fht[FieldBucket[Name]].tail \notin DOMAIN field \cup {0}
  \/ pc = "count_field" /\ ~Ends(fht[FieldBucket[Name]].head, FieldNext)
  \/ pc \in {"next_field", "head_data"} /\ op.field \notin DOMAIN field
  \/ pc = "place" /\ hdr.entry_array # 0 /\ GlobalTail \notin DOMAIN array
  \/ /\ pc = "link"
     /\ \E it \in op.left :
          /\ NextItem(it) /\ LinkState(it).n >= 2
          /\ \/ LinkState(it).array = 0
             \/ DataTail(LinkState(it)).at \notin DOMAIN array

\* The error return for it.  A writer never meets damage in a file it has built by
\* itself (NoDamageMet), so this is a step of WriterRecovery and not of Next.
MeetDamage ==
  /\ Damaged
  /\ Return("corrupt")
  /\ UNCHANGED <<objects, hdr, tables, residue, w, cache>>

-----------------------------------------------------------------------------

Call ==
  \/ \E fields \in Requests, s \in SeqnumOptions, b \in Boots, m \in Monotonics,
        trusted \in TrustedOptions : BeginAppend(fields, s, b, m, trusted)
  \/ \E s \in SeqnumOptions, b \in Boots, m \in Monotonics : RefuseOptions(s, b, m)
  \/ RefusePoisoned

\* What the writer's thread does inside a call when nothing fails.
Step ==
  \/ SkipField \/ RejectField \/ ReuseData \/ StartData \/ WriteData
  \/ LinkDataHash \/ PublishDataBucket \/ CountData
  \/ CachedField \/ FoundField \/ WriteField \/ LinkFieldHash \/ PublishFieldBucket
  \/ CountField \/ SetNextField \/ SetHeadData
  \/ FinishEmpty \/ Finish \/ WriteEntry
  \/ PlaceFirst \/ PlaceInTail \/ PlaceInNew \/ LinkArray \/ SetSlot \/ GlobalHeader
  \/ LinkItem \/ DataArray \/ DataHint \/ DataCount \/ Linked
  \/ CommitObjects \/ CommitTailObject \/ CommitHead \/ CommitTail
  \/ CommitTailEntry \/ CommitCount \/ Publish
  \/ Overflow

Fail == FailAppend \/ FailPublish

Next == Call \/ Step \/ Fail

Spec == Init /\ [][Next]_vars

\* A call runs on its caller's thread until it returns.
FairSpec == Spec /\ WF_vars(Step)

-----------------------------------------------------------------------------
(* Types. *)

DataObject == [payload : Payloads, next_hash : Nat, next_field : Nat, entry : Nat,
               array : Nat, n : Nat, tail : Nat, tail_n : Nat]
FieldObject == [name : Names, next_hash : Nat, head : Nat]
EntryObject == [seqnum : Nat, boot : Boots, mono : Nat, items : SUBSET (Nat \X Nat)]
ArrayObject == [next : Nat, slots : Seq(Nat)]
HashItem == [head : Nat, tail : Nat]
Item == [offset : Nat, copy : Nat, n : Nat, array : Nat, tail : Nat, tail_n : Nat]

Header == [n_objects : Nat, tail_object : Nat, n_entries : Nat, n_data : Nat,
           n_fields : Nat, n_arrays : Nat, entry_array : Nat, tail_array : Nat,
           tail_array_n : Nat, head_seqnum : Nat, tail_seqnum : Nat,
           tail_boot : Boots \cup {NoBoot}, tail_mono : Nat, tail_entry : Nat]

Writer == [poisoned : BOOLEAN, append_offset : Nat, tail_object : Nat,
           next_seqnum : Nat, num_written : Nat, since : Nat]

Locals == [todo : Seq(Payloads \cup {Rejected, Dropped}), items : SUBSET Item,
           left : SUBSET Item, seqnum : Nat, boot : Boots \cup {NoBoot}, mono : Nat,
           trusted : BOOLEAN, entry : Nat, cur : Nat, field : Nat, arr : Nat,
           slot : Nat, prev : Nat, n : Nat, want : SUBSET Payloads]

\* The steps that work on the field at the head of op.todo.
FieldSteps == {"data", "hash_next", "bucket", "count_data", "add_field",
               "field_next_hash", "field_bucket", "count_field", "next_field",
               "head_data"}

\* The steps between the ENTRY object and the header stores.
LinkSteps == {"place", "link_array", "set_slot", "global_header", "link",
              "data_array", "data_tail", "data_count"}

Labels == {"idle", "field", "entry", "publish"} \cup FieldSteps \cup LinkSteps \cup Commits

ObjectsOK ==
  /\ DOMAIN data \subseteq Offsets /\ data \in [DOMAIN data -> DataObject]
  /\ DOMAIN field \subseteq Offsets /\ field \in [DOMAIN field -> FieldObject]
  /\ DOMAIN entry \subseteq Offsets /\ entry \in [DOMAIN entry -> EntryObject]
  /\ DOMAIN array \subseteq Offsets /\ array \in [DOMAIN array -> ArrayObject]

HeaderOK ==
  /\ hdr \in Header
  /\ dht \in [Buckets -> HashItem] /\ fht \in [Buckets -> HashItem]

ResidueOK == \A o \in DOMAIN residue : \A k \in DOMAIN residue[o] : residue[o][k] \in Nat

WriterOK ==
  /\ w \in Writer /\ w.append_offset >= 3
  /\ DOMAIN cache \subseteq Names /\ cache \in [DOMAIN cache -> Nat]

\* A step on a field has a payload to work on, a running append a boot id.
CallOK ==
  /\ pc \in Labels
  /\ op \in Locals /\ IsFiniteSet(op.items)
  /\ pc \in FieldSteps => op.todo # <<>> /\ Head(op.todo) \in Payloads
  /\ pc # "idle" => op.boot \in Boots
  /\ result \in {"none", "ok", "rejected", "poisoned", "io", "full", "corrupt"}
  /\ notified \in Nat /\ acked \in Nat

(***************************************************************************)
(* The type invariant of the file, the writer and the running append.      *)
(***************************************************************************)
TypeOK == ObjectsOK /\ HeaderOK /\ ResidueOK /\ WriterOK /\ CallOK

-----------------------------------------------------------------------------
(* Safety properties that need no walk of the file. *)

(***************************************************************************)
(* Sequence numbers grow with file offsets over all ENTRY objects, also    *)
(* those that no reader sees; a writer that accepts appends will number    *)
(* the next entry above all of them; neither 0 nor u64::MAX is ever stored *)
(* (entry_seqnum_for_options and entry_added).                             *)
(***************************************************************************)
SeqnumOrder ==
  /\ \A e1, e2 \in DOMAIN entry : e1 < e2 => entry[e1].seqnum < entry[e2].seqnum
  /\ \A e \in DOMAIN entry : entry[e].seqnum # 0 /\ entry[e].seqnum # SeqnumMax
  /\ (pc = "idle" /\ ~w.poisoned) => \A e \in DOMAIN entry : entry[e].seqnum < w.next_seqnum

(***************************************************************************)
(* Between calls, a writer that accepts appends has published every object *)
(* it created: the header's object count and tail object cover the arena   *)
(* up to the append offset, and no object lies beyond (object_added,       *)
(* entry_added and the poisoned flag).                                     *)
(***************************************************************************)
HealthyArenaPublished ==
  (pc = "idle" /\ ~w.poisoned) =>
    /\ hdr.n_objects + 1 = w.append_offset
    /\ hdr.tail_object + 1 = w.append_offset
    /\ DOMAIN data \cup DOMAIN field \cup DOMAIN entry \cup DOMAIN array
         = 3..hdr.tail_object

(***************************************************************************)
(* No store to the file happens while the writer would still accept        *)
(* another append if the store were the last thing to succeed ("Errors     *)
(* after the first possible file or publication-state mutation MUST poison *)
(* writers", product-scope.md; poisoned in writer.rs).                     *)
(***************************************************************************)
StorePoisoned == <<objects, hdr, tables>>' # <<objects, hdr, tables>> => w.poisoned /\ w'.poisoned

StoresPoisoned == [][StorePoisoned]_vars

(***************************************************************************)
(* Nothing the writer does changes or drops an ENTRY object once it is     *)
(* written: linking, growing arrays, failing and later appends leave it    *)
(* alone.                                                                  *)
(***************************************************************************)
EntryWriteOnce ==
  \A e \in DOMAIN entry : e \in DOMAIN entry' /\ entry'[e] = entry[e]

EntriesWriteOnce == [][EntryWriteOnce]_vars

-----------------------------------------------------------------------------
(* The inductive invariants behind these properties. *)

\* Past the first store of a call the writer is poisoned.
PoisonCover == pc \notin {"idle", "field"} => w.poisoned

\* The steps after n_objects, and after the tail object, are stored.
ObjectsStored == {"commit_tail_object", "commit_head", "commit_tail", "commit_tail_entry",
                  "commit_count", "publish"}
TailStored == ObjectsStored \ {"commit_tail_object"}

(***************************************************************************)
(* The arena is dense up to the append offset, and the objects that are    *)
(* not in the header's count are the ones in num_written_objects.          *)
(***************************************************************************)
ArenaInv ==
  /\ PoisonCover
  /\ w.tail_object + 1 = w.append_offset
  /\ DOMAIN data \cup DOMAIN field \cup DOMAIN entry \cup DOMAIN array
       = 3..(w.append_offset - 1)
  /\ ~w.poisoned => /\ hdr.n_objects + 1 = w.append_offset
                    /\ hdr.tail_object + 1 = w.append_offset
                    /\ w.num_written = 0
  /\ (w.poisoned /\ pc \notin {"idle"} \cup ObjectsStored) =>
       hdr.n_objects + w.num_written + 1 = w.append_offset
  /\ pc \in ObjectsStored => hdr.n_objects + 1 = w.append_offset
  /\ pc \in TailStored => hdr.tail_object + 1 = w.append_offset
  /\ pc = "publish" => w.num_written = 0

(***************************************************************************)
(* All stored sequence numbers are below the one of the append at hand, or *)
(* (once the entry is written) do not exceed it.                           *)
(***************************************************************************)
SeqnumInv ==
  /\ PoisonCover
  /\ \A e \in DOMAIN entry : e < w.append_offset
  /\ \A e1, e2 \in DOMAIN entry : e1 < e2 => entry[e1].seqnum < entry[e2].seqnum
  /\ \A e \in DOMAIN entry : entry[e].seqnum # 0 /\ entry[e].seqnum # SeqnumMax
  /\ ~w.poisoned \/ pc = "publish" => \A e \in DOMAIN entry : entry[e].seqnum < w.next_seqnum
  /\ pc \in {"field", "entry"} \cup FieldSteps =>
       /\ op.seqnum # 0 /\ op.seqnum # SeqnumMax
       /\ \A e \in DOMAIN entry : entry[e].seqnum < op.seqnum
  /\ pc \in LinkSteps \cup Commits => \A e \in DOMAIN entry : entry[e].seqnum <= op.seqnum
=============================================================================
