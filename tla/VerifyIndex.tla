---------------------------- MODULE VerifyIndex ----------------------------
(***************************************************************************)
(* The two verifiers of one journal file (journal, verify_graph.rs with    *)
(* verify_graph/walk.rs, validation.rs and strict.rs) as predicates of the *)
(* file's content: verify_index, which is strict, and the object graph     *)
(* verifier, which shares the walk with it and has index checks of its     *)
(* own.                                                                    *)
(*                                                                         *)
(* Both walk the objects up to the header's tail object and never look     *)
(* behind it.                                                              *)
(***************************************************************************)
EXTENDS JournalWriter

Walked(objs) == {o \in DOMAIN objs : o <= hdr.tail_object}

DataW == Walked(data)
FieldW == Walked(field)
EntryW == Walked(entry)
ArrayW == Walked(array)

\* valid_offset.
ValidOffset(o) == o <= hdr.tail_object

\* JournalHeader::validate_empty_entry_metadata.
EmptyMetadata ==
  hdr.n_entries = 0 =>
    /\ hdr.head_seqnum = 0 /\ hdr.entry_array = 0
    /\ hdr.tail_mono = 0 /\ hdr.tail_boot = NoBoot
    /\ hdr.tail_array = 0 /\ hdr.tail_array_n = 0 /\ hdr.tail_entry = 0

\* validate_empty_entry_metadata and validated_arena_end with the counts of
\* validate_header_population and validate_array_population.
ArenaValid ==
  /\ EmptyMetadata
  /\ hdr.n_entries + 2 + hdr.n_data + hdr.n_fields + hdr.n_arrays <= hdr.n_objects
  /\ Cardinality({hdr.entry_array, hdr.tail_array} \ {0}) <= hdr.n_arrays
  /\ hdr.entry_array <= hdr.tail_array
  /\ hdr.entry_array = 0 => hdr.tail_array = 0
  /\ (hdr.tail_array = 0) = (hdr.tail_array_n = 0)
  /\ hdr.tail_array_n <= hdr.n_entries
  /\ hdr.tail_array <= hdr.tail_object /\ hdr.tail_entry <= hdr.tail_object

\* parse_data and validate_data_object.
WalkData ==
  \A d \in DataW :
    /\ (data[d].entry = 0) = (data[d].n = 0)
    /\ (data[d].array = 0) = (data[d].n < 2)
    /\ \A o \in {data[d].next_hash, data[d].next_field, data[d].entry, data[d].array} :
         ValidOffset(o)

\* parse_data, strict: no payload has two DATA objects.
WalkUnique == \A c, d \in DataW : data[c].payload = data[d].payload => c = d

\* parse_entry and the checks of its items.
WalkEntries ==
  \A e \in EntryW :
    /\ entry[e].seqnum # 0 /\ entry[e].items # {}
    /\ \A it \in entry[e].items : ValidOffset(it[1])

\* parse_field.
WalkFields == \A f \in FieldW : ValidOffset(field[f].next_hash) /\ ValidOffset(field[f].head)

\* parse_hash_table, for both tables.
WalkTables ==
  \A b \in Buckets : \A item \in {dht[b], fht[b]} :
    /\ (item.head = 0) = (item.tail = 0)
    /\ ValidOffset(item.head) /\ ValidOffset(item.tail)

\* parse_entry_array.
WalkArrays ==
  \A a \in ArrayW :
    /\ ValidOffset(array[a].next)
    /\ \A i \in DOMAIN array[a].slots : ValidOffset(array[a].slots[i])

WalkObjects == WalkData /\ WalkEntries /\ WalkFields /\ WalkTables /\ WalkArrays

\* The entry before e in the walk.
Before(e) == {c \in EntryW : c < e}
LastOf(S) == CHOOSE x \in S : \A y \in S : y <= x
FirstOf(S) == CHOOSE x \in S : \A y \in S : x <= y

\* validate_entry_seqnum_order, validate_entry_monotonic_order, validate_walk_result.
WalkOrder ==
  EntryW # {} =>
    /\ entry[FirstOf(EntryW)].seqnum = hdr.head_seqnum
    /\ entry[LastOf(EntryW)].seqnum = hdr.tail_seqnum
    /\ entry[LastOf(EntryW)].boot = hdr.tail_boot =>
         entry[LastOf(EntryW)].mono = hdr.tail_mono
    /\ \A e \in EntryW : Before(e) # {} =>
         LET p == LastOf(Before(e))
         IN  /\ entry[p].seqnum < entry[e].seqnum
             /\ entry[p].boot = entry[e].boot => entry[p].mono <= entry[e].mono

\* validate_header_counts and validate_main_entry_array_presence.
HeaderCounts ==
  /\ hdr.n_objects = hdr.tail_object
  /\ hdr.n_entries = Cardinality(EntryW)
  /\ hdr.n_data = Cardinality(DataW)
  /\ hdr.n_fields = Cardinality(FieldW)
  /\ hdr.n_arrays = Cardinality(ArrayW)
  /\ hdr.entry_array # 0 => hdr.entry_array \in ArrayW
  /\ hdr.n_entries # 0 => hdr.entry_array # 0

\* validate_tail_metadata.
TailMetadata ==
  EntryW # {} =>
    LET tail == CHOOSE e \in EntryW : \A c \in EntryW : entry[c].seqnum <= entry[e].seqnum
    IN  /\ hdr.tail_seqnum = entry[tail].seqnum
        /\ hdr.tail_mono = entry[tail].mono /\ hdr.tail_boot = entry[tail].boot
        /\ hdr.tail_entry = tail
        /\ \A c \in EntryW : hdr.head_seqnum <= entry[c].seqnum

ArrayNext == [a \in ArrayW |-> array[a].next]
WalkedArray == [a \in ArrayW |-> array[a]]

\* The arrays that hold the first count postings of a chain.
ChainArrays(head, count) ==
  LET at == Visit(head, ArrayNext)
      used[i \in DOMAIN at] ==
        IF i = 0 THEN 0
        ELSE used[i - 1] + (IF at[i - 1] \in ArrayW THEN Len(array[at[i - 1]].slots) ELSE 0)
  IN  {at[i] : i \in {j \in DOMAIN at : used[j] < count}}

\* The first count postings of a chain.
Postings(head, count) == SubSeq(Flatten(head, WalkedArray), 1, count)

Increasing(s) == \A i \in 2..Len(s) : s[i - 1] < s[i]

\* walk_entry_array_chain succeeds.
GraphChain(head, count) ==
  /\ (count = 0) = (head = 0)
  /\ count > 0 =>
       LET arrays == ChainArrays(head, count)
           slots == Flatten(head, WalkedArray)
       IN  /\ arrays \subseteq ArrayW
           /\ \A a \in arrays : array[a].next # 0 => array[a].next > a
           /\ Len(slots) >= count
           /\ \A i \in 1..count : slots[i] \in EntryW

\* strict_array_chain, without the check for sharing; hint is {} when the format
\* has none.
StrictChain(head, count, hint) ==
  /\ GraphChain(head, count)
  /\ count = 0 => \A h \in hint : h = <<0, 0>>
  /\ count > 0 =>
       LET slots == Flatten(head, WalkedArray)
           last == LastOf(ChainArrays(head, count))
           used == count - (Len(slots) - Len(array[last].slots))
       IN  /\ array[last].next = 0
           /\ \A h \in hint : h = <<last, used>>
           /\ \A i \in (count + 1)..Len(slots) : slots[i] = 0

\* strict_data_indexes and validate_data_postings.
StrictData ==
  /\ \A b \in Buckets :
       LET chain == Met(dht[b].head, DataNext)
       IN  /\ Ends(dht[b].head, DataNext)
           /\ chain \subseteq DataW
           /\ \A d \in chain : /\ DataBucket[data[d].payload] = b
                               /\ data[d].next_hash # 0 => data[d].next_hash > d
           /\ IF chain = {} THEN dht[b].tail = 0 ELSE dht[b].tail = LastOf(chain)
  /\ DataW = UNION {Met(dht[b].head, DataNext) : b \in Buckets}
  /\ \A d \in DataW :
       /\ data[d].n # 0
       /\ data[d].entry \in EntryW
       /\ StrictChain(data[d].array, data[d].n - 1,
                      IF Compact THEN {<<data[d].tail, data[d].tail_n>>} ELSE {})
       /\ Increasing(<<data[d].entry>> \o Postings(data[d].array, data[d].n - 1))

\* All postings of a DATA object.
PostingsOfData(d) == <<data[d].entry>> \o Postings(data[d].array, data[d].n - 1)

\* How many of the first i entries of the global array hold DATA object d.
Cursor(entries, d, i) ==
  Cardinality({j \in 1..i : \E it \in entry[entries[j]].items : it[1] = d})

\* validate_entry_reverse_links and validate_entry_reverse_link: a DATA object's cursor
\* is advanced by each entry that holds it and meets that entry, and ends at its count.
StrictReverse ==
  LET entries == Postings(hdr.entry_array, hdr.n_entries)
  IN  /\ Increasing(entries)
      /\ \A i \in DOMAIN entries : \A it \in entry[entries[i]].items :
           /\ it[1] \in DataW
           /\ Cursor(entries, it[1], i) \in 1..data[it[1]].n
           /\ PostingsOfData(it[1])[Cursor(entries, it[1], i)] = entries[i]
      /\ \A d \in DataW : Cursor(entries, d, Len(entries)) = data[d].n

\* strict_array_chain's HashSet: no array is shared, none is an orphan.
StrictArrays ==
  LET owners == {<<hdr.entry_array, hdr.n_entries>>}
                  \cup {<<data[d].array, data[d].n - 1>> : d \in DataW}
      owned(c) == IF c[2] = 0 THEN {} ELSE ChainArrays(c[1], c[2])
  IN  /\ ArrayW = UNION {owned(c) : c \in owners}
      /\ Cardinality({d \in DataW : data[d].n > 1})
           = Cardinality({data[d].array : d \in {c \in DataW : data[c].n > 1}})
      /\ \A c1, c2 \in owners : c1 # c2 => owned(c1) \cap owned(c2) = {}

\* validate_strict_field_indexes and validate_field_data_chain.
FieldData == [d \in DataW |-> data[d].next_field]
StrictFields ==
  /\ \A b \in Buckets :
       LET chain == Met(fht[b].head, FieldNext)
       IN  /\ Ends(fht[b].head, FieldNext)
           /\ chain \subseteq FieldW
           /\ \A f \in chain : /\ FieldBucket[field[f].name] = b
                               /\ field[f].next_hash # 0 => field[f].next_hash > f
           /\ IF chain = {} THEN fht[b].tail = 0 ELSE fht[b].tail = LastOf(chain)
  /\ FieldW = UNION {Met(fht[b].head, FieldNext) : b \in Buckets}
  /\ \A f, g \in FieldW : field[f].name = field[g].name => f = g
  /\ \A f \in FieldW :
       LET chain == Met(field[f].head, FieldData)
       IN  /\ field[f].head # 0
           /\ Ends(field[f].head, FieldData)
           /\ \A d \in chain : /\ d \in DataW
                               /\ FieldOf[data[d].payload] = field[f].name
                               /\ data[d].next_field < d
  /\ DataW = UNION {Met(field[f].head, FieldData) : f \in FieldW}

\* verify_index_source.
VerifyIndexOk ==
  /\ EmptyMetadata
  /\ WalkObjects /\ WalkUnique
  /\ WalkOrder
  /\ HeaderCounts
  /\ TailMetadata
  /\ StrictChain(hdr.entry_array, hdr.n_entries, {<<hdr.tail_array, hdr.tail_array_n>>})
  /\ StrictData
  /\ StrictReverse
  /\ StrictArrays
  /\ StrictFields

-----------------------------------------------------------------------------
(* The object graph verifier, verify_object_graph_source. *)

\* Mutant: the inline posting is looked for in the array once more.
GraphPostingsAll(d) ==
  data[d].n # 0 =>
    /\ data[d].entry \in EntryW
    /\ GraphChain(data[d].array, data[d].n)
    /\ Increasing(<<data[d].entry>> \o Postings(data[d].array, data[d].n))

\* validate_data_entry_array.
GraphPostings(d) ==
  data[d].n # 0 =>
    /\ data[d].entry \in EntryW
    /\ GraphChain(data[d].array, data[d].n - 1)
    /\ Increasing(<<data[d].entry>> \o Postings(data[d].array, data[d].n - 1))

\* validate_data_hash_table, and validate_data_hash_bucket_item for each DATA object.
GraphBuckets ==
  \A b \in Buckets :
    LET chain == Met(dht[b].head, DataNext)
    IN  /\ Ends(dht[b].head, DataNext) /\ chain \subseteq DataW
        /\ \A d \in chain : /\ DataBucket[data[d].payload] = b
                            /\ GraphPostings(d)
                            /\ data[d].next_hash # 0 => data[d].next_hash > d
        /\ dht[b].tail = IF chain = {} THEN 0 ELSE LastOf(chain)

\* data_references_entry, an error of its walk included.
References(d, e) ==
  \/ data[d].entry = e
  \/ /\ GraphChain(data[d].array, data[d].n - 1)
     /\ \E i \in 1..(data[d].n - 1) : Postings(data[d].array, data[d].n - 1)[i] = e

\* validate_global_entry_array with validate_entry_data_links: of the last entry the
\* postings may still be missing.
GraphEntries ==
  /\ GraphChain(hdr.entry_array, hdr.n_entries)
  /\ LET entries == Postings(hdr.entry_array, hdr.n_entries)
     IN  /\ Increasing(entries)
         /\ \A i \in DOMAIN entries : \A it \in entry[entries[i]].items :
              /\ it[1] \in DataW
              /\ it[1] \in Met(dht[DataBucket[data[it[1]].payload]].head, DataNext)
              /\ References(it[1], entries[i]) \/ i = Len(entries)

\* verify with strict off.
VerifyGraphOk ==
  WalkObjects /\ WalkOrder /\ HeaderCounts /\ TailMetadata /\ GraphEntries /\ GraphBuckets
=============================================================================
