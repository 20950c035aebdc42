-------------------------- MODULE IndexedSnapshot --------------------------
(***************************************************************************)
(* IndexedSnapshot (journal, indexed_snapshot.rs): a bounded view of the   *)
(* native index that is captured while the caller excludes the writer and  *)
(* is traversed while the writer appends again.  The reader shares nothing *)
(* with the writer but the file.  Each action is one read of the file, so  *)
(* that the stores of the writer fall between any two of them.             *)
(*                                                                         *)
(* The reader goes through mapped or copied windows.  A copied window may  *)
(* still hold the zero that a pointer or a slot was at the capture, while  *)
(* a count is read live ("A live count can be newer than a copied pointer  *)
(* or slot"); required_posting bypasses the window.                        *)
(***************************************************************************)
EXTENDS WriterProperties

VARIABLES
  snap,   \* the captured header, entry_tail, FIELD heads; the log as a reference
  rpc,    \* what the reader does
  r       \* locals of the running visit

rvars == <<snap, rpc, r>>

NoVisit == [kind |-> "none", what |-> "none", at |-> 0, prev |-> 0, next_value |-> 0,
            array |-> 0, remaining |-> 0, last |-> 0, next |-> 0,
            chunk |-> <<>>, i |-> 0, out |-> <<>>]

NoSnapshot == [tail_object |-> 0, n_entries |-> 0, entry_array |-> 0, entry_tail |-> 0,
               heads |-> [n \in {} |-> 0], counts |-> [p \in {} |-> 0], log |-> <<>>]

SnapshotInit == snap = NoSnapshot /\ rpc = "closed" /\ r = NoVisit

-----------------------------------------------------------------------------
(* open, while the caller excludes the writer. *)

\* array_tail: the last array of the first count slots, its used slots, the last entry.
ArrayTail(head, count) ==
  LET t == TailArray(head, WalkedArray, count, FALSE)
  IN  [array |-> t.at, used |-> count - t.before,
       entry |-> array[t.at].slots[count - t.before]]

\* array_tail succeeds; of every array it looks at the last used slot only.
ArrayTailOk(head, count) ==
  IF count = 0 THEN head = 0
  ELSE LET chain == ChainArrays(head, count)
           last == ArrayTail(head, count)
       IN  /\ chain \subseteq ArrayW
           /\ \A a \in chain \ {last.array} : /\ array[a].next > a
                                              /\ array[a].slots[Len(array[a].slots)] \in EntryW
           /\ last.entry \in EntryW

\* capture_entry_bounds.
EntryBoundsOk ==
  /\ ArrayTailOk(hdr.entry_array, hdr.n_entries)
  /\ IF hdr.n_entries = 0 THEN EmptyMetadata
     ELSE LET last == ArrayTail(hdr.entry_array, hdr.n_entries)
              e == entry[last.entry]
          IN  /\ hdr.tail_entry = last.entry
              /\ hdr.tail_array = last.array /\ hdr.tail_array_n = last.used
              /\ e.seqnum = hdr.tail_seqnum /\ e.mono = hdr.tail_mono
              /\ e.boot = hdr.tail_boot

\* The links of a hash chain up to the object looked for stay within the bounds.
ChainBoundsOk(chain, found, next, walked) ==
  \A o \in {x \in chain : \A y \in found : x <= y} :
    o \in walked /\ (next[o] = 0 \/ next[o] \in (o + 1)..hdr.tail_object)

\* find_field for a captured name; 0 when the file does not have it.
FieldHead(n) == IF FindField(n) = {} THEN 0
                ELSE field[CHOOSE f \in FindField(n) : TRUE].head

FieldBoundsOk(n) ==
  /\ ChainBoundsOk(Met(fht[FieldBucket[n]].head, FieldNext), FindField(n), FieldNext, FieldW)
  /\ FindField(n) # {} => FieldHead(n) \in DataW

\* find_data and capture_postings for a captured value.
ValueCount(p) == IF FindData(p) = {} THEN 0 ELSE data[CHOOSE d \in FindData(p) : TRUE].n

ValueBoundsOk(p) ==
  /\ ChainBoundsOk(Met(dht[DataBucket[p]].head, DataNext), FindData(p), DataNext, DataW)
  /\ \A d \in FindData(p) :
       /\ data[d].n \in 1..hdr.n_entries
       /\ data[d].entry \in EntryW /\ data[d].entry <= hdr.tail_entry
       /\ ArrayTailOk(data[d].array, data[d].n - 1)
       /\ IF data[d].n = 1 THEN Compact => data[d].tail = 0 /\ data[d].tail_n = 0
          ELSE LET last == ArrayTail(data[d].array, data[d].n - 1)
               IN  /\ last.entry <= hdr.tail_entry
                   /\ Compact => data[d].tail = last.array /\ data[d].tail_n = last.used

\* All names and all payloads are captured.
Capture ==
  /\ rpc = "closed" /\ pc = "idle"
  /\ ArenaValid /\ EntryBoundsOk
  /\ \A n \in Names : FieldBoundsOk(n)
  /\ \A p \in Payloads : ValueBoundsOk(p)
  /\ snap' = [tail_object |-> hdr.tail_object, n_entries |-> hdr.n_entries,
              entry_array |-> hdr.entry_array, entry_tail |-> hdr.tail_entry,
              heads |-> [n \in Names |-> FieldHead(n)],
              counts |-> [p \in Payloads |-> ValueCount(p)], log |-> Committed]
  /\ rpc' = "ready" /\ UNCHANGED r

\* open fails.
Refuse ==
  /\ rpc = "closed" /\ pc = "idle"
  /\ ~ /\ ArenaValid /\ EntryBoundsOk
       /\ \A n \in Names : FieldBoundsOk(n)
       /\ \A p \in Payloads : ValueBoundsOk(p)
  /\ rpc' = "refused" /\ UNCHANGED <<snap, r>>

-----------------------------------------------------------------------------
(* The traversals. *)

Error == rpc' = "error" /\ UNCHANGED <<snap, r>>
Done == rpc' = "done" /\ UNCHANGED <<snap, r>>

\* The value is visited: the next one of the field, or the end.
ValueDone(out) ==
  IF r.kind = "field"
  THEN /\ r' = [NoVisit EXCEPT !.kind = "field", !.what = r.what, !.at = r.next_value,
                               !.prev = r.prev, !.out = out]
       /\ rpc' = "value" /\ UNCHANGED snap
  ELSE r' = [r EXCEPT !.out = out] /\ rpc' = "done" /\ UNCHANGED snap

\* check_object.
InBounds(o, objs) == o <= snap.tail_object /\ o \in DOMAIN objs

\* check_entry, and the items of the entry that visit_payloads reads.
EmitOk(e) ==
  /\ e <= snap.entry_tail /\ InBounds(e, entry)
  /\ \A it \in entry[e].items : InBounds(it[1], data)

VisitMatch(p) ==
  /\ rpc = "ready"
  /\ r' = [NoVisit EXCEPT !.kind = "match", !.what = p, !.at = dht[DataBucket[p]].head]
  /\ rpc' = "find" /\ UNCHANGED snap

VisitField(n) ==
  /\ rpc = "ready"
  /\ r' = [NoVisit EXCEPT !.kind = "field", !.what = n, !.at = snap.heads[n], !.prev = Junk]
  /\ rpc' = "value" /\ UNCHANGED snap

VisitEntries ==
  /\ rpc = "ready"
  /\ r' = [NoVisit EXCEPT !.kind = "entries", !.at = snap.entry_array,
                          !.remaining = snap.n_entries]
  /\ rpc' = "array" /\ UNCHANGED snap

\* find_data, one object of the hash chain: the chain may have grown past the bounds.
FindValue ==
  /\ rpc = "find"
  /\ IF r.at = 0 \/ r.at > snap.tail_object THEN Done
     ELSE IF r.at <= r.prev \/ r.at \notin DOMAIN data THEN Error
     ELSE IF data[r.at].payload = r.what
          THEN rpc' = "count" /\ UNCHANGED <<snap, r>>
          ELSE /\ r' = [r EXCEPT !.prev = r.at, !.at = data[r.at].next_hash]
               /\ UNCHANGED <<snap, rpc>>

\* visit_field, one DATA object of the captured list.
NextValue ==
  /\ rpc = "value"
  /\ IF r.at = 0 THEN Done
     ELSE IF r.at >= r.prev \/ ~InBounds(r.at, data) THEN Error
     ELSE IF FieldOf[data[r.at].payload] # r.what THEN Error
     ELSE /\ r' = [r EXCEPT !.next_value = data[r.at].next_field, !.prev = r.at]
          /\ rpc' = "count" /\ UNCHANGED snap

\* A word read through a window: one stored after the capture may still be zero.
Windowed(x, bound) == IF x > bound THEN {x, 0} ELSE {x}

\* postings: the count ...
ReadCount ==
  /\ rpc = "count"
  /\ r' = [r EXCEPT !.remaining = data[r.at].n]
  /\ rpc' = "links" /\ UNCHANGED snap

\* ... and then the two links; visit_data emits the inline posting.
ReadLinks ==
  /\ rpc = "links"
  /\ LET e == data[r.at].entry
     IN  IF r.remaining = 0 \/ e = 0 THEN Error
         ELSE IF e > snap.entry_tail THEN ValueDone(r.out)
         ELSE IF ~EmitOk(e) THEN Error
         ELSE IF r.remaining = 1 THEN ValueDone(Append(r.out, e))
         ELSE /\ \E a \in Windowed(data[r.at].array, snap.tail_object) :
                   r' = [r EXCEPT !.remaining = @ - 1, !.array = a, !.last = e,
                                  !.out = Append(@, e)]
              /\ rpc' = "first_array" /\ UNCHANGED snap

\* Mutant: a zero pointer is read again through the same window.
FirstArrayRetry ==
  /\ rpc = "first_array"
  /\ IF r.array = 0
     THEN /\ r' = [r EXCEPT !.out = SubSeq(@, 1, Len(@) - 1)]
          /\ rpc' = "count" /\ UNCHANGED snap
     ELSE /\ r' = [r EXCEPT !.at = r.array, !.array = 0]
          /\ rpc' = "array" /\ UNCHANGED snap

\* required_posting: a zero that must not be one is read again.
FirstArray ==
  /\ rpc = "first_array"
  /\ LET a == IF r.array # 0 THEN r.array ELSE data[r.at].array
     IN  IF a = 0 THEN Error
         ELSE /\ r' = [r EXCEPT !.at = a, !.array = 0]
              /\ rpc' = "array" /\ UNCHANGED snap

\* Visits of postings are clipped at the captured bounds, the global one is not.
Clip == r.kind # "entries"

\* Mutant: arrays are clipped at the last entry instead of the last object.
VisitArrayEntryTail ==
  /\ rpc = "array"
  /\ IF r.remaining = 0 THEN ValueDone(r.out)
     ELSE LET a == IF r.at # 0 THEN r.at
                   ELSE IF Clip /\ r.array # 0 THEN array[r.array].next ELSE 0
          IN  IF a = 0 THEN Error
              ELSE IF Clip /\ a > snap.entry_tail THEN ValueDone(r.out)
              ELSE IF a <= r.array \/ ~InBounds(a, array) THEN Error
              ELSE /\ \E x \in Windowed(array[a].next, snap.tail_object) :
                        r' = [r EXCEPT !.array = a, !.next = x]
                   /\ rpc' = "chunk" /\ UNCHANGED snap

\* visit_array, one array: posting_array_offset, the bounds and the header.
VisitArray ==
  /\ rpc = "array"
  /\ IF r.remaining = 0 THEN ValueDone(r.out)
     ELSE LET a == IF r.at # 0 THEN r.at
                   ELSE IF Clip /\ r.array # 0 THEN array[r.array].next ELSE 0
          IN  IF a = 0 THEN Error
              ELSE IF Clip /\ a > snap.tail_object THEN ValueDone(r.out)
              ELSE IF a <= r.array \/ ~InBounds(a, array) THEN Error
              ELSE /\ \E x \in Windowed(array[a].next, snap.tail_object) :
                        r' = [r EXCEPT !.array = a, !.next = x]
                   /\ rpc' = "chunk" /\ UNCHANGED snap

\* The used slots of the array are copied.
CopyChunk ==
  /\ rpc = "chunk"
  /\ LET slots == array[r.array].slots
         used == IF r.remaining <= Len(slots) THEN r.remaining ELSE Len(slots)
     IN  \E stale \in BOOLEAN :
           r' = [r EXCEPT !.chunk = [i \in 1..used |->
                                       IF stale /\ slots[i] > snap.entry_tail THEN 0
                                       ELSE slots[i]],
                          !.i = 1]
  /\ rpc' = "emit" /\ UNCHANGED snap

\* One slot of the copy: posting_slot reads a zero again.
EmitSlot ==
  /\ rpc = "emit"
  /\ IF r.i > Len(r.chunk)
     THEN /\ r' = [r EXCEPT !.remaining = @ - Len(r.chunk), !.chunk = <<>>,
                            !.at = r.next, !.i = 0]
          /\ rpc' = "array" /\ UNCHANGED snap
     ELSE LET e == IF r.chunk[r.i] # 0 THEN r.chunk[r.i]
                   ELSE IF Clip THEN array[r.array].slots[r.i] ELSE 0
          IN  IF e = 0 \/ e <= r.last THEN Error
              ELSE IF Clip /\ e > snap.entry_tail THEN ValueDone(r.out)
              ELSE IF ~EmitOk(e) THEN Error
              ELSE /\ r' = [r EXCEPT !.i = @ + 1, !.last = e, !.out = Append(@, e)]
                   /\ UNCHANGED <<snap, rpc>>

ReaderStep ==
  \/ FindValue \/ NextValue \/ ReadLinks \/ ReadCount \/ FirstArray
  \/ VisitArray \/ CopyChunk \/ EmitSlot

Reader ==
  \/ Capture \/ Refuse
  \/ \E p \in Payloads : VisitMatch(p)
  \/ \E n \in Names : VisitField(n)
  \/ VisitEntries
  \/ ReaderStep

SnapshotNext == (Next /\ UNCHANGED rvars) \/ (Reader /\ UNCHANGED vars)

SnapshotSpec ==
  /\ Init /\ SnapshotInit
  /\ [][SnapshotNext]_<<vars, rvars>>
  /\ WF_<<vars, rvars>>(ReaderStep /\ UNCHANGED vars)

-----------------------------------------------------------------------------

(***************************************************************************)
(* A visit of a captured snapshot never reports damage, wherever appends   *)
(* (and failed appends) fall between its reads, also when the file was     *)
(* captured behind a poisoned writer; and the file of a writer that is not *)
(* poisoned is never refused.                                              *)
(***************************************************************************)
NoSnapshotError == rpc # "error" /\ (rpc = "refused" => w.poisoned)

\* How often e occurs in a sequence of entries.
Times(e, s) == Cardinality({i \in DOMAIN s : s[i] = e})

(***************************************************************************)
(* A finished visit emitted the captured population and nothing else: all  *)
(* entries in order; the entries that hold the value in order; for a field *)
(* every entry once per value of the field that it holds.  The captured    *)
(* count of a value is the number of entries emitted for it.  Entries that *)
(* were committed after the capture are never seen.                        *)
(***************************************************************************)
VisitExact ==
  rpc = "done" =>
    CASE r.kind = "entries" -> r.out = snap.log
      [] r.kind = "match" ->
           /\ r.out = SelectSeq(snap.log, LAMBDA e : r.what \in Content(e).payloads)
           /\ Len(r.out) = snap.counts[r.what]
      [] r.kind = "field" ->
           /\ {r.out[i] : i \in DOMAIN r.out} \subseteq {snap.log[i] : i \in DOMAIN snap.log}
           /\ \A i \in DOMAIN snap.log :
                Times(snap.log[i], r.out)
                  = Cardinality({p \in Content(snap.log[i]).payloads : FieldOf[p] = r.what})

(***************************************************************************)
(* Every visit ends although the writer may go on appending.               *)
(***************************************************************************)
VisitEnds == (rpc \notin {"closed", "refused", "ready"}) ~> (rpc \in {"done", "error"})

(***************************************************************************)
(* A snapshot of a file that its writer keeps appending to is never        *)
(* refused or failed without cause, and its visit meets exactly the        *)
(* entries it captured.                                                    *)
(***************************************************************************)
SnapshotExact ==
  /\ NoSnapshotError
  /\ VisitExact
=============================================================================
