------------------------------- MODULE RowView -------------------------------
(* A journal file that one process appends to and another reads, each through *)
(* its own window manager: the guarded objects of JournalFile (file.rs,       *)
(* file_mut.rs, guarded_cell.rs) and the current row of a reader             *)
(* (row_view.rs, file_payload.rs), whose payloads are pointers into windows.  *)
EXTENDS MappedWindows

CONSTANTS
    Layout,        \* the objects of the file, in the order they are appended
    HeaderSize,    \* units of the file header
    Prefix,        \* units of an object header
    Increase,      \* the arena grows in steps of this size
    Existing,      \* objects the file holds when it is opened
    Managers,      \* <<strategy, chunk, max>> of a writer and
                   \* <<mode, strategy, chunk, max>> of a reader
    MaxChunks,     \* decompressed payloads a row keeps at most, a bound
    TouchSet,      \* objects the writer opens again
    ReadSet        \* objects the reader opens beside its row

EndOf(k) == Layout[k].off + Layout[k].size

\* Objects do not overlap, and an entry is written after the data it points to;
\* a manager has a chunk size and room for a window (mmap.rs asserts both).
ASSUME MappingAssumption ==
    /\ {HeaderSize, Prefix, Increase} \subseteq Nat \ {0}
    /\ Layout \in Seq([off : Nat, size : Nat, kind : {"data", "entry", "other"},
                       compressed : BOOLEAN, items : Seq(Nat)])
    /\ Existing \in DOMAIN Layout
    /\ Layout[1].off >= HeaderSize
    /\ \A k \in DOMAIN Layout :
          /\ Layout[k].size > Prefix
          /\ \A i \in DOMAIN Layout[k].items : Layout[k].items[i] \in 1..(k - 1)
    /\ \A j, k \in DOMAIN Layout : j < k => EndOf(j) <= Layout[k].off
    /\ \A s \in Managers :
          /\ s.w \in {"windowed", "whole"} \X (Nat \ {0}) \X (Nat \ {0})
          /\ s.r \in {"live", "snapshot"} \X {"windowed", "whole"} \X (Nat \ {0}) \X (Nat \ {0})
    /\ TouchSet \cup ReadSet \subseteq DOMAIN Layout

VARIABLES
    mwLen,      \* the real length of the file
    mwArena,    \* the end of the arena, as the shared header announces it
    mwVisible,  \* number of objects that the writer has added
    wr,         \* the writer's window manager
    wrGuard,    \* the object the writer holds, 0 for none
    rd,         \* the reader's window manager
    rdGuard,    \* the object the reader holds, 0 for none
    row,        \* the reader's current row
    held,       \* the payload pointers of the row that are still promised
    mwGrown     \* whether the file has grown since the reader opened it

mwVars == <<mwLen, mwArena, mwVisible, wr, wrGuard, rd, rdGuard, row, held, mwGrown>>

RoundUp(n) == ((n + Increase - 1) \div Increase) * Increase

\* A row that holds no entry.
NoRow == [entry |-> 0, items |-> <<>>, next |-> 1, arenaEnd |-> 0, active |-> FALSE,
          chunks |-> 0, pinsActive |-> FALSE]

MappingInit ==
    /\ mwLen = RoundUp(EndOf(Existing))
    /\ mwArena = mwLen
    /\ mwVisible = Existing
    /\ \E s \in Managers :
          /\ wr = NewManager("owned", s.w[1], s.w[2], s.w[3], mwLen)
          /\ rd = NewManager(s.r[1], s.r[2], s.r[3], s.r[4], mwLen)
    /\ wrGuard = 0
    /\ rdGuard = 0
    /\ row = NoRow
    /\ held = {}
    /\ mwGrown = FALSE

-----------------------------------------------------------------------------
(* Objects through the guarded manager. *)

\* journal_object_ref: the object header first, to learn the size; then the
\* object, if it ends within the announced arena.
ObjectRef(m, len, k) ==
    Using(GetSlice(m, len, Layout[k].off, Prefix), LAMBDA head :
    IF ~head.ok \/ EndOf(k) > mwArena THEN [head EXCEPT !.ok = FALSE]
    ELSE GetSlice(head.m, len, Layout[k].off, Layout[k].size))

\* initialize_mutable_object_header and the slice of the new object.
NewObject(m, len, k) ==
    Using(GetSliceMut(m, len, Layout[k].off, Prefix), LAMBDA head :
    GetSliceMut(head.m, head.len, Layout[k].off, Layout[k].size))

\* existing_mutable_object_size and the slice of an object of the arena.
ExistingObject(m, len, k) ==
    Using(GetSlice(m, len, Layout[k].off, Prefix), LAMBDA head :
    IF ~head.ok \/ EndOf(k) > mwArena THEN [head EXCEPT !.ok = FALSE]
    ELSE GetSliceMut(head.m, head.len, Layout[k].off, Layout[k].size))

\* The windows and the file as an operation of the writer left them.
WriterLeft(o) ==
    /\ wr' = o.m
    /\ mwLen' = o.len
    /\ mwGrown' = (mwGrown \/ o.len > mwLen)

\* The writer initializes the next object and holds it.
WriteObject ==
    /\ wrGuard = 0
    /\ mwVisible + 1 \in DOMAIN Layout
    /\ WriterLeft(NewObject(wr, mwLen, mwVisible + 1))
    /\ wrGuard' = mwVisible + 1
    /\ UNCHANGED <<mwArena, mwVisible, rd, rdGuard, row, held>>

\* The writer opens an object of the file to read or to relink it; the chunk
\* around an object at the end of a cut file extends the file again.
TouchObject(k) ==
    /\ wrGuard = 0
    /\ k <= mwVisible
    /\ \E o \in {ExistingObject(wr, mwLen, k)} : WriterLeft(o) /\ wrGuard' = (IF o.ok THEN k ELSE 0)
    /\ UNCHANGED <<mwArena, mwVisible, rd, rdGuard, row, held>>

\* The writer lets go of its object; a new object is added to the file
\* (object_added), which announces a larger arena before the file has it.
WriterRelease ==
    /\ wrGuard # 0
    /\ wrGuard' = 0
    /\ mwVisible' = Max({mwVisible, wrGuard})
    /\ mwArena' = IF EndOf(wrGuard) > mwArena THEN RoundUp(EndOf(wrGuard)) ELSE mwArena
    /\ UNCHANGED <<mwLen, wr, rd, rdGuard, row, held, mwGrown>>

\* JournalFile::post_change and sync: &mut self, so no object is held.
PostChange ==
    /\ wrGuard = 0
    /\ WriterLeft(PostChangeManager(wr, mwArena))
    /\ UNCHANGED <<mwArena, mwVisible, wrGuard, rd, rdGuard, row, held>>

Sync ==
    /\ wrGuard = 0
    /\ WriterLeft(SyncManager(wr, mwArena))
    /\ UNCHANGED <<mwArena, mwVisible, wrGuard, rd, rdGuard, row, held>>

\* The reader opens an object of another row, an array or a field, and holds it.
ReadObject(k) ==
    /\ rdGuard = 0
    /\ k <= mwVisible
    /\ \E o \in {ObjectRef(rd, mwLen, k)} : rd' = o.m /\ rdGuard' = (IF o.ok THEN k ELSE 0)
    /\ UNCHANGED <<mwLen, mwArena, mwVisible, wr, wrGuard, row, held, mwGrown>>

\* visit_data_payload_at: the visitor sees the payload inside the call, so
\* nothing is held afterwards and the row's pins are untouched.
VisitPayload(k) ==
    /\ rdGuard = 0
    /\ k <= mwVisible
    /\ Layout[k].kind = "data"
    /\ rd' = ObjectRef(rd, mwLen, k).m
    /\ UNCHANGED <<mwLen, mwArena, mwVisible, wr, wrGuard, rdGuard, row, held, mwGrown>>

\* read_bytes_at: a copy of the bytes, nothing is held.
ReadBytes(k) ==
    /\ rdGuard = 0
    /\ k <= mwVisible
    /\ rd' = GetSlice(rd, mwLen, Layout[k].off, Layout[k].size).m
    /\ UNCHANGED <<mwLen, mwArena, mwVisible, wr, wrGuard, rdGuard, row, held, mwGrown>>

\* A ValueGuard is dropped (drop_guards).
ReaderRelease ==
    /\ rdGuard # 0
    /\ rdGuard' = 0
    /\ UNCHANGED <<mwLen, mwArena, mwVisible, wr, wrGuard, rd, row, held, mwGrown>>

-----------------------------------------------------------------------------
(* The current row. *)

\* clear_pins: nothing to do without pins; refused while an object is held.
ClearPins ==
    [ok   |-> ~row.pinsActive \/ rdGuard = 0,
     m    |-> IF row.pinsActive /\ rdGuard = 0 THEN ClearRowPins(rd) ELSE rd,
     held |-> IF row.pinsActive /\ rdGuard # 0 THEN held ELSE {},
     pins |-> row.pinsActive /\ rdGuard # 0]

Cleared(r) == [r EXCEPT !.active = FALSE, !.next = 1, !.chunks = 0]

\* load_entry: the row is emptied first; a refused or failed read of the entry
\* leaves the old entry without its data offsets.
LoadEntry(k) ==
    LET c     == ClearPins
        empty == [row EXCEPT !.pinsActive = FALSE, !.chunks = 0, !.items = <<>>]
    IN  /\ k <= mwVisible
        /\ Layout[k].kind = "entry"
        /\ c.ok
        /\ held' = c.held
        /\ \/ /\ rdGuard # 0
              /\ row' = empty
              /\ rd' = c.m
           \/ /\ rdGuard = 0
              /\ \E o \in {ObjectRef(c.m, mwLen, k)} :
                   /\ rd' = o.m
                   /\ row' = IF ~o.ok THEN empty
                             ELSE [NoRow EXCEPT !.entry = k, !.items = Layout[k].items,
                                                !.arenaEnd = mwArena]
        /\ UNCHANGED <<mwLen, mwArena, mwVisible, wr, wrGuard, rdGuard, mwGrown>>

\* restart_data: the decompressed payloads are dropped, the pins are not.
RestartData ==
    /\ row.entry # 0
    /\ row' = [row EXCEPT !.next = 1, !.active = TRUE, !.chunks = 0]
    /\ UNCHANGED <<mwLen, mwArena, mwVisible, wr, wrGuard, rd, rdGuard, held, mwGrown>>

\* raw_data_payload_ptr_row_pinned_if_uncompressed: the header of the DATA
\* object, checked against the arena end kept with the row; then the payload.
PayloadPtr(d) ==
    Using(GetSlice(rd, mwLen, Layout[d].off, Prefix), LAMBDA head :
    IF ~head.ok \/ EndOf(d) > row.arenaEnd THEN [head EXCEPT !.ok = FALSE]
    ELSE IF Layout[d].compressed THEN [head EXCEPT !.idx = 0]
    ELSE GetRowPinnedSlice(head.m, mwLen, Layout[d].off, Layout[d].size))

\* read_next_payload and read_payload_at: a pointer into a pinned window or a
\* copy, or, for compressed data, a chunk of the row's arena.  The guard the
\* decompression holds is dropped before the call returns.
ReadPayload(d, r) ==
    /\ rdGuard = 0
    /\ row.chunks < MaxChunks
    /\ \E ptr \in {PayloadPtr(d)} :
         \/ /\ ptr.ok /\ Layout[d].compressed
            /\ \E data \in {ObjectRef(ptr.m, mwLen, d)} :
                 /\ rd' = data.m
                 /\ row' = IF data.ok THEN [r EXCEPT !.chunks = @ + 1] ELSE r
            /\ UNCHANGED held
         \/ /\ ~(ptr.ok /\ Layout[d].compressed)
            /\ rd' = ptr.m
            /\ row' = IF ptr.ok THEN [r EXCEPT !.pinsActive = TRUE] ELSE r
            /\ held' = IF ptr.ok THEN held \cup {[data |-> d, copy |-> ptr.idx = 0]} ELSE held
    /\ UNCHANGED <<mwLen, mwArena, mwVisible, wr, wrGuard, rdGuard, mwGrown>>

ReadNextPayload ==
    /\ row.next <= Len(row.items)
    /\ ReadPayload(row.items[row.next], [row EXCEPT !.next = @ + 1, !.active = TRUE])

ReadPayloadAt ==
    /\ row.entry # 0
    /\ \E i \in DOMAIN row.items : ReadPayload(row.items[i], row)

\* reset_data_state: nothing happens when the pins cannot be cleared.
ResetDataState ==
    LET c == ClearPins
    IN  /\ c.ok
        /\ rd' = c.m
        /\ held' = c.held
        /\ row' = [Cleared(row) EXCEPT !.pinsActive = FALSE]
        /\ UNCHANGED <<mwLen, mwArena, mwVisible, wr, wrGuard, rdGuard, mwGrown>>

\* clear_current_best_effort, before every seek: the row is emptied even when
\* the pins stay, and the row remembers that they do.
ClearCurrentBestEffort ==
    LET c == ClearPins
    IN  /\ rd' = c.m
        /\ held' = c.held
        /\ row' = [NoRow EXCEPT !.pinsActive = c.pins]
        /\ UNCHANGED <<mwLen, mwArena, mwVisible, wr, wrGuard, rdGuard, mwGrown>>

\* Another reader opens the file as it stands, with the header of a writer that
\* may have announced more than the file holds yet.
OpenReader ==
    /\ rd' = NewManager(rd.mode, rd.strategy, rd.chunk, rd.max, mwLen)
    /\ HeaderSize <= Min({mwArena, mwLen})
    /\ rdGuard' = 0
    /\ row' = NoRow
    /\ held' = {}
    /\ mwGrown' = FALSE
    /\ UNCHANGED <<mwLen, mwArena, mwVisible, wr, wrGuard>>

WriterStep == WriteObject \/ WriterRelease \/ PostChange \/ Sync
              \/ \E k \in TouchSet : TouchObject(k)

ReaderStep == OpenReader \/ ReaderRelease \/ RestartData \/ ReadNextPayload \/ ReadPayloadAt
              \/ ResetDataState \/ ClearCurrentBestEffort
              \/ (\E k \in ReadSet : ReadObject(k) \/ VisitPayload(k) \/ ReadBytes(k))
              \/ \E k \in DOMAIN Layout : LoadEntry(k)

MappingNext == WriterStep \/ ReaderStep

MappingSpec == MappingInit /\ [][MappingNext]_mwVars

-----------------------------------------------------------------------------
(* Properties. *)

\* Every payload pointer of the current row stays good until the row releases
\* its pins, whatever else is read through the same manager meanwhile: its
\* window is still mapped, pinned and covers the payload, or its copy is kept.
\* (A whole-file mapping promises this for a file that does not grow.)
RowDataValid ==
    \/ rd.strategy = "whole" /\ mwGrown
    \/ \A p \in held :
          LET d == p.data
          IN  IF p.copy THEN Layout[d].off \in rd.copies
              ELSE \E i \in DOMAIN rd.windows :
                      /\ Layout[d].off \in rd.windows[i].refs
                      /\ rd.windows[i].pinned
                      /\ Covers(rd.windows[i], Layout[d].off, Layout[d].size)

\* The mapped memory is bounded: at most one window more than the limit, never
\* more pinned windows than the limit, and the pin count is exact.
WindowBudget ==
    \A m \in {rd, wr} :
        LET pinned == {i \in DOMAIN m.windows : m.windows[i].pinned}
        IN  /\ Len(m.windows) <= m.max + 1
            /\ m.pins = Cardinality(pinned)
            /\ m.pins <= m.max

\* No access leaves the file: the writer's windows lie within the file when it
\* writes through them, and every object or payload that a reader of another
\* process holds stays within it, across every growth and cut of the file.
MappedBacked ==
    /\ \A i \in DOMAIN wr.windows : RangeEnd(wr.windows[i]) <= mwLen
    /\ wr.retained <= mwLen
    /\ wrGuard # 0 => EndOf(wrGuard) <= mwLen
    /\ rdGuard # 0 => EndOf(rdGuard) <= mwLen
    /\ \A p \in held : EndOf(p.data) <= mwLen

\* A row that has no pins to release leaves none behind: no window stays pinned
\* and no copy stays allocated for a row that is gone.
PinsReleased ==
    ~row.pinsActive => /\ rd.pins = 0
                       /\ rd.copies = {}
                       /\ \A i \in DOMAIN rd.windows : ~rd.windows[i].pinned

CoveredBy(o, k) == o.ok /\ Covers(o.m.windows[o.idx], Layout[k].off, Layout[k].size)
\* In whatever order windows were mapped, widened, pinned and evicted, every
\* object that the writer has added can be read by both sides (in a snapshot,
\* every object that it holds), through a window that covers it.
ObjectsReadable ==
    \A k \in 1..mwVisible :
        /\ CoveredBy(ExistingObject(wr, mwLen, k), k)
        /\ \/ rd.mode = "snapshot" /\ EndOf(k) > rd.retained
           \/ CoveredBy(ObjectRef(rd, mwLen, k), k)

(***************************************************************************)
(* The mapping windows under a writer and a reader of one file: what is    *)
(* asked for and exists can be read, what a row has handed out stays valid *)
(* until the row is left and is released then, and the windows stay within *)
(* their budget and the file.                                              *)
(***************************************************************************)
MappingSound ==
  /\ ObjectsReadable
  /\ RowDataValid
  /\ PinsReleased
  /\ WindowBudget
  /\ MappedBacked
=============================================================================
