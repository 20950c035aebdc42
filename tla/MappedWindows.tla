---------------------------- MODULE MappedWindows ----------------------------
(* The window manager that maps a journal file piece by piece               *)
(* (journal-core/src/file/mmap.rs).  A manager keeps at most a few mapped    *)
(* windows, remaps and evicts them on demand, and keeps the windows pinned   *)
(* that the payloads of the current row point into.  Positions and sizes are *)
(* counted in units; what a window shows is the file itself, so a window is  *)
(* its place, its pin and, as history, the payloads handed out from it.      *)
EXTENDS Integers, Sequences, FiniteSets, FiniteSetsExt, SequencesExt

\* A manager just opened over a file of length `len`.
NewManager(mode, strategy, chunk, max, len) ==
    [mode |-> mode, strategy |-> strategy, chunk |-> chunk, max |-> max,
     cached |-> len, retained |-> len, windows |-> <<>>, active |-> 0,
     pins |-> 0, copies |-> {}]

\* Forget every window, pin and copy of the row.
ClearWindows(m) ==
    [m EXCEPT !.windows = <<>>, !.active = 0, !.pins = 0, !.copies = {}]

\* The result of an operation: whether it succeeded, the manager it leaves, the
\* length of the file it leaves and the index of the window it found.
Done(m, len, i) == [ok |-> TRUE, m |-> m, len |-> len, idx |-> i]
Failed(m, len)  == [ok |-> FALSE, m |-> m, len |-> len, idx |-> 0]

\* Op of what an earlier step left.
Using(v, Op(_)) == Op(v)

RangeEnd(w) == w.off + w.size

Covers(w, pos, size) == w.off <= pos /\ pos + size <= RangeEnd(w)

Includes(w, pos) == w.off <= pos /\ pos < RangeEnd(w)

\* ensure_cached_file_contains: a live file is measured again before a range
\* past the cached size is refused.
Ensure(m, len, end) ==
    IF end <= m.cached THEN Done(m, len, 0)
    ELSE IF m.mode # "live" THEN Failed(m, len)
    ELSE [Done([m EXCEPT !.cached = len], len, 0) EXCEPT !.ok = end <= len]

AlignedStart(m, pos) == (pos \div m.chunk) * m.chunk
AlignedEnd(m, pos)   == ((pos + m.chunk - 1) \div m.chunk) * m.chunk

\* create_window and push_window: a reader's window ends with the cached file,
\* the writer's window extends the file first.
PushWindow(m, len, start, end) ==
    Using(IF m.mode = "live" /\ start >= m.cached THEN [m EXCEPT !.cached = len]
          ELSE IF m.mode = "owned" /\ end > m.cached THEN [m EXCEPT !.cached = end]
          ELSE m, LAMBDA grown :
    LET size   == IF m.mode = "owned" THEN end - start ELSE Min({end - start, grown.cached - start})
        window == [off |-> start, size |-> size, pinned |-> FALSE, refs |-> {}]
    IN  IF m.mode # "owned" /\ start >= grown.cached
        THEN Failed(grown, len)
        ELSE Done([grown EXCEPT !.windows = Append(@, window)],
                  IF grown.cached # m.cached /\ m.mode = "owned" THEN end ELSE len,
                  Len(m.windows) + 1))

\* The first window with the property, the active window before the others.
FirstWindow(m, hits) ==
    IF m.active \in hits THEN m.active ELSE IF hits = {} THEN 0 ELSE Min(hits)

\* The window found becomes the active one.
Activated(found) == IF found.ok THEN [found EXCEPT !.m.active = found.idx] ELSE found

LookupByRange(m, pos, size) ==
    FirstWindow(m, {i \in DOMAIN m.windows : Covers(m.windows[i], pos, size)})

LookupByPosition(m, pos) ==
    FirstWindow(m, {i \in DOMAIN m.windows : Includes(m.windows[i], pos)})

\* push_new_window_for_range: the chunks that the range touches.
PushForRange(m, len, pos, size) ==
    PushWindow(m, len, AlignedStart(m, pos), AlignedEnd(m, pos + size))

\* Drop window i; the active window is looked up again afterwards.
DropWindow(m, i) == [m EXCEPT !.windows = RemoveAt(@, i), !.active = 0]

\* replace_window_for_range: a window that fails to map is gone all the same.
ReplaceForRange(m, len, i, pos, size) == PushForRange(DropWindow(m, i), len, pos, size)

Unpinned(m) == {i \in DOMAIN m.windows : ~m.windows[i].pinned}

\* evict_unpinned_window_if_full: refused when every window is pinned.
EvictUnpinnedIfFull(m) ==
    IF Len(m.windows) < m.max THEN [ok |-> TRUE, m |-> m]
    ELSE IF Unpinned(m) = {} THEN [ok |-> FALSE, m |-> m]
    ELSE [ok |-> TRUE, m |-> DropWindow(m, Min(Unpinned(m)))]

MakeRoomBroken(m) ==
    IF Len(m.windows) < m.max THEN m
    ELSE DropWindow(m, IF m.active = 1 /\ Len(m.windows) > 1 THEN 2 ELSE 1)

\* make_room_for_new_window: without pins the oldest window that is not active,
\* with pins the oldest window that is not pinned, if there is one.
MakeRoom(m) ==
    IF Len(m.windows) < m.max THEN m
    ELSE IF m.pins = 0
    THEN DropWindow(m, IF m.active = 1 /\ Len(m.windows) > 1 THEN 2 ELSE 1)
    ELSE IF Unpinned(m) = {} THEN m ELSE DropWindow(m, Min(Unpinned(m)))

\* get_whole_file_window_index: one window over the whole file, mapped again,
\* with every pin forgotten, when a range reaches past it.
WholeFileIndex(m, len, pos, size) ==
    Using(LookupByRange(m, pos, size), LAMBDA hit :
    Using(IF m.mode = "owned" THEN Done(m, len, 0) ELSE Ensure(m, len, pos + size), LAMBDA fits :
    LET target  == Max({pos + size, fits.m.cached})
        cleared == IF m.windows = <<>> THEN fits.m ELSE ClearWindows(fits.m)
    IN  IF hit # 0 THEN Done([m EXCEPT !.active = hit], len, hit)
        ELSE IF ~fits.ok THEN Failed(fits.m, len)
        ELSE Activated(PushWindow(cleared, len, 0, Max({AlignedEnd(m, target), m.chunk})))))

\* get_window_index with get_overlapping_window_index and get_new_window_index:
\* a window that covers the range; else a wider one in place of the window that
\* holds its start, or beside it when that one is pinned; else a new one.
WindowIndex(m, len, pos, size) ==
    Using(LookupByRange(m, pos, size), LAMBDA hit :
    Using(LookupByPosition(m, pos), LAMBDA near :
    IF m.strategy = "whole" THEN WholeFileIndex(m, len, pos, size)
    ELSE Activated(IF hit # 0 THEN Done(m, len, hit)
                   ELSE IF near # 0 /\ ~(m.pins > 0 /\ m.windows[near].pinned)
                   THEN ReplaceForRange(m, len, near, pos, size)
                   ELSE PushForRange(IF near = 0 THEN MakeRoom(m) ELSE EvictUnpinnedIfFull(m).m, len, pos, size))))

\* get_slice: the bytes of a range, through a window.
GetSlice(m, len, pos, size) ==
    Using(Ensure(m, len, pos + size), LAMBDA fits :
    IF fits.ok THEN WindowIndex(fits.m, len, pos, size) ELSE fits)

\* get_slice_mut: the writer's range, which may extend the file.
GetSliceMut(m, len, pos, size) == WindowIndex(m, len, pos, size)

PinLimitReached(m) == m.strategy # "whole" /\ m.pins >= m.max

Pin(m, i) ==
    IF m.windows[i].pinned THEN m
    ELSE [m EXCEPT !.windows[i].pinned = TRUE, !.pins = @ + 1]

\* get_window_index_preserving_row_pins: as WindowIndex, but a pinned window is
\* never dropped; idx 0 with ok means that no window can be had.
RowWindowIndex(m, len, pos, size) ==
    Using(LookupByRange(m, pos, size), LAMBDA hit :
    Using(LookupByPosition(m, pos), LAMBDA near :
    Using(EvictUnpinnedIfFull(m), LAMBDA room :
    IF m.strategy = "whole"
    THEN Using(WholeFileIndex(m, len, pos, size), LAMBDA all :
         IF all.ok THEN [all EXCEPT !.m = Pin(all.m, all.idx)] ELSE all)
    ELSE IF hit # 0 THEN Done(m, len, hit)
    ELSE IF near # 0 /\ ~m.windows[near].pinned
    THEN IF PinLimitReached(m) THEN Done(m, len, 0)
         ELSE ReplaceForRange(m, len, near, pos, size)
    ELSE IF ~room.ok THEN Done(m, len, 0)
    ELSE PushForRange(room.m, len, pos, size))))

\* get_row_pinned_slice: the window that covers the range is pinned for the row,
\* or, when no window can be pinned, the bytes are copied.
GetRowPinnedSlice(m, len, pos, size) ==
    Using(Ensure(m, len, pos + size), LAMBDA fits :
    Using(RowWindowIndex(fits.m, len, pos, size), LAMBDA found :
    LET at == [found.m EXCEPT !.active = found.idx]
        copy(n) == IF pos + size > len THEN Failed(n, len)
                   ELSE Done([n EXCEPT !.copies = @ \cup {pos}], len, 0)
    IN  IF ~fits.ok THEN fits
        ELSE IF ~found.ok THEN found
        ELSE IF found.idx = 0 THEN copy(found.m)
        ELSE IF ~at.windows[found.idx].pinned /\ PinLimitReached(at) THEN copy(at)
        ELSE Done([Pin(at, found.idx) EXCEPT !.windows[found.idx].refs = @ \cup {pos}],
                  len, found.idx)))

\* clear_row_pins.
ClearRowPins(m) ==
    [m EXCEPT !.windows = [i \in DOMAIN @ |-> [@[i] EXCEPT !.pinned = FALSE, !.refs = {}]],
              !.pins = 0, !.copies = {}]

\* sync: flush and drop every window, cut the file to what is published.
SyncManager(m, logical) ==
    LET size == Max({logical, m.retained})
    IN  Done([ClearWindows(m) EXCEPT !.cached = size, !.retained = size], size, 0)

\* post_change: set the length of the file to what is published; the windows are
\* dropped first when this cuts the file.
PostChangeManager(m, logical) ==
    LET size == Max({logical, m.retained})
        kept == IF size < m.cached THEN ClearWindows(m) ELSE m
    IN  Done([kept EXCEPT !.cached = size, !.retained = size], size, 0)
=============================================================================
