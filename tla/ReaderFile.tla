----------------------------- MODULE ReaderFile -----------------------------
(***************************************************************************)
(* One journal file as a reader meets it: the objects the writer lays out, *)
(* the extent the file really has, the chains of offset arrays that list   *)
(* the entries (all of them, and those of one DATA object), the binary     *)
(* searches over them, and the recovery that bounds a reader to the intact *)
(* prefix of a torn file.  A reader writes nothing, so everything here is  *)
(* a function of the file f:                                               *)
(*   j, n, im, extent : the journal (a name in Journals), the entries its  *)
(*       header declares, the objects they are laid out in, and the last   *)
(*       unit of the file that exists;                                     *)
(*   rec, changed, seen : recovery, recovery_changed, filter_recovery_seen *)
(* Offsets are counted in units: a DATA or ENTRY object takes one, an      *)
(* array one for its header and one for each slot.  An operation returns   *)
(* [err, v]; err is "" when it succeeded.                                  *)
(***************************************************************************)
EXTENDS Integers, Sequences, SequencesExt, FiniteSetsExt, TLC

CONSTANTS
    Journals,   \* name -> sequence of entries [t, q, m, b, d], d the items in order
    Caps        \* capacity of the first, second, ... array of a chain

ASSUME CapsAssumption == Caps \in Seq(Nat \ {0}) /\ Caps # <<>>

All == <<"entries">>     \* stands for the global list where a datum is expected
NoRec == [reason |-> "none", lost |-> 0, declared |-> 0, count |-> 0, last |-> 0]

\* Op of a value that an earlier step has computed.
With(v, Op(_)) == Op(v)

Fine(v) == [err |-> "", v |-> v]
Failing(e) == [err |-> e, v |-> 0]

Cap(k) == IF k <= Len(Caps) THEN Caps[k] ELSE Caps[Len(Caps)]

(* An array of a chain: [at, skip, cap], the unit of its header, the items *)
(* of the chain held by the arrays before it and its capacity.             *)
Spans(a, p) == a.skip < p /\ p <= a.skip + a.cap
UnitOf(a, p) == a.at + p - a.skip
LastUnit(a) == a.at + a.cap

-----------------------------------------------------------------------------
(* Layout: what the writer has put in the file when n entries are declared. *)

Bare == [ents |-> <<>>, arrs |-> <<>>, data |-> <<>>, free |-> 1, tail |-> 0]

\* The layout with p items in a chain of arrays, an array more when they are full.
Room(arrs) == IF arrs = <<>> THEN 0 ELSE Last(arrs).skip + Last(arrs).cap
NextArray(arrs, at) == [at |-> at, skip |-> Room(arrs), cap |-> Cap(Len(arrs) + 1)]
Chained(arrs, p, at) == IF p > Room(arrs) THEN Append(arrs, NextArray(arrs, at)) ELSE arrs
Placed(im, arrs, p) ==
    IF p > Room(arrs) THEN [im EXCEPT !.free = @ + 1 + Cap(Len(arrs) + 1), !.tail = im.free] ELSE im

NewData(im, x) ==
    IF x \in DOMAIN im.data THEN im
    ELSE [im EXCEPT !.data = @ @@ (x :> [at |-> im.free, posts |-> <<>>, arrs |-> <<>>]),
                       !.free = @ + 1, !.tail = im.free]

\* The first posting of a DATA object is inlined in it.
LinkData(im, x, at) ==
    LET d == im.data[x]  p == Len(d.posts)
    IN Placed([im EXCEPT !.data[x] = [d EXCEPT !.posts = Append(@, at), !.arrs = Chained(@, p, im.free)]], d.arrs, p)

AppendEntry(im, e) ==
    With(FoldLeft(NewData, im, e.d), LAMBDA named :
    LET at == named.free  p == Len(named.ents) + 1
        listed == [named EXCEPT !.ents = Append(@, at), !.arrs = Chained(@, p, at + 1), !.free = at + 1, !.tail = at]
    IN FoldLeft(LAMBDA acc, x : LinkData(acc, x, at), Placed(listed, named.arrs, p), e.d))

\* The layout after each entry of a journal, from none on.
Images ==
    FoldLeft(LAMBDA acc, j :
               acc @@ (j :> FoldLeft(LAMBDA ims, e : Append(ims, AppendEntry(ims[Len(ims)], e)), <<Bare>>, Journals[j])),
             <<>>, SetToSeq(DOMAIN Journals))

Image(f) == f.im
ImageOf(j, n) == Images[j][n + 1]
Complete(j, n) == ImageOf(j, n).free - 1
\* The entry declared at an offset.
EntryAt(f, o) == Journals[f.j][CHOOSE i \in 1..f.n : Image(f).ents[i] = o]
Declares(f, x) == x \in DOMAIN Image(f).data

-----------------------------------------------------------------------------
(* Objects and slots.                                                       *)

EntryPresent(f, o) == o <= f.extent
\* data_lookup_result_at: the lookup reads the object its bucket points to.
FindDatum(f, x) ==
    IF ~Declares(f, x) THEN Fine(FALSE)
    ELSE IF Image(f).data[x].at > f.extent THEN Failing("bounds") ELSE Fine(TRUE)

EntryCount(f) == IF f.rec = NoRec THEN f.n ELSE f.rec.count

Arrays(f, x) == IF x = All THEN Image(f).arrs ELSE Image(f).data[x].arrs
Items(f, x) == IF x = All THEN Image(f).ents ELSE Tail(Image(f).data[x].posts)
Inlined(f, x) == Image(f).data[x].posts[1]

\* A healthy reader needs the whole array, a recovered one what exists of it.
NodeError(f, a) ==
    IF (IF f.rec = NoRec THEN LastUnit(a) ELSE a.at) > f.extent THEN "bounds" ELSE ""

\* The array of a chain that holds its p-th item.
ArrayOf(f, x, p) == With(Arrays(f, x), LAMBDA arrs : arrs[CHOOSE k \in DOMAIN arrs : Spans(arrs[k], p)])

Slot(f, x, p) ==
    With(ArrayOf(f, x, p), LAMBDA a :
    IF NodeError(f, a) # "" THEN Failing(NodeError(f, a))
    ELSE IF UnitOf(a, p) > f.extent THEN Failing("index")
    ELSE Fine(Items(f, x)[p]))

\* The last of the first p items can be walked to.
Reachable(f, x, p) ==
    With(Arrays(f, x), LAMBDA arrs : \A k \in DOMAIN arrs : arrs[k].skip < p => NodeError(f, arrs[k]) = "")

-----------------------------------------------------------------------------
(* Searches.  Positions are counted over the whole chain, from 1.           *)

\* The predicate of every search: the item lies before the needle.
KeyValue(e, key) == CASE key = "sequence" -> e.q [] key = "monotonic" -> e.m [] key = "realtime" -> e.t
Precedes(f, key, needle, dir, o) ==
    IF key # "offset" /\ ~EntryPresent(f, o) THEN Failing("bounds")
    ELSE With(IF key = "offset" THEN o ELSE KeyValue(EntryAt(f, o), key), LAMBDA value :
         Fine(value < needle \/ (dir = "back" /\ value = needle)))

RECURSIVE PartitionPoint(_, _, _, _, _, _, _)
PartitionPoint(f, x, key, needle, dir, lo, hi) ==
    IF lo = hi THEN Fine(lo)
    ELSE LET mid == (lo + hi) \div 2
         IN With(Slot(f, x, mid), LAMBDA s :
         With(IF s.err # "" THEN s ELSE Precedes(f, key, needle, dir, s.v), LAMBDA below :
         IF below.err # "" THEN below
         ELSE IF below.v THEN PartitionPoint(f, x, key, needle, dir, mid + 1, hi)
         ELSE PartitionPoint(f, x, key, needle, dir, lo, mid)))

\* The position after the last one of an array, in a list of so many.
PastArray(a, total) == 1 + (IF a.skip + a.cap < total THEN a.skip + a.cap ELSE total)
\* List::directed_partition_point from array k on; 0 stands for no position.
RECURSIVE PartitionFrom(_, _, _, _, _, _, _, _)
PartitionFrom(f, x, total, key, needle, dir, k, found) ==
    With(Arrays(f, x)[k], LAMBDA a :
    With(PastArray(a, total), LAMBDA past :
    With(IF NodeError(f, a) # "" THEN Failing(NodeError(f, a))
         ELSE PartitionPoint(f, x, key, needle, dir, a.skip + 1, past), LAMBDA at :
    LET more == past <= total
    IN IF at.err # "" THEN at
       ELSE IF dir = "fwd"
       THEN IF at.v < past THEN at
            ELSE IF more THEN PartitionFrom(f, x, total, key, needle, dir, k + 1, 0) ELSE Fine(0)
       ELSE IF at.v = a.skip + 1 THEN Fine(found)
            ELSE IF at.v = past /\ more THEN PartitionFrom(f, x, total, key, needle, dir, k + 1, past - 1)
            ELSE Fine(at.v - 1))))

Partition(f, x, total, key, needle, dir) == PartitionFrom(f, x, total, key, needle, dir, 1, 0)

-----------------------------------------------------------------------------
(* Recovery: the intact prefix of the global list.                          *)

Prefix(f, reason, lost, count, last) ==
    [reason |-> reason, lost |-> lost, declared |-> f.n, count |-> count, last |-> last]

\* One slot of the walk over the declared entries.  st: [err, loss, count, last].
PrefixSlot(f, a, p, st) ==
    With(Items(f, All)[p], LAMBDA o :
    With(UnitOf(a, p) <= f.extent, LAMBDA there :
    IF st.err # "" THEN st
    ELSE IF there /\ EntryPresent(f, o)
    THEN IF st.loss # "" \/ o <= st.last THEN [st EXCEPT !.err = "location"]
         ELSE [st EXCEPT !.count = @ + 1, !.last = o]
    ELSE IF st.loss # "" THEN st
    ELSE [st EXCEPT !.loss = IF there THEN "entry" ELSE "array",
                    !.lost = IF there THEN o ELSE a.at]))

RECURSIVE PrefixFrom(_, _, _)
PrefixFrom(f, k, st) ==
    With(Image(f).arrs, LAMBDA arrs :
    IF st.err # "" \/ k > Len(arrs) THEN st
    ELSE IF arrs[k].at > f.extent
    THEN IF st.loss # "" THEN st ELSE [st EXCEPT !.loss = "array", !.lost = arrs[k].at]
    ELSE With(FoldLeft(LAMBDA acc, p : PrefixSlot(f, arrs[k], p, acc), st,
                       [i \in 1..(PastArray(arrs[k], f.n) - 1 - arrs[k].skip) |-> arrs[k].skip + i]), LAMBDA read :
         PrefixFrom(f, k + 1,
                IF LastUnit(arrs[k]) > f.extent /\ read.loss = "" THEN [read EXCEPT !.loss = "array", !.lost = arrs[k].at]
                ELSE read)))

DiscoverPrefix(f) ==
    With(PrefixFrom(f, 1, [err |-> "", loss |-> "", lost |-> 0, count |-> 0, last |-> 0]), LAMBDA st :
    IF st.err # "" THEN Failing(st.err)
    ELSE Fine(IF st.loss = "" THEN NoRec ELSE Prefix(f, st.loss, st.lost, st.count, st.last)))

\* [err, v, f]: v tells that the recovered prefix changed.
Rediscover(f) ==
    With(DiscoverPrefix(f), LAMBDA found :
    IF found.err # "" THEN [err |-> found.err, v |-> FALSE, f |-> f]
    ELSE [err |-> "", v |-> found.v # f.rec,
          f |-> [f EXCEPT !.rec = found.v, !.changed = @ \/ found.v # f.rec]])
Recover(f, err) ==
    IF err \in {"bounds", "zero"} THEN Rediscover(f) ELSE [err |-> "", v |-> FALSE, f |-> f]
RefreshRecovery(f) ==
    IF f.rec = NoRec THEN [err |-> "", v |-> FALSE, f |-> f] ELSE Rediscover(f)

\* How many items of a posting list lie in the recovered prefix.
RECURSIVE PostingCount(_, _, _, _, _, _)
PostingCount(f, x, total, p, count, previous) ==
    IF p > total THEN Fine(count)
    ELSE IF UnitOf(ArrayOf(f, x, p), p) > f.extent THEN IF previous = f.rec.last THEN Fine(count) ELSE Failing("bounds")
    ELSE With(Items(f, x)[p], LAMBDA item :
         IF item <= previous THEN Failing("zero")
         ELSE IF item > f.rec.last THEN Fine(count)
         ELSE PostingCount(f, x, total, p + 1, count + 1, item))
=============================================================================
