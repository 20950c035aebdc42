--------------------------- MODULE WriterCallProofs ---------------------------
(***************************************************************************)
(* Proofs about the calls of the writer, for every value of its constants: *)
(* what it tells its callers and the live readers, the link states an      *)
(* append remembers, and the append-only log it implements.                *)
(***************************************************************************)
EXTENDS WriterProperties, JournalWriterProofs

-----------------------------------------------------------------------------
(* The counters of entries, of acknowledged appends and of publications. *)

(***************************************************************************)
(* The entry count is the caller's count, one ahead between the count      *)
(* store and the end of the call, and for good when post_change failed.    *)
(***************************************************************************)
AccountInv ==
  /\ ~w.poisoned \/ pc \notin {"idle", "publish"} => hdr.n_entries = acked
  /\ pc = "publish" => hdr.n_entries = acked + 1
  /\ pc = "idle" => \/ hdr.n_entries = acked
                    \/ hdr.n_entries = acked + 1 /\ result \in {"io", "poisoned"}

(***************************************************************************)
(* entries_since_live_publish is the number of entries the live readers    *)
(* have not heard of, while the writer is usable.                          *)
(***************************************************************************)
Unpublished == hdr.n_entries - notified

LagInv ==
  /\ (pc # "publish" /\ (~w.poisoned \/ pc # "idle")) =>
       /\ PublishEvery = 1 => Unpublished = 0
       /\ PublishEvery >= 2 => Unpublished = w.since /\ w.since < PublishEvery
  /\ pc = "publish" =>
       /\ PublishEvery = 1 => Unpublished = 1
       /\ PublishEvery >= 2 => Unpublished = w.since + 1 /\ w.since < PublishEvery

SameCounters ==
  hdr'.n_entries = hdr.n_entries /\ w'.since = w.since /\ notified' = notified /\ acked' = acked

LEMMA AddedSince ==
  ASSUME TypeOK PROVE ObjectAdded(w).since = w.since
BY DEF TypeOK, WriterOK, Writer, ObjectAdded

LEMMA FieldCounters ==
  ASSUME TypeOK, QuietField \/ CreateField
  PROVE  SameCounters
<1>0. hdr \in Header
  BY DEF TypeOK, HeaderOK
<1>1. hdr'.n_entries = hdr.n_entries
  BY <1>0 DEF QuietField, CreateField, SkipField, ReuseData, LinkDataHash, PublishDataBucket,
       CountData, CachedField, FoundField, LinkFieldHash, PublishFieldBucket, CountField,
       SetNextField, SetHeadData, WriteData, WriteField, Header
<1>2. notified' = notified /\ acked' = acked
  BY DEF QuietField, CreateField, SkipField, ReuseData, LinkDataHash, PublishDataBucket,
       CountData, CachedField, FoundField, LinkFieldHash, PublishFieldBucket, CountField,
       SetNextField, SetHeadData, WriteData, WriteField, Goto, caller
<1>3. w'.since = w.since
  BY QuietFieldFrame, CreateFieldFrame, AddedSince
<1> QED BY <1>1, <1>2, <1>3 DEF SameCounters

LEMMA LinkCounters ==
  ASSUME TypeOK, QuietLink \/ CreateLink \/ WriteEntry
  PROVE  SameCounters
<1>0. hdr \in Header
  BY DEF TypeOK, HeaderOK
<1>1. hdr'.n_entries = hdr.n_entries
  BY <1>0 DEF QuietLink, CreateLink, PlaceInTail, LinkArray, SetSlot, GlobalHeader, LinkFirst,
       LinkInTail, DataArray, DataHint, DataCount, Linked, PlaceFirst, PlaceInNew, LinkSecond,
       LinkInNew, Allocate, WriteEntry, Header
<1>2. notified' = notified /\ acked' = acked
  BY DEF QuietLink, CreateLink, PlaceInTail, LinkArray, SetSlot, GlobalHeader, LinkFirst,
       LinkInTail, DataArray, DataHint, DataCount, Linked, PlaceFirst, PlaceInNew, LinkSecond,
       LinkInNew, WriteEntry, Goto, caller
<1>3. w'.since = w.since
  BY QuietLinkFrame, CreateLinkFrame, WriteEntryFrame, AddedSince
<1> QED BY <1>1, <1>2, <1>3 DEF SameCounters

LEMMA CommitCounters ==
  ASSUME TypeOK, \/ CommitObjects \/ CommitTailObject \/ CommitHead \/ CommitTail
                 \/ CommitTailEntry
  PROVE  SameCounters /\ w' = w /\ pc \in Commits /\ pc' \in Commits
<1>0. hdr \in Header
  BY DEF TypeOK, HeaderOK
<1>1. hdr'.n_entries = hdr.n_entries
  BY <1>0 DEF CommitObjects, CommitTailObject, CommitHead, CommitTail, CommitTailEntry, Header
<1> QED BY <1>1 DEF CommitObjects, CommitTailObject, CommitHead, CommitTail, CommitTailEntry,
                    Goto, caller, Commits, SameCounters

LEMMA StartCounters ==
  ASSUME TypeOK, StartData \/ Finish
  PROVE  SameCounters
<1>1. w' = [w EXCEPT !.poisoned = TRUE] /\ w \in Writer
  BY DEF StartData, Finish, TypeOK, WriterOK
<1>2. w'.since = w.since
  BY <1>1 DEF Writer
<1> QED BY <1>2 DEF StartData, Finish, Goto, caller, SameCounters

LEMMA LeaveCounters ==
  ASSUME Leave
  PROVE  SameCounters /\ pc \notin {"idle", "publish"}
<1>1. notified' = notified /\ acked' = acked
  BY DEF Leave, RejectField, FinishEmpty, FailAppend, Overflow, Return
<1>2. pc \notin {"idle", "publish"}
  BY DEF Leave, RejectField, FinishEmpty, FailAppend, Overflow, Creates, AtField
<1> QED BY <1>1, <1>2, LeaveFrame DEF SameCounters

LEMMA CallCounters ==
  ASSUME TypeOK, Call
  PROVE  /\ SameCounters
         /\ pc' = "idle" => result' = (IF w.poisoned THEN "poisoned" ELSE "rejected")
<1>1. notified' = notified /\ acked' = acked
  BY DEF Call, BeginAppend, RefuseOptions, RefusePoisoned, Goto, Return, caller
<1>2. pc' = "idle" => result' = (IF w.poisoned THEN "poisoned" ELSE "rejected")
  BY DEF Call, BeginAppend, RefuseOptions, RefusePoisoned, Goto, Return, caller
<1> QED BY <1>1, <1>2, CallFrame DEF SameCounters

LEMMA CountCounters ==
  ASSUME TypeOK, CommitCount
  PROVE  /\ hdr'.n_entries = hdr.n_entries + 1 /\ w'.since = w.since
         /\ notified' = notified /\ acked' = acked
<1>1. hdr'.n_entries = hdr.n_entries + 1
  BY DEF CommitCount, TypeOK, HeaderOK, Header
<1>2. w'.since = w.since
  BY DEF CommitCount, TypeOK, WriterOK, Writer
<1> QED BY <1>1, <1>2 DEF CommitCount, Goto, caller

LEMMA EndCounters ==
  ASSUME TypeOK, Publish \/ FailPublish
  PROVE  /\ hdr'.n_entries = hdr.n_entries /\ w'.since = SinceAfter
         /\ Publish => acked' = acked + 1 /\ notified' = IF Due THEN hdr.n_entries ELSE notified
         /\ ~Publish => acked' = acked /\ notified' = notified /\ result' = "io"
<1>1. w'.since = SinceAfter
  BY DEF Publish, FailPublish, TypeOK, WriterOK, Writer
<1> QED BY <1>1 DEF Publish, FailPublish, Return

(***************************************************************************)
(* Numbers the counters are made of.                                       *)
(***************************************************************************)
LEMMA CounterTypes ==
  ASSUME TypeOK
  PROVE  /\ hdr.n_entries \in Nat /\ acked \in Nat /\ notified \in Nat /\ w.since \in Nat
         /\ PublishEvery \in Nat /\ w.poisoned \in BOOLEAN
<1>1. w.poisoned \in BOOLEAN
  BY DEF TypeOK, WriterOK, Writer
<1> QED BY <1>1, ConstantsAssumption DEF TypeOK, HeaderOK, Header, WriterOK, Writer, CallOK,
                                         ConstantsAssumption

(***************************************************************************)
(* A step that leaves the counters alone and stays inside the call.        *)
(***************************************************************************)
LEMMA InsideCounters ==
  ASSUME TypeOK, [Next]_vars, \/ QuietField \/ CreateField \/ QuietLink \/ CreateLink \/ WriteEntry
                              \/ StartData \/ Finish \/ CommitObjects \/ CommitTailObject
                              \/ CommitHead \/ CommitTail \/ CommitTailEntry
  PROVE  SameCounters /\ pc \notin {"idle", "publish"} /\ pc' \notin {"idle", "publish"}
<1>1. SameCounters
  BY FieldCounters, LinkCounters, CommitCounters, StartCounters
<1>2. pc \notin {"idle", "publish"} /\ pc' \notin {"idle", "publish"}
  BY QuietFieldFrame, CreateFieldFrame, QuietLinkFrame, CreateLinkFrame, WriteEntryFrame,
     StartPoisoned, CommitCounters DEF Request, FieldSteps, LinkSteps, Commits
<1> QED BY <1>1, <1>2

LEMMA AccountNext == TypeOK /\ PoisonCover /\ AccountInv /\ [Next]_vars => AccountInv'
<1> SUFFICES ASSUME TypeOK, PoisonCover, AccountInv, [Next]_vars PROVE AccountInv'
  OBVIOUS
<1> USE DEF AccountInv
<1>0. hdr.n_entries \in Nat /\ acked \in Nat
  BY CounterTypes
<1>1. CASE UNCHANGED vars
  BY <1>1 DEF vars
<1>2. CASE Call
  <2>1. SameCounters /\ w' = w /\ pc = "idle" /\ pc' \in {"idle", "field"}
    BY <1>2, CallCounters, CallFrame
  <2>2. pc' = "field" => ~w.poisoned
    BY <1>2, CallFrame
  <2>3. (pc' = "idle" /\ w.poisoned) => result' = "poisoned"
    BY <1>2, CallCounters
  <2> QED BY <2>1, <2>2, <2>3 DEF SameCounters
<1>3. CASE Leave
  BY <1>3, LeaveCounters, LeaveFrame DEF SameCounters
<1>4. CASE \/ QuietField \/ CreateField \/ QuietLink \/ CreateLink \/ WriteEntry
           \/ StartData \/ Finish \/ CommitObjects \/ CommitTailObject
           \/ CommitHead \/ CommitTail \/ CommitTailEntry
  BY <1>4, InsideCounters DEF SameCounters
<1>5. CASE CommitCount
  <2>1. w'.poisoned = w.poisoned /\ pc = "commit_count" /\ pc' = "publish"
    BY <1>5, CountPoisoned
  <2>2. w.poisoned
    BY <2>1 DEF PoisonCover
  <2> QED BY <1>0, <1>5, <2>1, <2>2, CountCounters
<1>6. CASE Publish
  BY <1>0, <1>6, EndCounters, EndPoisoned
<1>7. CASE FailPublish /\ ~Publish
  <2>1. w'.poisoned = w.poisoned /\ pc = "publish" /\ pc' = "idle"
    BY <1>7, EndPoisoned
  <2>2. w.poisoned
    BY <2>1 DEF PoisonCover
  <2> QED BY <1>0, <1>7, <2>1, <2>2, EndCounters
<1> QED BY <1>1, <1>2, <1>3, <1>4, <1>5, <1>6, <1>7, NextGroups

LEMMA LagNext == TypeOK /\ PoisonCover /\ LagInv /\ [Next]_vars => LagInv'
<1> SUFFICES ASSUME TypeOK, PoisonCover, LagInv, [Next]_vars PROVE LagInv'
  OBVIOUS
<1> USE DEF LagInv, Unpublished
<1>0. hdr.n_entries \in Nat /\ notified \in Nat /\ w.since \in Nat /\ PublishEvery \in Nat
  BY CounterTypes
<1>1. CASE UNCHANGED vars
  BY <1>1 DEF vars
<1>2. CASE Call
  <2>1. SameCounters /\ w' = w /\ pc = "idle" /\ pc' \in {"idle", "field"}
    BY <1>2, CallCounters, CallFrame
  <2>2. pc' = "field" => ~w.poisoned
    BY <1>2, CallFrame
  <2> QED BY <2>1, <2>2 DEF SameCounters
<1>3. CASE Leave
  BY <1>3, LeaveCounters, LeaveFrame DEF SameCounters
<1>4. CASE \/ QuietField \/ CreateField \/ QuietLink \/ CreateLink \/ WriteEntry
           \/ StartData \/ Finish \/ CommitObjects \/ CommitTailObject
           \/ CommitHead \/ CommitTail \/ CommitTailEntry
  BY <1>4, InsideCounters DEF SameCounters
<1>5. CASE CommitCount
  BY <1>0, <1>5, CountPoisoned, CountCounters
<1>6. CASE Publish
  <2>1. /\ hdr'.n_entries = hdr.n_entries /\ w'.since = SinceAfter
        /\ notified' = (IF Due THEN hdr.n_entries ELSE notified)
        /\ pc = "publish" /\ pc' = "idle"
    BY <1>6, EndCounters, EndPoisoned
  <2> QED BY <1>0, <2>1 DEF SinceAfter, Due
<1>7. CASE FailPublish /\ ~Publish
  <2>1. w'.poisoned = w.poisoned /\ pc = "publish" /\ pc' = "idle"
    BY <1>7, EndPoisoned
  <2>2. w.poisoned
    BY <2>1 DEF PoisonCover
  <2> QED BY <2>1, <2>2
<1> QED BY <1>1, <1>2, <1>3, <1>4, <1>5, <1>6, <1>7, NextGroups

(***************************************************************************)
(* A caller that counts its successful appends knows the number of entries *)
(* in the file, whatever failed in between: they differ only by the one    *)
(* entry whose post_change failed, and then every later call is refused    *)
(* (add_entry_fields_with_options, publish_after_entry).                   *)
(***************************************************************************)
THEOREM AppendsAreAccounted == Spec => []AckedAccounting
<1>1. Init => TypeOK /\ PoisonCover /\ AccountInv
  BY TypeInit DEF Init, PoisonCover, AccountInv
<1>2. TypeOK /\ PoisonCover /\ AccountInv /\ [Next]_vars
        => (TypeOK /\ PoisonCover /\ AccountInv)'
  BY TypeNext, PoisonNext, AccountNext
<1>3. TypeOK /\ PoisonCover /\ AccountInv => AckedAccounting
  BY CounterTypes DEF AccountInv, AckedAccounting
<1> QED BY <1>1, <1>2, <1>3, PTL DEF Spec

(***************************************************************************)
(* A usable writer never owes its live readers more than PublishEvery - 1  *)
(* entries (live_publish_every_entries), also after calls that failed      *)
(* before their first store.                                               *)
(***************************************************************************)
THEOREM PublicationsKeepUp == Spec => []PublicationLag
<1>1. Init => TypeOK /\ PoisonCover /\ LagInv
  BY TypeInit, ConstantsAssumption DEF Init, PoisonCover, LagInv, Unpublished, ConstantsAssumption
<1>2. TypeOK /\ PoisonCover /\ LagInv /\ [Next]_vars => (TypeOK /\ PoisonCover /\ LagInv)'
  BY TypeNext, PoisonNext, LagNext
<1>3. TypeOK /\ LagInv => PublicationLag
  BY CounterTypes DEF LagInv, Unpublished, PublicationLag
<1> QED BY <1>1, <1>2, <1>3, PTL DEF Spec

-----------------------------------------------------------------------------
(* The link states that an append remembers. *)

\* The remembered state of an item is the one its DATA object has.
Remembered(it) ==
  /\ it.offset \in DOMAIN data
  /\ it.n = data[it.offset].n
  /\ it.array = data[it.offset].array \/ it.n = 0
  /\ (it.tail = data[it.offset].tail /\ it.tail_n = data[it.offset].tail_n) \/ it.n = 0

\* The copies of a repeated item are numbered from one.
Numbered(S) ==
  /\ \A it \in S : it.copy >= 1
  /\ \A a, b \in S : a.copy = 1 /\ b.copy = 1 /\ a.offset = b.offset => a = b

(***************************************************************************)
(* While fields are prepared every item remembers the state on disk; while *)
(* items are linked the first copies still to come do, because the DATA    *)
(* object being changed is that of another item.                           *)
(***************************************************************************)
FreshInv ==
  /\ DOMAIN residue = {}
  /\ pc \in {"field", "entry"} \cup FieldSteps =>
       Numbered(op.items) /\ \A it \in op.items : Remembered(it)
  /\ pc \in FieldSteps \ {"data"} => op.cur \in DOMAIN data /\ data[op.cur].n = 0
  /\ pc \in {"field", "data", "entry"} => op.cur = 0
  /\ pc \in LinkSteps =>
       /\ Numbered(op.left)
       /\ \A it \in op.left : it.copy = 1 => Remembered(it) /\ it.offset # op.cur

\* The DATA objects there are keep their link states.
SameLinks ==
  /\ DOMAIN data \subseteq DOMAIN data'
  /\ \A o \in DOMAIN data :
       /\ data'[o].n = data[o].n /\ data'[o].array = data[o].array
       /\ data'[o].tail = data[o].tail /\ data'[o].tail_n = data[o].tail_n

LEMMA RememberedKept ==
  ASSUME SameLinks, NEW it, Remembered(it)
  PROVE  Remembered(it)'
BY DEF SameLinks, Remembered

(***************************************************************************)
(* A store to one word of one DATA object leaves the others alone.         *)
(***************************************************************************)
LEMMA DataStores ==
  ASSUME TypeOK, NEW t, NEW v
  PROVE  /\ data' = [data EXCEPT ![t].next_hash = v] => SameLinks /\ DOMAIN data' = DOMAIN data
         /\ data' = [data EXCEPT ![t].next_field = v] => SameLinks /\ DOMAIN data' = DOMAIN data
         /\ data' = [data EXCEPT ![t].entry = v] => SameLinks /\ DOMAIN data' = DOMAIN data
<1>1. data \in [DOMAIN data -> DataObject]
  BY DEF TypeOK, ObjectsOK
<1>2. data' = [data EXCEPT ![t].next_hash = v] => SameLinks /\ DOMAIN data' = DOMAIN data
  BY <1>1 DEF SameLinks, DataObject
<1>3. data' = [data EXCEPT ![t].next_field = v] => SameLinks /\ DOMAIN data' = DOMAIN data
  BY <1>1 DEF SameLinks, DataObject
<1>4. data' = [data EXCEPT ![t].entry = v] => SameLinks /\ DOMAIN data' = DOMAIN data
  BY <1>1 DEF SameLinks, DataObject
<1> QED BY <1>2, <1>3, <1>4

(***************************************************************************)
(* AddItem numbers the copies of a DATA object one after the other.        *)
(***************************************************************************)
LEMMA AddItemNumbered ==
  ASSUME TypeOK, Numbered(op.items), NEW o \in Nat, NEW n \in Nat, NEW a \in Nat,
         NEW t \in Nat, NEW tn \in Nat
  PROVE  /\ Numbered(AddItem(o, n, a, t, tn))
         /\ \A it \in AddItem(o, n, a, t, tn) :
              \/ it \in op.items
              \/ it.offset = o /\ it.n = n /\ it.array = a /\ it.tail = t /\ it.tail_n = tn
<1> DEFINE copies == {it \in op.items : it.offset = o}
<1> DEFINE item == [offset |-> o, copy |-> Cardinality(copies) + 1, n |-> n,
                    array |-> a, tail |-> t, tail_n |-> tn]
<1>1. op.items \in SUBSET Item /\ IsFiniteSet(op.items)
  BY DEF TypeOK, CallOK, Locals
<1>2. IsFiniteSet(copies)
  BY <1>1, FS_Subset
<1>3. Cardinality(copies) \in Nat /\ (Cardinality(copies) = 0 <=> copies = {})
  BY <1>2, FS_CardinalityType, FS_EmptySet
<1>4. AddItem(o, n, a, t, tn) = op.items \/ AddItem(o, n, a, t, tn) = op.items \cup {item}
  BY DEF AddItem
<1>5. item.copy >= 1 /\ item.offset = o /\ (item.copy = 1 => copies = {})
  BY <1>3
<1>6. Numbered(op.items \cup {item})
  <2> HIDE DEF item
  <2>1. \A it \in op.items \cup {item} : it.copy >= 1
    BY <1>5 DEF Numbered
  <2>2. ASSUME NEW x \in op.items \cup {item}, NEW y \in op.items \cup {item},
               x.copy = 1, y.copy = 1, x.offset = y.offset
        PROVE  x = y
    BY <1>5, <2>2 DEF Numbered
  <2> QED BY <2>1, <2>2 DEF Numbered
<1>7. \A it \in op.items \cup {item} :
        \/ it \in op.items
        \/ it.offset = o /\ it.n = n /\ it.array = a /\ it.tail = t /\ it.tail_n = tn
  OBVIOUS
<1> HIDE DEF item
<1> QED BY <1>4, <1>6, <1>7

LEMMA FreshInit == Init => FreshInv
BY DEF Init, FreshInv, FieldSteps, LinkSteps

(***************************************************************************)
(* The steps of the field list.                                            *)
(***************************************************************************)
LEMMA FreshField ==
  ASSUME TypeOK, ArenaInv, FreshInv, QuietField \/ CreateField \/ StartData \/ Finish
  PROVE  FreshInv'
<1> USE DEF FieldSteps, LinkSteps
<1>0. /\ op \in Locals /\ data \in [DOMAIN data -> DataObject] /\ DOMAIN data \subseteq Offsets
      /\ DOMAIN residue = {} /\ w.append_offset \notin DOMAIN data
  <2>1. w.append_offset \notin DOMAIN data
    BY ArenaNumbers DEF ArenaInv
  <2> QED BY <2>1 DEF TypeOK, CallOK, ObjectsOK, FreshInv
<1>1. ASSUME pc \in {"field"} \cup FieldSteps, pc' \in {"field", "entry"} \cup FieldSteps,
             UNCHANGED residue, SameLinks,
             op'.items = op.items,
             pc' \in FieldSteps \ {"data"} => op'.cur \in DOMAIN data' /\ data'[op'.cur].n = 0,
             pc' \in {"field", "data", "entry"} => op'.cur = 0
      PROVE  FreshInv'
  <2>1. Numbered(op.items)' /\ \A it \in op'.items : Remembered(it)'
    BY <1>1, RememberedKept DEF FreshInv, Numbered
  <2> QED BY <1>1, <2>1, <1>0 DEF FreshInv
<1>2. ASSUME pc \in FieldSteps \ {"data"}, SameLinks, op'.cur = op.cur
      PROVE  op'.cur \in DOMAIN data' /\ data'[op'.cur].n = 0
  BY <1>2 DEF FreshInv, SameLinks
<1>3. CASE SkipField \/ StartData \/ Finish
  <2>1. /\ pc = "field" /\ pc' \in {"field", "data", "entry"}
        /\ UNCHANGED <<residue, data>>
    BY <1>3 DEF SkipField, StartData, Finish, AtField, Goto, objects
  <2>2. op'.items = op.items /\ op'.cur = op.cur
    BY <1>0, <1>3 DEF SkipField, StartData, Finish, Locals
  <2>3. SameLinks /\ op.cur = 0
    BY <2>1 DEF SameLinks, FreshInv
  <2> QED BY <1>1, <2>1, <2>2, <2>3
<1>4. CASE ReuseData
  <2>1. PICK d \in FindData(Payload) :
          op' = [op EXCEPT !.todo = Tail(@),
                           !.items = AddItem(d, data[d].n, data[d].array,
                                             data[d].tail, data[d].tail_n)]
    BY <1>4 DEF ReuseData
  <2>2. d \in DOMAIN data
    BY DEF FindData
  <2>3. /\ d \in Nat /\ data[d].n \in Nat /\ data[d].array \in Nat
        /\ data[d].tail \in Nat /\ data[d].tail_n \in Nat
    BY <1>0, <2>2 DEF DataObject, Offsets
  <2>4. op'.items = AddItem(d, data[d].n, data[d].array, data[d].tail, data[d].tail_n)
    BY <1>0, <2>1 DEF Locals
  <2>5. pc = "field" /\ pc' = "field" /\ UNCHANGED <<residue, data>>
    BY <1>4 DEF ReuseData, AtField, Goto, objects
  <2>6. Numbered(op.items) /\ \A it \in op.items : Remembered(it)
    BY <2>5 DEF FreshInv
  <2> DEFINE n == data[d].n
             a == data[d].array
             t == data[d].tail
             tn == data[d].tail_n
  <2>a. /\ Numbered(AddItem(d, n, a, t, tn))
        /\ \A it \in AddItem(d, n, a, t, tn) :
             \/ it \in op.items
             \/ it.offset = d /\ it.n = n /\ it.array = a /\ it.tail = t /\ it.tail_n = tn
    <3>1. d \in Nat /\ n \in Nat /\ a \in Nat /\ t \in Nat /\ tn \in Nat
      BY <2>3
    <3> HIDE DEF n, a, t, tn
    <3> QED BY <3>1, <2>6, AddItemNumbered
  <2>7. Numbered(op'.items) /\ \A it \in op'.items : Remembered(it)
    BY <2>2, <2>4, <2>a, <2>6 DEF Remembered
  <2>8. op'.cur = 0
    BY <1>0, <2>1, <2>5 DEF Locals, FreshInv
  <2> QED BY <1>0, <2>5, <2>7, <2>8 DEF FreshInv, Remembered, Numbered
<1>5. CASE \/ PublishDataBucket \/ CountData \/ CachedField \/ FoundField \/ LinkFieldHash
           \/ PublishFieldBucket \/ CountField \/ WriteField
  <2>1. /\ pc \in FieldSteps \ {"data"} /\ pc' \in FieldSteps \ {"data"}
        /\ UNCHANGED <<residue, data>>
    BY <1>5 DEF PublishDataBucket, CountData, CachedField, FoundField, LinkFieldHash,
                PublishFieldBucket, CountField, WriteField, Goto, objects
  <2>2. op'.items = op.items /\ op'.cur = op.cur
    BY <1>0, <1>5 DEF PublishDataBucket, CountData, CachedField, FoundField, LinkFieldHash,
                      PublishFieldBucket, CountField, WriteField, Locals
  <2>3. SameLinks
    BY <2>1 DEF SameLinks
  <2> QED BY <1>1, <1>2, <2>1, <2>2, <2>3
<1>6. CASE LinkDataHash \/ SetNextField
  <2>1. /\ pc \in FieldSteps \ {"data"} /\ pc' \in FieldSteps \ {"data"}
        /\ UNCHANGED <<residue, op>>
    BY <1>6 DEF LinkDataHash, SetNextField, Goto
  <2>2. SameLinks
    BY <1>6, DataStores DEF LinkDataHash, SetNextField, SameLinks
  <2> QED BY <1>1, <1>2, <2>1, <2>2
<1>7. CASE WriteData
  <2> DEFINE o == w.append_offset
  <2>1. DOMAIN data' = DOMAIN data \cup {o} /\ data'[o].n = 0
    BY <1>0, <1>7 DEF WriteData, Put, Word
  <2>2. SameLinks
    BY <1>0, <1>7 DEF WriteData, Put, SameLinks
  <2>3. op'.cur = o /\ op'.items = op.items
    BY <1>0, <1>7 DEF WriteData, Locals
  <2>4. pc = "data" /\ pc' = "hash_next" /\ UNCHANGED residue
    BY <1>7 DEF WriteData, Goto
  <2> QED BY <1>1, <2>1, <2>2, <2>3, <2>4
<1>8. CASE SetHeadData
  <2>1. pc = "head_data" /\ pc' = "field" /\ UNCHANGED <<residue, data>>
    BY <1>8 DEF SetHeadData, Goto
  <2>2. op'.items = AddItem(op.cur, 0, 0, 0, 0) /\ op'.cur = 0
    BY <1>0, <1>8 DEF SetHeadData, Locals
  <2>3. op.cur \in DOMAIN data /\ data[op.cur].n = 0 /\ op.cur \in Nat
    BY <1>0, <2>1 DEF FreshInv, Locals
  <2>4. Numbered(op.items) /\ \A it \in op.items : Remembered(it)
    BY <2>1 DEF FreshInv
  <2>5. Numbered(op'.items) /\ \A it \in op'.items : Remembered(it)
    BY <2>2, <2>3, <2>4, AddItemNumbered DEF Remembered
  <2> QED BY <1>0, <2>1, <2>2, <2>5 DEF FreshInv, Remembered, Numbered
<1> QED BY <1>3, <1>4, <1>5, <1>6, <1>7, <1>8 DEF QuietField, CreateField

(***************************************************************************)
(* The steps that store the postings: the DATA object being changed is     *)
(* op.cur, and no first copy that is still to be linked is of that object. *)
(***************************************************************************)
LEMMA FreshLink ==
  ASSUME TypeOK, FreshInv, QuietLink \/ CreateLink \/ WriteEntry
  PROVE  FreshInv'
<1> USE DEF FieldSteps, LinkSteps
<1>0. /\ op \in Locals /\ data \in [DOMAIN data -> DataObject] /\ DOMAIN data \subseteq Offsets
      /\ DOMAIN residue = {} /\ 0 \notin Offsets
  BY DEF TypeOK, CallOK, ObjectsOK, FreshInv, Offsets
<1>1. ASSUME pc' \in LinkSteps \cup {"commit_objects"}, UNCHANGED residue,
             Numbered(op'.left),
             \A it \in op'.left : it.copy = 1 =>
               Remembered(it)' /\ it.offset # op'.cur
      PROVE  FreshInv'
  BY <1>0, <1>1 DEF FreshInv, Numbered
<1>2. ASSUME pc \in LinkSteps, pc' \in LinkSteps \cup {"commit_objects"},
             UNCHANGED <<residue, data>>, op'.left = op.left, op'.cur = op.cur
      PROVE  FreshInv'
  <2>1. Numbered(op'.left)
    BY <1>2 DEF FreshInv
  <2>2. \A it \in op'.left : it.copy = 1 => Remembered(it)' /\ it.offset # op'.cur
    BY <1>2 DEF FreshInv, Remembered
  <2> QED BY <1>1, <1>2, <2>1, <2>2
<1>3. CASE PlaceFirst \/ PlaceInTail \/ PlaceInNew \/ GlobalHeader
  <2>1. /\ pc \in LinkSteps /\ pc' \in LinkSteps
        /\ UNCHANGED <<residue, data>>
    BY <1>3 DEF PlaceFirst, PlaceInTail, PlaceInNew, GlobalHeader, Goto, objects
  <2>2. op'.left = op.left /\ op'.cur = op.cur
    BY <1>0, <1>3 DEF PlaceFirst, PlaceInTail, PlaceInNew, GlobalHeader, Locals
  <2> QED BY <1>2, <2>1, <2>2
<1>4. CASE LinkArray \/ SetSlot \/ Linked
  <2>1. pc \in LinkSteps /\ pc' \in LinkSteps \cup {"commit_objects"}
    BY <1>4, QuietLinkFrame DEF QuietLink
  <2>2. UNCHANGED <<residue, data, op>>
    BY <1>4 DEF LinkArray, SetSlot, Linked, objects
  <2> QED BY <1>2, <2>1, <2>2
<1>5. CASE DataArray \/ DataHint \/ DataCount
  <2>1. pc \in LinkSteps /\ pc' \in LinkSteps /\ UNCHANGED residue
    BY <1>5 DEF DataArray, DataHint, DataCount, Goto
  <2>2. op'.left = op.left /\ op'.cur \in {op.cur, 0}
    BY <1>0, <1>5 DEF DataArray, DataHint, DataCount, Locals
  <2>3. DOMAIN data' = DOMAIN data /\ \A o \in DOMAIN data : o # op.cur => data'[o] = data[o]
    BY <1>0, <1>5 DEF DataArray, DataHint, DataCount
  <2>4. ASSUME NEW it \in op'.left, it.copy = 1
        PROVE  Remembered(it)' /\ it.offset # op'.cur
    <3>1. Remembered(it) /\ it.offset # op.cur
      BY <2>1, <2>2, <2>4 DEF FreshInv
    <3> QED BY <1>0, <2>2, <2>3, <3>1 DEF Remembered
  <2>5. Numbered(op'.left)
    BY <2>1, <2>2 DEF FreshInv
  <2> QED BY <1>1, <2>1, <2>4, <2>5
<1>6. ASSUME NEW it \in op.left, NextItem(it), pc = "link", pc' \in LinkSteps,
             UNCHANGED residue, DOMAIN data' = DOMAIN data,
             \A o \in DOMAIN data : o # it.offset => data'[o] = data[o],
             op'.left = op.left \ {it}, op'.cur = it.offset
      PROVE  FreshInv'
  <2>1. Numbered(op.left) /\ \A j \in op.left : j.copy = 1 => Remembered(j)
    BY <1>6 DEF FreshInv
  <2>2. it \in Item /\ op.left \subseteq Item
    BY <1>0 DEF Locals
  <2>3. ASSUME NEW j \in op'.left, j.copy = 1
        PROVE  Remembered(j)' /\ j.offset # op'.cur
    <3>1. j \in op.left /\ j # it
      BY <1>6
    <3>2. j.offset # it.offset
      <4> SUFFICES ASSUME j.offset = it.offset
                   PROVE  FALSE
        OBVIOUS
      <4>1. it.offset \in Nat /\ it.copy \in Nat
        BY <2>2 DEF Item
      <4>2. it.copy <= 1
        BY <1>6, <2>3, <3>1, <4>1 DEF NextItem
      <4>3. it.copy = 1
        BY <2>1, <4>1, <4>2 DEF Numbered
      <4> QED BY <2>1, <2>3, <3>1, <4>3 DEF Numbered
    <3>3. Remembered(j)
      BY <2>1, <2>3, <3>1
    <3> QED BY <1>6, <3>2, <3>3 DEF Remembered
  <2>4. Numbered(op'.left)
    BY <1>6, <2>1 DEF Numbered
  <2> QED BY <1>1, <1>6, <2>3, <2>4
<1>7. ASSUME NEW it \in op.left, LinkFirst(it) \/ LinkSecond(it)
      PROVE  FreshInv'
  <2>1. /\ pc = "link" /\ NextItem(it) /\ pc' \in LinkSteps /\ UNCHANGED residue
    BY <1>7 DEF LinkFirst, LinkSecond, Goto
  <2>2. op'.left = op.left \ {it} /\ op'.cur = it.offset
    BY <1>0, <1>7 DEF LinkFirst, LinkSecond, Locals
  <2>3. DOMAIN data' = DOMAIN data /\ \A o \in DOMAIN data : o # it.offset => data'[o] = data[o]
    BY <1>0, <1>7 DEF LinkFirst, LinkSecond
  <2> QED BY <1>6, <2>1, <2>2, <2>3
<1>8. ASSUME NEW it \in op.left, LinkInTail(it) \/ LinkInNew(it)
      PROVE  FreshInv'
  <2>1. /\ pc = "link" /\ NextItem(it) /\ pc' \in LinkSteps /\ UNCHANGED <<residue, data>>
    BY <1>8 DEF LinkInTail, LinkInNew, Goto, objects
  <2>2. op'.left = op.left \ {it} /\ op'.cur = it.offset
    BY <1>0, <1>8 DEF LinkInTail, LinkInNew, Locals
  <2> QED BY <1>6, <2>1, <2>2
<1>9. CASE WriteEntry
  <2>1. /\ pc = "entry" /\ pc' = "place" /\ UNCHANGED <<residue, data>>
    BY <1>9 DEF WriteEntry, Goto
  <2>2. op'.left = op.items /\ op'.cur = 0
    BY <1>0, <1>9, <2>1 DEF WriteEntry, Locals, FreshInv
  <2>3. Numbered(op'.left) /\ \A it \in op'.left : Remembered(it)
    BY <2>1, <2>2 DEF FreshInv
  <2>4. \A it \in op'.left : Remembered(it)' /\ it.offset # op'.cur
    BY <1>0, <2>1, <2>2, <2>3 DEF Remembered
  <2> QED BY <1>1, <2>1, <2>3, <2>4
<1> QED BY <1>3, <1>4, <1>5, <1>7, <1>8, <1>9 DEF QuietLink, CreateLink

LEMMA FreshNext == TypeOK /\ ArenaInv /\ FreshInv /\ [Next]_vars => FreshInv'
<1> SUFFICES ASSUME TypeOK, ArenaInv, FreshInv, [Next]_vars
             PROVE  FreshInv'
  OBVIOUS
<1> USE DEF FieldSteps, LinkSteps
<1>1. CASE UNCHANGED vars
  BY <1>1 DEF vars, FreshInv, Remembered, Numbered
<1>2. CASE QuietField \/ CreateField \/ StartData \/ Finish
  BY <1>2, FreshField
<1>3. CASE QuietLink \/ CreateLink \/ WriteEntry
  BY <1>3, FreshLink
<1>4. CASE Call
  <2>1. ASSUME NEW fields \in Requests, NEW s \in SeqnumOptions, NEW b \in Boots,
               NEW m \in Monotonics, NEW trusted \in TrustedOptions,
               BeginAppend(fields, s, b, m, trusted)
        PROVE  FreshInv'
    <3>1. op'.items = {} /\ op'.cur = 0 /\ pc' = "field" /\ UNCHANGED residue
      BY <2>1 DEF BeginAppend, NoOp, Goto
    <3> QED BY <3>1 DEF FreshInv, Numbered
  <2>2. ASSUME NEW s \in SeqnumOptions, NEW b \in Boots, NEW m \in Monotonics,
               RefuseOptions(s, b, m)
        PROVE  FreshInv'
    BY <2>2 DEF RefuseOptions, Return, FreshInv
  <2>3. CASE RefusePoisoned
    BY <2>3 DEF RefusePoisoned, Return, FreshInv
  <2> QED BY <1>4, <2>1, <2>2, <2>3 DEF Call
<1>5. CASE Leave
  <2>1. pc' = "idle" /\ UNCHANGED residue
    BY <1>5 DEF Leave, RejectField, FinishEmpty, FailAppend, Overflow, Return
  <2> QED BY <2>1 DEF FreshInv
<1>6. CASE \/ CommitObjects \/ CommitTailObject \/ CommitHead \/ CommitTail
           \/ CommitTailEntry \/ CommitCount \/ Publish \/ FailPublish
  <2>1. pc' \in Commits \cup {"publish", "idle"} /\ UNCHANGED residue
    BY <1>6 DEF CommitObjects, CommitTailObject, CommitHead, CommitTail, CommitTailEntry,
                CommitCount, Publish, FailPublish, Goto, Return, Commits
  <2> QED BY <2>1 DEF FreshInv, Commits
<1> QED BY <1>1, <1>2, <1>3, <1>4, <1>5, <1>6, NextGroups

(***************************************************************************)
(* When link_data_to_entry takes up an item, the state that the lookup of  *)
(* its payload remembered (ResolvedDataLinkState), or for a repeated item  *)
(* the state read again, is what the DATA object says now.                 *)
(***************************************************************************)
THEOREM LinkStatesAreFresh == Spec => []LinkStateFresh
<1>1. TypeOK /\ FreshInv => LinkStateFresh
  <2> SUFFICES ASSUME TypeOK, FreshInv, pc = "link", NEW it \in op.left, NextItem(it)
               PROVE  LET v == LinkState(it)
                          d == data[it.offset]
                      IN  /\ v.n = d.n
                          /\ v.n >= 2 => /\ v.array = d.array
                                         /\ Compact => v.tail = d.tail /\ v.tail_n = d.tail_n
    BY DEF LinkStateFresh
  <2>1. CASE it.copy = 1
    <3>1. Remembered(it) /\ LinkState(it) = it
      BY <2>1 DEF FreshInv, LinkSteps, LinkState
    <3> QED BY <3>1 DEF Remembered
  <2>2. CASE it.copy # 1
    <3>1. it \in Item
      BY ItemType
    <3>2. LinkState(it) = [it EXCEPT !.n = data[it.offset].n, !.array = data[it.offset].array,
                                     !.tail = data[it.offset].tail,
                                     !.tail_n = data[it.offset].tail_n]
      BY <2>2 DEF LinkState
    <3> QED BY <3>1, <3>2 DEF Item
  <2> QED BY <2>1, <2>2
<1> QED BY <1>1, FreshInit, FreshNext, ArenaInit, ArenaNext, TypeInit, TypeNext, PTL DEF Spec

-----------------------------------------------------------------------------
(* The append-only log. *)

\* What is still to come of a request.
Rest(s) == {s[i] : i \in DOMAIN s} \cap Payloads

PayloadsOf(S) == {data[it.offset].payload : it \in S}

EntryPayloads(e) == {data[x[1]].payload : x \in entry[e].items}

(***************************************************************************)
(* The payloads of the request are those of the items and of the fields    *)
(* still to come; the ENTRY object then has them all.  No item and no      *)
(* ENTRY object refers to a DATA object that is not there.                 *)
(***************************************************************************)
RequestInv ==
  /\ \A e \in DOMAIN entry : \A x \in entry[e].items : x[1] \in DOMAIN data
  /\ pc \in FieldSteps \ {"data"} =>
       op.cur \in DOMAIN data /\ data[op.cur].payload = Head(op.todo)
  /\ pc \in Request \cup {"entry"} =>
       /\ op.want = Rest(op.todo) \cup PayloadsOf(op.items)
       /\ \A it \in op.items : it.offset \in DOMAIN data
  /\ pc = "entry" => op.todo = <<>> /\ op.items # {}
  /\ pc \in LinkSteps \cup Commits =>
       op.entry \in DOMAIN entry /\ EntryPayloads(op.entry) = op.want /\ op.want # {}

\* The committed entry with the highest number.
Newest(e) ==
  e \in CommittedByNumber /\ \A f \in CommittedByNumber : entry[f].seqnum <= entry[e].seqnum

(***************************************************************************)
(* The entry of the running append is the only one that is not committed,  *)
(* and it may follow the newest one that is; the header knows the newest   *)
(* one whenever an append may begin.                                       *)
(***************************************************************************)
StampInv ==
  /\ pc \notin {"idle", "publish"} =>
       /\ op.seqnum >= w.next_seqnum
       /\ \A e \in DOMAIN entry : Newest(e) /\ entry[e].boot = op.boot => entry[e].mono < op.mono
  /\ pc \in Request \cup {"entry"} => \A e \in DOMAIN entry : entry[e].seqnum < w.next_seqnum
  /\ pc \in LinkSteps \cup Commits =>
       /\ op.entry \in DOMAIN entry
       /\ entry[op.entry].seqnum = op.seqnum /\ entry[op.entry].boot = op.boot
       /\ entry[op.entry].mono = op.mono
       /\ \A e \in DOMAIN entry \ {op.entry} : entry[e].seqnum < w.next_seqnum
  /\ pc \in {"commit_tail_entry", "commit_count"} =>
       hdr.tail_boot = op.boot /\ hdr.tail_mono = op.mono
  /\ ~w.poisoned \/ pc = "publish" =>
       /\ \A e \in DOMAIN entry : Newest(e) =>
            hdr.tail_boot = entry[e].boot /\ hdr.tail_mono = entry[e].mono
       /\ hdr.n_entries = 0 => CommittedByNumber = {}

\* DATA objects keep their payloads.
SamePayloads ==
  /\ DOMAIN data \subseteq DOMAIN data'
  /\ \A o \in DOMAIN data : data'[o].payload = data[o].payload

SameRequest ==
  op'.want = op.want /\ op'.boot = op.boot /\ op'.mono = op.mono /\ op'.seqnum = op.seqnum

(***************************************************************************)
(* No step changes the payload of a DATA object or drops one.              *)
(***************************************************************************)
LEMMA PayloadsNext ==
  ASSUME TypeOK, ArenaInv, [Next]_vars
  PROVE  SamePayloads
<1>0. data \in [DOMAIN data -> DataObject] /\ w.append_offset \notin DOMAIN data
  <2>1. w.append_offset \notin DOMAIN data
    BY ArenaNumbers DEF ArenaInv
  <2> QED BY <2>1 DEF TypeOK, ObjectsOK
<1>1. ASSUME data' = data PROVE SamePayloads
  BY <1>1 DEF SamePayloads
<1>2. CASE UNCHANGED vars
  BY <1>1, <1>2 DEF vars
<1>3. CASE Call \/ Leave \/ StartData \/ Finish
  BY <1>1, <1>3, CallFrame, LeaveFrame, StartPoisoned DEF objects
<1>4. CASE QuietField
  <2>1. CASE LinkDataHash \/ SetNextField
    BY <1>0, <2>1 DEF LinkDataHash, SetNextField, SamePayloads, DataObject
  <2>2. CASE ~(LinkDataHash \/ SetNextField)
    <3>1. data' = data
      BY <1>4, <2>2 DEF QuietField, SkipField, ReuseData, PublishDataBucket, CountData,
           CachedField, FoundField, LinkFieldHash, PublishFieldBucket, CountField,
           SetHeadData, objects
    <3> QED BY <1>1, <3>1
  <2> QED BY <2>1, <2>2
<1>5. CASE CreateField
  <2>1. CASE WriteData
    BY <1>0, <2>1 DEF WriteData, Put, SamePayloads
  <2>2. CASE WriteField
    BY <1>1, <2>2 DEF WriteField
  <2> QED BY <1>5, <2>1, <2>2 DEF CreateField
<1>6. CASE QuietLink
  <2>1. ASSUME NEW it \in op.left, LinkFirst(it)
        PROVE  SamePayloads
    BY <1>0, <2>1 DEF LinkFirst, SamePayloads, DataObject
  <2>2. ASSUME NEW it \in op.left, LinkInTail(it)
        PROVE  SamePayloads
    BY <1>1, <2>2 DEF LinkInTail, objects
  <2>3. CASE DataArray
    BY <1>0, <2>3 DEF DataArray, SamePayloads, DataObject
  <2>4. CASE DataHint
    BY <1>0, <2>4 DEF DataHint, SamePayloads, DataObject
  <2>5. CASE DataCount
    BY <1>0, <2>5 DEF DataCount, SamePayloads, DataObject
  <2>6. CASE PlaceInTail \/ LinkArray \/ SetSlot \/ GlobalHeader \/ Linked
    BY <1>1, <2>6 DEF PlaceInTail, LinkArray, SetSlot, GlobalHeader, Linked, objects
  <2> QED BY <1>6, <2>1, <2>2, <2>3, <2>4, <2>5, <2>6 DEF QuietLink
<1>7. CASE CreateLink \/ WriteEntry
  <2>1. data' = data
    BY <1>7 DEF CreateLink, PlaceFirst, PlaceInNew, LinkSecond, LinkInNew, WriteEntry
  <2> QED BY <1>1, <2>1
<1>8. CASE \/ CommitObjects \/ CommitTailObject \/ CommitHead \/ CommitTail
           \/ CommitTailEntry \/ CommitCount \/ Publish \/ FailPublish
  <2>1. data' = data
    BY <1>8 DEF CommitObjects, CommitTailObject, CommitHead, CommitTail, CommitTailEntry,
                CommitCount, Publish, FailPublish, objects
  <2> QED BY <1>1, <2>1
<1> QED BY <1>2, <1>3, <1>4, <1>5, <1>6, <1>7, <1>8, NextGroups

LEMMA FieldKeepsRequest ==
  ASSUME TypeOK, QuietField \/ CreateField \/ StartData \/ Finish
  PROVE  SameRequest
<1>0. op \in Locals
  BY DEF TypeOK, CallOK
<1>1. CASE QuietField
  BY <1>0, <1>1 DEF QuietField, SkipField, ReuseData, LinkDataHash, PublishDataBucket,
       CountData, CachedField, FoundField, LinkFieldHash, PublishFieldBucket, CountField,
       SetNextField, SetHeadData, Locals, SameRequest
<1>2. CASE CreateField
  BY <1>0, <1>2 DEF CreateField, WriteData, WriteField, Locals, SameRequest
<1>3. CASE StartData \/ Finish
  BY <1>3, StartPoisoned DEF SameRequest
<1> QED BY <1>1, <1>2, <1>3

LEMMA LinkKeepsRequest ==
  ASSUME TypeOK, QuietLink \/ CreateLink \/ WriteEntry
  PROVE  /\ SameRequest
         /\ QuietLink \/ CreateLink => op'.entry = op.entry
         /\ WriteEntry => op'.entry = w.append_offset
<1>0. op \in Locals
  BY DEF TypeOK, CallOK
<1>1. CASE \/ PlaceInTail \/ LinkArray \/ SetSlot \/ GlobalHeader \/ DataArray \/ DataHint
           \/ DataCount \/ Linked \/ PlaceFirst \/ PlaceInNew
  <2>1. SameRequest /\ op'.entry = op.entry
    BY <1>0, <1>1 DEF PlaceInTail, LinkArray, SetSlot, GlobalHeader, DataArray, DataHint,
         DataCount, Linked, PlaceFirst, PlaceInNew, Locals, SameRequest
  <2>2. ~WriteEntry
    BY <1>1 DEF PlaceInTail, LinkArray, SetSlot, GlobalHeader, DataArray, DataHint,
         DataCount, Linked, PlaceFirst, PlaceInNew, WriteEntry
  <2> QED BY <2>1, <2>2
<1>2. ASSUME NEW it \in op.left, LinkFirst(it) \/ LinkSecond(it) \/ LinkInTail(it) \/ LinkInNew(it)
      PROVE  SameRequest /\ op'.entry = op.entry /\ ~WriteEntry
  <2>1. CASE LinkFirst(it)
    BY <1>0, <2>1 DEF LinkFirst, Locals, SameRequest, WriteEntry
  <2>2. CASE LinkSecond(it)
    BY <1>0, <2>2 DEF LinkSecond, Locals, SameRequest, WriteEntry
  <2>3. CASE LinkInTail(it)
    BY <1>0, <2>3 DEF LinkInTail, Locals, SameRequest, WriteEntry
  <2>4. CASE LinkInNew(it)
    BY <1>0, <2>4 DEF LinkInNew, Locals, SameRequest, WriteEntry
  <2> QED BY <1>2, <2>1, <2>2, <2>3, <2>4
<1>3. CASE WriteEntry
  <2>1. SameRequest /\ op'.entry = w.append_offset
    BY <1>0, <1>3 DEF WriteEntry, Locals, SameRequest
  <2>2. ~(QuietLink \/ CreateLink)
    BY <1>3, QuietLinkFrame, CreateLinkFrame DEF WriteEntry, LinkSteps
  <2> QED BY <2>1, <2>2
<1> QED BY <1>1, <1>2, <1>3 DEF QuietLink, CreateLink

LEMMA RestTail ==
  ASSUME NEW S, NEW s \in Seq(S), s # <<>>
  PROVE  Rest(s) = ({Head(s)} \cap Payloads) \cup Rest(Tail(s))
<1>1. Len(s) \in Nat /\ Len(s) >= 1 /\ DOMAIN s = 1..Len(s)
  OBVIOUS
<1>2. DOMAIN Tail(s) = 1..(Len(s) - 1) /\ \A i \in 1..(Len(s) - 1) : Tail(s)[i] = s[i + 1]
  OBVIOUS
<1>3. Head(s) = s[1]
  OBVIOUS
<1>4. ASSUME NEW i \in DOMAIN s
      PROVE  s[i] = Head(s) \/ \E j \in DOMAIN Tail(s) : Tail(s)[j] = s[i]
  <2>1. CASE i = 1
    BY <1>3, <2>1
  <2>2. CASE i # 1
    <3>1. i - 1 \in DOMAIN Tail(s) /\ Tail(s)[i - 1] = s[(i - 1) + 1] /\ (i - 1) + 1 = i
      BY <1>1, <1>2, <2>2
    <3> QED BY <3>1
  <2> QED BY <2>1, <2>2
<1>5. ASSUME NEW j \in DOMAIN Tail(s)
      PROVE  \E i \in DOMAIN s : s[i] = Tail(s)[j]
  <2>1. j + 1 \in DOMAIN s /\ Tail(s)[j] = s[j + 1]
    BY <1>1, <1>2
  <2> QED BY <2>1
<1>6. \E i \in DOMAIN s : s[i] = Head(s)
  BY <1>1, <1>3
<1> QED BY <1>4, <1>5, <1>6 DEF Rest

(***************************************************************************)
(* AddItem adds an item of its DATA object and drops none.                 *)
(***************************************************************************)
LEMMA AddItemOffsets ==
  ASSUME NEW o, NEW n, NEW a, NEW t, NEW tn
  PROVE  /\ PayloadsOf(AddItem(o, n, a, t, tn)) = PayloadsOf(op.items) \cup {data[o].payload}
         /\ \A it \in AddItem(o, n, a, t, tn) : it \in op.items \/ it.offset = o
<1> DEFINE copies == {it \in op.items : it.offset = o}
           item == [offset |-> o, copy |-> Cardinality(copies) + 1, n |-> n,
                    array |-> a, tail |-> t, tail_n |-> tn]
<1>1. \/ AddItem(o, n, a, t, tn) = op.items /\ copies # {}
      \/ AddItem(o, n, a, t, tn) = op.items \cup {item}
  BY DEF AddItem
<1>2. item.offset = o
  OBVIOUS
<1> HIDE DEF item
<1>3. CASE AddItem(o, n, a, t, tn) = op.items /\ copies # {}
  BY <1>3 DEF PayloadsOf
<1>4. CASE AddItem(o, n, a, t, tn) = op.items \cup {item}
  BY <1>2, <1>4 DEF PayloadsOf
<1> QED BY <1>1, <1>3, <1>4

LEMMA ItemPayloadsKept ==
  ASSUME SamePayloads, NEW S, \A it \in S : it.offset \in DOMAIN data
  PROVE  {data'[it.offset].payload : it \in S} = {data[it.offset].payload : it \in S}
BY DEF SamePayloads

LEMMA EntryPayloadsKept ==
  ASSUME SamePayloads, NEW e \in DOMAIN entry, e \in DOMAIN entry', entry'[e] = entry[e],
         \A x \in entry[e].items : x[1] \in DOMAIN data
  PROVE  EntryPayloads(e)' = EntryPayloads(e)
BY DEF SamePayloads, EntryPayloads

LEMMA RequestInit == Init => RequestInv
BY DEF Init, RequestInv, FieldSteps, LinkSteps, Commits, Request

(***************************************************************************)
(* The steps of the field list turn fields into items.                     *)
(***************************************************************************)
LEMMA RequestField ==
  ASSUME TypeOK, RequestInv, SamePayloads,
         QuietField \/ CreateField \/ StartData \/ Finish
  PROVE  RequestInv'
<1> USE DEF FieldSteps, LinkSteps, Commits, Request
<1>0. /\ op \in Locals /\ data \in [DOMAIN data -> DataObject]
      /\ op.todo \in Seq(Payloads \cup {Rejected, Dropped})
  BY DEF TypeOK, CallOK, ObjectsOK, Locals
<1>1. /\ pc \in Request /\ pc' \in Request \cup {"entry"} /\ entry' = entry
      /\ op'.want = op.want
  <2>1. pc \in Request /\ pc' \in Request \cup {"entry"} /\ entry' = entry
    BY QuietFieldFrame, CreateFieldFrame, StartPoisoned DEF objects
  <2> QED BY <2>1, FieldKeepsRequest DEF SameRequest
<1>2. /\ op.want = Rest(op.todo) \cup PayloadsOf(op.items)
      /\ \A it \in op.items : it.offset \in DOMAIN data /\ it.offset \in DOMAIN data'
  BY <1>1 DEF RequestInv, SamePayloads
<1>3. \A e \in DOMAIN entry' : \A x \in entry'[e].items : x[1] \in DOMAIN data'
  BY <1>1 DEF RequestInv, SamePayloads
<1>4. ASSUME pc' \in FieldSteps \ {"data"} =>
               op'.cur \in DOMAIN data' /\ data'[op'.cur].payload = Head(op'.todo),
             op.want = Rest(op'.todo) \cup {data'[it.offset].payload : it \in op'.items},
             \A it \in op'.items : it.offset \in DOMAIN data',
             pc' = "entry" => op'.todo = <<>> /\ op'.items # {}
      PROVE  RequestInv'
  BY <1>1, <1>3, <1>4 DEF RequestInv, PayloadsOf, Rest
<1>5. ASSUME op'.todo = op.todo, op'.items = op.items
      PROVE  /\ op.want = Rest(op'.todo) \cup {data'[it.offset].payload : it \in op'.items}
             /\ \A it \in op'.items : it.offset \in DOMAIN data'
  BY <1>2, <1>5, ItemPayloadsKept DEF PayloadsOf
<1>6. CASE StartData \/ Finish
  <2>1. op' = op /\ pc' \in {"data", "entry"}
    BY <1>6, StartPoisoned
  <2>2. pc' = "entry" => op.todo = <<>> /\ op.items # {}
    BY <1>6 DEF StartData, Finish, Goto
  <2> QED BY <1>4, <1>5, <2>1, <2>2
<1>7. CASE \/ PublishDataBucket \/ CountData \/ CachedField \/ FoundField \/ LinkFieldHash
           \/ PublishFieldBucket \/ CountField \/ WriteField \/ LinkDataHash \/ SetNextField
  <2>1. pc \in FieldSteps \ {"data"} /\ pc' \in FieldSteps \ {"data"}
    BY <1>7 DEF PublishDataBucket, CountData, CachedField, FoundField, LinkFieldHash,
                PublishFieldBucket, CountField, WriteField, LinkDataHash, SetNextField, Goto
  <2>2. op'.todo = op.todo /\ op'.items = op.items /\ op'.cur = op.cur
    BY <1>0, <1>7 DEF PublishDataBucket, CountData, CachedField, FoundField, LinkFieldHash,
                      PublishFieldBucket, CountField, WriteField, LinkDataHash, SetNextField,
                      Locals
  <2>3. op.cur \in DOMAIN data' /\ data'[op.cur].payload = Head(op.todo)
    BY <2>1 DEF RequestInv, SamePayloads
  <2> QED BY <1>4, <1>5, <2>1, <2>2, <2>3
<1>8. CASE WriteData
  <2>1. op'.todo = op.todo /\ op'.items = op.items /\ op'.cur = w.append_offset
    BY <1>0, <1>8 DEF WriteData, Locals
  <2>2. w.append_offset \in DOMAIN data' /\ data'[w.append_offset].payload = Head(op.todo)
    BY <1>8 DEF WriteData, Put, Payload
  <2>3. pc' = "hash_next"
    BY <1>8 DEF WriteData, Goto
  <2> QED BY <1>4, <1>5, <2>1, <2>2, <2>3
<1>9. CASE SkipField
  <2>1. op'.todo = Tail(op.todo) /\ op'.items = op.items /\ op.todo # <<>>
    BY <1>0, <1>9 DEF SkipField, AtField, Locals
  <2>2. pc' = "field" /\ data' = data
    BY <1>9 DEF SkipField, Goto, objects
  <2>3. Head(op.todo) \notin Payloads
    BY <1>9, ConstantsAssumption DEF SkipField, Payload, ConstantsAssumption
  <2>4. Rest(op.todo) = Rest(Tail(op.todo))
    BY <1>0, <2>1, <2>3, RestTail
  <2> QED BY <1>2, <1>4, <2>1, <2>2, <2>4 DEF PayloadsOf
<1>10. ASSUME NEW o, NEW n, NEW a, NEW t, NEW tn,
              op'.items = AddItem(o, n, a, t, tn), op'.todo = Tail(op.todo),
              op.todo # <<>>, Head(op.todo) \in Payloads, o \in DOMAIN data,
              data[o].payload = Head(op.todo), pc' = "field", data' = data
       PROVE  RequestInv'
  <2>1. /\ PayloadsOf(op'.items) = PayloadsOf(op.items) \cup {Head(op.todo)}
        /\ \A it \in op'.items : it.offset \in DOMAIN data'
    BY <1>2, <1>10, AddItemOffsets
  <2>2. Rest(op.todo) = {Head(op.todo)} \cup Rest(Tail(op.todo))
    BY <1>0, <1>10, RestTail
  <2> QED BY <1>2, <1>4, <1>10, <2>1, <2>2 DEF PayloadsOf
<1>11. CASE ReuseData
  <2>1. PICK d \in FindData(Payload) :
          op' = [op EXCEPT !.todo = Tail(@),
                           !.items = AddItem(d, data[d].n, data[d].array,
                                             data[d].tail, data[d].tail_n)]
    BY <1>11 DEF ReuseData
  <2>2. d \in DOMAIN data /\ data[d].payload = Head(op.todo)
    BY DEF FindData, Payload
  <2>3. /\ op'.items = AddItem(d, data[d].n, data[d].array, data[d].tail, data[d].tail_n)
        /\ op'.todo = Tail(op.todo)
    BY <1>0, <2>1 DEF Locals
  <2>4. op.todo # <<>> /\ Head(op.todo) \in Payloads /\ pc' = "field" /\ data' = data
    BY <1>11 DEF ReuseData, AtField, Payload, Goto, objects
  <2> DEFINE n == data[d].n
             a == data[d].array
             t == data[d].tail
             tn == data[d].tail_n
  <2>5. op'.items = AddItem(d, n, a, t, tn)
    BY <2>3
  <2> HIDE DEF n, a, t, tn
  <2> QED BY <1>10, <2>2, <2>3, <2>4, <2>5
<1>12. CASE SetHeadData
  <2>1. op'.items = AddItem(op.cur, 0, 0, 0, 0) /\ op'.todo = Tail(op.todo)
    BY <1>0, <1>12 DEF SetHeadData, Locals
  <2>2. pc = "head_data" /\ pc' = "field" /\ data' = data
    BY <1>12 DEF SetHeadData, Goto
  <2>3. /\ op.todo # <<>> /\ Head(op.todo) \in Payloads
        /\ op.cur \in DOMAIN data /\ data[op.cur].payload = Head(op.todo)
    BY <2>2 DEF RequestInv, TypeOK, CallOK
  <2> QED BY <1>10, <2>1, <2>2, <2>3
<1> QED BY <1>6, <1>7, <1>8, <1>9, <1>11, <1>12 DEF QuietField, CreateField

LEMMA RequestNext ==
  TypeOK /\ ArenaInv /\ RequestInv /\ [Next]_vars => RequestInv'
<1> SUFFICES ASSUME TypeOK, ArenaInv, RequestInv, [Next]_vars
             PROVE  RequestInv'
  OBVIOUS
<1> USE DEF FieldSteps, LinkSteps, Commits, Request
<1>p. SamePayloads
  BY PayloadsNext
<1>1. CASE UNCHANGED vars
  BY <1>1 DEF vars, RequestInv, PayloadsOf, EntryPayloads, Rest
<1>2. CASE QuietField \/ CreateField \/ StartData \/ Finish
  BY <1>2, <1>p, RequestField
<1>3. CASE Call
  <2>0. data' = data /\ entry' = entry
    BY <1>3, CallFrame DEF objects
  <2>1. ASSUME NEW fields \in Requests, NEW s \in SeqnumOptions, NEW b \in Boots,
               NEW m \in Monotonics, NEW trusted \in TrustedOptions,
               BeginAppend(fields, s, b, m, trusted)
        PROVE  RequestInv'
    <3>1. /\ op'.items = {} /\ op'.todo = fields /\ pc' = "field"
          /\ op'.want = {fields[i] : i \in DOMAIN fields} \cap Payloads
      BY <2>1 DEF BeginAppend, NoOp, Goto
    <3>2. op'.want = Rest(op'.todo) \cup {data'[it.offset].payload : it \in op'.items}
      BY <3>1 DEF Rest
    <3> QED BY <2>0, <3>1, <3>2 DEF RequestInv, PayloadsOf, Rest
  <2>2. ASSUME pc' = "idle"
        PROVE  RequestInv'
    BY <2>0, <2>2 DEF RequestInv
  <2> QED BY <1>3, <2>1, <2>2 DEF Call, RefuseOptions, RefusePoisoned, Return
<1>4. CASE Leave \/ Publish \/ FailPublish
  <2>1. pc' = "idle" /\ data' = data /\ entry' = entry
    BY <1>4, LeaveFrame, EndPoisoned DEF objects
  <2> QED BY <2>1 DEF RequestInv
<1>5. ASSUME pc \in LinkSteps \cup Commits, pc' \in LinkSteps \cup Commits \cup {"publish"},
             entry' = entry, op'.want = op.want, op'.entry = op.entry
      PROVE  RequestInv'
  <2>1. \A e \in DOMAIN entry' : \A x \in entry'[e].items : x[1] \in DOMAIN data'
    BY <1>5, <1>p DEF RequestInv, SamePayloads
  <2>2. op.entry \in DOMAIN entry /\ EntryPayloads(op.entry) = op.want /\ op.want # {}
    BY <1>5 DEF RequestInv
  <2>3. {data'[x[1]].payload : x \in entry'[op'.entry].items} = op.want
    BY <1>5, <1>p, <2>2 DEF RequestInv, SamePayloads, EntryPayloads
  <2> QED BY <1>5, <2>1, <2>2, <2>3 DEF RequestInv, EntryPayloads
<1>6. CASE QuietLink \/ CreateLink
  BY <1>5, <1>6, LinkKeepsRequest, QuietLinkFrame, CreateLinkFrame DEF SameRequest
<1>7. CASE CommitObjects
  BY <1>5, <1>7 DEF CommitObjects, Goto, objects
<1>8. CASE CommitTailObject \/ CommitHead \/ CommitTail \/ CommitTailEntry
  BY <1>5, <1>8, CommitFrame DEF objects
<1>9. CASE CommitCount
  BY <1>5, <1>9, CountPoisoned DEF objects
<1>10. CASE WriteEntry
  <2> DEFINE o == w.append_offset
  <2>1. /\ pc = "entry" /\ pc' = "place" /\ data' = data
        /\ op'.want = op.want /\ op'.entry = o
    BY <1>10, LinkKeepsRequest DEF WriteEntry, Goto, SameRequest
  <2>2. /\ DOMAIN entry' = DOMAIN entry \cup {o}
        /\ entry'[o].items = {<<it.offset, it.copy>> : it \in op.items}
        /\ \A e \in DOMAIN entry : e # o => entry'[e] = entry[e]
    BY <1>10 DEF WriteEntry, Put
  <2>3. /\ op.want = Rest(<<>>) \cup PayloadsOf(op.items) /\ op.items # {}
        /\ \A it \in op.items : it.offset \in DOMAIN data
    BY <2>1 DEF RequestInv
  <2>4. op.want = PayloadsOf(op.items)
    BY <2>3 DEF Rest
  <2>5. {data[x[1]].payload : x \in entry'[o].items} = PayloadsOf(op.items)
    <3> DEFINE X == entry'[o].items
    <3>1. \A it \in op.items : \E x \in X : x[1] = it.offset
      <4> TAKE it \in op.items
      <4>1. <<it.offset, it.copy>> \in X /\ <<it.offset, it.copy>>[1] = it.offset
        BY <2>2
      <4> QED BY <4>1
    <3>2. \A x \in X : \E it \in op.items : x[1] = it.offset
      <4> TAKE x \in X
      <4>1. PICK it \in op.items : x = <<it.offset, it.copy>>
        BY <2>2
      <4> QED BY <4>1
    <3> HIDE DEF X
    <3>3. {data[x[1]].payload : x \in X} = {data[it.offset].payload : it \in op.items}
      BY <3>1, <3>2
    <3> QED BY <3>3 DEF PayloadsOf, X
  <2>6. op.want # {}
    BY <2>3, <2>4 DEF PayloadsOf
  <2>7. \A x \in entry'[o].items : x[1] \in DOMAIN data
    BY <2>2, <2>3
  <2>8. \A e \in DOMAIN entry' : \A x \in entry'[e].items : x[1] \in DOMAIN data'
    BY <2>1, <2>2, <2>7 DEF RequestInv
  <2> QED BY <2>1, <2>2, <2>4, <2>5, <2>6, <2>8 DEF RequestInv, EntryPayloads
<1> QED BY <1>1, <1>2, <1>3, <1>4, <1>6, <1>7, <1>8, <1>9, <1>10, NextGroups

LEMMA StampInit == Init => StampInv
BY DEF Init, StampInv, FieldSteps, LinkSteps, Commits, Request, Newest, CommittedByNumber

(***************************************************************************)
(* As long as the next number stays and no entry below it appears, the     *)
(* committed entries are the same.                                         *)
(***************************************************************************)
LEMMA NewestKept ==
  ASSUME w'.next_seqnum = w.next_seqnum, DOMAIN entry \subseteq DOMAIN entry',
         \A e \in DOMAIN entry : entry'[e] = entry[e],
         \A e \in DOMAIN entry' \ DOMAIN entry : ~(entry'[e].seqnum < w.next_seqnum)
  PROVE  /\ CommittedByNumber' = CommittedByNumber
         /\ \A e : Newest(e)' <=> Newest(e)
<1>1. CommittedByNumber' = CommittedByNumber
  BY DEF CommittedByNumber
<1>2. \A e \in CommittedByNumber : entry'[e] = entry[e]
  BY DEF CommittedByNumber
<1> QED BY <1>1, <1>2 DEF Newest

LEMMA StampTypes ==
  ASSUME TypeOK
  PROVE  /\ \A e \in DOMAIN entry : entry[e].mono \in Nat /\ entry[e].seqnum \in Nat
         /\ hdr.tail_mono \in Nat /\ hdr.n_entries \in Nat
         /\ op.mono \in Nat /\ op.seqnum \in Nat /\ w.next_seqnum \in Nat
<1>1. \A e \in DOMAIN entry : entry[e].mono \in Nat
  BY DEF TypeOK, ObjectsOK, EntryObject
<1>2. hdr.tail_mono \in Nat /\ hdr.n_entries \in Nat
  BY DEF TypeOK, HeaderOK, Header
<1>3. op.mono \in Nat
  BY DEF TypeOK, CallOK, Locals
<1> QED BY <1>1, <1>2, <1>3, EntryNumbers

\* The header's copy of the stamps of the newest entry.
SameTail ==
  hdr'.tail_boot = hdr.tail_boot /\ hdr'.tail_mono = hdr.tail_mono /\ hdr'.n_entries = hdr.n_entries

LEMMA FieldKeepsTail ==
  ASSUME TypeOK, QuietField \/ CreateField \/ StartData \/ Finish
  PROVE  SameTail
<1>0. hdr \in Header
  BY DEF TypeOK, HeaderOK
<1>1. CASE QuietField \/ CreateField
  BY <1>0, <1>1 DEF QuietField, CreateField, SkipField, ReuseData, LinkDataHash,
       PublishDataBucket, CountData, CachedField, FoundField, LinkFieldHash,
       PublishFieldBucket, CountField, SetNextField, SetHeadData, WriteData, WriteField,
       Header, SameTail
<1>2. CASE StartData \/ Finish
  BY <1>2, StartPoisoned DEF SameTail
<1> QED BY <1>1, <1>2

LEMMA StampCall ==
  ASSUME TypeOK, SeqnumInv, StampInv, Call
  PROVE  StampInv'
<1> USE DEF FieldSteps, LinkSteps, Commits, Request
<1>0. /\ entry' = entry /\ hdr' = hdr /\ w' = w /\ pc = "idle" /\ pc' \in {"idle", "field"}
      /\ pc' = "field" => ~w.poisoned /\ op'.seqnum >= w.next_seqnum
  BY CallFrame DEF objects
<1>1. CommittedByNumber' = CommittedByNumber /\ \A e : Newest(e)' <=> Newest(e)
  BY <1>0, NewestKept
<1>2. CASE pc' = "idle"
  BY <1>0, <1>1, <1>2 DEF StampInv
<1>3. CASE pc' = "field"
  <2>1. PICK fields \in Requests, s \in SeqnumOptions, b \in Boots, m \in Monotonics,
             trusted \in TrustedOptions : BeginAppend(fields, s, b, m, trusted)
    BY <1>3 DEF Call, RefuseOptions, RefusePoisoned, Return
  <2>2. op'.boot = b /\ op'.mono = ClampMonotonic(b, m) /\ m \in Nat
    BY <2>1, ConstantsAssumption DEF BeginAppend, NoOp, ConstantsAssumption
  <2>3. \A e \in DOMAIN entry : entry[e].seqnum < w.next_seqnum
    BY <1>0, <1>3 DEF SeqnumInv
  <2>4. ASSUME NEW e \in DOMAIN entry, Newest(e), entry[e].boot = op'.boot
        PROVE  entry[e].mono < op'.mono
    <3>1. hdr.tail_boot = entry[e].boot /\ hdr.tail_mono = entry[e].mono /\ hdr.n_entries # 0
      BY <1>0, <1>3, <2>4 DEF StampInv, Newest
    <3> QED BY <2>2, <2>4, <3>1, StampTypes DEF ClampMonotonic
  <2> QED BY <1>0, <1>1, <1>3, <2>3, <2>4 DEF StampInv
<1> QED BY <1>0, <1>2, <1>3

LEMMA StampNext ==
  TypeOK /\ SeqnumInv /\ StampInv /\ [Next]_vars => StampInv'
<1> SUFFICES ASSUME TypeOK, SeqnumInv, StampInv, [Next]_vars
             PROVE  StampInv'
  OBVIOUS
<1> USE DEF FieldSteps, LinkSteps, Commits, Request
<1>p. PoisonCover /\ PoisonCover'
  BY PoisonNext DEF SeqnumInv
<1>t. w \in Writer /\ w.append_offset >= 3
  BY DEF TypeOK, WriterOK
<1>k. ASSUME entry' = entry, w'.next_seqnum = w.next_seqnum
      PROVE  CommittedByNumber' = CommittedByNumber /\ \A e : Newest(e)' <=> Newest(e)
  BY <1>k, NewestKept
<1>1. CASE UNCHANGED vars
  BY <1>1, <1>k DEF vars, StampInv
<1>2. CASE Call
  BY <1>2, StampCall
<1>3. CASE Leave
  <2>1. entry' = entry /\ hdr' = hdr /\ w' = w /\ pc' = "idle"
    BY <1>3, LeaveFrame DEF objects
  <2>2. pc # "publish"
    BY <1>3 DEF Leave, RejectField, FinishEmpty, FailAppend, Overflow, Creates, AtField
  <2> QED BY <1>k, <2>1, <2>2 DEF StampInv
<1>4. CASE QuietField \/ CreateField \/ StartData \/ Finish
  <2>1. /\ entry' = entry /\ pc \in Request /\ pc' \in Request \cup {"entry"}
        /\ w'.next_seqnum = w.next_seqnum /\ (w'.poisoned \/ ~w.poisoned)
    <3>1. CASE QuietField
      BY <3>1, QuietFieldFrame
    <3>2. CASE CreateField
      BY <1>t, <3>2, CreateFieldFrame, ObjectAddedFacts
    <3>3. CASE StartData \/ Finish
      BY <3>3, StartPoisoned DEF objects
    <3> QED BY <1>4, <3>1, <3>2, <3>3
  <2>2. SameTail /\ SameRequest
    BY <1>4, FieldKeepsTail, FieldKeepsRequest
  <2> QED BY <1>k, <2>1, <2>2 DEF StampInv, SameTail, SameRequest
<1>5. CASE QuietLink \/ CreateLink
  <2>1. /\ entry' = entry /\ pc \in LinkSteps /\ pc' \in LinkSteps \cup {"commit_objects"}
        /\ w'.next_seqnum = w.next_seqnum
    BY <1>5, <1>t, QuietLinkFrame, CreateLinkFrame, ObjectAddedFacts
  <2>2. SameRequest /\ op'.entry = op.entry
    BY <1>5, LinkKeepsRequest
  <2>3. w'.poisoned
    BY <1>p, <2>1 DEF PoisonCover
  <2> QED BY <1>k, <2>1, <2>2, <2>3 DEF StampInv, SameRequest
<1>6. CASE WriteEntry
  <2> DEFINE o == w.append_offset
  <2>1. /\ DOMAIN entry' = DOMAIN entry \cup {o}
        /\ \A e \in DOMAIN entry : e # o => entry'[e] = entry[e]
        /\ w'.next_seqnum = w.next_seqnum /\ w'.poisoned = w.poisoned
        /\ pc = "entry" /\ pc' = "place"
    BY <1>6, <1>t, WriteEntryFrame, ObjectAddedFacts
  <2>2. /\ entry'[o].seqnum = op.seqnum /\ entry'[o].boot = op.boot /\ entry'[o].mono = op.mono
    BY <1>6 DEF WriteEntry, Put
  <2>3. SameRequest /\ op'.entry = o
    BY <1>6, LinkKeepsRequest
  <2>4. \A e \in DOMAIN entry : e # o /\ entry'[e] = entry[e]
    BY <2>1, EntryNumbers DEF SeqnumInv
  <2>5. op.seqnum >= w.next_seqnum /\ w.poisoned
    BY <1>p, <2>1 DEF StampInv, PoisonCover
  <2>6. CommittedByNumber' = CommittedByNumber /\ \A e : Newest(e)' <=> Newest(e)
    BY <2>1, <2>2, <2>4, <2>5, NewestKept, StampTypes
  <2>7. \A e \in DOMAIN entry' : Newest(e) => e \in DOMAIN entry
    BY DEF Newest, CommittedByNumber
  <2>8. \A e \in DOMAIN entry : entry[e].seqnum < w.next_seqnum
    BY <2>1 DEF StampInv
  <2>9. \A e \in DOMAIN entry : Newest(e) /\ entry[e].boot = op.boot => entry[e].mono < op.mono
    BY <2>1 DEF StampInv
  <2> QED BY <2>1, <2>2, <2>3, <2>4, <2>5, <2>6, <2>7, <2>8, <2>9 DEF StampInv, SameRequest
<1>7. CASE CommitObjects \/ CommitTailObject \/ CommitHead \/ CommitTail \/ CommitTailEntry
  <2>1. /\ entry' = entry /\ w' = w /\ op' = op /\ pc \in Commits /\ pc' \in Commits
        /\ pc' = "commit_tail_entry" => CommitTail
        /\ pc' = "commit_count" => CommitTailEntry /\ pc = "commit_tail_entry"
    BY <1>7 DEF CommitObjects, CommitTailObject, CommitHead, CommitTail, CommitTailEntry,
                Goto, objects
  <2>2. pc' \in {"commit_tail_entry", "commit_count"} =>
          hdr'.tail_boot = op.boot /\ hdr'.tail_mono = op.mono
    <3>1. hdr \in Header
      BY DEF TypeOK, HeaderOK
    <3>2. CommitTail => hdr'.tail_boot = op.boot /\ hdr'.tail_mono = op.mono
      BY <3>1 DEF CommitTail, Header
    <3>3. CommitTailEntry => hdr'.tail_boot = hdr.tail_boot /\ hdr'.tail_mono = hdr.tail_mono
      BY <3>1 DEF CommitTailEntry, Header
    <3> QED BY <2>1, <3>2, <3>3 DEF StampInv
  <2>3. w.poisoned
    BY <1>p, <2>1 DEF PoisonCover
  <2> QED BY <1>k, <2>1, <2>2, <2>3 DEF StampInv
<1>8. CASE CommitCount
  <2>1. /\ entry' = entry /\ op' = op /\ w'.next_seqnum = op.seqnum + 1
        /\ pc = "commit_count" /\ pc' = "publish"
    BY <1>8, CountPoisoned DEF objects
  <2>2. /\ hdr'.tail_boot = hdr.tail_boot /\ hdr'.tail_mono = hdr.tail_mono
        /\ hdr'.n_entries = hdr.n_entries + 1
    BY <1>8 DEF CommitCount, TypeOK, HeaderOK, Header
  <2>3. /\ op.entry \in DOMAIN entry /\ entry[op.entry].seqnum = op.seqnum
        /\ entry[op.entry].boot = hdr.tail_boot /\ entry[op.entry].mono = hdr.tail_mono
        /\ \A e \in DOMAIN entry \ {op.entry} : entry[e].seqnum < w.next_seqnum
        /\ op.seqnum >= w.next_seqnum
    BY <2>1 DEF StampInv
  <2>4. \A e : Newest(e)' => e = op.entry
    BY <2>1, <2>3, StampTypes DEF Newest, CommittedByNumber
  <2>5. hdr'.n_entries # 0
    BY <2>2, StampTypes
  <2> QED BY <2>1, <2>2, <2>3, <2>4, <2>5 DEF StampInv
<1>9. CASE Publish \/ FailPublish
  <2>1. /\ entry' = entry /\ hdr' = hdr /\ w'.next_seqnum = w.next_seqnum
        /\ pc = "publish" /\ pc' = "idle"
    BY <1>9, EndPoisoned DEF objects
  <2> QED BY <1>k, <2>1 DEF StampInv
<1> QED BY <1>1, <1>2, <1>3, <1>4, <1>5, <1>6, <1>7, <1>8, <1>9, NextGroups

LEMMA ContentKept ==
  ASSUME RequestInv, SamePayloads, CommittedByNumber' = CommittedByNumber,
         \A e \in DOMAIN entry : e \in DOMAIN entry' /\ entry'[e] = entry[e]
  PROVE  {Content(e) : e \in CommittedByNumber}' = {Content(e) : e \in CommittedByNumber}
<1>1. ASSUME NEW e \in CommittedByNumber
      PROVE  Content(e)' = Content(e)
  <2>1. e \in DOMAIN entry /\ \A x \in entry[e].items : x[1] \in DOMAIN data
    BY DEF CommittedByNumber, RequestInv
  <2>2. EntryPayloads(e)' = EntryPayloads(e)
    BY <2>1, EntryPayloadsKept
  <2> QED BY <2>1, <2>2 DEF Content, EntryPayloads
<1> QED BY <1>1

\* What the abstract log sees of a step that commits nothing.
Uncommitted ==
  /\ {Content(e) : e \in CommittedByNumber}' = {Content(e) : e \in CommittedByNumber}
  /\ w'.next_seqnum = w.next_seqnum /\ CommittedByNumber' = CommittedByNumber

(***************************************************************************)
(* Only the store of n_entries (with next_seqnum) changes the log.         *)
(***************************************************************************)
LEMMA LogKept ==
  ASSUME TypeOK, ArenaInv, SeqnumInv, RequestInv, StampInv, [Next]_vars, ~CommitCount
  PROVE  Uncommitted
<1>t. w \in Writer /\ w.append_offset >= 3
  BY DEF TypeOK, WriterOK
<1>1. SamePayloads
  BY PayloadsNext
<1>2. ASSUME w'.next_seqnum = w.next_seqnum, entry' = entry
      PROVE  Uncommitted
  BY <1>1, <1>2, NewestKept, ContentKept DEF Uncommitted
<1>3. CASE WriteEntry
  <2>1. /\ DOMAIN entry' = DOMAIN entry \cup {w.append_offset}
        /\ \A e \in DOMAIN entry : e # w.append_offset => entry'[e] = entry[e]
        /\ entry'[w.append_offset].seqnum = op.seqnum
        /\ w'.next_seqnum = w.next_seqnum /\ pc = "entry"
    BY <1>3, <1>t, WriteEntryFrame, ObjectAddedFacts
  <2>2. \A e \in DOMAIN entry : e # w.append_offset /\ entry'[e] = entry[e]
    BY <2>1, EntryNumbers DEF SeqnumInv
  <2>3. op.seqnum >= w.next_seqnum
    BY <2>1 DEF StampInv
  <2>4. CommittedByNumber' = CommittedByNumber
    BY <2>1, <2>2, <2>3, NewestKept, StampTypes
  <2> QED BY <1>1, <2>1, <2>2, <2>4, ContentKept DEF Uncommitted
<1>4. CASE UNCHANGED vars
  BY <1>2, <1>4 DEF vars
<1>5. CASE Call \/ Leave \/ QuietField \/ QuietLink
  BY <1>2, <1>5, CallFrame, LeaveFrame, QuietFieldFrame, QuietLinkFrame DEF objects
<1>6. CASE CreateField \/ CreateLink
  BY <1>2, <1>6, <1>t, CreateFieldFrame, CreateLinkFrame, ObjectAddedFacts
<1>7. CASE StartData \/ Finish \/ Publish \/ FailPublish
  BY <1>2, <1>7, StartPoisoned, EndPoisoned DEF objects
<1>8. CASE CommitObjects \/ CommitTailObject \/ CommitHead \/ CommitTail \/ CommitTailEntry
  <2>1. w' = w /\ entry' = entry
    BY <1>8 DEF CommitObjects, CommitTailObject, CommitHead, CommitTail, CommitTailEntry, objects
  <2> QED BY <1>2, <2>1
<1> QED BY <1>3, <1>4, <1>5, <1>6, <1>7, <1>8, NextGroups

(***************************************************************************)
(* The count store moves the limit of the committed entries past the entry *)
(* of the running append.                                                  *)
(***************************************************************************)
LEMMA CountAdds ==
  ASSUME TypeOK, StampInv, CommitCount
  PROVE  /\ entry' = entry /\ op' = op /\ data' = data
         /\ w'.next_seqnum = op.seqnum + 1 /\ pc = "commit_count" /\ pc' = "publish"
         /\ op.entry \in DOMAIN entry
         /\ op.seqnum >= w.next_seqnum /\ entry[op.entry].seqnum = op.seqnum
         /\ entry[op.entry].boot = op.boot /\ entry[op.entry].mono = op.mono
         /\ \A e \in DOMAIN entry \ {op.entry} : entry[e].seqnum < w.next_seqnum
         /\ \A e \in DOMAIN entry : Newest(e) /\ entry[e].boot = op.boot => entry[e].mono < op.mono
         /\ CommittedByNumber' = DOMAIN entry /\ CommittedByNumber = DOMAIN entry \ {op.entry}
<1>1. /\ entry' = entry /\ op' = op /\ w'.next_seqnum = op.seqnum + 1
      /\ pc = "commit_count" /\ pc' = "publish" /\ data' = data
  BY CountPoisoned DEF objects
<1>2. /\ op.entry \in DOMAIN entry
      /\ op.seqnum >= w.next_seqnum /\ entry[op.entry].seqnum = op.seqnum
      /\ entry[op.entry].boot = op.boot /\ entry[op.entry].mono = op.mono
      /\ \A e \in DOMAIN entry \ {op.entry} : entry[e].seqnum < w.next_seqnum
      /\ \A e \in DOMAIN entry : Newest(e) /\ entry[e].boot = op.boot => entry[e].mono < op.mono
  BY <1>1 DEF StampInv, Commits
<1>3. \A e \in DOMAIN entry : /\ entry[e].seqnum < op.seqnum + 1
                              /\ entry[e].seqnum < w.next_seqnum <=> e # op.entry
  <2> TAKE e \in DOMAIN entry
  <2>1. CASE e = op.entry
    BY <1>2, <2>1, StampTypes
  <2>2. CASE e # op.entry
    BY <1>2, <2>2, StampTypes
  <2> QED BY <2>1, <2>2
<1>4. CommittedByNumber' = {e \in DOMAIN entry : entry[e].seqnum < op.seqnum + 1}
  BY <1>1 DEF CommittedByNumber
<1>5. CommittedByNumber' = DOMAIN entry
  BY <1>3, <1>4
<1>6. CommittedByNumber = DOMAIN entry \ {op.entry}
  BY <1>3 DEF CommittedByNumber
<1> QED BY <1>1, <1>2, <1>5, <1>6

(***************************************************************************)
(* The count store adds the entry of the running append, complete.         *)
(***************************************************************************)
LEMMA CountCommits ==
  ASSUME TypeOK, ArenaInv, SeqnumInv, RequestInv, StampInv, CommitCount
  PROVE  Log!Commit
<1> DEFINE L == {Content(e) : e \in CommittedByNumber}
           c == Content(op.entry)
<1>1. /\ entry' = entry /\ op' = op /\ w'.next_seqnum = op.seqnum + 1
      /\ pc = "commit_count" /\ pc' = "publish" /\ data' = data
  BY CountAdds
<1>2. /\ op.entry \in DOMAIN entry /\ EntryPayloads(op.entry) = op.want /\ op.want # {}
  BY <1>1 DEF RequestInv, Commits
<1>3. /\ op.seqnum >= w.next_seqnum /\ entry[op.entry].seqnum = op.seqnum
      /\ entry[op.entry].boot = op.boot /\ entry[op.entry].mono = op.mono
      /\ \A e \in DOMAIN entry \ {op.entry} : entry[e].seqnum < w.next_seqnum
      /\ \A e \in DOMAIN entry : Newest(e) /\ entry[e].boot = op.boot => entry[e].mono < op.mono
  BY CountAdds
<1>4. /\ CommittedByNumber' = DOMAIN entry /\ CommittedByNumber = DOMAIN entry \ {op.entry}
  BY CountAdds
<1>5. L' = L \cup {c}
  <2>1. L' = {Content(e) : e \in DOMAIN entry}
    BY <1>1, <1>4 DEF Content
  <2> QED BY <1>2, <1>4, <2>1
<1>6. \A f \in L : f.seqnum < c.seqnum
  BY <1>3, <1>4, StampTypes DEF Content
<1>7. c \notin L /\ c \in L' \ L
  <2>1. c \notin L
    <3>1. ~(c.seqnum < c.seqnum)
      BY <1>2, StampTypes DEF Content
    <3> QED BY <1>6, <3>1
  <2> QED BY <1>5, <2>1
<1>8. c \in [seqnum : Nat, boot : Boots, mono : Nat, payloads : SUBSET Payloads]
      /\ c.payloads = op.want
  <2>1. op.want \in SUBSET Payloads
    BY DEF TypeOK, CallOK, Locals
  <2>2. entry[op.entry] \in EntryObject
    BY <1>2 DEF TypeOK, ObjectsOK
  <2>3. c = [seqnum |-> entry[op.entry].seqnum, boot |-> entry[op.entry].boot,
             mono |-> entry[op.entry].mono, payloads |-> op.want]
    BY <1>2 DEF Content, EntryPayloads
  <2> QED BY <2>1, <2>2, <2>3 DEF EntryObject
<1>9. ASSUME NEW f \in L, \A g \in L : g.seqnum <= f.seqnum, f.boot = c.boot
      PROVE  f.mono < c.mono
  <2>1. PICK e \in CommittedByNumber : f = Content(e)
    OBVIOUS
  <2>2. Newest(e)
    <3> SUFFICES ASSUME NEW g \in CommittedByNumber
                 PROVE  entry[g].seqnum <= entry[e].seqnum
      BY DEF Newest
    <3>1. Content(g) \in L /\ Content(g).seqnum <= f.seqnum
      BY <1>9
    <3> QED BY <2>1, <3>1 DEF Content
  <2>3. entry[e].boot = op.boot /\ e \in DOMAIN entry
    BY <1>3, <1>9, <2>1 DEF Content, CommittedByNumber
  <2> QED BY <1>3, <2>1, <2>2, <2>3 DEF Content
<1>10. Log!Follows(c)
  BY <1>6, <1>9 DEF Log!Follows, Log!Last
<1> HIDE DEF L, c
<1>11. \E e \in L' \ L : /\ L' = L \cup {e}
                         /\ e \in [seqnum : Nat, boot : Boots, mono : Nat,
                                   payloads : SUBSET Payloads]
                         /\ e.payloads = op.want
                         /\ Log!Follows(e)
  BY <1>5, <1>7, <1>8, <1>10
<1> QED BY <1>1, <1>2, <1>11 DEF Log!Commit, Log!Entries, L

LEMMA LogStep ==
  ASSUME TypeOK, ArenaInv, SeqnumInv, RequestInv, StampInv, [Next]_vars
  PROVE  [Log!LogNext]_(Log!logVars)
<1> USE DEF FieldSteps, LinkSteps, Commits, Request
<1> DEFINE P == IF pc \in {"idle", "publish"} THEN {} ELSE op.want
           F == pc \in {"idle", "closed"} /\ w.poisoned
<1>0. pc # "closed" /\ pc' # "closed"
  BY TypeNext DEF TypeOK, CallOK, Labels
<1>1. CASE CommitCount
  BY <1>1, CountCommits DEF Log!LogNext
<1>2. ASSUME ~CommitCount
      PROVE  Uncommitted
  BY <1>2, LogKept
<1>3. ASSUME Uncommitted, P' = P, F' = F
      PROVE  UNCHANGED Log!logVars
  BY <1>3 DEF Log!logVars, Uncommitted
<1>4. CASE Call
  <2>0. ~CommitCount
    BY <1>4, CallFrame DEF CommitCount
  <2>1. pc = "idle" /\ pc' \in {"idle", "field"} /\ w' = w
    BY <1>4, CallFrame
  <2>2. CASE pc' = "idle"
    BY <1>2, <1>3, <2>0, <2>1, <2>2
  <2>3. CASE pc' = "field"
    <3>1. PICK fields \in Requests, s \in SeqnumOptions, b \in Boots, m \in Monotonics,
               trusted \in TrustedOptions : BeginAppend(fields, s, b, m, trusted)
      BY <1>4, <2>3 DEF Call, RefuseOptions, RefusePoisoned, Return
    <3>2. op'.want \in SUBSET Payloads /\ ~w.poisoned
      BY <3>1 DEF BeginAppend, NoOp
    <3>3. ~F /\ P = {} /\ P' \in SUBSET Payloads /\ F' = F
      BY <2>1, <2>3, <3>2
    <3>4. Log!Submit
      BY <1>2, <2>0, <3>3 DEF Log!Submit, Uncommitted
    <3> QED BY <3>4 DEF Log!LogNext
  <2> QED BY <2>1, <2>2, <2>3
<1>5. CASE Leave \/ Publish \/ FailPublish
  <2>1. pc # "idle" /\ pc' = "idle" /\ w' \in Writer /\ ~CommitCount
    <3>1. w' \in Writer
      BY TypeNext DEF TypeOK, WriterOK
    <3>2. pc # "idle"
      BY <1>5 DEF Leave, RejectField, FinishEmpty, FailAppend, Overflow, Creates, AtField,
                  Publish, FailPublish
    <3>3. pc' = "idle"
      BY <1>5, LeaveFrame, EndPoisoned
    <3> QED BY <3>1, <3>2, <3>3, CountPoisoned
  <2>2. ~F /\ P' = {} /\ F' \in BOOLEAN
    BY <1>0, <2>1 DEF Writer
  <2>3. Log!Abort
    BY <1>2, <2>1, <2>2 DEF Log!Abort, Uncommitted
  <2> QED BY <2>3 DEF Log!LogNext
<1>6. ASSUME pc \notin {"idle", "publish"}, pc' \notin {"idle", "publish"},
             op'.want = op.want, ~CommitCount
      PROVE  UNCHANGED Log!logVars
  BY <1>0, <1>2, <1>3, <1>6
<1>7. CASE QuietField \/ CreateField \/ StartData \/ Finish
  <2>1. pc \in Request /\ pc' \in Request \cup {"entry"}
    BY <1>7, QuietFieldFrame, CreateFieldFrame, StartPoisoned
  <2> QED BY <1>6, <1>7, <2>1, FieldKeepsRequest DEF SameRequest, CommitCount
<1>8. CASE QuietLink \/ CreateLink \/ WriteEntry
  <2>1. pc \in LinkSteps \cup {"entry"} /\ pc' \in LinkSteps \cup {"commit_objects"}
    BY <1>8, QuietLinkFrame, CreateLinkFrame, WriteEntryFrame
  <2> QED BY <1>6, <1>8, <2>1, LinkKeepsRequest DEF SameRequest, CommitCount
<1>9. CASE CommitObjects \/ CommitTailObject \/ CommitHead \/ CommitTail \/ CommitTailEntry
  <2>1. pc \in Commits \ {"commit_count"} /\ pc' \in Commits /\ op' = op
    BY <1>9 DEF CommitObjects, CommitTailObject, CommitHead, CommitTail, CommitTailEntry, Goto
  <2> QED BY <1>6, <2>1 DEF CommitCount
<1>10. CASE UNCHANGED vars
  <2>1. UNCHANGED <<data, entry, w, pc, op>>
    BY <1>10 DEF vars
  <2> QED BY <2>1 DEF Log!logVars, Content, CommittedByNumber
<1> QED BY <1>1, <1>4, <1>5, <1>7, <1>8, <1>9, <1>10, NextGroups

(***************************************************************************)
(* The writer implements the append-only log for every value of its        *)
(* constants: the step of add_entry that stores n_entries adds the entry   *)
(* that was asked for, with all its payloads, above every earlier sequence *)
(* number and monotonic stamp of its boot; every other step, failing ones  *)
(* included, leaves the log alone.                                         *)
(***************************************************************************)
THEOREM WriterImplementsLog == Spec => ImplementsAppendLog
<1> DEFINE Inv == TypeOK /\ ArenaInv /\ SeqnumInv /\ RequestInv /\ StampInv
<1>1. Init => Inv
  BY TypeInit, ArenaInit, SeqnumInit, RequestInit, StampInit
<1>2. Inv /\ [Next]_vars => Inv'
  BY TypeNext, ArenaNext, SeqnumNext, RequestNext, StampNext
<1>3. Init => Log!LogInit
  BY DEF Init, Log!LogInit, CommittedByNumber
<1>4. Inv /\ [Next]_vars => [Log!LogNext]_(Log!logVars)
  BY LogStep
<1> QED BY <1>1, <1>2, <1>3, <1>4, PTL DEF Spec, ImplementsAppendLog, Log!LogSpec
=============================================================================
