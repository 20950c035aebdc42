------------------------ MODULE JournalWriterProofs ------------------------
(***************************************************************************)
(* Proofs about the writer for every value of its constants.               *)
(***************************************************************************)
EXTENDS JournalWriter, FiniteSetTheorems, TLAPS

-----------------------------------------------------------------------------
(* Lemmas about the operators. *)

(***************************************************************************)
(* Put binds one offset and keeps the others.                              *)
(***************************************************************************)
LEMMA PutFacts ==
  ASSUME NEW S, NEW f, f \in [DOMAIN f -> S], NEW o, NEW v \in S
  PROVE  /\ DOMAIN Put(f, o, v) = DOMAIN f \cup {o}
         /\ Put(f, o, v) \in [DOMAIN Put(f, o, v) -> S]
         /\ Put(f, o, v)[o] = v
         /\ \A x \in DOMAIN f : x # o => Put(f, o, v)[x] = f[x]
BY DEF Put

(***************************************************************************)
(* A place that is about to be reused holds numbers.                       *)
(***************************************************************************)
LEMMA WordType == ASSUME ResidueOK PROVE \A o, k : Word(o, k) \in Nat
BY DEF ResidueOK, Word

(***************************************************************************)
(* object_added only moves the three counters.                             *)
(***************************************************************************)
LEMMA ObjectAddedFacts ==
  ASSUME w \in Writer, w.append_offset >= 3
  PROVE  /\ ObjectAdded(w) \in Writer
         /\ ObjectAdded(w).append_offset = w.append_offset + 1
         /\ ObjectAdded(w).tail_object = w.append_offset
         /\ ObjectAdded(w).num_written = w.num_written + 1
         /\ ObjectAdded(w).poisoned = w.poisoned
         /\ ObjectAdded(w).next_seqnum = w.next_seqnum
<1>1. ObjectAdded(w).poisoned = w.poisoned
  BY Zenon DEF ObjectAdded, Writer
<1>2. ObjectAdded(w) \in Writer
  <2>1. \A a, b, c \in Nat :
          [w EXCEPT !.tail_object = a, !.append_offset = b, !.num_written = c] \in Writer
    BY DEF Writer
  <2>2. w.append_offset \in Nat /\ w.append_offset + 1 \in Nat /\ w.num_written + 1 \in Nat
    BY DEF Writer
  <2> QED BY <2>1, <2>2 DEF ObjectAdded
<1>3. /\ ObjectAdded(w).append_offset = w.append_offset + 1
      /\ ObjectAdded(w).tail_object = w.append_offset
      /\ ObjectAdded(w).num_written = w.num_written + 1
      /\ ObjectAdded(w).next_seqnum = w.next_seqnum
  BY DEF ObjectAdded, Writer
<1> QED BY <1>1, <1>2, <1>3

LEMMA NoOpType == NoOp \in Locals /\ IsFiniteSet(NoOp.items)
BY FS_EmptySet DEF NoOp, Locals, Item

(***************************************************************************)
(* The capacity of a new array is a positive number.                       *)
(***************************************************************************)
LEMMA CapacityType ==
  ASSUME NEW i \in Nat, NEW p \in Nat
  PROVE  NextCapacity(i, p) \in Nat
BY ConstantsAssumption DEF NextCapacity, Max2, ConstantsAssumption

LEMMA NewArrayType ==
  ASSUME ResidueOK, NEW o, NEW c \in Nat
  PROVE  NewArray(o, c) \in ArrayObject
<1>1. [i \in 1..c |-> Word(o, i + 2)] \in [1..c -> Nat]
  BY WordType
<1>2. [i \in 1..c |-> Word(o, i + 2)] \in Seq(Nat)
  BY <1>1
<1> QED BY <1>2, WordType DEF NewArray, ArrayObject

-----------------------------------------------------------------------------
(* Type correctness. *)

(***************************************************************************)
(* The steps that begin or end a call, or only change op and pc, keep the  *)
(* types: nothing but the locals is assigned.                              *)
(***************************************************************************)
LEMMA TypeReturn ==
  ASSUME TypeOK, NEW r \in {"rejected", "poisoned", "io", "full", "corrupt"}, Return(r)
  PROVE  CallOK'
BY NoOpType DEF TypeOK, CallOK, Return, Labels, FieldSteps

LEMMA TypeCalls ==
  ASSUME TypeOK, Call
  PROVE  TypeOK'
<1>1. ASSUME NEW fields \in Requests, NEW s \in SeqnumOptions, NEW b \in Boots,
             NEW m \in Monotonics, NEW trusted \in TrustedOptions,
             BeginAppend(fields, s, b, m, trusted)
      PROVE  TypeOK'
  <2>1. EntrySeqnum(s) \in Nat /\ ClampMonotonic(b, m) \in Nat
    <3>1. w.next_seqnum \in Nat /\ hdr.tail_mono \in Nat
      BY DEF TypeOK, WriterOK, HeaderOK, Writer, Header
    <3>2. (s = NoSeqnum \/ s \in Nat) /\ m \in Nat
      BY ConstantsAssumption DEF ConstantsAssumption
    <3> QED BY <3>1, <3>2 DEF EntrySeqnum, ClampMonotonic
  <2>2. fields \in Seq(Payloads \cup {Rejected, Dropped}) /\ trusted \in BOOLEAN
    BY ConstantsAssumption DEF ConstantsAssumption
  <2>3. \A x, y \in Nat, z \in SUBSET Payloads :
          [NoOp EXCEPT !.todo = fields, !.seqnum = x, !.boot = b, !.mono = y,
                       !.trusted = trusted, !.want = z] \in Locals
    BY <2>2, NoOpType DEF Locals
  <2>4. op' \in Locals /\ op'.items = {}
    BY <1>1, <2>1, <2>3 DEF BeginAppend, NoOp
  <2>5. op'.boot = b
    BY <1>1 DEF BeginAppend, NoOp
  <2>6. CallOK'
    BY <1>1, <2>4, <2>5, FS_EmptySet DEF BeginAppend, Goto, caller, TypeOK, CallOK, Labels, FieldSteps
  <2> QED BY <1>1, <2>6 DEF BeginAppend, objects, tables, TypeOK, ObjectsOK, HeaderOK,
                            ResidueOK, WriterOK
<1>2. ASSUME NEW s \in SeqnumOptions, NEW b \in Boots, NEW m \in Monotonics,
             RefuseOptions(s, b, m)
      PROVE  TypeOK'
  BY <1>2, TypeReturn DEF RefuseOptions, objects, tables, TypeOK, ObjectsOK, HeaderOK,
                          ResidueOK, WriterOK
<1>3. CASE RefusePoisoned
  BY <1>3, TypeReturn DEF RefusePoisoned, objects, tables, TypeOK, ObjectsOK, HeaderOK,
                          ResidueOK, WriterOK
<1> QED BY <1>1, <1>2, <1>3 DEF Call

(***************************************************************************)
(* The next field of a request is a payload or one of the two marks.       *)
(***************************************************************************)
LEMMA TailType ==
  ASSUME TypeOK, op.todo # <<>>
  PROVE  Tail(op.todo) \in Seq(Payloads \cup {Rejected, Dropped})
BY DEF TypeOK, CallOK, Locals

LEMMA AddItemType ==
  ASSUME TypeOK, NEW o \in Nat, NEW n \in Nat, NEW a \in Nat, NEW t \in Nat, NEW tn \in Nat
  PROVE  AddItem(o, n, a, t, tn) \in SUBSET Item /\ IsFiniteSet(AddItem(o, n, a, t, tn))
<1> DEFINE copies == {it \in op.items : it.offset = o}
<1> DEFINE item == [offset |-> o, copy |-> Cardinality(copies) + 1, n |-> n,
                    array |-> a, tail |-> t, tail_n |-> tn]
<1>1. op.items \in SUBSET Item /\ IsFiniteSet(op.items)
  BY DEF TypeOK, CallOK, Locals
<1>2. Cardinality(copies) \in Nat
  BY <1>1, FS_Subset, FS_CardinalityType
<1>3. item \in Item
  BY <1>2 DEF Item
<1>4. IsFiniteSet(op.items \cup {item})
  BY <1>1, FS_AddElement
<1> QED BY <1>1, <1>3, <1>4 DEF AddItem

(***************************************************************************)
(* A new object lies in the file and moves the writer's counters.          *)
(***************************************************************************)
LEMMA PlaceType ==
  ASSUME TypeOK, w.append_offset <= MaxOffset
  PROVE  w.append_offset \in Offsets /\ w.append_offset \in Nat
<1>1. w.append_offset \in Nat /\ w.append_offset >= 3
  BY DEF TypeOK, WriterOK, Writer
<1> QED BY <1>1, ConstantsAssumption DEF Offsets, ConstantsAssumption

LEMMA AddedType ==
  ASSUME TypeOK, w' = ObjectAdded(w)
  PROVE  w' \in Writer /\ w'.append_offset >= 3
<1>1. w \in Writer /\ w.append_offset >= 3 /\ w.append_offset \in Nat
  BY DEF TypeOK, WriterOK, Writer
<1>2. ObjectAdded(w) \in Writer /\ ObjectAdded(w).append_offset = w.append_offset + 1
  BY <1>1, ObjectAddedFacts
<1> QED BY <1>1, <1>2

LEMMA PutType ==
  ASSUME NEW S, NEW f, f \in [DOMAIN f -> S], DOMAIN f \subseteq Offsets,
         NEW o \in Offsets, NEW v \in S, NEW g, g = Put(f, o, v)
  PROVE  DOMAIN g \subseteq Offsets /\ g \in [DOMAIN g -> S]
BY DEF Put

(***************************************************************************)
(* The field name of the payload at hand, and the cache it goes into.      *)
(***************************************************************************)
LEMMA NameType ==
  ASSUME TypeOK, pc \in FieldSteps
  PROVE  Name \in Names
BY ConstantsAssumption DEF TypeOK, CallOK, Name, Payload, ConstantsAssumption

LEMMA CacheType ==
  ASSUME TypeOK, NEW n \in Names, NEW o \in Nat, NEW c, c = CacheInsert(n, o)
  PROVE  DOMAIN c \subseteq Names /\ c \in [DOMAIN c -> Nat]
BY DEF TypeOK, WriterOK, CacheInsert, Put

(***************************************************************************)
(* The steps on one field of the request.                                  *)
(***************************************************************************)
LEMMA TypeFields ==
  ASSUME TypeOK,
         \/ SkipField \/ RejectField \/ ReuseData \/ StartData \/ WriteData
         \/ LinkDataHash \/ PublishDataBucket \/ CountData
         \/ CachedField \/ FoundField \/ WriteField \/ LinkFieldHash
         \/ PublishFieldBucket \/ CountField \/ SetNextField \/ SetHeadData
  PROVE  TypeOK'
<1> USE DEF TypeOK
<1>1. CASE SkipField
  <2>1. op' \in Locals /\ op'.items = op.items /\ op'.boot = op.boot
    BY <1>1, TailType DEF SkipField, AtField, CallOK, Locals
  <2>2. CallOK'
    BY <1>1, <2>1 DEF SkipField, AtField, CallOK, Goto, caller, Labels, FieldSteps
  <2> QED BY <1>1, <2>2 DEF SkipField, objects, tables, ObjectsOK, HeaderOK, ResidueOK, WriterOK
<1>2. CASE RejectField
  BY <1>2, TypeReturn DEF RejectField, objects, tables, ObjectsOK, HeaderOK, ResidueOK, WriterOK
<1>3. CASE ReuseData
  <2>1. PICK d \in FindData(Payload) :
          op' = [op EXCEPT !.todo = Tail(@),
                           !.items = AddItem(d, data[d].n, data[d].array,
                                             data[d].tail, data[d].tail_n)]
    BY <1>3 DEF ReuseData
  <2>2. d \in Nat /\ data[d] \in DataObject
    BY <2>1 DEF FindData, ObjectsOK, Offsets
  <2>3. /\ AddItem(d, data[d].n, data[d].array, data[d].tail, data[d].tail_n) \in SUBSET Item
        /\ IsFiniteSet(AddItem(d, data[d].n, data[d].array, data[d].tail, data[d].tail_n))
    BY <2>2, AddItemType DEF DataObject
  <2>4. op' \in Locals /\ IsFiniteSet(op'.items) /\ op'.boot = op.boot
    BY <1>3, <2>1, <2>3, TailType DEF ReuseData, AtField, CallOK, Locals
  <2>5. CallOK'
    BY <1>3, <2>4 DEF ReuseData, AtField, CallOK, Goto, caller, Labels, FieldSteps
  <2> QED BY <1>3, <2>5 DEF ReuseData, objects, tables, ObjectsOK, HeaderOK, ResidueOK, WriterOK
<1>4. CASE StartData
  <2>1. w' \in Writer /\ w'.append_offset = w.append_offset
    BY <1>4 DEF StartData, WriterOK, Writer
  <2>2. WriterOK'
    BY <1>4, <2>1 DEF StartData, WriterOK
  <2>3. CallOK'
    BY <1>4 DEF StartData, AtField, Payload, CallOK, Goto, caller, Labels, FieldSteps
  <2> QED BY <1>4, <2>2, <2>3 DEF StartData, objects, tables, ObjectsOK, HeaderOK, ResidueOK
<1>5. CASE WriteData
  <2>1. WriterOK'
    BY <1>5, AddedType DEF WriteData, WriterOK
  <2> DEFINE o == w.append_offset
  <2>2. o \in Offsets /\ o \in Nat
    BY <1>5, PlaceType DEF WriteData
  <2> DEFINE d == [payload |-> Payload, next_hash |-> Word(o, 3),
                   next_field |-> Word(o, 4), entry |-> Word(o, 5),
                   array |-> Word(o, 6), n |-> Word(o, 7),
                   tail |-> IF Compact THEN Word(o, 8) ELSE 0,
                   tail_n |-> IF Compact THEN Word(o, 8) ELSE 0]
  <2>3. d \in DataObject
    <3>1. Payload \in Payloads
      BY <1>5 DEF WriteData, Payload, CallOK, FieldSteps
    <3> QED BY <3>1, WordType DEF DataObject
  <2>4. data' = Put(data, o, d)
    BY <1>5 DEF WriteData
  <2>5. ObjectsOK'
    <3> HIDE DEF d, o
    <3>1. DOMAIN data' \subseteq Offsets /\ data' \in [DOMAIN data' -> DataObject]
      BY <2>2, <2>3, <2>4, PutType DEF ObjectsOK
    <3> QED BY <1>5, <3>1 DEF WriteData, ObjectsOK
  <2>6. op' \in Locals /\ op'.items = op.items /\ op'.boot = op.boot /\ op'.todo = op.todo
    BY <1>5, <2>2 DEF WriteData, CallOK, Locals
  <2>7. CallOK'
    BY <1>5, <2>6 DEF WriteData, CallOK, Goto, caller, Labels, FieldSteps
  <2> QED BY <1>5, <2>1, <2>5, <2>7 DEF WriteData, tables, HeaderOK, ResidueOK
<1>6. CASE LinkDataHash
  <2> DEFINE t == dht[DataBucket[Payload]].tail
  <2>1. op.cur \in Nat
    BY DEF CallOK, Locals
  <2>2. t # 0 => [data[t] EXCEPT !.next_hash = op.cur] \in DataObject
    BY <1>6, <2>1 DEF LinkDataHash, ObjectsOK, DataObject
  <2>3. data' \in [DOMAIN data -> DataObject] /\ DOMAIN data' = DOMAIN data
    BY <1>6, <2>2 DEF LinkDataHash, ObjectsOK
  <2>4. ObjectsOK'
    BY <1>6, <2>3 DEF LinkDataHash, ObjectsOK
  <2>5. CallOK'
    BY <1>6 DEF LinkDataHash, CallOK, Goto, caller, Labels, FieldSteps
  <2> QED BY <1>6, <2>4, <2>5 DEF LinkDataHash, tables, HeaderOK, ResidueOK, WriterOK
<1>7. CASE PublishDataBucket
  <2>1. op.cur \in Nat
    BY DEF CallOK, Locals
  <2>2. dht' \in [Buckets -> HashItem]
    BY <1>7, <2>1 DEF PublishDataBucket, HeaderOK, HashItem
  <2>3. HeaderOK'
    BY <1>7, <2>2 DEF PublishDataBucket, HeaderOK
  <2>4. CallOK'
    BY <1>7 DEF PublishDataBucket, CallOK, Goto, caller, Labels, FieldSteps
  <2> QED BY <1>7, <2>3, <2>4 DEF PublishDataBucket, objects, ObjectsOK, ResidueOK, WriterOK
<1>8. CASE CountData
  <2>1. HeaderOK'
    BY <1>8 DEF CountData, tables, HeaderOK, Header
  <2>2. CallOK'
    BY <1>8 DEF CountData, CallOK, Goto, caller, Labels, FieldSteps
  <2> QED BY <1>8, <2>1, <2>2 DEF CountData, objects, ObjectsOK, ResidueOK, WriterOK
<1>9. CASE CachedField
  <2>1. op' \in Locals /\ op'.items = op.items /\ op'.boot = op.boot /\ op'.todo = op.todo
    BY <1>9 DEF CachedField, CallOK, WriterOK, Locals
  <2>2. CallOK'
    BY <1>9, <2>1 DEF CachedField, CallOK, Goto, caller, Labels, FieldSteps
  <2> QED BY <1>9, <2>2 DEF CachedField, objects, tables, ObjectsOK, HeaderOK, ResidueOK, WriterOK
<1>10. CASE FoundField
  <2>1. PICK f \in FindField(Name) :
          op' = [op EXCEPT !.field = f] /\ cache' = CacheInsert(Name, f)
    BY <1>10 DEF FoundField
  <2>2. f \in Nat
    BY <2>1 DEF FindField, ObjectsOK, Offsets
  <2>3. op' \in Locals /\ op'.items = op.items /\ op'.boot = op.boot /\ op'.todo = op.todo
    BY <2>1, <2>2 DEF CallOK, Locals
  <2>4. CallOK'
    BY <1>10, <2>3 DEF FoundField, CallOK, Goto, caller, Labels, FieldSteps
  <2>5. WriterOK'
    BY <1>10, <2>1, <2>2, NameType, CacheType DEF FoundField, WriterOK, FieldSteps
  <2> QED BY <1>10, <2>4, <2>5 DEF FoundField, objects, tables, ObjectsOK, HeaderOK, ResidueOK
<1>11. CASE WriteField
  <2> DEFINE o == w.append_offset
  <2>1. WriterOK'
    BY <1>11, AddedType DEF WriteField, WriterOK
  <2>2. o \in Offsets /\ o \in Nat
    BY <1>11, PlaceType DEF WriteField
  <2> DEFINE f == [name |-> Name, next_hash |-> Word(o, 3), head |-> Word(o, 4)]
  <2>3. f \in FieldObject
    BY <1>11, NameType, WordType DEF WriteField, FieldSteps, FieldObject
  <2>4. field' = Put(field, o, f)
    BY <1>11 DEF WriteField
  <2>5. ObjectsOK'
    <3> HIDE DEF f, o
    <3>1. DOMAIN field' \subseteq Offsets /\ field' \in [DOMAIN field' -> FieldObject]
      BY <2>2, <2>3, <2>4, PutType DEF ObjectsOK
    <3> QED BY <1>11, <3>1 DEF WriteField, ObjectsOK
  <2>6. op' \in Locals /\ op'.items = op.items /\ op'.boot = op.boot /\ op'.todo = op.todo
    BY <1>11, <2>2 DEF WriteField, CallOK, Locals
  <2>7. CallOK'
    BY <1>11, <2>6 DEF WriteField, CallOK, Goto, caller, Labels, FieldSteps
  <2> QED BY <1>11, <2>1, <2>5, <2>7 DEF WriteField, tables, HeaderOK, ResidueOK
<1>12. CASE LinkFieldHash
  <2> DEFINE t == fht[FieldBucket[Name]].tail
  <2>1. op.field \in Nat
    BY DEF CallOK, Locals
  <2>2. t # 0 => [field[t] EXCEPT !.next_hash = op.field] \in FieldObject
    BY <1>12, <2>1 DEF LinkFieldHash, ObjectsOK, FieldObject
  <2>3. field' \in [DOMAIN field -> FieldObject] /\ DOMAIN field' = DOMAIN field
    BY <1>12, <2>2 DEF LinkFieldHash, ObjectsOK
  <2>4. ObjectsOK'
    BY <1>12, <2>3 DEF LinkFieldHash, ObjectsOK
  <2>5. CallOK'
    BY <1>12 DEF LinkFieldHash, CallOK, Goto, caller, Labels, FieldSteps
  <2> QED BY <1>12, <2>4, <2>5 DEF LinkFieldHash, tables, HeaderOK, ResidueOK, WriterOK
<1>13. CASE PublishFieldBucket
  <2>1. op.field \in Nat
    BY DEF CallOK, Locals
  <2>2. fht' \in [Buckets -> HashItem]
    BY <1>13, <2>1 DEF PublishFieldBucket, HeaderOK, HashItem
  <2>3. HeaderOK'
    BY <1>13, <2>2 DEF PublishFieldBucket, HeaderOK
  <2>4. CallOK'
    BY <1>13 DEF PublishFieldBucket, CallOK, Goto, caller, Labels, FieldSteps
  <2> QED BY <1>13, <2>3, <2>4 DEF PublishFieldBucket, objects, ObjectsOK, ResidueOK, WriterOK
<1>14. CASE CountField
  <2>1. HeaderOK'
    BY <1>14 DEF CountField, tables, HeaderOK, Header
  <2>2. CallOK'
    BY <1>14 DEF CountField, CallOK, Goto, caller, Labels, FieldSteps
  <2>3. op.field \in Nat
    BY DEF CallOK, Locals
  <2>4. WriterOK'
    BY <1>14, <2>3, NameType, CacheType DEF CountField, WriterOK, FieldSteps
  <2> QED BY <1>14, <2>1, <2>2, <2>4 DEF CountField, objects, ObjectsOK, ResidueOK
<1>15. CASE SetNextField
  <2>1. field[op.field].head \in Nat
    BY <1>15 DEF SetNextField, ObjectsOK, FieldObject
  <2>2. op.cur \in DOMAIN data =>
          [data[op.cur] EXCEPT !.next_field = field[op.field].head] \in DataObject
    BY <2>1 DEF ObjectsOK, DataObject
  <2>3. data' \in [DOMAIN data -> DataObject] /\ DOMAIN data' = DOMAIN data
    BY <1>15, <2>2 DEF SetNextField, ObjectsOK
  <2>4. ObjectsOK'
    BY <1>15, <2>3 DEF SetNextField, ObjectsOK
  <2>5. CallOK'
    BY <1>15 DEF SetNextField, CallOK, Goto, caller, Labels, FieldSteps
  <2> QED BY <1>15, <2>4, <2>5 DEF SetNextField, tables, HeaderOK, ResidueOK, WriterOK
<1>16. CASE SetHeadData
  <2>1. op.cur \in Nat
    BY DEF CallOK, Locals
  <2>2. [field[op.field] EXCEPT !.head = op.cur] \in FieldObject
    BY <1>16, <2>1 DEF SetHeadData, ObjectsOK, FieldObject
  <2>3. field' \in [DOMAIN field -> FieldObject] /\ DOMAIN field' = DOMAIN field
    BY <1>16, <2>2 DEF SetHeadData, ObjectsOK
  <2>4. ObjectsOK'
    BY <1>16, <2>3 DEF SetHeadData, ObjectsOK
  <2>5. /\ AddItem(op.cur, 0, 0, 0, 0) \in SUBSET Item
        /\ IsFiniteSet(AddItem(op.cur, 0, 0, 0, 0))
    BY <2>1, AddItemType
  <2>6. op.todo # <<>>
    BY <1>16 DEF SetHeadData, CallOK, FieldSteps
  <2>7. op' \in Locals /\ IsFiniteSet(op'.items) /\ op'.boot = op.boot
    BY <1>16, <2>5, <2>6, TailType DEF SetHeadData, CallOK, Locals
  <2>8. CallOK'
    BY <1>16, <2>7 DEF SetHeadData, CallOK, Goto, caller, Labels, FieldSteps
  <2> QED BY <1>16, <2>4, <2>8 DEF SetHeadData, tables, HeaderOK, ResidueOK, WriterOK
<1> QED BY <1>1, <1>2, <1>3, <1>4, <1>5, <1>6, <1>7, <1>8, <1>9, <1>10, <1>11, <1>12,
           <1>13, <1>14, <1>15, <1>16

(***************************************************************************)
(* allocate_new_array keeps the types of all it touches.                   *)
(***************************************************************************)
LEMMA AllocateType ==
  ASSUME TypeOK, NEW c \in Nat, Allocate(c)
  PROVE  /\ DOMAIN array' \subseteq Offsets /\ array' \in [DOMAIN array' -> ArrayObject]
         /\ w' \in Writer /\ w'.append_offset >= 3
         /\ hdr' \in Header
         /\ w.append_offset \in Nat
<1>1. w.append_offset \in Offsets /\ w.append_offset \in Nat
  BY PlaceType DEF Allocate
<1>2. NewArray(w.append_offset, c) \in ArrayObject
  BY NewArrayType DEF TypeOK
<1>3. DOMAIN array' \subseteq Offsets /\ array' \in [DOMAIN array' -> ArrayObject]
  BY <1>1, <1>2, PutType DEF Allocate, TypeOK, ObjectsOK
<1>4. w' \in Writer /\ w'.append_offset >= 3
  BY AddedType DEF Allocate
<1>5. hdr' \in Header
  BY DEF Allocate, TypeOK, HeaderOK, Header
<1> QED BY <1>1, <1>3, <1>4, <1>5

(***************************************************************************)
(* An array that is there has a number of slots.                           *)
(***************************************************************************)
LEMMA SlotsType ==
  ASSUME TypeOK, NEW a \in DOMAIN array
  PROVE  /\ a \in Nat /\ array[a] \in ArrayObject
         /\ array[a].slots \in Seq(Nat) /\ Len(array[a].slots) \in Nat
BY DEF TypeOK, ObjectsOK, ArrayObject, Offsets

LEMMA SeqStore ==
  ASSUME NEW s \in Seq(Nat), NEW i, NEW v \in Nat
  PROVE  [s EXCEPT ![i] = v] \in Seq(Nat)
<1>1. s \in [1..Len(s) -> Nat] /\ Len(s) \in Nat
  OBVIOUS
<1>2. [s EXCEPT ![i] = v] \in [1..Len(s) -> Nat]
  BY <1>1
<1> QED BY <1>1, <1>2

(***************************************************************************)
(* The ENTRY object and the global entry array.                            *)
(***************************************************************************)
LEMMA TypeEntry ==
  ASSUME TypeOK,
         \/ FinishEmpty \/ Finish \/ WriteEntry
         \/ PlaceFirst \/ PlaceInTail \/ PlaceInNew \/ LinkArray \/ SetSlot \/ GlobalHeader
  PROVE  TypeOK'
<1> USE DEF TypeOK
<1>0. \A a, b, c \in Nat :
        /\ [op EXCEPT !.arr = a, !.slot = b, !.prev = c] \in Locals
        /\ [op EXCEPT !.arr = a, !.slot = b, !.prev = c].items = op.items
        /\ [op EXCEPT !.arr = a, !.slot = b, !.prev = c].boot = op.boot
  BY DEF CallOK, Locals
<1>1. CASE FinishEmpty
  BY <1>1, TypeReturn DEF FinishEmpty, objects, tables, ObjectsOK, HeaderOK, ResidueOK, WriterOK
<1>2. CASE Finish
  <2>1. w' \in Writer /\ w'.append_offset = w.append_offset
    BY <1>2 DEF Finish, WriterOK, Writer
  <2>2. WriterOK'
    BY <1>2, <2>1 DEF Finish, WriterOK
  <2>3. CallOK'
    BY <1>2 DEF Finish, CallOK, Goto, caller, Labels, FieldSteps
  <2> QED BY <1>2, <2>2, <2>3 DEF Finish, objects, tables, ObjectsOK, HeaderOK, ResidueOK
<1>3. CASE WriteEntry
  <2> DEFINE o == w.append_offset
  <2> DEFINE e == [seqnum |-> op.seqnum, boot |-> op.boot, mono |-> op.mono,
                   items |-> {<<it.offset, it.copy>> : it \in op.items}]
  <2>1. WriterOK'
    BY <1>3, AddedType DEF WriteEntry, WriterOK
  <2>2. o \in Offsets /\ o \in Nat
    BY <1>3, PlaceType DEF WriteEntry
  <2>3. e \in EntryObject
    <3>1. op.seqnum \in Nat /\ op.mono \in Nat /\ op.boot \in Boots
      BY <1>3 DEF WriteEntry, CallOK, Locals
    <3>2. \A it \in op.items : it.offset \in Nat /\ it.copy \in Nat
      BY DEF CallOK, Locals, Item
    <3>3. {<<it.offset, it.copy>> : it \in op.items} \in SUBSET (Nat \X Nat)
      BY <3>2
    <3> QED BY <3>1, <3>3 DEF EntryObject
  <2>4. entry' = Put(entry, o, e)
    BY <1>3 DEF WriteEntry
  <2>5. ObjectsOK'
    <3> HIDE DEF e, o
    <3>1. DOMAIN entry' \subseteq Offsets /\ entry' \in [DOMAIN entry' -> EntryObject]
      BY <2>2, <2>3, <2>4, PutType DEF ObjectsOK
    <3> QED BY <1>3, <3>1 DEF WriteEntry, ObjectsOK
  <2>6. op' \in Locals /\ op'.items = op.items /\ op'.boot = op.boot
    BY <1>3, <2>2 DEF WriteEntry, CallOK, Locals
  <2>7. CallOK'
    BY <1>3, <2>6 DEF WriteEntry, CallOK, Goto, caller, Labels, LinkSteps, FieldSteps
  <2> QED BY <1>3, <2>1, <2>5, <2>7 DEF WriteEntry, tables, HeaderOK, ResidueOK
<1>4. CASE PlaceFirst
  <2>1. Allocate(MinCapacity) /\ MinCapacity \in Nat
    BY <1>4, ConstantsAssumption DEF PlaceFirst, ConstantsAssumption
  <2>2. ObjectsOK' /\ HeaderOK' /\ WriterOK' /\ w.append_offset \in Nat
    BY <1>4, <2>1, AllocateType DEF PlaceFirst, ObjectsOK, HeaderOK, WriterOK, tables
  <2>3. op' \in Locals /\ op'.items = op.items /\ op'.boot = op.boot
    BY <1>4, <2>2 DEF PlaceFirst, CallOK, Locals
  <2>4. CallOK'
    BY <1>4, <2>3 DEF PlaceFirst, CallOK, Goto, caller, Labels, LinkSteps, FieldSteps
  <2> QED BY <1>4, <2>2, <2>4 DEF PlaceFirst, ResidueOK
<1>5. CASE PlaceInTail
  <2>1. GlobalTail \in Nat /\ GlobalUsed \in Nat
    BY <1>5, SlotsType DEF PlaceInTail
  <2>2. op' \in Locals /\ op'.items = op.items /\ op'.boot = op.boot
    BY <1>5, <2>1 DEF PlaceInTail, CallOK, Locals
  <2>3. CallOK'
    BY <1>5, <2>2 DEF PlaceInTail, CallOK, Goto, caller, Labels, LinkSteps, FieldSteps
  <2> QED BY <1>5, <2>3 DEF PlaceInTail, objects, tables, ObjectsOK, HeaderOK, ResidueOK, WriterOK
<1>6. CASE PlaceInNew
  <2> DEFINE c == NextCapacity(hdr.n_entries, Len(array[GlobalTail].slots))
  <2>1. GlobalTail \in Nat /\ c \in Nat
    <3>1. hdr.n_entries \in Nat
      BY DEF HeaderOK, Header
    <3> QED BY <1>6, <3>1, SlotsType, CapacityType DEF PlaceInNew
  <2>2. Allocate(c)
    BY <1>6 DEF PlaceInNew
  <2>3. ObjectsOK' /\ HeaderOK' /\ WriterOK' /\ w.append_offset \in Nat
    <3> HIDE DEF c
    <3> QED BY <1>6, <2>1, <2>2, AllocateType DEF PlaceInNew, ObjectsOK, HeaderOK, WriterOK, tables
  <2>4. op' \in Locals /\ op'.items = op.items /\ op'.boot = op.boot
    <3>1. op' = [op EXCEPT !.arr = w.append_offset, !.slot = 0, !.prev = GlobalTail]
      BY <1>6 DEF PlaceInNew
    <3> QED BY <2>1, <2>3, <3>1 DEF CallOK, Locals
  <2>5. CallOK'
    BY <1>6, <2>4 DEF PlaceInNew, CallOK, Goto, caller, Labels, LinkSteps, FieldSteps
  <2> QED BY <1>6, <2>3, <2>5 DEF PlaceInNew, ResidueOK
<1>7. CASE LinkArray
  <2>1. op.arr \in Nat
    BY DEF CallOK, Locals
  <2>2. [array[op.prev] EXCEPT !.next = op.arr] \in ArrayObject
    BY <1>7, <2>1 DEF LinkArray, ObjectsOK, ArrayObject
  <2>3. array' \in [DOMAIN array -> ArrayObject] /\ DOMAIN array' = DOMAIN array
    BY <1>7, <2>2 DEF LinkArray, ObjectsOK
  <2>4. ObjectsOK'
    BY <1>7, <2>3 DEF LinkArray, ObjectsOK
  <2>5. CallOK'
    BY <1>7 DEF LinkArray, CallOK, Goto, caller, Labels, LinkSteps, FieldSteps
  <2> QED BY <1>7, <2>4, <2>5 DEF LinkArray, tables, HeaderOK, ResidueOK, WriterOK
<1>8. CASE SetSlot
  <2> DEFINE s == array[op.arr].slots
  <2>1. op.entry \in Nat /\ op.arr \in DOMAIN array
    BY <1>8 DEF SetSlot, CallOK, Locals
  <2>2. s \in Seq(Nat) /\ array[op.arr] \in ArrayObject
    BY <2>1, SlotsType
  <2>3. [s EXCEPT ![op.slot + 1] = op.entry] \in Seq(Nat)
    BY <2>1, <2>2, SeqStore
  <2>4. [array[op.arr] EXCEPT !.slots = [s EXCEPT ![op.slot + 1] = op.entry]] \in ArrayObject
    <3> DEFINE t == [s EXCEPT ![op.slot + 1] = op.entry]
    <3> HIDE DEF t
    <3>1. t \in Seq(Nat)
      BY <2>3 DEF t
    <3>2. [array[op.arr] EXCEPT !.slots = t] \in ArrayObject
      BY <2>2, <3>1 DEF ArrayObject
    <3> QED BY <3>2 DEF t
  <2>5. array' = [array EXCEPT ![op.arr] =
                    [array[op.arr] EXCEPT !.slots = [s EXCEPT ![op.slot + 1] = op.entry]]]
    BY <1>8 DEF SetSlot
  <2>6. array' \in [DOMAIN array -> ArrayObject] /\ DOMAIN array' = DOMAIN array
    BY <2>1, <2>4, <2>5 DEF ObjectsOK
  <2>7. ObjectsOK'
    BY <1>8, <2>6 DEF SetSlot, ObjectsOK
  <2>8. pc' \in {"global_header", "data_array", "data_tail", "data_count"} /\ pc = "set_slot"
    BY <1>8, ConstantsAssumption DEF SetSlot, Goto, ConstantsAssumption
  <2>9. CallOK'
    BY <1>8, <2>8 DEF SetSlot, CallOK, Goto, caller, Labels, LinkSteps, FieldSteps
  <2> QED BY <1>8, <2>7, <2>9 DEF SetSlot, tables, HeaderOK, ResidueOK, WriterOK
<1>9. CASE GlobalHeader
  <2>1. op.arr \in Nat /\ op.slot \in Nat
    BY DEF CallOK, Locals
  <2>2. op.arr % TailModulus \in Nat /\ op.slot + 1 \in Nat
    BY <2>1, ConstantsAssumption DEF ConstantsAssumption
  <2>3. \A a, b, c \in Nat :
          [hdr EXCEPT !.entry_array = a, !.tail_array = b, !.tail_array_n = c] \in Header
    BY DEF HeaderOK, Header
  <2>4. (IF hdr.entry_array = 0 THEN op.arr ELSE hdr.entry_array) \in Nat
    BY <2>1 DEF HeaderOK, Header
  <2>5. HeaderOK'
    BY <1>9, <2>2, <2>3, <2>4 DEF GlobalHeader, HeaderOK, tables
  <2>6. op' \in Locals /\ op'.items = op.items /\ op'.boot = op.boot
    BY <1>0, <1>9, 0 \in Nat DEF GlobalHeader
  <2>7. CallOK'
    BY <1>9, <2>6 DEF GlobalHeader, CallOK, Goto, caller, Labels, LinkSteps, FieldSteps
  <2> QED BY <1>9, <2>5, <2>7 DEF GlobalHeader, objects, ObjectsOK, ResidueOK, WriterOK
<1> QED BY <1>1, <1>2, <1>3, <1>4, <1>5, <1>6, <1>7, <1>8, <1>9

(***************************************************************************)
(* The items and their link states are numbers.                            *)
(***************************************************************************)
LEMMA ItemType ==
  ASSUME TypeOK, NEW it \in op.left
  PROVE  it \in Item /\ it.offset \in Nat /\ op.left \ {it} \in SUBSET Item
BY DEF TypeOK, CallOK, Locals, Item

LEMMA LinkStateType ==
  ASSUME TypeOK, NEW it \in op.left, it.offset \in DOMAIN data
  PROVE  LinkState(it) \in Item
<1>1. it \in Item
  BY ItemType
<1>2. /\ data[it.offset].n \in Nat /\ data[it.offset].array \in Nat
      /\ data[it.offset].tail \in Nat /\ data[it.offset].tail_n \in Nat
  BY DEF TypeOK, ObjectsOK, DataObject
<1>3. \A a, b, c, d \in Nat :
        [it EXCEPT !.n = a, !.array = b, !.tail = c, !.tail_n = d] \in Item
  BY <1>1 DEF Item
<1> QED BY <1>1, <1>2, <1>3 DEF LinkState

LEMMA LinkCountType ==
  ASSUME TypeOK, NEW it \in op.left, NextItem(it)
  PROVE  LinkState(it).n \in Nat
BY LinkStateType DEF NextItem, Item

(***************************************************************************)
(* The postings of the items.                                              *)
(***************************************************************************)
LEMMA TypeLinks ==
  ASSUME TypeOK, LinkItem \/ DataArray \/ DataHint \/ DataCount \/ Linked
  PROVE  TypeOK'
<1> USE DEF TypeOK
<1>0. /\ op.cur \in Nat /\ op.n \in Nat /\ op.arr \in Nat /\ op.slot \in Nat
      /\ op.entry \in Nat
  BY DEF CallOK, Locals
<1>1. ASSUME NEW it \in op.left, LinkFirst(it)
      PROVE  TypeOK'
  <2>1. it.offset \in Nat /\ op.left \ {it} \in SUBSET Item
    BY ItemType
  <2>2. it.offset \in DOMAIN data => [data[it.offset] EXCEPT !.entry = op.entry] \in DataObject
    BY <1>0 DEF ObjectsOK, DataObject
  <2>3. data' \in [DOMAIN data -> DataObject] /\ DOMAIN data' = DOMAIN data
    BY <1>1, <2>2 DEF LinkFirst, ObjectsOK
  <2>4. ObjectsOK'
    BY <1>1, <2>3 DEF LinkFirst, ObjectsOK
  <2>5. op' \in Locals /\ op'.items = op.items /\ op'.boot = op.boot
    BY <1>1, <2>1 DEF LinkFirst, CallOK, Locals
  <2>6. CallOK'
    BY <1>1, <2>5 DEF LinkFirst, CallOK, Goto, caller, Labels, LinkSteps, FieldSteps
  <2> QED BY <1>1, <2>4, <2>6 DEF LinkFirst, tables, HeaderOK, ResidueOK, WriterOK
<1>2. ASSUME NEW it \in op.left, LinkSecond(it)
      PROVE  TypeOK'
  <2>1. it.offset \in Nat /\ op.left \ {it} \in SUBSET Item
    BY ItemType
  <2>2. Allocate(MinCapacity) /\ MinCapacity \in Nat
    BY <1>2, ConstantsAssumption DEF LinkSecond, ConstantsAssumption
  <2>3. ObjectsOK' /\ HeaderOK' /\ WriterOK' /\ w.append_offset \in Nat
    BY <1>2, <2>2, AllocateType DEF LinkSecond, ObjectsOK, HeaderOK, WriterOK, tables
  <2>4. op' = [op EXCEPT !.cur = it.offset, !.n = 2, !.left = op.left \ {it},
                         !.arr = w.append_offset, !.slot = 0]
    BY <1>2 DEF LinkSecond
  <2>5. op' \in Locals /\ op'.items = op.items /\ op'.boot = op.boot
    BY <2>1, <2>3, <2>4 DEF CallOK, Locals
  <2>6. CallOK'
    BY <1>2, <2>5 DEF LinkSecond, CallOK, Goto, caller, Labels, LinkSteps, FieldSteps
  <2> QED BY <1>2, <2>3, <2>6 DEF LinkSecond, ResidueOK
<1>3. ASSUME NEW it \in op.left, LinkInTail(it)
      PROVE  TypeOK'
  <2> DEFINE v == LinkState(it)
             t == DataTail(v)
  <2>1. it.offset \in Nat /\ op.left \ {it} \in SUBSET Item
    BY ItemType
  <2>2. /\ t.at \in DOMAIN array /\ t.used \in 0..(Len(array[t.at].slots) - 1)
        /\ op' = [op EXCEPT !.cur = it.offset, !.n = v.n + 1, !.left = op.left \ {it},
                            !.arr = t.at, !.slot = t.used]
    BY <1>3 DEF LinkInTail
  <2>3. t.at \in Nat /\ t.used \in Nat
    <3> HIDE DEF t
    <3> QED BY <2>2, SlotsType
  <2>4. v.n + 1 \in Nat
    BY <1>3, LinkCountType DEF LinkInTail
  <2>5. op' \in Locals /\ op'.items = op.items /\ op'.boot = op.boot
    <3> DEFINE n == v.n + 1
    <3> HIDE DEF v, t, n
    <3>1. n \in Nat /\ op' = [op EXCEPT !.cur = it.offset, !.n = n, !.left = op.left \ {it},
                              !.arr = t.at, !.slot = t.used]
      BY <2>2, <2>4 DEF n
    <3> QED BY <2>1, <2>3, <3>1 DEF CallOK, Locals
  <2>6. CallOK'
    BY <1>3, <2>5 DEF LinkInTail, CallOK, Goto, caller, Labels, LinkSteps, FieldSteps
  <2> QED BY <1>3, <2>6 DEF LinkInTail, objects, tables, ObjectsOK, HeaderOK, ResidueOK, WriterOK
<1>4. ASSUME NEW it \in op.left, LinkInNew(it)
      PROVE  TypeOK'
  <2> DEFINE v == LinkState(it)
             t == DataTail(v)
             c == NextCapacity(v.n - 1, Len(array[t.at].slots))
             n == v.n + 1
  <2>1. it.offset \in Nat /\ op.left \ {it} \in SUBSET Item
    BY ItemType
  <2>2. /\ t.at \in DOMAIN array /\ v.n >= 2
        /\ Allocate(c)
        /\ op' = [op EXCEPT !.cur = it.offset, !.n = n, !.left = op.left \ {it},
                            !.arr = w.append_offset, !.slot = 0, !.prev = t.at]
    BY <1>4 DEF LinkInNew
  <2>3. v.n \in Nat
    BY <1>4, LinkCountType DEF LinkInNew
  <2>4. t.at \in Nat /\ Len(array[t.at].slots) \in Nat
    <3> HIDE DEF t
    <3> QED BY <2>2, SlotsType
  <2>5. c \in Nat /\ n \in Nat
    <3>1. v.n - 1 \in Nat /\ n \in Nat
      <4> HIDE DEF v
      <4> QED BY <2>2, <2>3
    <3> HIDE DEF v, t
    <3> QED BY <2>4, <3>1, CapacityType
  <2>6. ObjectsOK' /\ HeaderOK' /\ WriterOK' /\ w.append_offset \in Nat
    <3> HIDE DEF c
    <3> QED BY <1>4, <2>2, <2>5, AllocateType DEF LinkInNew, ObjectsOK, HeaderOK, WriterOK, tables
  <2>7. op' \in Locals /\ op'.items = op.items /\ op'.boot = op.boot
    <3> HIDE DEF v, t, n
    <3> QED BY <2>1, <2>2, <2>4, <2>5, <2>6 DEF CallOK, Locals
  <2>8. CallOK'
    BY <1>4, <2>7 DEF LinkInNew, CallOK, Goto, caller, Labels, LinkSteps, FieldSteps
  <2> QED BY <1>4, <2>6, <2>8 DEF LinkInNew, ResidueOK
<1>5. CASE DataArray
  <2>1. op.cur \in DOMAIN data => [data[op.cur] EXCEPT !.array = op.arr] \in DataObject
    BY <1>0 DEF ObjectsOK, DataObject
  <2>2. data' \in [DOMAIN data -> DataObject] /\ DOMAIN data' = DOMAIN data
    BY <1>5, <2>1 DEF DataArray, ObjectsOK
  <2>3. ObjectsOK'
    BY <1>5, <2>2 DEF DataArray, ObjectsOK
  <2>4. CallOK'
    BY <1>5 DEF DataArray, CallOK, Goto, caller, Labels, LinkSteps, FieldSteps
  <2> QED BY <1>5, <2>3, <2>4 DEF DataArray, tables, HeaderOK, ResidueOK, WriterOK
<1>6. CASE DataHint
  <2> DEFINE used == op.slot + 1
  <2>1. used \in Nat
    BY <1>0
  <2>2. op.cur \in DOMAIN data =>
          [data[op.cur] EXCEPT !.tail = op.arr, !.tail_n = used] \in DataObject
    <3> HIDE DEF used
    <3> QED BY <1>0, <2>1 DEF ObjectsOK, DataObject
  <2>3. data' = [data EXCEPT ![op.cur] = [data[op.cur] EXCEPT !.tail = op.arr, !.tail_n = used]]
    BY <1>6 DEF DataHint, ObjectsOK
  <2>4. data' \in [DOMAIN data -> DataObject] /\ DOMAIN data' = DOMAIN data
    <3> HIDE DEF used
    <3> QED BY <2>2, <2>3 DEF ObjectsOK
  <2>5. ObjectsOK'
    BY <1>6, <2>4 DEF DataHint, ObjectsOK
  <2>6. CallOK'
    BY <1>6 DEF DataHint, CallOK, Goto, caller, Labels, LinkSteps, FieldSteps
  <2> QED BY <1>6, <2>5, <2>6 DEF DataHint, tables, HeaderOK, ResidueOK, WriterOK
<1>7. CASE DataCount
  <2>1. op.cur \in DOMAIN data => [data[op.cur] EXCEPT !.n = op.n] \in DataObject
    BY <1>0 DEF ObjectsOK, DataObject
  <2>2. data' \in [DOMAIN data -> DataObject] /\ DOMAIN data' = DOMAIN data
    BY <1>7, <2>1 DEF DataCount, ObjectsOK
  <2>3. ObjectsOK'
    BY <1>7, <2>2 DEF DataCount, ObjectsOK
  <2>4. op' \in Locals /\ op'.items = op.items /\ op'.boot = op.boot
    BY <1>7 DEF DataCount, CallOK, Locals
  <2>5. CallOK'
    BY <1>7, <2>4 DEF DataCount, CallOK, Goto, caller, Labels, LinkSteps, FieldSteps
  <2> QED BY <1>7, <2>3, <2>5 DEF DataCount, tables, HeaderOK, ResidueOK, WriterOK
<1>8. CASE Linked
  <2>1. CallOK'
    BY <1>8 DEF Linked, CallOK, Goto, caller, Labels, Commits, FieldSteps
  <2> QED BY <1>8, <2>1 DEF Linked, objects, tables, ObjectsOK, HeaderOK, ResidueOK, WriterOK
<1> QED BY <1>1, <1>2, <1>3, <1>4, <1>5, <1>6, <1>7, <1>8 DEF LinkItem

(***************************************************************************)
(* The header stores that commit the entry, and the end of the call.       *)
(***************************************************************************)
LEMMA TypeCommits ==
  ASSUME TypeOK,
         \/ CommitObjects \/ CommitTailObject \/ CommitHead \/ CommitTail
         \/ CommitTailEntry \/ CommitCount \/ Publish
  PROVE  TypeOK'
<1> USE DEF TypeOK
<1>0. /\ hdr \in Header /\ w \in Writer
      /\ w.num_written \in Nat /\ w.tail_object \in Nat /\ w.since \in Nat
      /\ op.seqnum \in Nat /\ op.mono \in Nat /\ op.entry \in Nat
      /\ hdr.n_objects \in Nat /\ hdr.n_entries \in Nat /\ hdr.head_seqnum \in Nat
      /\ op.boot \in Boots \cup {NoBoot}
  BY DEF HeaderOK, WriterOK, CallOK, Header, Writer, Locals
<1>1. CASE CommitObjects
  <2>1. HeaderOK'
    BY <1>0, <1>1 DEF CommitObjects, tables, HeaderOK, Header
  <2>2. CallOK'
    BY <1>1 DEF CommitObjects, CallOK, Goto, caller, Labels, Commits, FieldSteps
  <2> QED BY <1>1, <2>1, <2>2 DEF CommitObjects, objects, ObjectsOK, ResidueOK, WriterOK
<1>2. CASE CommitTailObject
  <2>1. HeaderOK'
    BY <1>0, <1>2 DEF CommitTailObject, tables, HeaderOK, Header
  <2>2. CallOK'
    BY <1>2 DEF CommitTailObject, CallOK, Goto, caller, Labels, Commits, FieldSteps
  <2> QED BY <1>2, <2>1, <2>2 DEF CommitTailObject, objects, ObjectsOK, ResidueOK, WriterOK
<1>3. CASE CommitHead
  <2>1. HeaderOK'
    BY <1>0, <1>3 DEF CommitHead, tables, HeaderOK, Header
  <2>2. CallOK'
    BY <1>3 DEF CommitHead, CallOK, Goto, caller, Labels, Commits, FieldSteps
  <2> QED BY <1>3, <2>1, <2>2 DEF CommitHead, objects, ObjectsOK, ResidueOK, WriterOK
<1>4. CASE CommitTail
  <2>1. HeaderOK'
    BY <1>0, <1>4 DEF CommitTail, tables, HeaderOK, Header
  <2>2. CallOK'
    BY <1>4 DEF CommitTail, CallOK, Goto, caller, Labels, Commits, FieldSteps
  <2> QED BY <1>4, <2>1, <2>2 DEF CommitTail, objects, ObjectsOK, ResidueOK, WriterOK
<1>5. CASE CommitTailEntry
  <2>1. HeaderOK'
    BY <1>0, <1>5 DEF CommitTailEntry, tables, HeaderOK, Header
  <2>2. CallOK'
    BY <1>5 DEF CommitTailEntry, CallOK, Goto, caller, Labels, Commits, FieldSteps
  <2> QED BY <1>5, <2>1, <2>2 DEF CommitTailEntry, objects, ObjectsOK, ResidueOK, WriterOK
<1>6. CASE CommitCount
  <2>1. HeaderOK'
    BY <1>0, <1>6 DEF CommitCount, tables, HeaderOK, Header
  <2>2. CallOK'
    BY <1>6 DEF CommitCount, CallOK, Goto, caller, Labels, Commits, FieldSteps
  <2>3. op.seqnum + 1 \in Nat
    BY <1>0
  <2>4. \A a, b \in Nat : /\ [w EXCEPT !.next_seqnum = a, !.num_written = b] \in Writer
                          /\ [w EXCEPT !.next_seqnum = a, !.num_written = b].append_offset
                               = w.append_offset
    BY <1>0 DEF Writer
  <2>5. WriterOK'
    BY <1>6, <2>3, <2>4, 0 \in Nat DEF CommitCount, WriterOK
  <2> QED BY <1>6, <2>1, <2>2, <2>5 DEF CommitCount, objects, ObjectsOK, ResidueOK
<1>7. CASE Publish
  <2>1. SinceAfter \in Nat
    BY <1>0 DEF SinceAfter
  <2>2. \A a \in Nat : /\ [w EXCEPT !.poisoned = FALSE, !.since = a] \in Writer
                       /\ [w EXCEPT !.poisoned = FALSE, !.since = a].append_offset
                            = w.append_offset
    BY <1>0 DEF Writer
  <2>3. WriterOK'
    BY <1>7, <2>1, <2>2 DEF Publish, WriterOK
  <2>4. notified' \in Nat /\ acked' \in Nat
    BY <1>0, <1>7 DEF Publish, CallOK
  <2>5. CallOK'
    BY <1>7, <2>4, NoOpType DEF Publish, CallOK, Labels, FieldSteps
  <2> QED BY <1>7, <2>3, <2>5 DEF Publish, objects, tables, ObjectsOK, HeaderOK, ResidueOK
<1> QED BY <1>1, <1>2, <1>3, <1>4, <1>5, <1>6, <1>7

(***************************************************************************)
(* The ways out of a call other than Publish.                              *)
(***************************************************************************)
LEMMA TypeFails ==
  ASSUME TypeOK, FailAppend \/ FailPublish \/ Overflow
  PROVE  TypeOK'
<1> USE DEF TypeOK
<1>1. CASE FailAppend
  BY <1>1, TypeReturn DEF FailAppend, objects, tables, ObjectsOK, HeaderOK, ResidueOK, WriterOK
<1>2. CASE FailPublish
  <2>1. w \in Writer /\ w.since \in Nat
    BY DEF WriterOK, Writer
  <2>2. SinceAfter \in Nat
    BY <2>1 DEF SinceAfter
  <2>3. \A a \in Nat : /\ [w EXCEPT !.since = a] \in Writer
                       /\ [w EXCEPT !.since = a].append_offset = w.append_offset
    BY <2>1 DEF Writer
  <2>4. WriterOK'
    BY <1>2, <2>2, <2>3 DEF FailPublish, WriterOK
  <2> QED BY <1>2, <2>4, TypeReturn DEF FailPublish, objects, tables, ObjectsOK, HeaderOK,
                                        ResidueOK
<1>3. CASE Overflow
  BY <1>3, TypeReturn DEF Overflow, objects, tables, ObjectsOK, HeaderOK, ResidueOK, WriterOK
<1> QED BY <1>1, <1>2, <1>3

LEMMA TypeInit == Init => TypeOK
<1> SUFFICES ASSUME Init PROVE TypeOK
  OBVIOUS
<1> USE DEF Init
<1>1. ObjectsOK /\ ResidueOK
  BY DEF ObjectsOK, ResidueOK
<1>2. HeaderOK
  BY DEF HeaderOK, Header, HashItem
<1>3. WriterOK
  BY DEF WriterOK, Writer
<1>4. CallOK
  BY NoOpType DEF CallOK, Labels, FieldSteps
<1> QED BY <1>1, <1>2, <1>3, <1>4 DEF TypeOK

LEMMA TypeNext == TypeOK /\ [Next]_vars => TypeOK'
<1> SUFFICES ASSUME TypeOK, [Next]_vars PROVE TypeOK'
  OBVIOUS
<1>1. CASE UNCHANGED vars
  BY <1>1 DEF vars, TypeOK, ObjectsOK, HeaderOK, ResidueOK, WriterOK, CallOK
<1>2. CASE Call
  BY <1>2, TypeCalls
<1>3. CASE Step
  BY <1>3, TypeFields, TypeEntry, TypeLinks, TypeCommits, TypeFails DEF Step
<1>4. CASE Fail
  BY <1>4, TypeFails DEF Fail
<1> QED BY <1>1, <1>2, <1>3, <1>4 DEF Next

(***************************************************************************)
(* The file, the writer and the running append keep their types: every     *)
(* link is a number, every object of its kind, every step has the payload  *)
(* and boot id it works on (add_entry_fields_with_options and the steps    *)
(* it calls).                                                              *)
(***************************************************************************)
THEOREM TypeCorrect == Spec => []TypeOK
BY TypeInit, TypeNext, PTL DEF Spec

-----------------------------------------------------------------------------
(* What the steps leave alone.  The invariants below look at the offsets   *)
(* in use, the ENTRY objects, the two arena fields of the header and the   *)
(* writer's counters only; the steps fall into the groups that differ in   *)
(* how they treat these.                                                   *)

Arena == DOMAIN data \cup DOMAIN field \cup DOMAIN entry \cup DOMAIN array

SameHeader == hdr'.n_objects = hdr.n_objects /\ hdr'.tail_object = hdr.tail_object

Request == {"field"} \cup FieldSteps

QuietField ==
  \/ SkipField \/ ReuseData \/ LinkDataHash \/ PublishDataBucket \/ CountData
  \/ CachedField \/ FoundField \/ LinkFieldHash \/ PublishFieldBucket
  \/ CountField \/ SetNextField \/ SetHeadData

QuietLink ==
  \/ PlaceInTail \/ LinkArray \/ SetSlot \/ GlobalHeader
  \/ \E it \in op.left : LinkFirst(it) \/ LinkInTail(it)
  \/ DataArray \/ DataHint \/ DataCount \/ Linked

CreateField == WriteData \/ WriteField

CreateLink ==
  \/ PlaceFirst \/ PlaceInNew
  \/ \E it \in op.left : LinkSecond(it) \/ LinkInNew(it)

Leave == RejectField \/ FinishEmpty \/ FailAppend \/ Overflow

(***************************************************************************)
(* The groups cover the next-state relation.                               *)
(***************************************************************************)
LEMMA NextGroups ==
  ASSUME Next
  PROVE  \/ Call \/ QuietField \/ QuietLink \/ StartData \/ Finish
         \/ CreateField \/ CreateLink \/ WriteEntry \/ Leave
         \/ CommitObjects \/ CommitTailObject \/ CommitHead \/ CommitTail
         \/ CommitTailEntry \/ CommitCount \/ Publish \/ FailPublish
BY DEF Next, Step, Fail, LinkItem, QuietField, QuietLink, CreateField, CreateLink, Leave

LEMMA QuietFieldFrame ==
  ASSUME TypeOK, QuietField
  PROVE  /\ Arena' = Arena /\ entry' = entry /\ w' = w /\ SameHeader
         /\ op'.seqnum = op.seqnum
         /\ pc \in Request /\ pc' \in Request
         /\ pc = "field" => pc' = "field"
<1> USE DEF TypeOK, SameHeader, Arena, Request, FieldSteps
<1>0. hdr \in Header /\ op \in Locals
  BY DEF HeaderOK, CallOK
<1>1. CASE SkipField
  BY <1>0, <1>1 DEF SkipField, AtField, objects, Goto, Locals
<1>2. CASE ReuseData
  BY <1>0, <1>2 DEF ReuseData, AtField, objects, Goto, Locals
<1>3. CASE LinkDataHash
  BY <1>3 DEF LinkDataHash, Goto
<1>4. CASE PublishDataBucket
  BY <1>4 DEF PublishDataBucket, objects, Goto
<1>5. CASE CountData
  BY <1>0, <1>5 DEF CountData, objects, Goto, Header
<1>6. CASE CachedField
  BY <1>0, <1>6 DEF CachedField, objects, Goto, Locals
<1>7. CASE FoundField
  BY <1>0, <1>7 DEF FoundField, objects, Goto, Locals
<1>8. CASE LinkFieldHash
  BY <1>8 DEF LinkFieldHash, Goto
<1>9. CASE PublishFieldBucket
  BY <1>9 DEF PublishFieldBucket, objects, Goto
<1>10. CASE CountField
  BY <1>0, <1>10 DEF CountField, objects, Goto, Header
<1>11. CASE SetNextField
  BY <1>11 DEF SetNextField, Goto
<1>12. CASE SetHeadData
  BY <1>0, <1>12 DEF SetHeadData, Goto, Locals
<1> QED BY <1>1, <1>2, <1>3, <1>4, <1>5, <1>6, <1>7, <1>8, <1>9, <1>10, <1>11, <1>12
           DEF QuietField

LEMMA QuietLinkFrame ==
  ASSUME TypeOK, QuietLink
  PROVE  /\ Arena' = Arena /\ entry' = entry /\ w' = w /\ SameHeader
         /\ op'.seqnum = op.seqnum
         /\ pc \in LinkSteps /\ pc' \in LinkSteps \cup {"commit_objects"}
<1> USE DEF TypeOK, SameHeader, Arena, LinkSteps
<1>0. hdr \in Header /\ op \in Locals
  BY DEF HeaderOK, CallOK
<1>1. CASE PlaceInTail
  BY <1>0, <1>1 DEF PlaceInTail, objects, Goto, Locals
<1>2. CASE LinkArray
  BY <1>2 DEF LinkArray, Goto
<1>3. CASE SetSlot
  <2>1. pc' \in {"global_header", "data_array", "data_tail", "data_count"}
    BY <1>3, ConstantsAssumption DEF SetSlot, Goto, ConstantsAssumption
  <2> QED BY <1>3, <2>1 DEF SetSlot
<1>4. CASE GlobalHeader
  BY <1>0, <1>4 DEF GlobalHeader, objects, Goto, Header, Locals
<1>5. ASSUME NEW it \in op.left, LinkFirst(it)
      PROVE  /\ Arena' = Arena /\ entry' = entry /\ w' = w /\ SameHeader
             /\ op'.seqnum = op.seqnum
             /\ pc \in LinkSteps /\ pc' \in LinkSteps \cup {"commit_objects"}
  BY <1>0, <1>5 DEF LinkFirst, Goto, Locals
<1>6. ASSUME NEW it \in op.left, LinkInTail(it)
      PROVE  /\ Arena' = Arena /\ entry' = entry /\ w' = w /\ SameHeader
             /\ op'.seqnum = op.seqnum
             /\ pc \in LinkSteps /\ pc' \in LinkSteps \cup {"commit_objects"}
  <2>1. op'.seqnum = op.seqnum
    BY <1>0, <1>6 DEF LinkInTail, Locals
  <2> QED BY <1>6, <2>1 DEF LinkInTail, objects, Goto
<1>7. CASE DataArray
  BY <1>7 DEF DataArray, Goto
<1>8. CASE DataHint
  BY <1>8 DEF DataHint, Goto
<1>9. CASE DataCount
  BY <1>0, <1>9 DEF DataCount, Goto, Locals
<1>10. CASE Linked
  BY <1>10 DEF Linked, objects, Goto
<1> QED BY <1>1, <1>2, <1>3, <1>4, <1>5, <1>6, <1>7, <1>8, <1>9, <1>10 DEF QuietLink

LEMMA CreateFieldFrame ==
  ASSUME TypeOK, CreateField
  PROVE  /\ Arena' = Arena \cup {w.append_offset} /\ entry' = entry
         /\ w' = ObjectAdded(w) /\ SameHeader /\ op'.seqnum = op.seqnum
         /\ pc \in FieldSteps /\ pc' \in FieldSteps
<1> USE DEF TypeOK, SameHeader, Arena, FieldSteps
<1>0. op \in Locals
  BY DEF CallOK
<1>1. CASE WriteData
  <2>1. DOMAIN data' = DOMAIN data \cup {w.append_offset}
    BY <1>1 DEF WriteData, Put
  <2> QED BY <1>0, <1>1, <2>1 DEF WriteData, Goto, Locals
<1>2. CASE WriteField
  <2>1. DOMAIN field' = DOMAIN field \cup {w.append_offset}
    BY <1>2 DEF WriteField, Put
  <2> QED BY <1>0, <1>2, <2>1 DEF WriteField, Goto, Locals
<1> QED BY <1>1, <1>2 DEF CreateField

LEMMA CreateLinkFrame ==
  ASSUME TypeOK, CreateLink
  PROVE  /\ Arena' = Arena \cup {w.append_offset} /\ entry' = entry
         /\ w' = ObjectAdded(w) /\ SameHeader /\ op'.seqnum = op.seqnum
         /\ pc \in LinkSteps /\ pc' \in LinkSteps
<1> USE DEF TypeOK
<1>0. hdr \in Header /\ op \in Locals
  BY DEF HeaderOK, CallOK
<1>1. ASSUME NEW c, Allocate(c), UNCHANGED <<data, field, entry>>
      PROVE  /\ Arena' = Arena \cup {w.append_offset} /\ w' = ObjectAdded(w) /\ SameHeader
  <2>1. DOMAIN array' = DOMAIN array \cup {w.append_offset}
    BY <1>1 DEF Allocate, Put
  <2>2. SameHeader
    BY <1>0, <1>1 DEF Allocate, Header, SameHeader
  <2> QED BY <1>1, <2>1, <2>2 DEF Allocate, Arena
<1>2. CASE PlaceFirst
  BY <1>0, <1>1, <1>2 DEF PlaceFirst, Goto, Locals, LinkSteps
<1>3. CASE PlaceInNew
  BY <1>0, <1>1, <1>3 DEF PlaceInNew, Goto, Locals, LinkSteps
<1>4. ASSUME NEW it \in op.left, LinkSecond(it)
      PROVE  /\ Arena' = Arena \cup {w.append_offset} /\ entry' = entry
             /\ w' = ObjectAdded(w) /\ SameHeader /\ op'.seqnum = op.seqnum
             /\ pc \in LinkSteps /\ pc' \in LinkSteps
  BY <1>0, <1>1, <1>4 DEF LinkSecond, Goto, Locals, LinkSteps
<1>5. ASSUME NEW it \in op.left, LinkInNew(it)
      PROVE  /\ Arena' = Arena \cup {w.append_offset} /\ entry' = entry
             /\ w' = ObjectAdded(w) /\ SameHeader /\ op'.seqnum = op.seqnum
             /\ pc \in LinkSteps /\ pc' \in LinkSteps
  <2>1. op'.seqnum = op.seqnum
    BY <1>0, <1>5 DEF LinkInNew, Locals
  <2> QED BY <1>1, <1>5, <2>1 DEF LinkInNew, Goto, LinkSteps
<1> QED BY <1>2, <1>3, <1>4, <1>5 DEF CreateLink

LEMMA LeaveFrame ==
  ASSUME Leave
  PROVE  /\ UNCHANGED <<objects, hdr, tables, w>>
         /\ pc' = "idle"
<1>1. CASE RejectField
  BY <1>1 DEF RejectField, Return
<1>2. CASE FinishEmpty
  BY <1>2 DEF FinishEmpty, Return
<1>3. CASE FailAppend
  BY <1>3 DEF FailAppend, Return
<1>4. CASE Overflow
  BY <1>4 DEF Overflow, Return
<1> QED BY <1>1, <1>2, <1>3, <1>4 DEF Leave

LEMMA CallFrame ==
  ASSUME TypeOK, Call
  PROVE  /\ UNCHANGED <<objects, hdr, tables, w>>
         /\ pc = "idle" /\ pc' \in {"idle", "field"}
         /\ pc' = "field" => /\ ~w.poisoned /\ op'.seqnum >= w.next_seqnum
                             /\ op'.seqnum # 0 /\ op'.seqnum # SeqnumMax
<1>1. ASSUME NEW fields \in Requests, NEW s \in SeqnumOptions, NEW b \in Boots,
             NEW m \in Monotonics, NEW trusted \in TrustedOptions,
             BeginAppend(fields, s, b, m, trusted)
      PROVE  /\ UNCHANGED <<objects, hdr, tables, w>>
             /\ pc = "idle" /\ pc' = "field" /\ ~w.poisoned
             /\ op'.seqnum >= w.next_seqnum
             /\ op'.seqnum # 0 /\ op'.seqnum # SeqnumMax
  <2>1. op'.seqnum = EntrySeqnum(s)
    BY <1>1 DEF BeginAppend, NoOp
  <2> QED BY <1>1, <2>1 DEF BeginAppend, SeqnumAccepted, Goto
<1>2. ASSUME NEW s \in SeqnumOptions, NEW b \in Boots, NEW m \in Monotonics,
             RefuseOptions(s, b, m)
      PROVE  UNCHANGED <<objects, hdr, tables, w>> /\ pc = "idle" /\ pc' = "idle"
  BY <1>2 DEF RefuseOptions, Return
<1>3. CASE RefusePoisoned
  BY <1>3 DEF RefusePoisoned, Return
<1> QED BY <1>1, <1>2, <1>3 DEF Call

(***************************************************************************)
(* The header stores of entry_added leave objects and ENTRY objects alone. *)
(***************************************************************************)
LEMMA CommitFrame ==
  ASSUME TypeOK, \/ CommitTailObject \/ CommitHead \/ CommitTail \/ CommitTailEntry
  PROVE  /\ UNCHANGED <<objects, w, op>>
         /\ hdr'.n_objects = hdr.n_objects
         /\ CommitTailObject => hdr'.tail_object = w.tail_object
         /\ ~CommitTailObject => hdr'.tail_object = hdr.tail_object
         /\ pc \in Commits /\ pc' \in Commits
         /\ pc = "commit_tail_object" <=> CommitTailObject
         /\ pc \in ObjectsStored /\ pc' \in TailStored
<1> USE DEF Commits, ObjectsStored, TailStored
<1>0. hdr \in Header
  BY DEF TypeOK, HeaderOK
<1>1. CASE CommitTailObject
  BY <1>0, <1>1 DEF CommitTailObject, Goto, Header
<1>2. CASE CommitHead
  BY <1>0, <1>2 DEF CommitHead, CommitTailObject, Goto, Header
<1>3. CASE CommitTail
  BY <1>0, <1>3 DEF CommitTail, CommitTailObject, Goto, Header
<1>4. CASE CommitTailEntry
  BY <1>0, <1>4 DEF CommitTailEntry, CommitTailObject, Goto, Header
<1> QED BY <1>1, <1>2, <1>3, <1>4

-----------------------------------------------------------------------------
(* The poisoned flag. *)

LEMMA AddedPoisoned ==
  ASSUME TypeOK PROVE ObjectAdded(w).poisoned = w.poisoned
BY ObjectAddedFacts DEF TypeOK, WriterOK

LEMMA StartPoisoned ==
  ASSUME TypeOK, StartData \/ Finish
  PROVE  /\ w'.poisoned /\ UNCHANGED <<objects, hdr, tables, op>>
         /\ w'.append_offset = w.append_offset /\ w'.tail_object = w.tail_object
         /\ w'.num_written = w.num_written /\ w'.next_seqnum = w.next_seqnum
         /\ pc = "field" /\ pc' \in {"data", "entry"}
<1>1. w' = [w EXCEPT !.poisoned = TRUE] /\ w \in Writer
  BY DEF StartData, Finish, TypeOK, WriterOK
<1>2. w'.poisoned
  BY <1>1 DEF Writer
<1>3. /\ w'.append_offset = w.append_offset /\ w'.tail_object = w.tail_object
      /\ w'.num_written = w.num_written /\ w'.next_seqnum = w.next_seqnum
  BY <1>1 DEF Writer
<1>4. /\ UNCHANGED <<objects, hdr, tables, op>>
      /\ pc = "field" /\ pc' \in {"data", "entry"}
  BY DEF StartData, Finish, AtField, Goto
<1> QED BY <1>2, <1>3, <1>4

LEMMA CountPoisoned ==
  ASSUME TypeOK, CommitCount
  PROVE  /\ w'.poisoned = w.poisoned
         /\ w'.append_offset = w.append_offset /\ w'.tail_object = w.tail_object
         /\ w'.num_written = 0 /\ w'.next_seqnum = op.seqnum + 1
         /\ SameHeader /\ UNCHANGED objects
         /\ pc = "commit_count" /\ pc' = "publish" /\ op' = op
<1>1. w' = [w EXCEPT !.next_seqnum = op.seqnum + 1, !.num_written = 0] /\ w \in Writer
  BY DEF CommitCount, TypeOK, WriterOK
<1>2. w'.poisoned = w.poisoned
  BY <1>1, Zenon DEF Writer
<1>3. /\ w'.append_offset = w.append_offset /\ w'.tail_object = w.tail_object
      /\ w'.num_written = 0 /\ w'.next_seqnum = op.seqnum + 1
  BY <1>1 DEF Writer
<1>4. SameHeader
  BY DEF CommitCount, SameHeader, TypeOK, HeaderOK, Header
<1>5. UNCHANGED objects /\ pc = "commit_count" /\ pc' = "publish" /\ op' = op
  BY DEF CommitCount, Goto
<1> QED BY <1>2, <1>3, <1>4, <1>5

LEMMA EndPoisoned ==
  ASSUME TypeOK, Publish \/ FailPublish
  PROVE  /\ Publish => ~w'.poisoned
         /\ FailPublish => w'.poisoned = w.poisoned
         /\ w'.append_offset = w.append_offset /\ w'.tail_object = w.tail_object
         /\ w'.num_written = w.num_written /\ w'.next_seqnum = w.next_seqnum
         /\ UNCHANGED <<objects, hdr, tables>>
         /\ pc = "publish" /\ pc' = "idle"
<1> w \in Writer
  BY DEF TypeOK, WriterOK
<1>1. Publish => w' = [w EXCEPT !.poisoned = FALSE, !.since = SinceAfter]
  BY DEF Publish
<1>2. FailPublish => w' = [w EXCEPT !.since = SinceAfter]
  BY DEF FailPublish
<1>3. Publish => ~w'.poisoned
  BY <1>1, Zenon DEF Writer
<1>4. FailPublish => w'.poisoned = w.poisoned
  BY <1>2, Zenon DEF Writer
<1>5. /\ w'.append_offset = w.append_offset /\ w'.tail_object = w.tail_object
      /\ w'.num_written = w.num_written /\ w'.next_seqnum = w.next_seqnum
  BY <1>1, <1>2 DEF Writer
<1>6. UNCHANGED <<objects, hdr, tables>> /\ pc = "publish" /\ pc' = "idle"
  BY DEF Publish, FailPublish, Return
<1> QED BY <1>3, <1>4, <1>5, <1>6

LEMMA WriteEntryFrame ==
  ASSUME TypeOK, WriteEntry
  PROVE  /\ Arena' = Arena \cup {w.append_offset}
         /\ DOMAIN entry' = DOMAIN entry \cup {w.append_offset}
         /\ entry'[w.append_offset].seqnum = op.seqnum
         /\ \A e \in DOMAIN entry : e # w.append_offset => entry'[e] = entry[e]
         /\ w' = ObjectAdded(w) /\ SameHeader /\ op'.seqnum = op.seqnum
         /\ pc = "entry" /\ pc' = "place"
<1>1. op \in Locals
  BY DEF TypeOK, CallOK
<1>2. /\ DOMAIN entry' = DOMAIN entry \cup {w.append_offset}
      /\ entry'[w.append_offset].seqnum = op.seqnum
      /\ \A e \in DOMAIN entry : e # w.append_offset => entry'[e] = entry[e]
  BY DEF WriteEntry, Put
<1>3. Arena' = Arena \cup {w.append_offset}
  BY <1>2 DEF WriteEntry, Arena
<1> QED BY <1>1, <1>2, <1>3 DEF WriteEntry, SameHeader, Goto, Locals

(***************************************************************************)
(* A call that is past its field list or inside a new object has set the   *)
(* flag.                                                                   *)
(***************************************************************************)
LEMMA PoisonNext == TypeOK /\ PoisonCover /\ [Next]_vars => PoisonCover'
<1> SUFFICES ASSUME TypeOK, PoisonCover, [Next]_vars PROVE PoisonCover'
  OBVIOUS
<1> USE DEF PoisonCover
<1>1. CASE UNCHANGED vars
  BY <1>1 DEF vars
<1>2. CASE Call \/ Leave \/ Publish \/ FailPublish
  BY <1>2, CallFrame, LeaveFrame, EndPoisoned
<1>3. CASE QuietField \/ QuietLink
  BY <1>3, QuietFieldFrame, QuietLinkFrame DEF Request, FieldSteps, LinkSteps
<1>4. CASE StartData \/ Finish
  BY <1>4, StartPoisoned
<1>5. CASE CreateField \/ CreateLink \/ WriteEntry
  BY <1>5, CreateFieldFrame, CreateLinkFrame, WriteEntryFrame, AddedPoisoned
     DEF FieldSteps, LinkSteps
<1>6. CASE CommitObjects
  BY <1>6 DEF CommitObjects, Goto
<1>7. CASE CommitTailObject \/ CommitHead \/ CommitTail \/ CommitTailEntry
  BY <1>7, CommitFrame DEF Commits
<1>8. CASE CommitCount
  BY <1>8, CountPoisoned
<1> QED BY <1>1, <1>2, <1>3, <1>4, <1>5, <1>6, <1>7, <1>8, NextGroups

(***************************************************************************)
(* A step that changes the file is one of a call that has set the flag,    *)
(* and does not clear it.                                                  *)
(***************************************************************************)
LEMMA StoreStep ==
  TypeOK /\ PoisonCover /\ TypeOK' /\ PoisonCover' /\ [Next]_vars => [StorePoisoned]_vars
<1> SUFFICES ASSUME TypeOK, PoisonCover, PoisonCover', Next PROVE StorePoisoned
  BY DEF StorePoisoned, vars
<1> USE DEF StorePoisoned
<1>1. CASE Call \/ Leave \/ Publish \/ FailPublish \/ StartData \/ Finish
  BY <1>1, CallFrame, LeaveFrame, EndPoisoned, StartPoisoned
<1>2. CASE QuietField
  <2>1. CASE pc = "field"
    <3>1. SkipField \/ ReuseData
      BY <1>2, <2>1 DEF QuietField, LinkDataHash, PublishDataBucket, CountData, CachedField,
                        FoundField, LinkFieldHash, PublishFieldBucket, CountField,
                        SetNextField, SetHeadData
    <3> QED BY <3>1 DEF SkipField, ReuseData
  <2>2. CASE pc # "field"
    BY <1>2, <2>2, QuietFieldFrame DEF PoisonCover, Request, FieldSteps
  <2> QED BY <2>1, <2>2
<1>3. CASE QuietLink
  BY <1>3, QuietLinkFrame DEF PoisonCover, LinkSteps
<1>4. CASE CreateField \/ CreateLink \/ WriteEntry
  BY <1>4, CreateFieldFrame, CreateLinkFrame, WriteEntryFrame
     DEF PoisonCover, FieldSteps, LinkSteps
<1>5. CASE CommitObjects
  BY <1>5 DEF CommitObjects, PoisonCover
<1>6. CASE CommitTailObject \/ CommitHead \/ CommitTail \/ CommitTailEntry
  BY <1>6, CommitFrame DEF PoisonCover, Commits
<1>7. CASE CommitCount
  BY <1>7, CountPoisoned DEF PoisonCover
<1> QED BY <1>1, <1>2, <1>3, <1>4, <1>5, <1>6, <1>7, NextGroups

(***************************************************************************)
(* Every store to the file is made by a writer that would refuse the next  *)
(* append if the call failed right after it: poisoned is set before the    *)
(* first store of add_entry_fields_with_options and is cleared only when   *)
(* the whole append is published.                                          *)
(***************************************************************************)
THEOREM StoresArePoisoned == Spec => StoresPoisoned
<1>1. Init => PoisonCover
  BY DEF Init, PoisonCover
<1>2. Spec => [](TypeOK /\ PoisonCover)
  BY <1>1, TypeInit, TypeNext, PoisonNext, PTL DEF Spec
<1> QED BY <1>2, StoreStep, PTL DEF Spec, StoresPoisoned

-----------------------------------------------------------------------------
(* The arena. *)

\* The steps of a call before n_objects is stored.
Unstored == {"field", "entry", "commit_objects"} \cup FieldSteps \cup LinkSteps

LEMMA ArenaNumbers ==
  ASSUME TypeOK
  PROVE  /\ w.append_offset \in Nat /\ w.append_offset >= 3
         /\ w.num_written \in Nat /\ w.tail_object \in Nat
         /\ hdr.n_objects \in Nat /\ hdr.tail_object \in Nat
BY DEF TypeOK, WriterOK, HeaderOK, Writer, Header

(***************************************************************************)
(* A new object extends the dense arena by one offset and is counted.      *)
(***************************************************************************)
LEMMA ArenaGrows ==
  ASSUME TypeOK, ArenaInv, PoisonCover', w' = ObjectAdded(w), SameHeader,
         Arena' = Arena \cup {w.append_offset},
         pc \in Unstored \ {"field"}, pc' \in Unstored \ {"field"}
  PROVE  ArenaInv'
<1>1. /\ w'.append_offset = w.append_offset + 1 /\ w'.tail_object = w.append_offset
      /\ w'.num_written = w.num_written + 1 /\ w'.poisoned = w.poisoned
  BY ObjectAddedFacts DEF TypeOK, WriterOK
<1>2. w.poisoned /\ hdr.n_objects + w.num_written + 1 = w.append_offset
  BY DEF ArenaInv, PoisonCover, Unstored, ObjectsStored, FieldSteps, LinkSteps
<1>3. Arena = 3..(w.append_offset - 1)
  BY DEF ArenaInv, Arena
<1>4. Arena' = 3..(w'.append_offset - 1)
  BY <1>1, <1>3, ArenaNumbers
<1>5. w'.tail_object + 1 = w'.append_offset
      /\ hdr'.n_objects + w'.num_written + 1 = w'.append_offset
  BY <1>1, <1>2, ArenaNumbers DEF SameHeader
<1>6. pc' \notin ObjectsStored
  BY DEF Unstored, ObjectsStored, FieldSteps, LinkSteps
<1> QED BY <1>1, <1>2, <1>4, <1>5, <1>6 DEF ArenaInv, Arena, TailStored, ObjectsStored

LEMMA ArenaInit == Init => ArenaInv
<1> SUFFICES ASSUME Init PROVE ArenaInv
  OBVIOUS
<1>1. /\ w.append_offset = 3 /\ w.tail_object = 2 /\ w.num_written = 0 /\ ~w.poisoned
      /\ hdr.n_objects = 2 /\ hdr.tail_object = 2 /\ pc = "idle"
  BY DEF Init
<1>2. Arena = {} /\ 3..(w.append_offset - 1) = {}
  BY <1>1 DEF Init, Arena
<1> QED BY <1>1, <1>2 DEF ArenaInv, Arena, PoisonCover, ObjectsStored, TailStored

LEMMA ArenaNext == TypeOK /\ ArenaInv /\ [Next]_vars => ArenaInv'
<1> SUFFICES ASSUME TypeOK, ArenaInv, [Next]_vars PROVE ArenaInv'
  OBVIOUS
<1>p. PoisonCover /\ PoisonCover'
  BY PoisonNext DEF ArenaInv
<1>1. CASE UNCHANGED vars
  BY <1>1 DEF vars, ArenaInv, PoisonCover
<1>2. CASE Call
  BY <1>2, <1>p, CallFrame DEF ArenaInv, objects, ObjectsStored, TailStored
<1>3. CASE Leave
  BY <1>3, <1>p, LeaveFrame DEF ArenaInv, objects, ObjectsStored, TailStored
<1>4. CASE QuietField
  BY <1>4, <1>p, QuietFieldFrame
     DEF ArenaInv, Arena, SameHeader, Request, FieldSteps, ObjectsStored, TailStored
<1>5. CASE QuietLink
  BY <1>5, <1>p, QuietLinkFrame
     DEF ArenaInv, Arena, SameHeader, LinkSteps, ObjectsStored, TailStored
<1>6. CASE StartData \/ Finish
  <2>1. hdr.n_objects + w.num_written + 1 = w.append_offset
    BY <1>6, StartPoisoned, ArenaNumbers DEF ArenaInv, ObjectsStored
  <2> QED BY <1>6, <1>p, <2>1, StartPoisoned DEF ArenaInv, objects, ObjectsStored, TailStored
<1>7. CASE CreateField
  BY <1>7, <1>p, CreateFieldFrame, ArenaGrows DEF Unstored, FieldSteps
<1>8. CASE CreateLink
  BY <1>8, <1>p, CreateLinkFrame, ArenaGrows DEF Unstored, LinkSteps
<1>9. CASE WriteEntry
  BY <1>9, <1>p, WriteEntryFrame, ArenaGrows DEF Unstored, LinkSteps
<1>10. CASE CommitObjects
  <2>1. pc = "commit_objects" /\ pc' = "commit_tail_object" /\ UNCHANGED <<objects, w>>
    BY <1>10 DEF CommitObjects, Goto
  <2>2. hdr'.n_objects = hdr.n_objects + w.num_written /\ hdr'.tail_object = hdr.tail_object
    BY <1>10 DEF CommitObjects, TypeOK, HeaderOK, Header
  <2>3. w.poisoned /\ hdr.n_objects + w.num_written + 1 = w.append_offset
    BY <1>p, <2>1 DEF ArenaInv, PoisonCover, ObjectsStored
  <2> QED BY <1>p, <2>1, <2>2, <2>3, ArenaNumbers
          DEF ArenaInv, objects, ObjectsStored, TailStored
<1>11. CASE CommitTailObject \/ CommitHead \/ CommitTail \/ CommitTailEntry
  <2>1. w.poisoned
    BY <1>11, <1>p, CommitFrame DEF PoisonCover, Commits
  <2>2. hdr'.tail_object + 1 = w.append_offset /\ hdr'.n_objects + 1 = w.append_offset
    BY <1>11, CommitFrame DEF ArenaInv, TailStored
  <2> QED BY <1>11, <1>p, <2>1, <2>2, CommitFrame
          DEF ArenaInv, objects, Commits, ObjectsStored, TailStored
<1>12. CASE CommitCount
  BY <1>12, <1>p, CountPoisoned
     DEF ArenaInv, PoisonCover, SameHeader, objects, ObjectsStored, TailStored
<1>13. CASE Publish \/ FailPublish
  BY <1>13, <1>p, EndPoisoned DEF ArenaInv, objects, ObjectsStored, TailStored
<1> QED BY <1>1, <1>2, <1>3, <1>4, <1>5, <1>6, <1>7, <1>8, <1>9, <1>10, <1>11, <1>12,
           <1>13, NextGroups

(***************************************************************************)
(* A writer that accepts appends has published everything it created: the  *)
(* header's object count and tail object describe exactly the objects in   *)
(* the file (object_added, entry_added).  This is what lets the next       *)
(* opener derive its append offset from the header.                        *)
(***************************************************************************)
THEOREM ArenaPublished == Spec => []HealthyArenaPublished
<1>1. TypeOK /\ ArenaInv => HealthyArenaPublished
  <2> SUFFICES ASSUME TypeOK, ArenaInv, pc = "idle", ~w.poisoned
               PROVE  /\ hdr.n_objects + 1 = w.append_offset
                      /\ hdr.tail_object + 1 = w.append_offset
                      /\ DOMAIN data \cup DOMAIN field \cup DOMAIN entry \cup DOMAIN array
                           = 3..hdr.tail_object
    BY DEF HealthyArenaPublished
  <2>1. hdr.n_objects + 1 = w.append_offset /\ hdr.tail_object + 1 = w.append_offset
    BY DEF ArenaInv
  <2>2. w.append_offset - 1 = hdr.tail_object
    BY <2>1, ArenaNumbers
  <2> QED BY <2>1, <2>2 DEF ArenaInv
<1> QED BY <1>1, ArenaInit, ArenaNext, TypeInit, TypeNext, PTL DEF Spec

-----------------------------------------------------------------------------
(* Sequence numbers. *)

LEMMA EntryNumbers ==
  ASSUME TypeOK
  PROVE  /\ \A e \in DOMAIN entry : e \in Nat /\ entry[e].seqnum \in Nat
         /\ op.seqnum \in Nat /\ w.next_seqnum \in Nat /\ w.append_offset \in Nat
<1>1. \A e \in DOMAIN entry : e \in Nat /\ entry[e].seqnum \in Nat
  BY DEF TypeOK, ObjectsOK, EntryObject, Offsets
<1> QED BY <1>1 DEF TypeOK, CallOK, Locals, WriterOK, Writer

(***************************************************************************)
(* A step that keeps the ENTRY objects, the counters of the writer and the *)
(* number of the append keeps the invariant if it stays in its phase.      *)
(***************************************************************************)
LEMMA SeqnumKept ==
  ASSUME TypeOK, SeqnumInv, PoisonCover', entry' = entry, w'.append_offset >= w.append_offset,
         w'.append_offset \in Nat, w'.next_seqnum = w.next_seqnum, op'.seqnum = op.seqnum,
         w'.poisoned \/ w'.poisoned = w.poisoned,
         \/ pc \in Request /\ pc' \in Request \cup {"entry"}
         \/ pc \in LinkSteps \cup Commits /\ pc' \in LinkSteps \cup Commits
  PROVE  SeqnumInv'
<1>1. \A e \in DOMAIN entry : e < w'.append_offset
  BY EntryNumbers DEF SeqnumInv
<1>2. pc' # "publish"
  BY DEF Request, FieldSteps, LinkSteps, Commits
<1>3. ~w'.poisoned => \A e \in DOMAIN entry : entry[e].seqnum < w'.next_seqnum
  BY DEF SeqnumInv
<1>4. pc' \in {"field", "entry"} \cup FieldSteps =>
        /\ op.seqnum # 0 /\ op.seqnum # SeqnumMax
        /\ \A e \in DOMAIN entry : entry[e].seqnum < op.seqnum
  BY DEF SeqnumInv, Request, FieldSteps, LinkSteps, Commits
<1>5. pc' \in LinkSteps \cup Commits => \A e \in DOMAIN entry : entry[e].seqnum <= op.seqnum
  BY DEF SeqnumInv, Request, FieldSteps, LinkSteps, Commits
<1> QED BY <1>1, <1>2, <1>3, <1>4, <1>5 DEF SeqnumInv

LEMMA SeqnumNext == TypeOK /\ SeqnumInv /\ [Next]_vars => SeqnumInv'
<1> SUFFICES ASSUME TypeOK, SeqnumInv, [Next]_vars PROVE SeqnumInv'
  OBVIOUS
<1>p. PoisonCover /\ PoisonCover'
  BY PoisonNext DEF SeqnumInv
<1>1. CASE UNCHANGED vars
  BY <1>1 DEF vars, SeqnumInv, PoisonCover
<1>2. CASE Call
  <2>1. /\ entry' = entry /\ w' = w /\ pc = "idle" /\ pc' \in {"idle", "field"}
        /\ pc' = "field" => /\ ~w.poisoned /\ op'.seqnum >= w.next_seqnum
                            /\ op'.seqnum # 0 /\ op'.seqnum # SeqnumMax
    BY <1>2, CallFrame DEF objects
  <2>2. op'.seqnum \in Nat
    BY <1>2, TypeCalls DEF TypeOK, CallOK, Locals
  <2>3. pc' = "field" => \A e \in DOMAIN entry : entry[e].seqnum < op'.seqnum
    BY <2>1, <2>2, EntryNumbers DEF SeqnumInv
  <2> QED BY <1>p, <2>1, <2>3 DEF SeqnumInv, FieldSteps, LinkSteps, Commits
<1>3. CASE Leave
  BY <1>3, <1>p, LeaveFrame DEF SeqnumInv, objects, FieldSteps, LinkSteps, Commits
<1>4. CASE QuietField
  BY <1>4, <1>p, QuietFieldFrame, SeqnumKept, ArenaNumbers
<1>5. CASE QuietLink
  BY <1>5, <1>p, QuietLinkFrame, SeqnumKept, ArenaNumbers DEF Commits
<1>6. CASE StartData \/ Finish
  <2>1. pc \in Request /\ pc' \in Request \cup {"entry"}
    BY <1>6, StartPoisoned DEF Request, FieldSteps
  <2> QED BY <1>6, <1>p, <2>1, StartPoisoned, SeqnumKept, ArenaNumbers DEF objects
<1>7. CASE CreateField \/ CreateLink
  <2>1. /\ entry' = entry /\ w' = ObjectAdded(w) /\ op'.seqnum = op.seqnum
        /\ \/ pc \in Request /\ pc' \in Request \cup {"entry"}
           \/ pc \in LinkSteps \cup Commits /\ pc' \in LinkSteps \cup Commits
    BY <1>7, CreateFieldFrame, CreateLinkFrame DEF Request
  <2>2. /\ w'.append_offset = w.append_offset + 1 /\ w'.poisoned = w.poisoned
        /\ w'.next_seqnum = w.next_seqnum
    BY <2>1, ObjectAddedFacts DEF TypeOK, WriterOK
  <2>3. w'.append_offset \in Nat /\ w'.append_offset >= w.append_offset
    BY <2>2, ArenaNumbers
  <2> QED BY <1>p, <2>1, <2>2, <2>3, SeqnumKept
<1>8. CASE WriteEntry
  <2> DEFINE o == w.append_offset
  <2>1. /\ DOMAIN entry' = DOMAIN entry \cup {o} /\ entry'[o].seqnum = op.seqnum
        /\ \A e \in DOMAIN entry : e # o => entry'[e] = entry[e]
        /\ w' = ObjectAdded(w) /\ op'.seqnum = op.seqnum
        /\ pc = "entry" /\ pc' = "place"
    BY <1>8, WriteEntryFrame
  <2>2. w'.append_offset = o + 1 /\ w'.poisoned = w.poisoned
    BY <2>1, ObjectAddedFacts DEF TypeOK, WriterOK
  <2>3. /\ op.seqnum # 0 /\ op.seqnum # SeqnumMax
        /\ \A e \in DOMAIN entry : e < o /\ entry[e].seqnum < op.seqnum
    BY <2>1 DEF SeqnumInv
  <2>4. \A e \in DOMAIN entry : e # o /\ entry'[e] = entry[e]
    BY <2>1, <2>3, EntryNumbers
  <2>5. \A e \in DOMAIN entry' : /\ e < w'.append_offset
                                 /\ entry'[e].seqnum <= op.seqnum
                                 /\ entry'[e].seqnum # 0 /\ entry'[e].seqnum # SeqnumMax
    BY <2>1, <2>2, <2>3, <2>4, EntryNumbers DEF SeqnumInv
  <2>6. \A e1, e2 \in DOMAIN entry' : e1 < e2 => entry'[e1].seqnum < entry'[e2].seqnum
    <3> SUFFICES ASSUME NEW e1 \in DOMAIN entry', NEW e2 \in DOMAIN entry', e1 < e2
                 PROVE  entry'[e1].seqnum < entry'[e2].seqnum
      OBVIOUS
    <3>1. e1 \in DOMAIN entry
      BY <2>1, <2>3, EntryNumbers
    <3>2. CASE e2 = o
      BY <2>1, <2>3, <2>4, <3>1, <3>2
    <3>3. CASE e2 \in DOMAIN entry
      BY <2>4, <3>1, <3>3 DEF SeqnumInv
    <3> QED BY <2>1, <3>2, <3>3
  <2>7. w'.poisoned
    BY <1>p, <2>1 DEF PoisonCover
  <2> QED BY <1>p, <2>1, <2>5, <2>6, <2>7 DEF SeqnumInv, FieldSteps, LinkSteps, Commits
<1>9. CASE CommitObjects
  <2>1. /\ entry' = entry /\ w' = w /\ op' = op
        /\ pc = "commit_objects" /\ pc' = "commit_tail_object"
    BY <1>9 DEF CommitObjects, Goto, objects
  <2> QED BY <1>p, <2>1, SeqnumKept, ArenaNumbers DEF Commits
<1>10. CASE CommitTailObject \/ CommitHead \/ CommitTail \/ CommitTailEntry
  BY <1>10, <1>p, CommitFrame, SeqnumKept, ArenaNumbers DEF objects
<1>11. CASE CommitCount
  <2>1. /\ entry' = entry /\ w'.append_offset = w.append_offset
        /\ w'.next_seqnum = op.seqnum + 1 /\ pc = "commit_count" /\ pc' = "publish"
    BY <1>11, CountPoisoned DEF objects
  <2>2. \A e \in DOMAIN entry : entry[e].seqnum < w'.next_seqnum
    BY <2>1, EntryNumbers DEF SeqnumInv, Commits
  <2> QED BY <1>p, <2>1, <2>2 DEF SeqnumInv, FieldSteps, LinkSteps, Commits
<1>12. CASE Publish \/ FailPublish
  <2>1. /\ entry' = entry /\ w'.append_offset = w.append_offset
        /\ w'.next_seqnum = w.next_seqnum /\ pc = "publish" /\ pc' = "idle"
    BY <1>12, EndPoisoned DEF objects
  <2> QED BY <1>p, <2>1 DEF SeqnumInv, FieldSteps, LinkSteps, Commits
<1> QED BY <1>1, <1>2, <1>3, <1>4, <1>5, <1>6, <1>7, <1>8, <1>9, <1>10, <1>11, <1>12,
           NextGroups

LEMMA SeqnumInit == Init => SeqnumInv
BY DEF Init, SeqnumInv, PoisonCover, FieldSteps, LinkSteps, Commits

(***************************************************************************)
(* Sequence numbers grow with the offsets of the ENTRY objects, for every  *)
(* mix of numbers given by callers and by the writer, and after any failed *)
(* append (entry_seqnum_for_options, entry_added).                         *)
(***************************************************************************)
THEOREM SeqnumsOrdered == Spec => []SeqnumOrder
<1>1. SeqnumInv => SeqnumOrder
  BY DEF SeqnumInv, SeqnumOrder
<1> QED BY <1>1, SeqnumInit, SeqnumNext, TypeInit, TypeNext, PTL DEF Spec

LEMMA WriteOnceNext == TypeOK /\ SeqnumInv /\ [Next]_vars => EntryWriteOnce
<1> SUFFICES ASSUME TypeOK, SeqnumInv, [Next]_vars PROVE EntryWriteOnce
  OBVIOUS
<1>1. CASE WriteEntry
  BY <1>1, WriteEntryFrame, EntryNumbers DEF SeqnumInv, EntryWriteOnce
<1>2. CASE ~WriteEntry
  <2>1. entry' = entry
    BY <1>2, NextGroups, CallFrame, LeaveFrame, QuietFieldFrame, QuietLinkFrame,
       StartPoisoned, CreateFieldFrame, CreateLinkFrame, CommitFrame, CountPoisoned,
       EndPoisoned DEF objects, CommitObjects, vars
  <2> QED BY <2>1 DEF EntryWriteOnce
<1> QED BY <1>1, <1>2

(***************************************************************************)
(* An ENTRY object is written once: write_entry_object always takes an     *)
(* offset above every ENTRY object in the file, and no other step stores   *)
(* to one.                                                                 *)
(***************************************************************************)
THEOREM EntriesAreWrittenOnce == Spec => EntriesWriteOnce
<1>1. TypeOK /\ SeqnumInv /\ [Next]_vars => [EntryWriteOnce]_vars
  BY WriteOnceNext
<1> QED BY <1>1, SeqnumInit, SeqnumNext, TypeInit, TypeNext, PTL DEF Spec, EntriesWriteOnce
=============================================================================
