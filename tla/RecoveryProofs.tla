--------------------------- MODULE RecoveryProofs ---------------------------
(***************************************************************************)
(* Proofs about a writer that dies between any two stores and is reopened, *)
(* for every value of its constants and any number of crashes.             *)
(***************************************************************************)
EXTENDS WriterRecovery, GlobalListProofs

(***************************************************************************)
(* Once n_entries counts an entry, the tail object covers it; the count is *)
(* that of the entries below the next number.                              *)
(***************************************************************************)
CountInv ==
  /\ hdr.tail_object >= 2 /\ hdr.tail_object < w.append_offset
  /\ \A e \in CommittedByNumber : e <= hdr.tail_object
  /\ Cardinality(CommittedByNumber) = hdr.n_entries
  /\ CommittedByNumber # {} => \E e \in CommittedByNumber : Newest(e)

\* A running writer, after any number of reopenings.
RunInv == TypeOK /\ ArenaInv /\ SeqnumInv /\ RequestInv /\ StampInv

\* What a dead writer leaves of that.
ClosedInv ==
  /\ ObjectsOK /\ HeaderOK /\ ResidueOK /\ WriterOK
  /\ op = NoOp /\ result = "none" /\ notified \in Nat /\ acked \in Nat
  /\ Arena = 3..(w.append_offset - 1)
  /\ \A e1, e2 \in DOMAIN entry : e1 < e2 => entry[e1].seqnum < entry[e2].seqnum
  /\ \A e \in DOMAIN entry : entry[e].seqnum # 0 /\ entry[e].seqnum # SeqnumMax
  /\ \A e \in DOMAIN entry : \A x \in entry[e].items : x[1] \in DOMAIN data

(***************************************************************************)
(* The invariant of crashes and reopenings.                                *)
(***************************************************************************)
RecoveryInv ==
  /\ CountInv
  /\ pc # "closed" => RunInv
  /\ pc = "closed" => ClosedInv

(***************************************************************************)
(* The entries that nobody was told of: at most one per crash, and one     *)
(* more from the store of n_entries on until the call returns Ok or the    *)
(* poisoned writer is given up.                                            *)
(***************************************************************************)
SurviveInv ==
  /\ crashes \in Nat
  /\ acked <= hdr.n_entries /\ hdr.n_entries <= acked + crashes + 1
  /\ pc = "publish" => acked + 1 <= hdr.n_entries
  /\ (pc # "publish" /\ (pc # "idle" \/ ~w.poisoned)) => hdr.n_entries <= acked + crashes

-----------------------------------------------------------------------------
(* The running writer. *)

LEMMA RunNext == RunInv /\ [Next]_vars => RunInv'
BY TypeNext, ArenaNext, SeqnumNext, RequestNext, StampNext DEF RunInv

(***************************************************************************)
(* Only the count store changes n_entries, only entry_added moves the tail *)
(* object, and it moves it to the last object there is.                    *)
(***************************************************************************)
LEMMA CountFrame ==
  ASSUME TypeOK, [Next]_vars
  PROVE  /\ ~CommitCount => hdr'.n_entries = hdr.n_entries
         /\ hdr'.tail_object = hdr.tail_object \/ hdr'.tail_object = w.tail_object
         /\ w'.append_offset >= w.append_offset
<1>0. w.append_offset \in Nat /\ w \in Writer /\ w.append_offset >= 3
  BY ArenaNumbers DEF TypeOK, WriterOK
<1>1. CASE UNCHANGED vars
  BY <1>0, <1>1 DEF vars
<1>2. CASE Call \/ Leave
  BY <1>0, <1>2, CallFrame, LeaveFrame
<1>3. CASE QuietField \/ QuietLink
  BY <1>0, <1>3, QuietFieldFrame, QuietLinkFrame, InsideCounters DEF SameHeader, SameCounters
<1>4. CASE CreateField \/ CreateLink \/ WriteEntry
  <2>1. SameHeader /\ w' = ObjectAdded(w)
    BY <1>4, CreateFieldFrame, CreateLinkFrame, WriteEntryFrame
  <2> QED BY <1>0, <1>4, <2>1, ObjectAddedFacts, InsideCounters DEF SameHeader, SameCounters
<1>5. CASE StartData \/ Finish
  BY <1>0, <1>5, StartPoisoned
<1>6. CASE CommitObjects
  BY <1>0, <1>6 DEF CommitObjects, TypeOK, HeaderOK, Header
<1>7. CASE CommitTailObject \/ CommitHead \/ CommitTail \/ CommitTailEntry
  BY <1>0, <1>7, CommitFrame, InsideCounters DEF SameCounters
<1>8. CASE CommitCount
  BY <1>0, <1>8, CountPoisoned DEF SameHeader
<1>9. CASE Publish \/ FailPublish
  BY <1>0, <1>9, EndPoisoned
<1> QED BY <1>1, <1>2, <1>3, <1>4, <1>5, <1>6, <1>7, <1>8, <1>9, NextGroups

LEMMA FiniteEntries ==
  ASSUME ObjectsOK
  PROVE  \A S \in SUBSET DOMAIN entry : IsFiniteSet(S) /\ Cardinality(S) \in Nat
<1>1. IsFiniteSet(1..MaxOffset)
  BY FS_Interval, ConstantsAssumption DEF ConstantsAssumption
<1>2. ASSUME NEW S \in SUBSET DOMAIN entry
      PROVE  IsFiniteSet(S)
  BY <1>1, FS_Subset DEF ObjectsOK, Offsets
<1> QED BY <1>2, FS_CardinalityType

LEMMA CountInit == Init => CountInv
<1> SUFFICES ASSUME Init PROVE CountInv
  OBVIOUS
<1>1. hdr.tail_object = 2 /\ w.append_offset = 3 /\ hdr.n_entries = 0
  BY DEF Init
<1>2. CommittedByNumber = {}
  BY DEF Init, CommittedByNumber
<1> QED BY <1>1, <1>2, FS_EmptySet DEF CountInv

LEMMA CountNext == RunInv /\ CountInv /\ [Next]_vars => CountInv'
<1> SUFFICES ASSUME RunInv, CountInv, [Next]_vars PROVE CountInv'
  OBVIOUS
<1>0. TypeOK /\ ArenaInv /\ SeqnumInv /\ RequestInv /\ StampInv
  BY DEF RunInv
<1>n. /\ w.append_offset \in Nat /\ w'.append_offset \in Nat /\ hdr.tail_object \in Nat
      /\ w.tail_object \in Nat /\ hdr'.tail_object \in Nat
      /\ w.tail_object + 1 = w.append_offset
      /\ \A e \in DOMAIN entry : e \in Nat /\ e < w.append_offset
  <2>1. TypeOK'
    BY <1>0, TypeNext
  <2>2. w'.append_offset \in Nat /\ hdr'.tail_object \in Nat
    BY <2>1 DEF TypeOK, WriterOK, HeaderOK, Writer, Header
  <2> QED BY <1>0, <2>2, ArenaNumbers, EntryNumbers DEF ArenaInv, SeqnumInv
<1>1. /\ hdr'.tail_object >= 2 /\ hdr'.tail_object < w'.append_offset
      /\ hdr'.tail_object >= hdr.tail_object
  BY <1>0, <1>n, CountFrame, ArenaNumbers DEF CountInv
<1>2. CASE CommitCount
  <2>1. /\ entry' = entry /\ op.entry \in DOMAIN entry /\ entry[op.entry].seqnum = op.seqnum
        /\ CommittedByNumber' = DOMAIN entry /\ CommittedByNumber = DOMAIN entry \ {op.entry}
        /\ \A e \in DOMAIN entry \ {op.entry} : entry[e].seqnum < w.next_seqnum
        /\ op.seqnum >= w.next_seqnum
    BY <1>0, <1>2, CountAdds
  <2>2. \A e \in CommittedByNumber' : e <= hdr'.tail_object
    <3>1. hdr'.tail_object = hdr.tail_object /\ pc \in TailStored
      BY <1>0, <1>2, CountPoisoned DEF SameHeader, TailStored, ObjectsStored
    <3>2. hdr.tail_object + 1 = w.append_offset
      BY <1>0, <3>1 DEF ArenaInv
    <3> QED BY <1>n, <2>1, <3>1, <3>2
  <2>3. Cardinality(DOMAIN entry) = hdr.n_entries + 1
    <3>1. IsFiniteSet(DOMAIN entry) /\ Cardinality(DOMAIN entry) \in Nat
      BY <1>0, FiniteEntries DEF TypeOK
    <3>2. Cardinality(DOMAIN entry \ {op.entry}) = Cardinality(DOMAIN entry) - 1
      BY <2>1, <3>1, FS_RemoveElement
    <3> QED BY <2>1, <3>1, <3>2 DEF CountInv
  <2>4. hdr'.n_entries = hdr.n_entries + 1
    BY <1>0, <1>2, CountCounters
  <2>5. op' = op /\ op.entry \in CommittedByNumber'
    BY <1>0, <1>2, <2>1, CountAdds
  <2>6. Newest(op.entry)'
    <3>1. \A e \in DOMAIN entry : entry[e].seqnum <= entry[op.entry].seqnum
      BY <1>0, <2>1, StampTypes
    <3> QED BY <2>1, <2>5, <3>1 DEF Newest
  <2> QED BY <1>1, <2>1, <2>2, <2>3, <2>4, <2>5, <2>6 DEF CountInv
<1>3. CASE ~CommitCount
  <2>1. CommittedByNumber' = CommittedByNumber /\ hdr'.n_entries = hdr.n_entries
    BY <1>0, <1>3, LogKept, CountFrame DEF Uncommitted
  <2>2. \A e \in CommittedByNumber : entry'[e] = entry[e]
    BY <1>0, WriteOnceNext DEF EntryWriteOnce, CommittedByNumber
  <2>3. \A e : Newest(e) => Newest(e)'
    BY <2>1, <2>2 DEF Newest
  <2>4. \A e \in CommittedByNumber : e <= hdr'.tail_object
    BY <1>1, <1>n DEF CountInv, CommittedByNumber
  <2> QED BY <1>1, <2>1, <2>3, <2>4 DEF CountInv
<1> QED BY <1>2, <1>3

-----------------------------------------------------------------------------
(* A damaged file, a crash, a reopening. *)

LEMMA DamageFrame ==
  ASSUME MeetDamage
  PROVE  /\ UNCHANGED <<data, field, entry, array, hdr, dht, fht, residue, w, cache>>
         /\ pc \notin {"idle", "publish", "closed"} /\ Return("corrupt")
<1>1. pc \notin {"idle", "publish", "closed"}
  BY DEF MeetDamage, Damaged, AtField
<1> QED BY <1>1 DEF MeetDamage, objects, tables

LEMMA DamageNext ==
  ASSUME RunInv, CountInv, MeetDamage
  PROVE  RunInv' /\ CountInv'
<1>0. /\ UNCHANGED <<data, field, entry, array, hdr, dht, fht, residue, w, cache>>
      /\ pc \notin {"idle", "publish", "closed"} /\ Return("corrupt") /\ pc' = "idle"
  BY DamageFrame DEF Return
<1>1. TypeOK'
  <2>1. CallOK'
    BY <1>0, TypeReturn DEF RunInv
  <2> QED BY <1>0, <2>1 DEF RunInv, TypeOK, ObjectsOK, HeaderOK, ResidueOK, WriterOK
<1>2. ArenaInv'
  BY <1>0 DEF RunInv, ArenaInv, PoisonCover, ObjectsStored, TailStored
<1>3. SeqnumInv'
  BY <1>0 DEF RunInv, SeqnumInv, PoisonCover, FieldSteps, LinkSteps, Commits
<1>4. RequestInv'
  BY <1>0 DEF RunInv, RequestInv, Request, FieldSteps, LinkSteps, Commits
<1>5. CommittedByNumber' = CommittedByNumber /\ \A e : Newest(e)' <=> Newest(e)
  BY <1>0 DEF CommittedByNumber, Newest
<1>6. StampInv'
  BY <1>0, <1>5 DEF RunInv, StampInv, Request, FieldSteps, LinkSteps, Commits
<1>7. CountInv'
  BY <1>0, <1>5 DEF CountInv
<1> QED BY <1>1, <1>2, <1>3, <1>4, <1>6, <1>7 DEF RunInv

LEMMA CrashNext ==
  ASSUME RunInv, CountInv, Crash
  PROVE  ClosedInv' /\ CountInv'
<1>0. /\ UNCHANGED <<data, field, entry, array, hdr, dht, fht, residue, w, notified, acked>>
      /\ pc' = "closed" /\ op' = NoOp /\ result' = "none" /\ cache' = [n \in {} |-> 0]
  BY DEF Crash, objects, tables
<1>1. ObjectsOK' /\ HeaderOK' /\ ResidueOK' /\ WriterOK'
  BY <1>0 DEF RunInv, TypeOK, ObjectsOK, HeaderOK, ResidueOK, WriterOK
<1>2. notified' \in Nat /\ acked' \in Nat
  BY <1>0 DEF RunInv, TypeOK, CallOK
<1>3. (Arena = 3..(w.append_offset - 1))'
  BY <1>0 DEF RunInv, ArenaInv, Arena
<1>4. /\ \A e1, e2 \in DOMAIN entry' : e1 < e2 => entry'[e1].seqnum < entry'[e2].seqnum
      /\ \A e \in DOMAIN entry' : entry'[e].seqnum # 0 /\ entry'[e].seqnum # SeqnumMax
      /\ \A e \in DOMAIN entry' : \A x \in entry'[e].items : x[1] \in DOMAIN data'
  BY <1>0 DEF RunInv, SeqnumInv, RequestInv
<1>5. CommittedByNumber' = CommittedByNumber /\ \A e : Newest(e)' <=> Newest(e)
  BY <1>0 DEF CommittedByNumber, Newest
<1>6. CountInv'
  BY <1>0, <1>5 DEF CountInv
<1> QED BY <1>0, <1>1, <1>2, <1>3, <1>4, <1>6 DEF ClosedInv

(***************************************************************************)
(* What a writer finds behind the tail object are numbers.                 *)
(***************************************************************************)
LEMMA LeftoversType ==
  ASSUME ObjectsOK, ResidueOK, NEW r \in Leftovers
  PROVE  \A o \in DOMAIN r : \A k \in DOMAIN r[o] : r[o][k] \in Nat
<1>0. Junk \in Nat
  BY ConstantsAssumption DEF ConstantsAssumption
<1>1. ASSUME NEW o \in Beyond
      PROVE  \A k \in DOMAIN Words(o) : Words(o)[k] \in Nat
  <2> DEFINE D == [k \in 2..9 |-> CASE k = 3 -> data[o].next_hash [] k = 4 -> data[o].next_field
                                    [] k = 5 -> data[o].entry [] k = 6 -> data[o].array
                                    [] k = 7 -> data[o].n [] OTHER -> Junk]
             F == [k \in 2..6 |-> CASE k = 3 -> field[o].next_hash [] k = 4 -> field[o].head
                                    [] OTHER -> Junk]
             E == [k \in 2..9 |-> Junk]
             A == [k \in 2..(Len(array[o].slots) + 2) |->
                     IF k = 2 THEN array[o].next ELSE array[o].slots[k - 2]]
  <2>1. \/ o \in DOMAIN data /\ Words(o) = D
        \/ o \in DOMAIN field /\ Words(o) = F
        \/ o \in DOMAIN entry /\ Words(o) = E
        \/ o \in DOMAIN array /\ Words(o) = A
        \/ o \in DOMAIN residue /\ Words(o) = residue[o]
    <3> HIDE DEF D, F, E, A
    <3>1. Words(o) = CASE o \in DOMAIN data -> D [] o \in DOMAIN field -> F
                       [] o \in DOMAIN entry -> E [] o \in DOMAIN array -> A
                       [] OTHER -> residue[o]
      BY DEF Words, D, F, E, A
    <3> QED BY <3>1 DEF Beyond
  <2>2. o \in DOMAIN data => \A k \in DOMAIN D : D[k] \in Nat
    BY <1>0 DEF ObjectsOK, DataObject
  <2>3. o \in DOMAIN field => \A k \in DOMAIN F : F[k] \in Nat
    BY <1>0 DEF ObjectsOK, FieldObject
  <2>4. \A k \in DOMAIN E : E[k] \in Nat
    BY <1>0
  <2>5. o \in DOMAIN array => \A k \in DOMAIN A : A[k] \in Nat
    <3> HAVE o \in DOMAIN array
    <3>1. array[o].next \in Nat /\ array[o].slots \in Seq(Nat)
      BY DEF ObjectsOK, ArrayObject
    <3>2. \A k \in 3..(Len(array[o].slots) + 2) : array[o].slots[k - 2] \in Nat
      BY <3>1
    <3> QED BY <3>1, <3>2
  <2> HIDE DEF D, F, E, A
  <2> QED BY <2>1, <2>2, <2>3, <2>4, <2>5 DEF ResidueOK
<1>2. \/ r = [o \in Beyond |-> Words(o)]
      \/ r = Put([o \in Beyond |-> Words(o)], LastOf(Beyond) + 1, [k \in 2..9 |-> Junk])
  BY DEF Leftovers
<1>3. CASE r = [o \in Beyond |-> Words(o)]
  BY <1>1, <1>3
<1>4. CASE r = Put([o \in Beyond |-> Words(o)], LastOf(Beyond) + 1, [k \in 2..9 |-> Junk])
  BY <1>0, <1>1, <1>4 DEF Put
<1> QED BY <1>2, <1>3, <1>4

(***************************************************************************)
(* A file that verify_index accepts holds the committed entries and no     *)
(* other: they are all up to the tail object, and as many as those the     *)
(* walk met.                                                               *)
(***************************************************************************)
LEMMA AcceptedEntries ==
  ASSUME ClosedInv, CountInv, VerifyIndexOk
  PROVE  CommittedByNumber = EntryW
<1>1. CommittedByNumber \in SUBSET EntryW
  BY DEF CountInv, EntryW, Walked, CommittedByNumber
<1>2. IsFiniteSet(EntryW)
  BY FiniteEntries DEF ClosedInv, EntryW, Walked
<1>3. Cardinality(CommittedByNumber) = Cardinality(EntryW)
  BY DEF CountInv, VerifyIndexOk, HeaderCounts
<1> QED BY <1>1, <1>2, <1>3, FS_Subset

(***************************************************************************)
(* Its header then names the newest entry and the highest number.          *)
(***************************************************************************)
LEMMA AcceptedTail ==
  ASSUME ClosedInv, CountInv, VerifyIndexOk
  PROVE  /\ \A e \in EntryW : entry[e].seqnum <= hdr.tail_seqnum
         /\ \A e \in EntryW : Newest(e) => hdr.tail_boot = entry[e].boot /\ hdr.tail_mono = entry[e].mono
         /\ hdr.n_entries = 0 => EntryW = {}
<1>0. CommittedByNumber = EntryW
  BY AcceptedEntries
<1>1. hdr.n_entries = 0 => EntryW = {}
  <2>1. IsFiniteSet(EntryW)
    BY FiniteEntries DEF ClosedInv, EntryW, Walked
  <2> QED BY <2>1, FS_EmptySet DEF VerifyIndexOk, HeaderCounts
<1>2. CASE EntryW = {}
  BY <1>1, <1>2
<1>3. CASE EntryW # {}
  <2> DEFINE tail == CHOOSE e \in EntryW : \A c \in EntryW : entry[c].seqnum <= entry[e].seqnum
  <2>1. \E e \in EntryW : \A c \in EntryW : entry[c].seqnum <= entry[e].seqnum
    BY <1>0, <1>3 DEF CountInv, Newest
  <2>2. tail \in EntryW /\ \A c \in EntryW : entry[c].seqnum <= entry[tail].seqnum
    BY <2>1
  <2>3. /\ hdr.tail_seqnum = entry[tail].seqnum
        /\ hdr.tail_mono = entry[tail].mono /\ hdr.tail_boot = entry[tail].boot
    BY <1>3 DEF VerifyIndexOk, TailMetadata
  <2> HIDE DEF tail
  <2>4. \A e \in EntryW : Newest(e) => e = tail
    <3> SUFFICES ASSUME NEW e \in EntryW, Newest(e) PROVE e = tail
      OBVIOUS
    <3>1. entry[tail].seqnum <= entry[e].seqnum /\ entry[e].seqnum <= entry[tail].seqnum
      BY <1>0, <2>2 DEF Newest
    <3>2. e \in DOMAIN entry /\ tail \in DOMAIN entry
      BY <2>2 DEF EntryW, Walked
    <3>3. /\ entry[e].seqnum \in Nat /\ entry[tail].seqnum \in Nat /\ e \in Nat /\ tail \in Nat
      BY <3>2 DEF ClosedInv, ObjectsOK, EntryObject, Offsets
    <3>4. (e < tail => entry[e].seqnum < entry[tail].seqnum)
          /\ (tail < e => entry[tail].seqnum < entry[e].seqnum)
      BY <3>2 DEF ClosedInv
    <3> QED BY <3>1, <3>3, <3>4
  <2> QED BY <1>1, <2>2, <2>3, <2>4
<1> QED BY <1>2, <1>3

(***************************************************************************)
(* The reopened writer has the committed entries in its arena, and only    *)
(* those, with all their DATA objects.                                     *)
(***************************************************************************)
LEMMA ReopenFrame ==
  ASSUME ClosedInv, CountInv, Reopen
  PROVE  /\ CommittedByNumber' = CommittedByNumber /\ DOMAIN entry' = CommittedByNumber
         /\ \A e \in DOMAIN entry' : e \in DOMAIN entry /\ entry'[e] = entry[e]
         /\ \A d \in DOMAIN data' : d \in DOMAIN data /\ data'[d] = data[d]
         /\ \A e \in DOMAIN entry' : \A x \in entry'[e].items : x[1] \in DOMAIN data'
         /\ w'.next_seqnum = hdr.tail_seqnum + 1
         /\ \A e : Newest(e)' <=> Newest(e)
<1>0. /\ data' = Kept(data) /\ entry' = Kept(entry) /\ VerifyIndexOk
      /\ w'.next_seqnum = hdr.tail_seqnum + 1
  BY DEF Reopen
<1>1. /\ DOMAIN entry' = EntryW /\ \A e \in EntryW : entry'[e] = entry[e]
      /\ DOMAIN data' = DataW /\ \A d \in DataW : data'[d] = data[d]
  BY <1>0 DEF Kept, EntryW, DataW, Walked
<1>2. EntryW \subseteq DOMAIN entry /\ DataW \subseteq DOMAIN data
  BY DEF EntryW, DataW, Walked
<1>3. \A e \in EntryW : \A x \in entry[e].items : x[1] \in DataW
  <2> SUFFICES ASSUME NEW e \in EntryW, NEW x \in entry[e].items
               PROVE  x[1] \in DataW
    OBVIOUS
  <2>1. x[1] <= hdr.tail_object
    BY <1>0 DEF VerifyIndexOk, WalkObjects, WalkEntries, ValidOffset
  <2>2. x[1] \in DOMAIN data
    BY <1>2 DEF ClosedInv
  <2> QED BY <2>1, <2>2 DEF DataW, Walked
<1>4. CommittedByNumber' = EntryW
  <2>1. \A e \in EntryW : entry[e].seqnum < hdr.tail_seqnum + 1
    <3> SUFFICES ASSUME NEW e \in EntryW PROVE entry[e].seqnum < hdr.tail_seqnum + 1
      OBVIOUS
    <3>1. entry[e].seqnum <= hdr.tail_seqnum
      BY <1>0, AcceptedTail
    <3>2. entry[e].seqnum \in Nat /\ hdr.tail_seqnum \in Nat
      BY <1>2 DEF ClosedInv, ObjectsOK, HeaderOK, EntryObject, Header
    <3> QED BY <3>1, <3>2
  <2> QED BY <1>0, <1>1, <2>1 DEF CommittedByNumber
<1>5. CommittedByNumber = EntryW
  BY <1>0, AcceptedEntries
<1>6. \A e : Newest(e)' <=> Newest(e)
  BY <1>1, <1>4, <1>5 DEF Newest
<1> QED BY <1>0, <1>1, <1>2, <1>3, <1>4, <1>5, <1>6

LEMMA ReopenNext ==
  ASSUME ClosedInv, CountInv, Reopen
  PROVE  RunInv' /\ CountInv'
<1>0. /\ data' = Kept(data) /\ field' = Kept(field) /\ entry' = Kept(entry)
      /\ array' = Kept(array) /\ residue' \in Leftovers /\ VerifyIndexOk
      /\ UNCHANGED <<hdr, dht, fht, cache, op, result, notified, acked>> /\ pc' = "idle"
      /\ w' = [poisoned |-> FALSE, append_offset |-> hdr.tail_object + 1,
               tail_object |-> hdr.tail_object, next_seqnum |-> hdr.tail_seqnum + 1,
               num_written |-> 0, since |-> 0]
  BY DEF Reopen, tables
<1>1. hdr.tail_object \in Nat /\ hdr.tail_object >= 2 /\ hdr.tail_seqnum \in Nat
      /\ w.append_offset \in Nat /\ hdr.tail_object < w.append_offset
  BY DEF ClosedInv, CountInv, HeaderOK, Header, WriterOK, Writer
<1>2. TypeOK'
  <2>1. ObjectsOK'
    BY <1>0 DEF ClosedInv, ObjectsOK, Kept
  <2>2. HeaderOK'
    BY <1>0 DEF ClosedInv, HeaderOK
  <2>3. ResidueOK'
    BY <1>0, LeftoversType DEF ClosedInv, ResidueOK
  <2>4. WriterOK'
    <3>1. w' \in Writer
      BY <1>0, <1>1 DEF Writer
    <3>2. w'.append_offset >= 3
      BY <1>0, <1>1
    <3> QED BY <1>0, <3>1, <3>2 DEF ClosedInv, WriterOK
  <2>5. CallOK'
    BY <1>0, NoOpType DEF ClosedInv, CallOK, Labels, FieldSteps
  <2> QED BY <2>1, <2>2, <2>3, <2>4, <2>5 DEF TypeOK
<1>3. ArenaInv'
  <2>1. hdr.n_objects = hdr.tail_object
    BY <1>0 DEF VerifyIndexOk, HeaderCounts
  <2>2. Arena' = {o \in Arena : o <= hdr.tail_object}
    BY <1>0 DEF Arena, Kept
  <2>3. Arena' = 3..(w'.append_offset - 1)
    BY <1>0, <1>1, <2>2 DEF ClosedInv
  <2> QED BY <1>0, <1>1, <2>1, <2>3 DEF ArenaInv, Arena, PoisonCover, ObjectsStored, TailStored
<1>4. SeqnumInv'
  <2>1. \A e \in DOMAIN entry' : e \in DOMAIN entry /\ entry'[e] = entry[e]
    BY ReopenFrame
  <2>2. \A e \in DOMAIN entry' : e < w'.append_offset
    <3>1. \A e \in DOMAIN entry' : e <= hdr.tail_object /\ e \in Nat
      BY <1>0, <2>1 DEF Kept, ClosedInv, ObjectsOK, Offsets
    <3> QED BY <1>0, <1>1, <3>1
  <2>3. \A e \in DOMAIN entry' : entry'[e].seqnum < w'.next_seqnum
    BY ReopenFrame DEF CommittedByNumber
  <2> QED BY <1>0, <2>1, <2>2, <2>3
          DEF SeqnumInv, PoisonCover, ClosedInv, FieldSteps, LinkSteps, Commits
<1>5. RequestInv'
  BY <1>0, ReopenFrame DEF RequestInv, Request, FieldSteps, LinkSteps, Commits
<1>6. StampInv'
  <2>1. \A e \in DOMAIN entry' : Newest(e)' =>
          hdr.tail_boot = entry'[e].boot /\ hdr.tail_mono = entry'[e].mono
    BY <1>0, ReopenFrame, AcceptedTail, AcceptedEntries
  <2>2. hdr.n_entries = 0 => CommittedByNumber' = {}
    BY <1>0, ReopenFrame, AcceptedTail, AcceptedEntries
  <2> QED BY <1>0, <2>1, <2>2 DEF StampInv, Request, FieldSteps, LinkSteps, Commits
<1>7. CountInv'
  <2>1. hdr'.tail_object >= 2 /\ hdr'.tail_object < w'.append_offset
    BY <1>0, <1>1
  <2> QED BY <1>0, <2>1, ReopenFrame DEF CountInv
<1> QED BY <1>2, <1>3, <1>4, <1>5, <1>6, <1>7 DEF RunInv

-----------------------------------------------------------------------------
(* The invariant, and what follows from it. *)

LEMMA RecoveryInvInit == RecoveryInit => RecoveryInv
<1>1. RecoveryInit => Init /\ pc = "idle"
  BY DEF RecoveryInit, Init
<1> QED BY <1>1, TypeInit, ArenaInit, SeqnumInit, RequestInit, StampInit, CountInit
        DEF RecoveryInv, RunInv

LEMMA RecoveryInvNext ==
  RecoveryInv /\ [RecoveryNext]_<<vars, crashes>> => RecoveryInv'
<1> SUFFICES ASSUME RecoveryInv, [RecoveryNext]_<<vars, crashes>> PROVE RecoveryInv'
  OBVIOUS
<1>1. ASSUME CountInv', RunInv' PROVE RecoveryInv'
  <2>1. pc' # "closed"
    BY <1>1 DEF RunInv, TypeOK, CallOK, Labels, FieldSteps, LinkSteps, Commits
  <2> QED BY <1>1, <2>1 DEF RecoveryInv
<1>2. CASE pc # "closed" /\ [Next]_vars
  <2>1. RunInv /\ CountInv
    BY <1>2 DEF RecoveryInv
  <2> QED BY <1>1, <1>2, <2>1, RunNext, CountNext
<1>3. CASE MeetDamage
  <2>1. RunInv /\ CountInv
    BY <1>3, DamageFrame DEF RecoveryInv
  <2> QED BY <1>1, <1>3, <2>1, DamageNext
<1>4. CASE Crash
  <2>1. RunInv /\ CountInv /\ pc' = "closed"
    BY <1>4 DEF RecoveryInv, Crash
  <2> QED BY <1>4, <2>1, CrashNext DEF RecoveryInv
<1>5. CASE Reopen
  <2>1. ClosedInv /\ CountInv
    BY <1>5 DEF RecoveryInv, Reopen
  <2> QED BY <1>1, <1>5, <2>1, ReopenNext
<1>6. CASE UNCHANGED vars /\ pc = "closed"
  <2>1. ClosedInv /\ CountInv
    BY <1>6 DEF RecoveryInv
  <2>2. UNCHANGED <<data, field, entry, array, hdr, dht, fht, residue, w, cache, pc, op, result,
                    notified, acked>>
    BY <1>6 DEF vars
  <2>3. ClosedInv'
    <3>1. ObjectsOK' /\ HeaderOK' /\ ResidueOK' /\ WriterOK'
      BY <2>1, <2>2 DEF ClosedInv, ObjectsOK, HeaderOK, ResidueOK, WriterOK
    <3> QED BY <2>1, <2>2, <3>1 DEF ClosedInv, Arena
  <2>4. CommittedByNumber' = CommittedByNumber /\ \A e : Newest(e)' <=> Newest(e)
    BY <2>2 DEF CommittedByNumber, Newest
  <2>5. CountInv'
    BY <2>1, <2>2, <2>4 DEF CountInv
  <2> QED BY <1>6, <2>2, <2>3, <2>5 DEF RecoveryInv
<1>7. RecoveryNext \/ UNCHANGED vars
  BY DEF vars
<1> QED BY <1>2, <1>3, <1>4, <1>5, <1>6, <1>7 DEF RecoveryNext

LEMMA SurviveNext ==
  RecoveryInv /\ SurviveInv /\ [RecoveryNext]_<<vars, crashes>> => SurviveInv'
<1> SUFFICES ASSUME RecoveryInv, SurviveInv, [RecoveryNext]_<<vars, crashes>>
             PROVE  SurviveInv'
  OBVIOUS
<1> USE DEF SurviveInv
<1>0. crashes \in Nat /\ hdr.n_entries \in Nat /\ acked \in Nat
  BY DEF RecoveryInv, RunInv, TypeOK, CallOK, ClosedInv, HeaderOK, Header
<1>1. CASE UNCHANGED <<vars, crashes>>
  BY <1>1 DEF vars
<1>2. CASE pc # "closed" /\ Next /\ UNCHANGED crashes
  <2>0. TypeOK /\ PoisonCover
    BY <1>2 DEF RecoveryInv, RunInv, ArenaInv
  <2>1. CASE Call
    <3>1. SameCounters /\ w' = w /\ pc = "idle" /\ pc' \in {"idle", "field"}
      BY <2>0, <2>1, CallCounters, CallFrame
    <3>2. pc' = "field" => ~w.poisoned
      BY <2>0, <2>1, CallFrame
    <3> QED BY <1>2, <3>1, <3>2 DEF SameCounters
  <2>2. CASE Leave
    BY <1>2, <2>2, LeaveCounters, LeaveFrame DEF SameCounters
  <2>3. CASE \/ QuietField \/ CreateField \/ QuietLink \/ CreateLink \/ WriteEntry
             \/ StartData \/ Finish \/ CommitObjects \/ CommitTailObject
             \/ CommitHead \/ CommitTail \/ CommitTailEntry
    BY <1>2, <2>0, <2>3, InsideCounters DEF SameCounters
  <2>4. CASE CommitCount
    <3>1. pc = "commit_count" /\ pc' = "publish"
      BY <2>0, <2>4, CountPoisoned
    <3> QED BY <1>0, <1>2, <2>0, <2>4, <3>1, CountCounters
  <2>5. CASE Publish
    BY <1>0, <1>2, <2>0, <2>5, EndCounters, EndPoisoned
  <2>6. CASE FailPublish /\ ~Publish
    <3>1. w'.poisoned = w.poisoned /\ pc = "publish" /\ pc' = "idle"
      BY <2>0, <2>6, EndPoisoned
    <3>2. w.poisoned
      BY <2>0, <3>1 DEF PoisonCover
    <3> QED BY <1>0, <1>2, <2>0, <2>6, <3>1, <3>2, EndCounters
  <2> QED BY <1>2, <2>1, <2>2, <2>3, <2>4, <2>5, <2>6, NextGroups
<1>3. CASE MeetDamage /\ UNCHANGED crashes
  <2>1. pc \notin {"idle", "publish"} /\ pc' = "idle" /\ UNCHANGED <<hdr, w, acked>>
    BY <1>3, DamageFrame DEF Return
  <2> QED BY <1>3, <2>1
<1>4. CASE Crash
  <2>1. crashes' = crashes + 1 /\ pc' = "closed" /\ UNCHANGED <<hdr, w, acked>>
    BY <1>4 DEF Crash
  <2> QED BY <1>0, <2>1
<1>5. CASE Reopen
  <2>1. pc = "closed" /\ pc' = "idle" /\ UNCHANGED <<hdr, acked, crashes>>
    BY <1>5 DEF Reopen
  <2> QED BY <2>1
<1> QED BY <1>1, <1>2, <1>3, <1>4, <1>5 DEF RecoveryNext

(***************************************************************************)
(* An append that returned Ok is in the file after any number of crashes,  *)
(* between any two stores, and of reopenings of what verify_index accepts; *)
(* every crash leaves at most one entry that nobody was told of.           *)
(***************************************************************************)
THEOREM AckedSurvivesCrashes == RecoverySpec => []AckedSurvive
<1>1. RecoveryInit => SurviveInv
  BY DEF RecoveryInit, Init, SurviveInv
<1>2. SurviveInv => AckedSurvive
  BY DEF SurviveInv, AckedSurvive
<1> QED BY <1>1, <1>2, RecoveryInvInit, RecoveryInvNext, SurviveNext, PTL DEF RecoverySpec

(***************************************************************************)
(* Sequence numbers still grow with the offsets when several writers have  *)
(* followed one another over one file, each one starting above the tail of *)
(* the header, and a usable writer is above all of them.                   *)
(***************************************************************************)
THEOREM SeqnumsOrderedOverCrashes == RecoverySpec => []SeqnumOrder
<1>1. RecoveryInv => SeqnumOrder
  BY DEF RecoveryInv, RunInv, ClosedInv, SeqnumInv, SeqnumOrder
<1> QED BY <1>1, RecoveryInvInit, RecoveryInvNext, PTL DEF RecoverySpec

(***************************************************************************)
(* Reopening keeps what every committed entry says.                        *)
(***************************************************************************)
LEMMA ReopenKeepsLog ==
  ASSUME ClosedInv, CountInv, Reopen
  PROVE  {Content(e) : e \in CommittedByNumber}' = {Content(e) : e \in CommittedByNumber}
<1>1. ASSUME NEW e \in CommittedByNumber
      PROVE  Content(e)' = Content(e)
  <2>1. /\ e \in DOMAIN entry' /\ entry'[e] = entry[e]
        /\ \A x \in entry[e].items : x[1] \in DOMAIN data'
    BY ReopenFrame
  <2>2. \A x \in entry[e].items : data'[x[1]] = data[x[1]]
    BY <2>1, ReopenFrame
  <2>3. {data[x[1]].payload : x \in entry[e].items}' = {data[x[1]].payload : x \in entry[e].items}
    BY <2>1, <2>2
  <2> QED BY <2>1, <2>3 DEF Content
<1> QED BY <1>1, ReopenFrame

LEMMA DurableStep ==
  ASSUME RecoveryInv, [RecoveryNext]_<<vars, crashes>>
  PROVE  [Log!LogNext \/ Log!Restart]_(Log!logVars)
<1> DEFINE L == {Content(e) : e \in CommittedByNumber}
           P == IF pc \in {"idle", "publish"} THEN {} ELSE op.want
           F == pc \in {"idle", "closed"} /\ w.poisoned
<1>0. ASSUME UNCHANGED <<data, entry, w>>
      PROVE  L' = L
  BY <1>0 DEF Content, CommittedByNumber
<1>1. CASE pc # "closed" /\ [Next]_vars
  BY <1>1, LogStep DEF RecoveryInv, RunInv
<1>2. CASE MeetDamage
  <2>1. pc \notin {"idle", "publish", "closed"} /\ pc' = "idle" /\ UNCHANGED <<data, entry, w>>
    BY <1>2, DamageFrame DEF Return
  <2>2. w.poisoned \in BOOLEAN
    BY <2>1 DEF RecoveryInv, RunInv, TypeOK, WriterOK, Writer
  <2>3. ~F /\ P' = {} /\ F' \in BOOLEAN
    BY <2>1, <2>2
  <2>4. Log!Abort
    BY <1>0, <2>1, <2>3 DEF Log!Abort
  <2> QED BY <2>4 DEF Log!LogNext
<1>3. CASE Crash
  <2>1. /\ pc # "closed" /\ pc' = "closed" /\ UNCHANGED <<data, entry, w>>
        /\ op' = NoOp /\ NoOp.want = {}
    BY <1>3 DEF Crash, objects, NoOp
  <2>2. w.poisoned \in BOOLEAN
    BY <2>1 DEF RecoveryInv, RunInv, TypeOK, WriterOK, Writer
  <2>3. P' = {} /\ (F' <=> w.poisoned) /\ F' \in BOOLEAN
    BY <2>1, <2>2
  <2>4. CASE F
    <3>1. P = {} /\ F' = F
      BY <2>1, <2>3, <2>4
    <3> QED BY <1>0, <2>1, <2>3, <3>1 DEF Log!logVars
  <2>5. CASE ~F
    <3>1. Log!Abort
      BY <1>0, <2>1, <2>2, <2>3, <2>5 DEF Log!Abort
    <3> QED BY <3>1 DEF Log!LogNext
  <2> QED BY <2>4, <2>5
<1>4. CASE Reopen
  <2>1. ClosedInv /\ CountInv /\ pc = "closed" /\ pc' = "idle" /\ op' = op
    BY <1>4 DEF Reopen, RecoveryInv
  <2>2. ~w'.poisoned /\ op.want = {}
    BY <1>4, <2>1 DEF Reopen, ClosedInv, NoOp
  <2>3. L' = L
    BY <1>4, <2>1, ReopenKeepsLog
  <2>4. P = {} /\ P' = {} /\ F' = FALSE
    BY <2>1, <2>2
  <2>5. CASE F
    BY <2>3, <2>4, <2>5 DEF Log!Restart
  <2>6. CASE ~F
    <3>1. F = FALSE
      BY <2>6, Zenon
    <3> QED BY <2>3, <2>4, <3>1 DEF Log!logVars
  <2> QED BY <2>5, <2>6
<1>5. CASE UNCHANGED vars
  <2>1. UNCHANGED <<data, entry, w, pc, op>>
    BY <1>5 DEF vars
  <2> QED BY <1>0, <2>1 DEF Log!logVars
<1> QED BY <1>1, <1>2, <1>3, <1>4, <1>5 DEF RecoveryNext, vars

(***************************************************************************)
(* The append-only log outlives its writers: a crash at any store commits  *)
(* nothing and loses nothing, and the writer that open_for_append makes    *)
(* after verify_index continues the same log, above its last sequence      *)
(* number and the last stamp of its boot.                                  *)
(***************************************************************************)
THEOREM RecoveryImplementsLog == RecoverySpec => DurableLog
<1>1. RecoveryInit => Log!LogInit
  BY DEF RecoveryInit, Init, Log!LogInit, CommittedByNumber
<1>2. RecoveryInv /\ [RecoveryNext]_<<vars, crashes>>
        => [Log!LogNext \/ Log!Restart]_(Log!logVars)
  BY DurableStep
<1> QED BY <1>1, <1>2, RecoveryInvInit, RecoveryInvNext, PTL
        DEF RecoverySpec, DurableLog, Log!DurableSpec

-----------------------------------------------------------------------------
(* The two verifiers. *)

(***************************************************************************)
(* What a chain of walked arrays holds is a sequence of offsets.           *)
(***************************************************************************)
LEMMA WalkedSlots ==
  ASSUME ObjectsOK, HeaderOK, NEW h \in Nat
  PROVE  Flatten(h, WalkedArray) \in Seq(Nat)
<1>1. IsFiniteSet(DOMAIN WalkedArray)
  <2>1. DOMAIN WalkedArray \subseteq 0..hdr.tail_object /\ hdr.tail_object \in Nat
    BY DEF ObjectsOK, HeaderOK, Header, WalkedArray, ArrayW, Walked, Offsets
  <2>2. IsFiniteSet(0..hdr.tail_object)
    BY <2>1, FS_Interval
  <2> QED BY <2>1, <2>2, FS_Subset
<1>2. WalkedArray \in [DOMAIN WalkedArray -> ArrayObject]
  BY DEF ObjectsOK, WalkedArray, ArrayW, Walked
<1>3. PICK f \in [0..Cardinality(DOMAIN WalkedArray) -> Spot] :
        Flatten(h, WalkedArray) = f[Cardinality(DOMAIN WalkedArray)].slots
  BY <1>1, <1>2, FlattenWalk
<1>4. Cardinality(DOMAIN WalkedArray) \in 0..Cardinality(DOMAIN WalkedArray)
  BY <1>1, FS_CardinalityType
<1> QED BY <1>3, <1>4 DEF Spot

(***************************************************************************)
(* A posting of a DATA object that the strict verifier meets is found by   *)
(* data_references_entry.                                                  *)
(***************************************************************************)
LEMMA PostingReferences ==
  ASSUME ObjectsOK, HeaderOK, StrictData, NEW d \in DataW, NEW k \in 1..data[d].n,
         NEW e, PostingsOfData(d)[k] = e
  PROVE  References(d, e)
<1> DEFINE s == Flatten(data[d].array, WalkedArray)
           n == data[d].n
<1>1. n \in Nat /\ n # 0 /\ data[d].array \in Nat
  BY DEF ObjectsOK, DataObject, DataW, Walked, StrictData
<1>2. GraphChain(data[d].array, n - 1)
  BY DEF StrictData, StrictChain
<1>3. s \in Seq(Nat)
  BY <1>1, WalkedSlots
<1>4. Postings(data[d].array, n - 1) = SubSeq(s, 1, n - 1)
  BY DEF Postings
<1>5. n - 1 > 0 => Len(s) >= n - 1
  BY <1>2 DEF GraphChain
<1>6. CASE k = 1
  <2>1. PostingsOfData(d) = <<data[d].entry>> \o SubSeq(s, 1, n - 1)
    BY <1>4 DEF PostingsOfData
  <2>2. PostingsOfData(d)[1] = data[d].entry
    <3> HIDE DEF s, n
    <3>1. SubSeq(s, 1, n - 1) \in Seq(Nat)
      BY <1>1, <1>3, <1>5
    <3> QED BY <2>1, <3>1
  <2> QED BY <1>6, <2>2 DEF References
<1>7. CASE k > 1
  <2>1. PostingsOfData(d) = <<data[d].entry>> \o SubSeq(s, 1, n - 1)
    BY <1>4 DEF PostingsOfData
  <2>2. /\ k - 1 \in 1..(n - 1)
        /\ SubSeq(s, 1, n - 1) \in Seq(Nat) /\ Len(SubSeq(s, 1, n - 1)) = n - 1
    <3>1. k \in Nat /\ k <= n
      BY <1>1
    <3> HIDE DEF s, n
    <3>2. n - 1 \in Nat /\ n - 1 > 0 /\ k - 1 \in 1..(n - 1)
      BY <1>1, <1>7, <3>1
    <3>3. /\ SubSeq(s, 1, n - 1) \in Seq(Nat)
          /\ Len(SubSeq(s, 1, n - 1)) = n - 1
      BY <1>3, <1>5, <3>2
    <3> QED BY <3>2, <3>3
  <2>3. PostingsOfData(d)[k] = SubSeq(s, 1, n - 1)[k - 1]
    <3> HIDE DEF s, n
    <3> QED BY <1>7, <2>1, <2>2
  <2>4. \E i \in 1..(n - 1) : Postings(data[d].array, n - 1)[i] = e
    BY <1>4, <2>2, <2>3
  <2> QED BY <1>2, <2>4 DEF References
<1> QED BY <1>6, <1>7

(***************************************************************************)
(* The chain of its own bucket leads to every DATA object.                 *)
(***************************************************************************)
LEMMA DataInOwnBucket ==
  ASSUME ObjectsOK, ConstantsAssumption, StrictData, NEW d \in DataW
  PROVE  d \in Met(dht[DataBucket[data[d].payload]].head, DataNext)
<1>1. PICK b \in Buckets : d \in Met(dht[b].head, DataNext)
  BY DEF StrictData
<1>2. DataBucket[data[d].payload] = b
  BY <1>1 DEF StrictData
<1> QED BY <1>1, <1>2

(***************************************************************************)
(* Of a file with objects of the right types.                              *)
(***************************************************************************)
LEMMA StrictIsGraph == ObjectsOK /\ HeaderOK /\ VerifyIndexOk => VerifyGraphOk
<1> SUFFICES ASSUME ObjectsOK, HeaderOK, VerifyIndexOk PROVE VerifyGraphOk
  OBVIOUS
<1>1. StrictData /\ StrictReverse
  BY DEF VerifyIndexOk
<1>2. GraphEntries
  <2> DEFINE entries == Postings(hdr.entry_array, hdr.n_entries)
  <2>1. GraphChain(hdr.entry_array, hdr.n_entries)
    BY DEF VerifyIndexOk, StrictChain
  <2>2. Increasing(entries)
    BY <1>1 DEF StrictReverse
  <2>3. ASSUME NEW i \in DOMAIN entries, NEW it \in entry[entries[i]].items
        PROVE  /\ it[1] \in DataW
               /\ it[1] \in Met(dht[DataBucket[data[it[1]].payload]].head, DataNext)
               /\ References(it[1], entries[i])
    <3>1. /\ it[1] \in DataW
          /\ Cursor(entries, it[1], i) \in 1..data[it[1]].n
          /\ PostingsOfData(it[1])[Cursor(entries, it[1], i)] = entries[i]
      BY <1>1 DEF StrictReverse
    <3> QED BY <1>1, <3>1, DataInOwnBucket, ConstantsAssumption, PostingReferences
  <2> HIDE DEF entries
  <2>4. \A i \in DOMAIN entries : \A it \in entry[entries[i]].items :
          /\ it[1] \in DataW
          /\ it[1] \in Met(dht[DataBucket[data[it[1]].payload]].head, DataNext)
          /\ References(it[1], entries[i]) \/ i = Len(entries)
    BY <2>3
  <2> QED BY <2>1, <2>2, <2>4 DEF GraphEntries, entries
<1>3. ASSUME NEW d \in DataW PROVE GraphPostings(d)
  BY <1>1 DEF StrictData, StrictChain, GraphPostings
<1>4. GraphBuckets
  BY <1>1, <1>3 DEF StrictData, GraphBuckets
<1> QED BY <1>2, <1>4 DEF VerifyIndexOk, VerifyGraphOk

(***************************************************************************)
(* A file that verify_index accepts passes the object graph verifier too,  *)
(* at any moment of an append, after any number of crashes and reopenings: *)
(* strict verification replaces the index checks of the other one          *)
(* (GraphVerifier::verify) and loses none of them.                         *)
(***************************************************************************)
THEOREM StrictIsStricter == RecoverySpec => []StrictImpliesGraph
<1>1. RecoveryInv => StrictImpliesGraph
  BY StrictIsGraph DEF RecoveryInv, RunInv, ClosedInv, TypeOK, StrictImpliesGraph
<1> QED BY <1>1, RecoveryInvInit, RecoveryInvNext, PTL DEF RecoverySpec
=============================================================================
