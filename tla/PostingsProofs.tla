-------------------------- MODULE PostingsProofs ---------------------------
(***************************************************************************)
(* The postings of the DATA objects, for every value of the constants: at  *)
(* every store of every append each DATA object has its postings in a      *)
(* chain of arrays of its own, up to its count they are the entries that   *)
(* hold its payload, and the writer meets no damage in them.               *)
(***************************************************************************)
EXTENDS HashChainProofs

-----------------------------------------------------------------------------
(* The walk for the array with the last posting. *)

\* Slot number limit of a chain is in its last array.
LimitInLast(arr, G, before, head, last, limit) ==
  /\ IsFiniteSet(DOMAIN arr) /\ arr \in [DOMAIN arr -> ArrayObject]
  /\ IsChain(arr, G, before, head, last)
  /\ limit \in Nat /\ before[last] < limit /\ limit <= before[last] + Len(arr[last].slots)

\* The walk for slot number limit stops at array a with b slots before it.
StopsAt(head, arr, limit, a, b) ==
  TailArray(head, arr, limit, FALSE) = [at |-> a, before |-> b]

(***************************************************************************)
(* A walk that looks for a slot of the last array of a chain stops there.  *)
(***************************************************************************)
LEMMA TailArrayLast ==
  ASSUME NEW arr, NEW G, NEW before, NEW head, NEW last, NEW limit,
         LimitInLast(arr, G, before, head, last, limit)
  PROVE  StopsAt(head, arr, limit, last, before[last])
<1> SUFFICES TailArray(head, arr, limit, FALSE) = [at |-> last, before |-> before[last]]
  BY DEF StopsAt
<1> /\ IsFiniteSet(DOMAIN arr) /\ arr \in [DOMAIN arr -> ArrayObject]
    /\ IsChain(arr, G, before, head, last)
    /\ limit \in Nat /\ before[last] < limit /\ limit <= before[last] + Len(arr[last].slots)
  BY DEF LimitInLast
<1> DEFINE n == Cardinality(DOMAIN arr)
           X == {p \in [at : G, before : Nat] : p.before = before[p.at]}
           Ext(p) == IF \/ p.at \notin DOMAIN arr
                        \/ p.before + Len(arr[p.at].slots) >= limit
                        \/ FALSE /\ arr[p.at].next = 0
                     THEN p
                     ELSE [at |-> arr[p.at].next, before |-> p.before + Len(arr[p.at].slots)]
           step == [p \in X |-> Ext(p)]
           base == [at |-> head, before |-> 0]
           R(f) == [i \in 0..n |-> IF i = 0 THEN base ELSE Ext(f[i - 1])]
<1>1. n \in Nat
  BY FS_CardinalityType
<1>c. /\ \A a \in G : /\ a \in DOMAIN arr /\ before[a] \in Nat
                      /\ Len(arr[a].slots) \in Nat /\ Len(arr[a].slots) > 0
      /\ head \in G /\ before[head] = 0 /\ last \in G
      /\ \A a \in G \ {last} : /\ arr[a].next \in G
                               /\ before[arr[a].next] = before[a] + Len(arr[a].slots)
                               /\ before[a] + Len(arr[a].slots) <= before[last]
  BY DEF IsChain, ArrayObject
<1>a. ASSUME NEW p \in X
      PROVE  /\ Ext(p) \in X
             /\ p.at = last => Ext(p) = p
             /\ p.at # last => Ext(p).at \in G /\ before[p.at] < before[Ext(p).at]
  <2>0. PICK a, b : a = p.at /\ b = p.before
    OBVIOUS
  <2>1. a \in G /\ b = before[a] /\ b \in Nat /\ a \in DOMAIN arr /\ Len(arr[a].slots) \in Nat
        /\ Len(arr[a].slots) > 0
    BY <1>c, <2>0
  <2>2. CASE a = last
    <3>1. b + Len(arr[a].slots) >= limit
      BY ONLY <2>1, <2>2, limit \in Nat, limit <= before[last] + Len(arr[last].slots)
    <3>2. Ext(p) = p
      BY <2>0, <3>1
    <3> HIDE DEF Ext, X
    <3> QED BY <2>0, <2>2, <3>2
  <2>3. CASE a # last
    <3>1. /\ arr[a].next \in G /\ before[arr[a].next] = b + Len(arr[a].slots)
          /\ b + Len(arr[a].slots) <= before[last] /\ before[last] \in Nat
      BY <1>c, <2>1, <2>3
    <3>2. ~(b + Len(arr[a].slots) >= limit)
      BY ONLY <2>1, <3>1, limit \in Nat, before[last] < limit
    <3>3. Ext(p) = [at |-> arr[a].next, before |-> b + Len(arr[a].slots)]
      BY <2>0, <2>1, <3>2
    <3>4. [at |-> arr[a].next, before |-> b + Len(arr[a].slots)] \in X
      BY <2>1, <3>1
    <3>5. before[a] < before[arr[a].next]
      BY ONLY <2>1, <3>1
    <3> HIDE DEF Ext, X
    <3> QED BY <2>0, <2>3, <3>1, <3>3, <3>4, <3>5
  <2> QED BY <2>2, <2>3
<1>2. step \in [X -> X]
  <2> HIDE DEF Ext, X
  <2> QED BY <1>a
<1>3. base \in X
  BY <1>c
<1>4. PICK f : Iteration(f, n, X, step, base)
  <2> HIDE DEF n, X, step, base, Ext, R
  <2> QED BY <1>1, <1>2, <1>3, Iterates
<1>5. f \in [0..n -> X] /\ f[0] = base /\ \A i \in 1..n : f[i] = step[f[i - 1]]
  <2> HIDE DEF n, X, step, base, Ext, R
  <2> QED BY <1>4 DEF Iteration
<1>6. \A i \in 1..n : f[i] = Ext(f[i - 1])
  <2> TAKE i \in 1..n
  <2>1. i - 1 \in 0..n
    BY <1>1
  <2> HIDE DEF Ext, n, X, base
  <2>2. f[i - 1] \in X
    BY <1>5, <2>1
  <2>3. \A p \in X : step[p] = Ext(p)
    OBVIOUS
  <2> HIDE DEF step
  <2> QED BY <1>5, <2>2, <2>3
<1>7. f = R(f)
  <2> HIDE DEF Ext, n, base, X
  <2> QED BY <1>1, <1>5, <1>6
<1>8. ASSUME NEW g, g = R(g)
      PROVE  g[n] = [at |-> last, before |-> before[last]]
  <2> DEFINE Up(i) == g[i].at # last =>
                        \A j \in 0..(i - 1) : g[j].at \in G /\ before[g[j].at] < before[g[i].at]
             S == {i \in Nat : i \in 0..n => g[i] \in X /\ Up(i)}
  <2>0. \A p \in X : p.at \in G /\ before[p.at] \in Nat
    BY <1>c
  <2>1. 0 \in S
    <3>1. g[0] = base
      <4> HIDE DEF Ext, n, base, X
      <4> QED BY <1>1, <1>8
    <3>2. g[0] \in X
      <4> HIDE DEF X, base
      <4> QED BY <1>3, <3>1
    <3> HIDE DEF X
    <3> QED BY <3>2
  <2>2. ASSUME NEW i \in Nat, i \in S PROVE i + 1 \in S
    <3> SUFFICES ASSUME i + 1 \in 0..n PROVE g[i + 1] \in X /\ Up(i + 1)
      OBVIOUS
    <3>1. i \in 0..n /\ i + 1 \in 1..n /\ (i + 1) - 1 = i
      BY <1>1
    <3>2. g[i] \in X /\ Up(i)
      BY <2>2, <3>1
    <3>3. g[i + 1] = Ext(g[i])
      <4> HIDE DEF Ext, n, base, S, X
      <4>1. \A j \in 1..n : R(g)[j] = Ext(g[j - 1])
        BY <1>1
      <4> HIDE DEF R
      <4> QED BY <1>8, <3>1, <4>1
    <3> HIDE DEF Ext, X, S
    <3>4. g[i + 1] \in X
      BY <1>a, <3>2, <3>3
    <3>5. ASSUME g[i + 1].at # last, NEW j \in 0..i
          PROVE  g[j].at \in G /\ before[g[j].at] < before[g[i + 1].at]
      <4>1. g[i].at # last
        BY <1>a, <3>2, <3>3, <3>5
      <4>2. before[g[i].at] < before[g[i + 1].at]
        BY <1>a, <3>2, <3>3, <4>1
      <4>3. CASE j = i
        BY <2>0, <3>2, <4>2, <4>3
      <4>4. CASE j # i
        <5>1. j \in 0..n /\ j \in 0..(i - 1)
          BY <3>1, <4>4, <1>1
        <5>2. g[j].at \in G /\ before[g[j].at] < before[g[i].at]
          BY <3>2, <4>1, <5>1
        <5>3. before[g[i].at] \in Nat /\ before[g[i + 1].at] \in Nat
          BY <2>0, <3>2, <3>4
        <5>4. before[g[j].at] \in Nat
          BY <1>c, <5>2
        <5> QED BY <4>2, <5>2, <5>3, <5>4
      <4> QED BY <4>3, <4>4
    <3> QED BY <3>4, <3>5
  <2>3. \A i \in 0..n : g[i] \in X /\ Up(i)
    <3>1. \A i \in Nat : i \in S
      <4> HIDE DEF S
      <4> QED BY <2>1, <2>2, SetInduction
    <3> HIDE DEF X, Up
    <3> QED BY <1>1, <3>1
  <2>4. g[n].at = last
    <3> SUFFICES ASSUME g[n].at # last PROVE FALSE
      OBVIOUS
    <3> HIDE DEF X, R
    <3> DEFINE h == [i \in 0..n |-> g[i].at]
    <3>1. \A i \in 0..n : g[i].at \in G /\ before[g[i].at] \in Nat
      BY <2>0, <2>3
    <3>2. h \in [0..n -> DOMAIN arr]
      BY <1>c, <3>1
    <3>3. \A i \in 0..n : g[i].at # last
      <4> TAKE i \in 0..n
      <4>1. CASE i = n
        BY <4>1
      <4>2. CASE i # n
        <5>1. i \in 0..(n - 1) /\ n \in 0..n
          BY <1>1, <4>2
        <5>2. before[g[i].at] < before[g[n].at] /\ g[n].at \in G
          BY <2>3, <3>1, <5>1
        <5>3. before[g[n].at] < before[last]
          <6>1. PICK a \in G : a = g[n].at
            BY <5>2
          <6>2. before[a] + Len(arr[a].slots) <= before[last] /\ before[a] \in Nat
                /\ Len(arr[a].slots) \in Nat /\ Len(arr[a].slots) > 0 /\ before[last] \in Nat
            BY <1>c, <6>1
          <6> QED BY <6>1, <6>2
        <5>4. before[g[i].at] \in Nat /\ before[g[n].at] \in Nat /\ before[last] \in Nat
          BY <1>c, <3>1, <5>1
        <5> QED BY <5>2, <5>3, <5>4
      <4> QED BY <4>1, <4>2
    <3>4. ASSUME NEW i \in 0..n, NEW j \in 0..n, i < j PROVE g[i].at # g[j].at
      <4>1. i \in 0..(j - 1)
        BY <1>1, <3>4
      <4>2. before[g[i].at] < before[g[j].at]
        BY <2>3, <3>3, <4>1
      <4>3. before[g[i].at] \in Nat
        BY <3>1
      <4> QED BY <4>2, <4>3
    <3>5. \A i, j \in 0..n : i # j => h[i] # h[j]
      <4> TAKE i, j \in 0..n
      <4>1. i < j \/ j < i \/ i = j
        BY <1>1
      <4> QED BY <3>4, <4>1
    <3>6. IsFiniteSet(0..n) /\ Cardinality(0..n) = n + 1
      <4>1. 0 \in Int /\ n \in Int /\ ~ (0 > n) /\ n - 0 + 1 = n + 1
        BY <1>1
      <4> HIDE DEF n
      <4> QED BY <4>1, FS_Interval
    <3>7. Cardinality(DOMAIN arr) < Cardinality(0..n)
      BY <1>1, <3>6
    <3> HIDE DEF h, n
    <3>8. \E x, y \in 0..n : x # y /\ h[x] = h[y]
      BY <3>2, <3>6, <3>7, FS_PigeonHole
    <3> QED BY <3>5, <3>8
  <2>5. g[n] \in X
    <3> HIDE DEF X, Up
    <3> QED BY <1>1, <2>3
  <2>6. g[n] = [at |-> g[n].at, before |-> g[n].before] /\ g[n].before = before[g[n].at]
    BY <2>5
  <2> QED BY <2>4, <2>6
<1>9. TailArray(head, arr, limit, FALSE) = (CHOOSE g : g = R(g))[n]
  BY DEF TailArray
<1> HIDE DEF R, n
<1> QED BY <1>7, <1>8, <1>9

-----------------------------------------------------------------------------
(* The postings of the DATA objects at every step of an append. *)

\* An array that belongs to no chain.
Loose == -1

(***************************************************************************)
(* own[a] is the DATA object whose chain array a is in, 0 for an array of  *)
(* the global list; before[a] counts the slots in front of a in its chain, *)
(* last[d] is the last array of the chain of d, post[d] its postings.      *)
(***************************************************************************)
Witness(own, before, last, post) ==
  /\ own \in [DOMAIN array -> DOMAIN data \cup {0, Loose}]
  /\ before \in [DOMAIN array -> Nat]
  /\ last \in [DOMAIN data -> Nat]
  /\ post \in [DOMAIN data -> Seq(Nat)]

\* Array o is put behind the last array of the chain of d, with n slots in front of it.
Longer(own, before, last, d, o, n, own2, before2, last2) ==
  /\ own2 = [own EXCEPT ![o] = d] /\ before2 = [before EXCEPT ![o] = n]
  /\ last2 = [last EXCEPT ![d] = o]

\* Array a leads on to the next one of its chain and holds its part of the postings.
ArrayInChain(own, before, last, post, a) ==
  own[a] \in DOMAIN data =>
    /\ Len(array[a].slots) > 0
    /\ a = last[own[a]] => array[a].next = 0
    /\ a # last[own[a]] =>
         /\ array[a].next \in DOMAIN array /\ own[array[a].next] = own[a]
         /\ before[array[a].next] = before[a] + Len(array[a].slots)
         /\ before[a] + Len(array[a].slots) <= before[last[own[a]]]
    /\ \A j \in 1..Len(array[a].slots) :
         before[a] + j < Len(post[own[a]]) => array[a].slots[j] = post[own[a]][before[a] + j + 1]

\* The first posting is inline, the chain that the object names has room for the others.
ChainOfData(own, before, last, post, d) ==
  /\ Len(post[d]) = data[d].n
  /\ data[d].n > 0 => post[d][1] = data[d].entry
  /\ data[d].array = 0 => data[d].n <= 1 /\ \A a \in DOMAIN array : own[a] # d
  /\ data[d].array # 0 =>
       /\ data[d].array \in DOMAIN array /\ own[data[d].array] = d
       /\ before[data[d].array] = 0
       /\ last[d] \in DOMAIN array /\ own[last[d]] = d
       /\ data[d].n >= 1 /\ data[d].n <= before[last[d]] + Len(array[last[d]].slots) + 1

\* The count reaches into the last array, and the compact hint knows how far.
Ready(before, last, d) ==
  /\ data[d].n <= 1 => data[d].array = 0
  /\ data[d].n >= 2 =>
       /\ before[last[d]] < data[d].n - 1
       /\ Compact => data[d].tail = last[d] /\ before[last[d]] + data[d].tail_n = data[d].n - 1

\* Stores to the global list reach arrays of the global list only.
GlobalOwned(own) ==
  /\ hdr.tail_array # 0 => hdr.tail_array \in DOMAIN array /\ own[hdr.tail_array] = 0
  /\ pc = "global_header" \/ (pc \in Growing /\ op.cur = 0) =>
       op.arr \in DOMAIN array /\ own[op.arr] = 0
  /\ pc = "link_array" /\ op.cur = 0 => op.prev \in DOMAIN array /\ own[op.prev] = 0

\* A new array that no chain has yet.
Unchained(own, a) ==
  /\ a \in DOMAIN array /\ own[a] = Loose
  /\ array[a].next = 0 /\ Len(array[a].slots) > 0

\* The append's slot is the first one behind the counted postings of d.
SlotBehind(before, last, d) ==
  /\ data[d].array # 0 /\ op.arr = last[d] /\ op.slot < Len(array[last[d]].slots)
  /\ before[last[d]] + op.slot + 1 = data[d].n

\* The slot that the append stored to has its entry.
SlotStored == array[op.arr].slots[op.slot + 1] = op.entry

\* The append is linking its entry to the DATA object op.cur.
Linking == pc \in {"data_array", "data_tail", "data_count"} \/ (pc \in Growing /\ op.cur # 0)

(***************************************************************************)
(* Where the running append is with the DATA object it links.              *)
(***************************************************************************)
LinkPhase(own, before, last, d) ==
  /\ d \in DOMAIN data /\ op.n = data[d].n + 1
  /\ pc = "link_array" =>
       /\ data[d].n >= 2 /\ op.prev = last[d] /\ op.slot = 0 /\ Unchained(own, op.arr)
       /\ data[d].n = before[last[d]] + Len(array[last[d]].slots) + 1
  /\ pc = "set_slot" =>
       \/ op.n = 2 /\ data[d].array = 0 /\ op.slot = 0 /\ Unchained(own, op.arr)
       \/ op.n > 2 /\ SlotBehind(before, last, d)
  /\ pc = "data_array" =>
       op.n = 2 /\ data[d].array = 0 /\ op.slot = 0 /\ Unchained(own, op.arr) /\ SlotStored
  /\ pc = "data_tail" => op.n >= 2 /\ SlotBehind(before, last, d) /\ SlotStored
  /\ pc = "data_count" =>
       \/ op.n = 1 /\ data[d].array = 0 /\ data[d].entry = op.entry
       \/ /\ op.n >= 2 /\ SlotBehind(before, last, d) /\ SlotStored
          /\ Compact => data[d].tail = op.arr /\ data[d].tail_n = op.slot + 1

\* The chains of all DATA objects.
Rows(own, before, last, post) ==
  /\ Witness(own, before, last, post)
  /\ \A a \in DOMAIN array : ArrayInChain(own, before, last, post, a)
  /\ \A d \in DOMAIN data : ChainOfData(own, before, last, post, d)

(***************************************************************************)
(* The invariant of the postings arrays.                                   *)
(***************************************************************************)
PostParts(own, before, last, post) ==
  /\ Rows(own, before, last, post) /\ GlobalOwned(own)
  /\ Live => \A d \in DOMAIN data : Ready(before, last, d) \/ (Linking /\ d = op.cur)
  /\ Linking => LinkPhase(own, before, last, op.cur)

-----------------------------------------------------------------------------
(* Reading a chain. *)

LEMMA RowTypes ==
  ASSUME TypeOK
  PROVE  /\ \A a \in DOMAIN array : /\ array[a] \in ArrayObject /\ array[a].slots \in Seq(Nat)
                                    /\ Len(array[a].slots) \in Nat /\ array[a].next \in Nat
         /\ \A d \in DOMAIN data : /\ data[d] \in DataObject /\ data[d].n \in Nat
                                   /\ data[d].array \in Nat /\ data[d].entry \in Nat
                                   /\ data[d].tail \in Nat /\ data[d].tail_n \in Nat
         /\ 0 \notin DOMAIN data /\ Loose \notin DOMAIN data /\ 0 \notin DOMAIN array
         /\ Loose # 0
<1>1. \A a \in DOMAIN array : /\ array[a] \in ArrayObject /\ array[a].slots \in Seq(Nat)
                              /\ Len(array[a].slots) \in Nat
  BY SlotsType
<1>2. \A a \in DOMAIN array : array[a].next \in Nat
  BY <1>1 DEF ArrayObject
<1>3. \A d \in DOMAIN data : /\ data[d] \in DataObject /\ data[d].n \in Nat
                             /\ data[d].array \in Nat /\ data[d].entry \in Nat
                             /\ data[d].tail \in Nat /\ data[d].tail_n \in Nat
  BY DEF TypeOK, ObjectsOK, DataObject
<1>4. 0 \notin DOMAIN data /\ Loose \notin DOMAIN data /\ 0 \notin DOMAIN array /\ Loose # 0
  <2>1. MaxOffset \in Nat
    BY ConstantsAssumption DEF ConstantsAssumption
  <2> QED BY <2>1 DEF TypeOK, ObjectsOK, Offsets, Loose
<1> QED BY <1>1, <1>2, <1>3, <1>4

\* The chain of d, in the form that the lemmas about walks want.
Part(own, d) == {a \in DOMAIN array : own[a] = d}
PartBefore(own, before, d) == [a \in Part(own, d) |-> before[a]]
Others(post, d) == [k \in 1..(data[d].n - 1) |-> post[d][k + 1]]

LEMMA RowChain ==
  ASSUME TypeOK, NEW own, NEW before, NEW last, NEW post, Rows(own, before, last, post),
         NEW d \in DOMAIN data, data[d].array # 0
  PROVE  /\ IsChain(array, Part(own, d), PartBefore(own, before, d), data[d].array, last[d])
         /\ Holding(array, Part(own, d), PartBefore(own, before, d), data[d].n - 1, Others(post, d))
         /\ PartBefore(own, before, d)[last[d]] = before[last[d]]
<1>1. /\ Witness(own, before, last, post) /\ ChainOfData(own, before, last, post, d)
      /\ \A a \in DOMAIN array : ArrayInChain(own, before, last, post, a)
  BY DEF Rows
<1>2. /\ data[d].array \in Part(own, d) /\ last[d] \in Part(own, d) /\ before[data[d].array] = 0
      /\ data[d].n >= 1 /\ Len(post[d]) = data[d].n /\ post[d] \in Seq(Nat)
  BY <1>1 DEF ChainOfData, Part, Witness
<1>3. PICK G : G = Part(own, d)
  OBVIOUS
<1>4. PICK bf : bf = PartBefore(own, before, d)
  OBVIOUS
<1>5. /\ bf \in [G -> Nat] /\ \A a \in G : bf[a] = before[a] /\ a \in DOMAIN array /\ own[a] = d
      /\ \A a \in DOMAIN array : own[a] = d => a \in G
  BY <1>1, <1>3, <1>4 DEF PartBefore, Part, Witness
<1>6. \A a \in G : /\ Len(array[a].slots) > 0
                   /\ a = last[d] => array[a].next = 0
                   /\ a # last[d] =>
                        /\ array[a].next \in G
                        /\ before[array[a].next] = before[a] + Len(array[a].slots)
                        /\ before[a] + Len(array[a].slots) <= before[last[d]]
                   /\ \A j \in 1..Len(array[a].slots) : before[a] + j < Len(post[d]) =>
                        array[a].slots[j] = post[d][before[a] + j + 1]
  BY <1>1, <1>5 DEF ArrayInChain
<1>7. IsChain(array, G, bf, data[d].array, last[d])
  <2>1. /\ G \subseteq DOMAIN array /\ bf \in [G -> Nat] /\ data[d].array \in G /\ last[d] \in G
        /\ bf[data[d].array] = 0 /\ bf[last[d]] = before[last[d]]
    BY <1>2, <1>3, <1>5
  <2>2. array[last[d]].next = 0 /\ \A a \in G : Len(array[a].slots) > 0
    BY <1>6, <2>1
  <2>3. ASSUME NEW a \in G \ {last[d]}
        PROVE  /\ array[a].next \in G /\ bf[array[a].next] = bf[a] + Len(array[a].slots)
               /\ bf[a] + Len(array[a].slots) <= bf[last[d]]
    <3>1. /\ array[a].next \in G /\ before[array[a].next] = before[a] + Len(array[a].slots)
          /\ before[a] + Len(array[a].slots) <= before[last[d]]
      BY <1>6, <2>3
    <3>2. bf[a] = before[a] /\ bf[array[a].next] = before[array[a].next]
      BY <1>5, <2>3, <3>1
    <3> QED BY <2>1, <3>1, <3>2
  <2> QED BY ONLY <2>1, <2>2, <2>3 DEF IsChain
<1>8. Holding(array, G, bf, data[d].n - 1, Others(post, d))
  <2> SUFFICES ASSUME NEW a \in G, NEW j \in 1..Len(array[a].slots), bf[a] + j <= data[d].n - 1
               PROVE  array[a].slots[j] = Others(post, d)[bf[a] + j]
    BY DEF Holding
  <2>1. PICK b \in Nat : b = bf[a]
    BY <1>5
  <2>2. b = before[a] /\ Len(array[a].slots) \in Nat /\ data[d].n \in Nat
    BY <1>5, <2>1, RowTypes
  <2>3. b + j < Len(post[d]) /\ b + j \in 1..(data[d].n - 1)
    BY <1>2, <2>1, <2>2
  <2>4. array[a].slots[j] = post[d][b + j + 1]
    BY <1>6, <2>2, <2>3
  <2> QED BY <2>1, <2>3, <2>4 DEF Others
<1> QED BY <1>2, <1>3, <1>4, <1>5, <1>7, <1>8

(***************************************************************************)
(* A reader that follows the chain gets the postings.                      *)
(***************************************************************************)
LEMMA RowRead ==
  ASSUME TypeOK, NEW own, NEW before, NEW last, NEW post, Rows(own, before, last, post),
         NEW d \in DOMAIN data
  PROVE  PostingsOf(d) = post[d]
<1>1. /\ ChainOfData(own, before, last, post, d) /\ post[d] \in Seq(Nat)
      /\ data[d].n \in Nat /\ data[d].array \in Nat /\ data[d].entry \in Nat
  BY RowTypes DEF Rows, Witness
<1>2. PICK n \in Nat : n = data[d].n
  BY <1>1
<1>3. PICK s \in Seq(Nat) : s = post[d]
  BY <1>1
<1>4. Len(s) = n /\ (n > 0 => s[1] = data[d].entry)
  BY <1>1, <1>2, <1>3 DEF ChainOfData
<1>5. CASE n = 0
  <2>1. s = <<>>
    BY <1>4, <1>5
  <2> QED BY <1>2, <1>3, <1>5, <2>1 DEF PostingsOf
<1>6. CASE n # 0
  <2>1. PICK all : all = Flatten(data[d].array, array)
    OBVIOUS
  <2>2. n = 1 \/ (all \in Seq(Nat) /\ n - 1 <= Len(all) /\ \A k \in 1..(n - 1) : all[k] = s[k + 1])
    <3>1. CASE data[d].array = 0
      BY <1>1, <1>2, <1>6, <3>1 DEF ChainOfData
    <3>2. CASE data[d].array # 0
      <4>1. PICK G, bf, t, hd, lt :
              /\ G = Part(own, d) /\ bf = PartBefore(own, before, d) /\ t = Others(post, d)
              /\ hd = data[d].array /\ lt = last[d]
        OBVIOUS
      <4>2. /\ IsChain(array, G, bf, hd, lt) /\ Holding(array, G, bf, n - 1, t)
            /\ bf[lt] = before[lt]
        BY <1>2, <3>2, <4>1, RowChain
      <4>3. n <= before[lt] + Len(array[lt].slots) + 1 /\ lt \in DOMAIN array /\ hd \in Nat
        BY <1>1, <1>2, <3>2, <4>1 DEF ChainOfData
      <4>4. before[lt] \in Nat /\ Len(array[lt].slots) \in Nat
        BY <4>3, RowTypes DEF Rows, Witness
      <4>5. n - 1 \in Nat /\ n - 1 <= bf[lt] + Len(array[lt].slots)
        BY <1>6, <4>2, <4>3, <4>4
      <4>6. PICK m : m = n - 1 /\ ChainHolds(array, G, bf, hd, lt, m, t)
        BY <4>2, <4>3, <4>5, FiniteArrays DEF ChainHolds
      <4>b. ChainHolds(array, G, bf, hd, lt, m, t)
        BY <4>6
      <4>a. /\ Flatten(hd, array) \in Seq(Nat) /\ m <= Len(Flatten(hd, array))
            /\ \A k \in 1..m : Flatten(hd, array)[k] = t[k]
        BY ONLY <4>b, ChainFlatten
      <4>7. /\ Flatten(hd, array) \in Seq(Nat) /\ n - 1 <= Len(Flatten(hd, array))
            /\ \A k \in 1..(n - 1) : Flatten(hd, array)[k] = t[k]
        BY <4>6, <4>a
      <4>8. \A k \in 1..(n - 1) : t[k] = s[k + 1]
        BY <1>2, <1>3, <4>1 DEF Others
      <4> QED BY <2>1, <4>1, <4>7, <4>8
    <3> QED BY <3>1, <3>2
  <2>3. PICK v : v = SubSeq(all, 1, n - 1)
    OBVIOUS
  <2>4. v \in Seq(Nat) /\ Len(v) = n - 1 /\ \A k \in 1..(n - 1) : v[k] = s[k + 1]
    <3>1. CASE n = 1
      <4>1. v = <<>>
        BY <2>3, <3>1
      <4> QED BY <3>1, <4>1
    <3>2. CASE n # 1
      <4>1. all \in Seq(Nat) /\ n - 1 <= Len(all) /\ n - 1 \in Nat /\ n - 1 >= 1
        BY <1>6, <2>2, <3>2
      <4>2. /\ SubSeq(all, 1, n - 1) \in Seq(Nat) /\ Len(SubSeq(all, 1, n - 1)) = n - 1
            /\ \A k \in 1..(n - 1) : SubSeq(all, 1, n - 1)[k] = all[k]
        BY ONLY <4>1
      <4> QED BY <2>2, <2>3, <3>2, <4>2
    <3> QED BY <3>1, <3>2
  <2>5. PICK e \in Nat : e = data[d].entry
    BY <1>1
  <2>6. <<e>> \o v = s
    <3>1. <<e>> \in Seq(Nat) /\ Len(<<e>>) = 1 /\ <<e>>[1] = e
      OBVIOUS
    <3>2. PICK u : u = <<e>>
      OBVIOUS
    <3>3. /\ u \o v \in Seq(Nat) /\ Len(u \o v) = Len(u) + Len(v)
          /\ \A k \in 1..Len(u) : (u \o v)[k] = u[k]
          /\ \A k \in 1..Len(v) : (u \o v)[Len(u) + k] = v[k]
      BY <2>4, <3>1, <3>2, Concatenation
    <3>4. PICK c \in Seq(Nat) : c = u \o v
      BY <3>3
    <3>5. Len(c) = n /\ c[1] = e /\ \A k \in 1..(n - 1) : c[1 + k] = s[k + 1]
      BY <1>6, <2>4, <3>1, <3>2, <3>3, <3>4
    <3>6. \A i \in 1..n : c[i] = s[i]
      <4> TAKE i \in 1..n
      <4>1. CASE i = 1
        BY <1>4, <1>6, <2>5, <3>5, <4>1
      <4>2. CASE i # 1
        <5>1. i - 1 \in 1..(n - 1) /\ 1 + (i - 1) = i /\ (i - 1) + 1 = i
          BY <4>2
        <5>2. c[1 + (i - 1)] = s[(i - 1) + 1]
          BY ONLY <3>5, <5>1
        <5> QED BY <5>1, <5>2
      <4> QED BY <4>1, <4>2
    <3>7. c = s
      BY <1>4, <3>5, <3>6
    <3> QED BY <3>2, <3>4, <3>7
  <2> QED BY <1>2, <1>3, <1>6, <2>1, <2>3, <2>5, <2>6 DEF PostingsOf
<1> QED BY <1>5, <1>6

(***************************************************************************)
(* The array that append_data_entry_array_link_tail appends to, by the     *)
(* compact hint or by a walk, is the last one, and it knows the used slots *)
(* in it.                                                                  *)
(***************************************************************************)
LEMMA RowTail ==
  ASSUME TypeOK, NEW own, NEW before, NEW last, NEW post, Rows(own, before, last, post),
         NEW d \in DOMAIN data, Ready(before, last, d), data[d].n >= 2,
         NEW v, v.n = data[d].n, v.array = data[d].array,
         Compact => v.tail = data[d].tail /\ v.tail_n = data[d].tail_n
  PROVE  /\ data[d].array # 0 /\ last[d] \in DOMAIN array /\ own[last[d]] = d
         /\ DataTail(v).at = last[d] /\ DataTail(v).used \in Nat
         /\ before[last[d]] + DataTail(v).used = data[d].n - 1
<1>1. /\ ChainOfData(own, before, last, post, d) /\ data[d].n \in Nat
      /\ \A a \in DOMAIN array : before[a] \in Nat /\ Len(array[a].slots) \in Nat
  BY RowTypes DEF Rows, Witness
<1>2. data[d].array # 0
  BY <1>1 DEF ChainOfData
<1>3. /\ last[d] \in DOMAIN array /\ own[last[d]] = d
      /\ data[d].n <= before[last[d]] + Len(array[last[d]].slots) + 1
  BY <1>1, <1>2 DEF ChainOfData
<1>4. /\ before[last[d]] < data[d].n - 1
      /\ Compact => v.tail = last[d] /\ before[last[d]] + v.tail_n = data[d].n - 1
  BY DEF Ready
<1>5. before[last[d]] \in Nat /\ Len(array[last[d]].slots) \in Nat
  BY <1>1, <1>3
<1>6. CASE HintUsable(v)
  <2>1. Compact /\ DataTail(v) = [at |-> v.tail, used |-> v.tail_n]
    BY <1>6 DEF DataTail, HintUsable
  <2>2. DataTail(v).at = last[d] /\ DataTail(v).used = v.tail_n
    BY <1>4, <2>1
  <2>3. v.tail_n \in Nat
    BY <2>1, RowTypes
  <2> QED BY <1>2, <1>3, <1>4, <2>1, <2>2, <2>3
<1>7. CASE ~HintUsable(v)
  <2>1. PICK n \in Nat : n = data[d].n /\ n >= 2
    BY <1>1
  <2>2. PICK t : t = TailArray(v.array, array, v.n - 1, FALSE)
    OBVIOUS
  <2>3. DataTail(v) = [at |-> t.at, used |-> v.n - 1 - t.before]
    BY <1>7, <2>2 DEF DataTail
  <2>4. PICK G, bf, hd, lt : /\ G = Part(own, d) /\ bf = PartBefore(own, before, d)
                             /\ hd = data[d].array /\ lt = last[d]
    OBVIOUS
  <2>5. IsChain(array, G, bf, hd, lt) /\ bf[lt] = before[lt]
    BY <1>2, <2>4, RowChain
  <2>6. n - 1 \in Nat /\ bf[lt] < n - 1 /\ n - 1 <= bf[lt] + Len(array[lt].slots)
    <3>1. PICK b \in Nat, l \in Nat : b = before[last[d]] /\ l = Len(array[last[d]].slots)
      BY <1>5
    <3>2. b < n - 1 /\ n <= b + l + 1
      BY <1>3, <1>4, <2>1, <3>1
    <3>3. n - 1 \in Nat /\ b < n - 1 /\ n - 1 <= b + l
      <4>1. n >= 2
        BY <2>1
      <4> QED BY ONLY n \in Nat, b \in Nat, l \in Nat, <3>2, <4>1
    <3> QED BY <2>4, <2>5, <3>1, <3>3
  <2>7. IsFiniteSet(DOMAIN array) /\ array \in [DOMAIN array -> ArrayObject]
    BY FiniteArrays
  <2>8. LimitInLast(array, G, bf, hd, lt, n - 1)
    BY <2>5, <2>6, <2>7 DEF LimitInLast
  <2>9. t.at = lt /\ t.before = bf[lt]
    <3>1. StopsAt(hd, array, n - 1, lt, bf[lt])
      BY ONLY <2>8, TailArrayLast
    <3>2. t = [at |-> lt, before |-> bf[lt]]
      BY <2>1, <2>2, <2>4, <3>1 DEF StopsAt
    <3> QED BY <3>2
  <2>10. DataTail(v).at = last[d] /\ DataTail(v).used = n - 1 - before[last[d]]
    BY <2>1, <2>3, <2>4, <2>5, <2>9
  <2> QED BY <1>2, <1>3, <1>4, <1>5, <2>1, <2>10
<1> QED BY <1>6, <1>7

-----------------------------------------------------------------------------
(* What a store does to the chains. *)

\* No array changes, and no count, head or inline posting.
SameRows ==
  /\ array' = array /\ DOMAIN data' = DOMAIN data
  /\ \A d \in DOMAIN data : /\ data'[d].n = data[d].n /\ data'[d].array = data[d].array
                            /\ data'[d].entry = data[d].entry

\* The hints are the same as well.
SameHints ==
  \A d \in DOMAIN data : data'[d].tail = data[d].tail /\ data'[d].tail_n = data[d].tail_n

LEMMA RowsSame ==
  ASSUME NEW own, NEW before, NEW last, NEW post, Rows(own, before, last, post), SameRows
  PROVE  /\ Rows(own, before, last, post)'
         /\ SameHints => \A d \in DOMAIN data : Ready(before, last, d) => Ready(before, last, d)'
<1>1. Witness(own, before, last, post)'
  BY DEF Rows, Witness, SameRows
<1>2. \A a \in DOMAIN array : ArrayInChain(own, before, last, post, a)'
  BY DEF Rows, ArrayInChain, SameRows
<1>3. \A d \in DOMAIN data : ChainOfData(own, before, last, post, d)'
  BY DEF Rows, ChainOfData, SameRows
<1>4. SameHints => \A d \in DOMAIN data : Ready(before, last, d) => Ready(before, last, d)'
  BY DEF Ready, SameRows, SameHints
<1> QED BY <1>1, <1>2, <1>3, <1>4 DEF Rows, SameRows

\* The DATA objects keep what they say of their postings.
SameObjects ==
  /\ DOMAIN data' = DOMAIN data
  /\ \A d \in DOMAIN data :
       /\ data'[d].n = data[d].n /\ data'[d].array = data[d].array
       /\ data'[d].entry = data[d].entry
       /\ data'[d].tail = data[d].tail /\ data'[d].tail_n = data[d].tail_n

(***************************************************************************)
(* A new array that is in no chain of a DATA object.                       *)
(***************************************************************************)
LEMMA RowsAllocate ==
  ASSUME TypeOK, NEW own, NEW before, NEW last, NEW post, Rows(own, before, last, post),
         NEW o, o \notin DOMAIN array, DOMAIN array' = DOMAIN array \cup {o},
         \A a \in DOMAIN array : array'[a] = array[a], NEW v \in {0, Loose}, SameObjects
  PROVE  /\ Rows(Put(own, o, v), Put(before, o, 0), last, post)'
         /\ \A d \in DOMAIN data : Ready(before, last, d) => Ready(Put(before, o, 0), last, d)'
<1> DEFINE own2 == Put(own, o, v)
           before2 == Put(before, o, 0)
<1>0. /\ own \in [DOMAIN array -> DOMAIN data \cup {0, Loose}] /\ before \in [DOMAIN array -> Nat]
      /\ last \in [DOMAIN data -> Nat] /\ post \in [DOMAIN data -> Seq(Nat)]
      /\ v \notin DOMAIN data
  BY RowTypes DEF Rows, Witness
<1>1. /\ own2 \in [DOMAIN array' -> DOMAIN data' \cup {0, Loose}]
      /\ before2 \in [DOMAIN array' -> Nat] /\ own2[o] = v
      /\ \A a \in DOMAIN array : a # o /\ own2[a] = own[a] /\ before2[a] = before[a]
  BY <1>0 DEF Put, SameObjects
<1> HIDE DEF own2, before2
<1>2. ASSUME NEW a \in DOMAIN array' PROVE ArrayInChain(own2, before2, last, post, a)'
  <2>1. CASE a = o
    BY <1>0, <1>1, <2>1 DEF ArrayInChain, SameObjects
  <2>2. CASE a # o
    <3>1. a \in DOMAIN array /\ ArrayInChain(own, before, last, post, a)
      BY <2>2 DEF Rows
    <3>2. CASE own[a] \in DOMAIN data
      <4>1. array'[a] = array[a] /\ own2[a] = own[a] /\ before2[a] = before[a]
        BY <1>1, <3>1
      <4>2. a # last[own[a]] => /\ array[a].next \in DOMAIN array /\ own[array[a].next] = own[a]
                                /\ before[array[a].next] = before[a] + Len(array[a].slots)
                                /\ before[a] + Len(array[a].slots) <= before[last[own[a]]]
        BY <3>1, <3>2 DEF ArrayInChain
      <4>3. last[own[a]] \in DOMAIN array
        BY <1>0, <3>1, <3>2 DEF Rows, ChainOfData
      <4>4. before2[last[own[a]]] = before[last[own[a]]]
        BY <1>1, <4>3
      <4>5. a # last[own[a]] => /\ array[a].next \in DOMAIN array' /\ own2[array[a].next] = own[a]
                                /\ before2[array[a].next] = before[a] + Len(array[a].slots)
                                /\ before[a] + Len(array[a].slots) <= before2[last[own[a]]]
        BY <1>1, <4>2, <4>4
      <4> QED BY <3>1, <3>2, <4>1, <4>5 DEF ArrayInChain
    <3>3. CASE own[a] \notin DOMAIN data
      BY <1>1, <3>1, <3>3 DEF ArrayInChain, SameObjects
    <3> QED BY <3>2, <3>3
  <2> QED BY <2>1, <2>2
<1>3. ASSUME NEW d \in DOMAIN data PROVE ChainOfData(own2, before2, last, post, d)'
  <2>1. ChainOfData(own, before, last, post, d)
    BY DEF Rows
  <2>2. CASE data[d].array = 0
    BY <1>0, <1>1, <2>1, <2>2 DEF ChainOfData, SameObjects
  <2>3. CASE data[d].array # 0
    <3>1. /\ data[d].array \in DOMAIN array /\ own[data[d].array] = d
          /\ before[data[d].array] = 0 /\ last[d] \in DOMAIN array /\ own[last[d]] = d
          /\ data[d].n >= 1 /\ data[d].n <= before[last[d]] + Len(array[last[d]].slots) + 1
          /\ Len(post[d]) = data[d].n
          /\ data[d].n > 0 => post[d][1] = data[d].entry
      BY <2>1, <2>3 DEF ChainOfData
    <3>2. /\ own2[data[d].array] = d /\ before2[data[d].array] = 0 /\ own2[last[d]] = d
          /\ before2[last[d]] = before[last[d]] /\ array'[last[d]] = array[last[d]]
      BY <1>1, <3>1
    <3> QED BY <2>3, <3>1, <3>2 DEF ChainOfData, SameObjects
  <2> QED BY <2>2, <2>3
<1>4. ASSUME NEW d \in DOMAIN data, Ready(before, last, d) PROVE Ready(before2, last, d)'
  <2>1. CASE data[d].array = 0
    <3>1. data[d].n <= 1 /\ data[d].n \in Nat
      BY <2>1, RowTypes DEF Rows, ChainOfData
    <3> QED BY <2>1, <3>1 DEF Ready, SameObjects
  <2>2. CASE data[d].array # 0
    <3>1. last[d] \in DOMAIN array
      BY <2>2 DEF Rows, ChainOfData
    <3>2. before2[last[d]] = before[last[d]]
      BY <1>1, <3>1
    <3> QED BY <1>4, <3>2 DEF Ready, SameObjects
  <2> QED BY <2>1, <2>2
<1>5. Witness(own2, before2, last, post)'
  BY <1>0, <1>1 DEF Witness, SameObjects
<1>6. Rows(own2, before2, last, post)'
  BY <1>2, <1>3, <1>5 DEF Rows, SameObjects
<1> QED BY <1>4, <1>6 DEF own2, before2

(***************************************************************************)
(* A store to an array that is in no chain of a DATA object.               *)
(***************************************************************************)
LEMMA RowsStore ==
  ASSUME TypeOK, NEW own, NEW before, NEW last, NEW post, Rows(own, before, last, post),
         NEW x \in DOMAIN array, own[x] \notin DOMAIN data, DOMAIN array' = DOMAIN array,
         \A a \in DOMAIN array : a # x => array'[a] = array[a], SameObjects
  PROVE  /\ Rows(own, before, last, post)'
         /\ \A d \in DOMAIN data : Ready(before, last, d) => Ready(before, last, d)'
<1>1. Witness(own, before, last, post)'
  BY DEF Rows, Witness, SameObjects
<1>2. ASSUME NEW a \in DOMAIN array PROVE ArrayInChain(own, before, last, post, a)'
  <2>1. CASE own[a] \in DOMAIN data
    <3>1. array'[a] = array[a]
      BY <2>1
    <3>2. ArrayInChain(own, before, last, post, a)
      BY DEF Rows
    <3> QED BY <2>1, <3>1, <3>2 DEF ArrayInChain, SameObjects
  <2>2. CASE own[a] \notin DOMAIN data
    BY <2>2 DEF ArrayInChain, SameObjects
  <2> QED BY <2>1, <2>2
<1>3. ASSUME NEW d \in DOMAIN data PROVE ChainOfData(own, before, last, post, d)'
  <2>1. ChainOfData(own, before, last, post, d)
    BY DEF Rows
  <2>2. CASE data[d].array = 0
    BY <2>1, <2>2 DEF ChainOfData, SameObjects
  <2>3. CASE data[d].array # 0
    <3>1. last[d] # x
      BY <2>1, <2>3 DEF ChainOfData
    <3>2. array'[last[d]] = array[last[d]]
      BY <2>1, <2>3, <3>1 DEF ChainOfData
    <3> QED BY <2>1, <2>3, <3>2 DEF ChainOfData, SameObjects
  <2> QED BY <2>2, <2>3
<1>4. \A d \in DOMAIN data : Ready(before, last, d) => Ready(before, last, d)'
  BY DEF Ready, SameObjects
<1> QED BY <1>1, <1>2, <1>3, <1>4 DEF Rows, SameObjects

(***************************************************************************)
(* A store to the first slot behind the counted postings of d.             *)
(***************************************************************************)
LEMMA RowsSlot ==
  ASSUME TypeOK, NEW own, NEW before, NEW last, NEW post, Rows(own, before, last, post),
         NEW d \in DOMAIN data, NEW i \in Nat, NEW v \in Nat, data[d].array # 0,
         i < Len(array[last[d]].slots), before[last[d]] + i + 1 = data[d].n,
         array' = [array EXCEPT ![last[d]].slots[i + 1] = v], SameObjects
  PROVE  /\ Rows(own, before, last, post)'
         /\ \A c \in DOMAIN data : Ready(before, last, c) => Ready(before, last, c)'
         /\ Len(array'[last[d]].slots) = Len(array[last[d]].slots)
         /\ array'[last[d]].slots[i + 1] = v
<1>0. /\ own \in [DOMAIN array -> DOMAIN data \cup {0, Loose}] /\ before \in [DOMAIN array -> Nat]
  BY DEF Rows, Witness
<1>1. PICK x \in DOMAIN array : x = last[d] /\ own[x] = d
  BY DEF Rows, ChainOfData
<1>2. array[x] \in ArrayObject /\ array \in [DOMAIN array -> ArrayObject]
  BY RowTypes, FiniteArrays
<1>3. /\ DOMAIN array' = DOMAIN array
      /\ \A a \in DOMAIN array : a # x => array'[a] = array[a]
      /\ array'[x].next = array[x].next
      /\ array'[x].slots = [array[x].slots EXCEPT ![i + 1] = v]
  BY <1>1, <1>2 DEF ArrayObject
<1>4. /\ Len(array'[x].slots) = Len(array[x].slots) /\ array'[x].slots[i + 1] = v
      /\ \A j \in 1..Len(array[x].slots) : j # i + 1 => array'[x].slots[j] = array[x].slots[j]
  <2>1. PICK p \in Seq(Nat) : p = array[x].slots
    BY <1>2 DEF ArrayObject
  <2>2. /\ Len([p EXCEPT ![i + 1] = v]) = Len(p)
        /\ \A j \in 1..Len(p) : j # i + 1 => [p EXCEPT ![i + 1] = v][j] = p[j]
        /\ i + 1 \in 1..Len(p) => [p EXCEPT ![i + 1] = v][i + 1] = v
    OBVIOUS
  <2>3. i + 1 \in 1..Len(p)
    BY <1>1, <2>1
  <2> QED BY <1>3, <2>1, <2>2, <2>3
<1>5. ASSUME NEW a \in DOMAIN array PROVE ArrayInChain(own, before, last, post, a)'
  <2>0. ArrayInChain(own, before, last, post, a)
    BY DEF Rows
  <2>1. CASE a # x
    BY <1>3, <2>0, <2>1 DEF ArrayInChain, SameObjects
  <2>2. CASE a = x
    <3>1. /\ Len(array[x].slots) > 0 /\ array[x].next = 0
          /\ \A j \in 1..Len(array[x].slots) :
               before[x] + j < Len(post[d]) => array[x].slots[j] = post[d][before[x] + j + 1]
      BY <1>1, <2>0, <2>2 DEF ArrayInChain
    <3>2. ASSUME NEW j \in 1..Len(array[x].slots), before[x] + j < Len(post[d])
          PROVE  array'[x].slots[j] = post[d][before[x] + j + 1]
      <4>1. Len(post[d]) = data[d].n /\ before[x] \in Nat
        BY <1>0 DEF Rows, ChainOfData
      <4>2. Len(array[x].slots) \in Nat
        BY RowTypes
      <4>3. j # i + 1
        BY <1>1, <3>2, <4>1, <4>2
      <4> QED BY <1>4, <3>1, <3>2, <4>3
    <3>3. /\ own[a] = d /\ a = last[own[a]] /\ Len(array'[a].slots) > 0 /\ array'[a].next = 0
          /\ Len(array'[a].slots) = Len(array[a].slots)
      BY <1>1, <1>3, <1>4, <2>2, <3>1
    <3>4. \A j \in 1..Len(array'[a].slots) :
            before[a] + j < Len(post[own[a]]) => array'[a].slots[j] = post[own[a]][before[a] + j + 1]
      BY ONLY <2>2, <3>2, <3>3
    <3> QED BY ONLY <3>3, <3>4 DEF ArrayInChain
  <2> QED BY <2>1, <2>2
<1>6. ASSUME NEW c \in DOMAIN data PROVE ChainOfData(own, before, last, post, c)'
  <2>1. ChainOfData(own, before, last, post, c)
    BY DEF Rows
  <2>2. CASE data[c].array = 0
    BY <1>3, <2>1, <2>2 DEF ChainOfData, SameObjects
  <2>3. CASE data[c].array # 0
    <3>1. last[c] \in DOMAIN array
      BY <2>1, <2>3 DEF ChainOfData
    <3>2. Len(array'[last[c]].slots) = Len(array[last[c]].slots)
      BY <1>3, <1>4, <3>1
    <3> QED BY <1>3, <2>1, <2>3, <3>2 DEF ChainOfData, SameObjects
  <2> QED BY <2>2, <2>3
<1>7. \A c \in DOMAIN data : Ready(before, last, c) => Ready(before, last, c)'
  BY DEF Ready, SameObjects
<1>8. Witness(own, before, last, post)'
  BY <1>3 DEF Rows, Witness, SameObjects
<1> QED BY <1>1, <1>3, <1>4, <1>5, <1>6, <1>7, <1>8 DEF Rows, SameObjects

\* The last array of the chain of d, which is full, learns of its successor o.
LinksOn(before, last, d, o) ==
  /\ data[d].array # 0 /\ data[d].n = before[last[d]] + Len(array[last[d]].slots) + 1
  /\ array' = [array EXCEPT ![last[d]].next = o] /\ SameObjects

\* The other arrays and DATA objects do not notice.
Extended(own, before, last, d, o, own2, before2, last2) ==
  /\ own2[o] = d /\ last2[d] = o /\ before2[o] = data[d].n - 1 /\ array'[o] = array[o]
  /\ \A a \in DOMAIN array : a # o => own2[a] = own[a]
  /\ \A c \in DOMAIN data : c # d /\ Ready(before, last, c) => Ready(before2, last2, c)'

(***************************************************************************)
(* The old tail of the chain of d, which is full, links to a new array.    *)
(***************************************************************************)
LEMMA RowsLink ==
  ASSUME TypeOK, NEW own, NEW before, NEW last, NEW post, Rows(own, before, last, post),
         NEW d \in DOMAIN data, NEW o, Unchained(own, o), LinksOn(before, last, d, o),
         NEW own2, NEW before2, NEW last2, NEW n, n = data[d].n - 1,
         Longer(own, before, last, d, o, n, own2, before2, last2)
  PROVE  Rows(own2, before2, last2, post)' /\ Extended(own, before, last, d, o, own2, before2, last2)
<1> /\ own2 = [own EXCEPT ![o] = d] /\ before2 = [before EXCEPT ![o] = data[d].n - 1]
    /\ last2 = [last EXCEPT ![d] = o] /\ data[d].array # 0
    /\ data[d].n = before[last[d]] + Len(array[last[d]].slots) + 1
    /\ array' = [array EXCEPT ![last[d]].next = o] /\ SameObjects
  BY DEF Longer, LinksOn
<1>0. /\ own \in [DOMAIN array -> DOMAIN data \cup {0, Loose}] /\ before \in [DOMAIN array -> Nat]
      /\ last \in [DOMAIN data -> Nat] /\ post \in [DOMAIN data -> Seq(Nat)]
      /\ \A a \in DOMAIN array : ArrayInChain(own, before, last, post, a)
      /\ \A c \in DOMAIN data : ChainOfData(own, before, last, post, c)
  BY DEF Rows, Witness
<1>1. /\ o \in DOMAIN array /\ own[o] = Loose /\ array[o].next = 0 /\ Len(array[o].slots) > 0
      /\ o \in Nat /\ Loose \notin DOMAIN data /\ data[d].n \in Nat
  BY RowTypes, FiniteArrays DEF Unchained
<1>2. PICK x \in DOMAIN array : x = last[d] /\ own[x] = d
  BY <1>0 DEF ChainOfData
<1>3. x # o /\ before[x] \in Nat /\ Len(array[x].slots) \in Nat /\ Len(array[o].slots) \in Nat
  BY <1>0, <1>1, <1>2, RowTypes
<1>4. PICK m \in Nat : m = data[d].n - 1 /\ m = before[x] + Len(array[x].slots)
  <2>1. PICK b \in Nat, l \in Nat, c \in Nat :
          b = before[x] /\ l = Len(array[x].slots) /\ c = data[d].n
    BY <1>1, <1>3
  <2>2. c = b + l + 1
    BY <1>2, <2>1
  <2>3. c - 1 \in Nat /\ c - 1 = b + l
    BY ONLY b \in Nat, l \in Nat, c \in Nat, <2>2
  <2> QED BY <2>1, <2>3
<1>5. /\ own2 \in [DOMAIN array -> DOMAIN data \cup {0, Loose}] /\ before2 \in [DOMAIN array -> Nat]
      /\ last2 \in [DOMAIN data -> Nat] /\ own2[o] = d /\ before2[o] = m /\ last2[d] = o
      /\ \A a \in DOMAIN array : a # o => own2[a] = own[a] /\ before2[a] = before[a]
      /\ \A c \in DOMAIN data : c # d => last2[c] = last[c]
  BY <1>0, <1>1, <1>4
<1>6. /\ DOMAIN array' = DOMAIN array
      /\ \A a \in DOMAIN array : array'[a].slots = array[a].slots
      /\ \A a \in DOMAIN array : a # x => array'[a] = array[a]
      /\ array'[x].next = o
  <2>1. \A a \in DOMAIN array : array[a] \in ArrayObject
    BY RowTypes
  <2> QED BY <1>2, <2>1 DEF ArrayObject
<1>7. \A c \in DOMAIN data : data[c].array # 0 =>
        /\ last[c] \in DOMAIN array /\ own[last[c]] = c /\ last[c] # o
        /\ data[c].array \in DOMAIN array /\ data[c].array # o
  <2> TAKE c \in DOMAIN data
  <2>1. data[c].array # 0 => /\ last[c] \in DOMAIN array /\ own[last[c]] = c
                             /\ data[c].array \in DOMAIN array /\ own[data[c].array] = c
    BY <1>0 DEF ChainOfData
  <2> QED BY <1>1, <2>1
<1>8. ASSUME NEW a \in DOMAIN array PROVE ArrayInChain(own2, before2, last2, post, a)'
  <2>1. CASE a = o
    <3>1. own2[a] = d /\ a = last2[own2[a]] /\ before2[a] = m /\ array'[a] = array[a]
      BY <1>3, <1>5, <1>6, <2>1
    <3>a. Len(post[d]) = data[d].n
      BY <1>0 DEF ChainOfData
    <3>2. Len(post[d]) = m + 1
      BY ONLY <3>a, <1>1, <1>4
    <3>3. \A j \in 1..Len(array'[a].slots) : ~(before2[a] + j < Len(post[own2[a]]))
      BY ONLY <1>3, <2>1, <3>1, <3>2, m \in Nat
    <3> QED BY <1>1, <2>1, <3>1, <3>3 DEF ArrayInChain
  <2>2. CASE a # o /\ own[a] \in DOMAIN data
    <3>1. own2[a] = own[a] /\ before2[a] = before[a] /\ array'[a].slots = array[a].slots
      BY <1>5, <1>6, <2>2
    <3>2. /\ Len(array[a].slots) > 0
          /\ a = last[own[a]] => array[a].next = 0
          /\ a # last[own[a]] =>
               /\ array[a].next \in DOMAIN array /\ own[array[a].next] = own[a]
               /\ before[array[a].next] = before[a] + Len(array[a].slots)
               /\ before[a] + Len(array[a].slots) <= before[last[own[a]]]
          /\ \A j \in 1..Len(array[a].slots) :
               before[a] + j < Len(post[own[a]]) => array[a].slots[j] = post[own[a]][before[a] + j + 1]
      BY <1>0, <2>2 DEF ArrayInChain
    <3>3. CASE a = x
      <4>1. /\ a # last2[own2[a]] /\ array'[a].next = o /\ own2[o] = own2[a]
            /\ before2[o] = before2[a] + Len(array'[a].slots) /\ last2[own2[a]] = o
        BY <1>2, <1>3, <1>4, <1>5, <1>6, <3>1, <3>3
      <4>2. before2[a] + Len(array'[a].slots) <= before2[last2[own2[a]]]
        BY <4>1, <1>5
      <4>3. own2[a] = own[a] /\ DOMAIN array' = DOMAIN array /\ DOMAIN data' = DOMAIN data
        BY <1>6, <3>1 DEF SameObjects
      <4> QED BY ONLY <1>1, <3>1, <3>2, <4>1, <4>2, <4>3 DEF ArrayInChain
    <3>4. CASE a # x
      <4>1. array'[a] = array[a]
        BY <1>6, <3>4
      <4>2. CASE own[a] = d
        <5>1. a # last[own[a]] /\ array[a].next # o /\ last2[own2[a]] = o /\ a # last2[own2[a]]
          BY <1>1, <1>2, <1>5, <2>2, <3>1, <3>2, <3>4, <4>2
        <5>2. /\ own2[array[a].next] = own2[a]
              /\ before2[array[a].next] = before2[a] + Len(array[a].slots)
          BY <1>5, <3>1, <3>2, <5>1
        <5>3. before[a] + Len(array[a].slots) <= before[x]
          BY <1>2, <3>2, <4>2, <5>1
        <5>4. before2[a] + Len(array[a].slots) <= before2[o]
          <6>1. before[a] \in Nat /\ Len(array[a].slots) \in Nat
            BY <1>0, RowTypes
          <6>2. before[a] + Len(array[a].slots) <= m
            BY ONLY <1>3, <1>4, <5>3, <6>1
          <6>3. before2[o] = m /\ before2[a] = before[a]
            BY <1>5, <3>1
          <6>4. m \in Nat
            OBVIOUS
          <6> QED BY ONLY <6>1, <6>2, <6>3, <6>4
        <5>5. /\ array'[a].next \in DOMAIN array' /\ own2[array'[a].next] = own2[a]
              /\ before2[array'[a].next] = before2[a] + Len(array'[a].slots)
              /\ before2[a] + Len(array'[a].slots) <= before2[last2[own2[a]]]
              /\ a # last2[own2[a]]
          BY <1>6, <3>2, <4>1, <5>1, <5>2, <5>4
        <5>6. \A j \in 1..Len(array'[a].slots) : before2[a] + j < Len(post[own2[a]]) =>
                array'[a].slots[j] = post[own2[a]][before2[a] + j + 1]
          BY <3>1, <3>2, <4>1
        <5> QED BY ONLY <3>2, <4>1, <5>5, <5>6 DEF ArrayInChain
      <4>3. CASE own[a] # d
        <5>1. last2[own2[a]] = last[own[a]]
          BY <1>5, <2>2, <3>1, <4>3
        <5>2. data[own[a]].array # 0
          BY <1>0, <2>2 DEF ChainOfData
        <5>3. before2[last2[own2[a]]] = before[last[own[a]]]
          BY <1>5, <1>7, <2>2, <5>1, <5>2
        <5>4. a # last[own[a]] => /\ array[a].next # o /\ own2[array[a].next] = own2[a]
                                  /\ before2[array[a].next] = before2[a] + Len(array[a].slots)
          <6> SUFFICES ASSUME a # last[own[a]]
                       PROVE  /\ array[a].next # o /\ own2[array[a].next] = own2[a]
                              /\ before2[array[a].next] = before2[a] + Len(array[a].slots)
            OBVIOUS
          <6>1. array[a].next # o
            BY <1>1, <2>2, <3>2
          <6> QED BY <1>5, <3>1, <3>2, <6>1
        <5>5. a = last2[own2[a]] => array'[a].next = 0
          BY <3>2, <4>1, <5>1
        <5>6. a # last2[own2[a]] =>
                /\ array'[a].next \in DOMAIN array' /\ own2[array'[a].next] = own2[a]
                /\ before2[array'[a].next] = before2[a] + Len(array'[a].slots)
                /\ before2[a] + Len(array'[a].slots) <= before2[last2[own2[a]]]
          BY <1>6, <3>1, <3>2, <4>1, <5>1, <5>3, <5>4
        <5>7. own2[a] = own[a] /\ Len(array'[a].slots) > 0
          BY <3>1, <3>2
        <5>8. \A j \in 1..Len(array'[a].slots) : before2[a] + j < Len(post[own2[a]]) =>
                array'[a].slots[j] = post[own2[a]][before2[a] + j + 1]
          BY <3>1, <3>2
        <5> QED BY ONLY <5>5, <5>6, <5>7, <5>8 DEF ArrayInChain
      <4> QED BY <4>2, <4>3
    <3> QED BY <3>3, <3>4
  <2>3. CASE a # o /\ own[a] \notin DOMAIN data
    BY <1>5, <2>3 DEF ArrayInChain, SameObjects
  <2> QED BY <2>1, <2>2, <2>3
<1>9. ASSUME NEW c \in DOMAIN data PROVE ChainOfData(own2, before2, last2, post, c)'
  <2>0. ChainOfData(own, before, last, post, c)
    BY <1>0
  <2>1. CASE c = d
    <3>1. /\ own2[data[d].array] = d /\ before2[data[d].array] = 0 /\ data[d].array \in DOMAIN array
      BY <1>5, <1>7, <2>0, <2>1 DEF ChainOfData
    <3>a. array'[o] = array[o] /\ before2[o] = m
      BY <1>1, <1>3, <1>5, <1>6
    <3>b. data[d].n <= m + Len(array[o].slots) + 1
      <4>1. PICK k \in Nat, l \in Nat : k = data[d].n /\ l = Len(array[o].slots)
        BY <1>1, <1>3
      <4>2. m = k - 1
        BY <1>4, <4>1
      <4>3. k <= m + l + 1
        BY ONLY k \in Nat, l \in Nat, <4>2
      <4> QED BY <4>1, <4>3
    <3>2. array'[o] = array[o] /\ data[d].n <= before2[o] + Len(array'[o].slots) + 1
      BY <3>a, <3>b
    <3>3. data[d].n >= 1 /\ Len(post[d]) = data[d].n /\ (data[d].n > 0 => post[d][1] = data[d].entry)
      BY <2>0, <2>1 DEF ChainOfData
    <3> QED BY <1>1, <1>5, <1>6, <2>1, <3>1, <3>2, <3>3 DEF ChainOfData, SameObjects
  <2>2. CASE c # d /\ data[c].array = 0
    BY <1>5, <1>6, <2>0, <2>2 DEF ChainOfData, SameObjects
  <2>3. CASE c # d /\ data[c].array # 0
    <3>1. /\ data[c].array \in DOMAIN array /\ own[data[c].array] = c
          /\ before[data[c].array] = 0 /\ last[c] \in DOMAIN array /\ own[last[c]] = c
          /\ data[c].n >= 1 /\ data[c].n <= before[last[c]] + Len(array[last[c]].slots) + 1
          /\ Len(post[c]) = data[c].n
          /\ data[c].n > 0 => post[c][1] = data[c].entry
      BY <2>0, <2>3 DEF ChainOfData
    <3>2. /\ own2[data[c].array] = c /\ before2[data[c].array] = 0 /\ own2[last[c]] = c
          /\ before2[last[c]] = before[last[c]] /\ array'[last[c]].slots = array[last[c]].slots
          /\ last2[c] = last[c]
      BY <1>5, <1>6, <1>7, <2>3, <3>1
    <3> QED BY <1>6, <2>3, <3>1, <3>2 DEF ChainOfData, SameObjects
  <2> QED BY <2>1, <2>2, <2>3
<1>10. ASSUME NEW c \in DOMAIN data, c # d, Ready(before, last, c) PROVE Ready(before2, last2, c)'
  <2>1. last2[c] = last[c]
    BY <1>5, <1>10
  <2>2. data[c].n >= 2 => before2[last[c]] = before[last[c]]
    <3> SUFFICES ASSUME data[c].n >= 2 PROVE before2[last[c]] = before[last[c]]
      OBVIOUS
    <3>1. /\ data[c].n \in Nat /\ (data[c].array = 0 => data[c].n <= 1)
          /\ data[c].array # 0 => last[c] \in DOMAIN array /\ own[last[c]] = c
      BY ONLY <1>0, TypeOK, c \in DOMAIN data, RowTypes DEF ChainOfData
    <3>2. data[c].array # 0
      BY ONLY data[c].n >= 2, <3>1
    <3> QED BY <1>5, <1>7, <1>10, <3>1, <3>2
  <2> QED BY <1>10, <2>1, <2>2 DEF Ready, SameObjects
<1>11. Witness(own2, before2, last2, post)'
  BY <1>0, <1>5, <1>6 DEF Witness, SameObjects
<1>12. Rows(own2, before2, last2, post)'
  BY <1>6, <1>8, <1>9, <1>11 DEF Rows, SameObjects
<1>13. before2[o] = data[d].n - 1 /\ array'[o] = array[o] /\ own2[o] = d /\ last2[d] = o
  BY <1>1, <1>3, <1>4, <1>5, <1>6
<1>14. \A a \in DOMAIN array : a # o => own2[a] = own[a]
  BY <1>5
<1> QED BY <1>10, <1>12, <1>13, <1>14 DEF Extended


(***************************************************************************)
(* The first array of d.                                                   *)
(***************************************************************************)
LEMMA RowsFirst ==
  ASSUME TypeOK, NEW own, NEW before, NEW last, NEW post, Rows(own, before, last, post),
         NEW d \in DOMAIN data, NEW o, Unchained(own, o), data[d].array = 0, data[d].n = 1,
         array' = array, data' = [data EXCEPT ![d].array = o],
         NEW own2, NEW before2, NEW last2,
         Longer(own, before, last, d, o, 0, own2, before2, last2)
  PROVE  /\ Rows(own2, before2, last2, post)' /\ last2[d] = o /\ before2[o] = 0
         /\ DOMAIN data' = DOMAIN data /\ data'[d].array = o /\ data'[d].n = data[d].n
         /\ \A a \in DOMAIN array : a # o => own2[a] = own[a]
         /\ \A c \in DOMAIN data : c # d /\ Ready(before, last, c) => Ready(before2, last2, c)'
<1> own2 = [own EXCEPT ![o] = d] /\ before2 = [before EXCEPT ![o] = 0]
    /\ last2 = [last EXCEPT ![d] = o]
  BY DEF Longer
<1>0. /\ own \in [DOMAIN array -> DOMAIN data \cup {0, Loose}] /\ before \in [DOMAIN array -> Nat]
      /\ last \in [DOMAIN data -> Nat] /\ post \in [DOMAIN data -> Seq(Nat)]
      /\ \A a \in DOMAIN array : ArrayInChain(own, before, last, post, a)
      /\ \A c \in DOMAIN data : ChainOfData(own, before, last, post, c)
  BY DEF Rows, Witness
<1>1. /\ o \in DOMAIN array /\ own[o] = Loose /\ array[o].next = 0 /\ Len(array[o].slots) > 0
      /\ o \in Nat /\ Loose \notin DOMAIN data /\ o # 0 /\ Len(array[o].slots) \in Nat
  BY RowTypes, FiniteArrays DEF Unchained
<1>5. /\ own2 \in [DOMAIN array -> DOMAIN data \cup {0, Loose}] /\ before2 \in [DOMAIN array -> Nat]
      /\ last2 \in [DOMAIN data -> Nat] /\ own2[o] = d /\ before2[o] = 0 /\ last2[d] = o
      /\ \A a \in DOMAIN array : a # o => own2[a] = own[a] /\ before2[a] = before[a]
      /\ \A c \in DOMAIN data : c # d => last2[c] = last[c]
  BY <1>0, <1>1
<1>6. /\ DOMAIN data' = DOMAIN data /\ data'[d].array = o /\ data'[d].n = data[d].n
      /\ data'[d].entry = data[d].entry
      /\ \A c \in DOMAIN data : c # d => data'[c] = data[c]
  <2>1. data[d] \in DataObject
    BY RowTypes
  <2> QED BY <2>1 DEF DataObject
<1>7. \A c \in DOMAIN data : data[c].array # 0 =>
        /\ last[c] \in DOMAIN array /\ own[last[c]] = c /\ last[c] # o
        /\ data[c].array \in DOMAIN array /\ data[c].array # o
  <2> TAKE c \in DOMAIN data
  <2>1. data[c].array # 0 => /\ last[c] \in DOMAIN array /\ own[last[c]] = c
                             /\ data[c].array \in DOMAIN array /\ own[data[c].array] = c
    BY <1>0 DEF ChainOfData
  <2> QED BY <1>1, <2>1
<1>2. Len(post[d]) = 1 /\ post[d][1] = data[d].entry /\ \A a \in DOMAIN array : own[a] # d
  <2>1. /\ Len(post[d]) = data[d].n /\ (data[d].n > 0 => post[d][1] = data[d].entry)
        /\ \A a \in DOMAIN array : own[a] # d
    BY <1>0 DEF ChainOfData
  <2>2. 1 > 0
    OBVIOUS
  <2> QED BY <2>1, <2>2
<1>8. ASSUME NEW a \in DOMAIN array PROVE ArrayInChain(own2, before2, last2, post, a)'
  <2>1. CASE a = o
    <3>1. own2[a] = d /\ a = last2[own2[a]] /\ before2[a] = 0
      BY <1>5, <2>1
    <3>2. \A j \in 1..Len(array[a].slots) : ~(before2[a] + j < Len(post[own2[a]]))
      <4>1. PICK k : k = Len(array[a].slots)
        OBVIOUS
      <4>2. k \in Nat
        BY <1>1, <2>1, <4>1
      <4>3. \A j \in 1..k : ~(0 + j < 1)
        BY ONLY <4>2
      <4> QED BY <1>2, <3>1, <4>1, <4>3
    <3> QED BY <1>1, <2>1, <3>1, <3>2 DEF ArrayInChain
  <2>2. CASE a # o /\ own[a] \in DOMAIN data
    <3>1. own2[a] = own[a] /\ before2[a] = before[a] /\ own[a] # d
      BY <1>2, <1>5, <2>2
    <3>2. /\ Len(array[a].slots) > 0
          /\ a = last[own[a]] => array[a].next = 0
          /\ a # last[own[a]] =>
               /\ array[a].next \in DOMAIN array /\ own[array[a].next] = own[a]
               /\ before[array[a].next] = before[a] + Len(array[a].slots)
               /\ before[a] + Len(array[a].slots) <= before[last[own[a]]]
          /\ \A j \in 1..Len(array[a].slots) :
               before[a] + j < Len(post[own[a]]) => array[a].slots[j] = post[own[a]][before[a] + j + 1]
      BY <1>0, <2>2 DEF ArrayInChain
    <3>3. last2[own2[a]] = last[own[a]]
      BY <1>5, <2>2, <3>1
    <3>4. data[own[a]].array # 0
      BY <1>0, <2>2 DEF ChainOfData
    <3>5. before2[last2[own2[a]]] = before[last[own[a]]]
      BY <1>5, <1>7, <2>2, <3>3, <3>4
    <3>6. a # last[own[a]] => /\ array[a].next # o /\ own2[array[a].next] = own2[a]
                              /\ before2[array[a].next] = before2[a] + Len(array[a].slots)
      <4> SUFFICES ASSUME a # last[own[a]]
                   PROVE  /\ array[a].next # o /\ own2[array[a].next] = own2[a]
                          /\ before2[array[a].next] = before2[a] + Len(array[a].slots)
        OBVIOUS
      <4>1. array[a].next # o
        BY <1>1, <2>2, <3>2
      <4> QED BY <1>5, <3>1, <3>2, <4>1
    <3>7. a # last2[own2[a]] =>
            /\ array[a].next \in DOMAIN array /\ own2[array[a].next] = own2[a]
            /\ before2[array[a].next] = before2[a] + Len(array[a].slots)
            /\ before2[a] + Len(array[a].slots) <= before2[last2[own2[a]]]
      BY <3>1, <3>2, <3>3, <3>5, <3>6
    <3> QED BY <3>1, <3>2, <3>3, <3>7 DEF ArrayInChain
  <2>3. CASE a # o /\ own[a] \notin DOMAIN data
    BY <1>5, <1>6, <2>3 DEF ArrayInChain
  <2> QED BY <2>1, <2>2, <2>3
<1>9. ASSUME NEW c \in DOMAIN data PROVE ChainOfData(own2, before2, last2, post, c)'
  <2>0. ChainOfData(own, before, last, post, c)
    BY <1>0
  <2>1. CASE c = d
    <3>1. 1 <= before2[o] + Len(array[o].slots) + 1
      <4>1. PICK k \in Nat : k = Len(array[o].slots)
        BY <1>1
      <4>2. 1 <= 0 + k + 1
        BY ONLY k \in Nat
      <4> QED BY <1>5, <4>1, <4>2
    <3>2. /\ data'[c].array # 0 /\ data'[c].array \in DOMAIN array' /\ own2[data'[c].array] = c
          /\ before2[data'[c].array] = 0 /\ last2[c] \in DOMAIN array' /\ own2[last2[c]] = c
          /\ data'[c].n = 1 /\ post[c][1] = data'[c].entry /\ Len(post[c]) = data'[c].n
      BY <1>1, <1>2, <1>5, <1>6, <2>1
    <3>3. data'[c].n <= before2[last2[c]] + Len(array'[last2[c]].slots) + 1
      BY <1>5, <2>1, <3>1, <3>2
    <3>4. 1 >= 1
      OBVIOUS
    <3> QED BY ONLY <3>2, <3>3, <3>4 DEF ChainOfData
  <2>2. CASE c # d /\ data[c].array = 0
    BY <1>5, <1>6, <2>0, <2>2 DEF ChainOfData
  <2>3. CASE c # d /\ data[c].array # 0
    <3>1. /\ data[c].array \in DOMAIN array /\ own[data[c].array] = c
          /\ before[data[c].array] = 0 /\ last[c] \in DOMAIN array /\ own[last[c]] = c
          /\ data[c].n >= 1 /\ data[c].n <= before[last[c]] + Len(array[last[c]].slots) + 1
          /\ Len(post[c]) = data[c].n
          /\ data[c].n > 0 => post[c][1] = data[c].entry
      BY <2>0, <2>3 DEF ChainOfData
    <3>2. /\ own2[data[c].array] = c /\ before2[data[c].array] = 0 /\ own2[last[c]] = c
          /\ before2[last[c]] = before[last[c]] /\ last2[c] = last[c]
      BY <1>5, <1>7, <2>3, <3>1
    <3> QED BY <1>6, <2>3, <3>1, <3>2 DEF ChainOfData
  <2> QED BY <2>1, <2>2, <2>3
<1>10. ASSUME NEW c \in DOMAIN data, c # d, Ready(before, last, c) PROVE Ready(before2, last2, c)'
  <2>1. last2[c] = last[c] /\ data'[c] = data[c]
    BY <1>5, <1>6, <1>10
  <2>2. data[c].n >= 2 => before2[last[c]] = before[last[c]]
    <3> SUFFICES ASSUME data[c].n >= 2 PROVE before2[last[c]] = before[last[c]]
      OBVIOUS
    <3>1. data[c].array # 0
      BY <1>0, RowTypes DEF ChainOfData
    <3> QED BY <1>5, <1>7, <3>1
  <2> QED BY <1>10, <2>1, <2>2 DEF Ready
<1>11. Witness(own2, before2, last2, post)'
  BY <1>0, <1>5, <1>6 DEF Witness
<1>12. Rows(own2, before2, last2, post)'
  BY <1>6, <1>8, <1>9, <1>11 DEF Rows
<1>14. \A a \in DOMAIN array : a # o => own2[a] = own[a]
  BY <1>5
<1> QED BY <1>5, <1>6, <1>10, <1>12, <1>14

(***************************************************************************)
(* The count of d takes in the posting that was stored behind the others.  *)
(***************************************************************************)
LEMMA RowsCount ==
  ASSUME TypeOK, NEW own, NEW before, NEW last, NEW post, Rows(own, before, last, post),
         NEW d \in DOMAIN data, NEW e \in Nat, NEW i \in Nat, array' = array,
         data' = [data EXCEPT ![d].n = data[d].n + 1],
         \/ data[d].n = 0 /\ data[d].array = 0 /\ data[d].entry = e
         \/ /\ data[d].n >= 1 /\ data[d].array # 0 /\ i < Len(array[last[d]].slots)
            /\ before[last[d]] + i + 1 = data[d].n /\ array[last[d]].slots[i + 1] = e
            /\ Compact => data[d].tail = last[d] /\ data[d].tail_n = i + 1,
         NEW post2, post2 = [post EXCEPT ![d] = Append(post[d], e)]
  PROVE  /\ Rows(own, before, last, post2)' /\ DOMAIN data' = DOMAIN data
         /\ Ready(before, last, d)'
         /\ \A c \in DOMAIN data : c # d /\ Ready(before, last, c) => Ready(before, last, c)'
<1>0. /\ own \in [DOMAIN array -> DOMAIN data \cup {0, Loose}] /\ before \in [DOMAIN array -> Nat]
      /\ last \in [DOMAIN data -> Nat] /\ post \in [DOMAIN data -> Seq(Nat)]
      /\ \A a \in DOMAIN array : ArrayInChain(own, before, last, post, a)
      /\ \A c \in DOMAIN data : ChainOfData(own, before, last, post, c)
  BY DEF Rows, Witness
<1>1. /\ DOMAIN data' = DOMAIN data /\ data'[d].array = data[d].array
      /\ data'[d].n = data[d].n + 1 /\ data'[d].entry = data[d].entry
      /\ data'[d].tail = data[d].tail /\ data'[d].tail_n = data[d].tail_n
      /\ \A c \in DOMAIN data : c # d => data'[c] = data[c]
  <2>1. data[d] \in DataObject
    BY RowTypes
  <2> QED BY <2>1 DEF DataObject
<1>2. PICK n \in Nat : n = data[d].n
  BY RowTypes
<1>3. Len(post[d]) = n /\ (n > 0 => post[d][1] = data[d].entry)
  BY <1>0, <1>2 DEF ChainOfData
<1>4. /\ post2 \in [DOMAIN data -> Seq(Nat)] /\ \A c \in DOMAIN data : c # d => post2[c] = post[c]
      /\ Len(post2[d]) = n + 1 /\ post2[d][n + 1] = e
      /\ \A k \in 1..n : post2[d][k] = post[d][k]
  <2>1. PICK s \in Seq(Nat) : s = post[d]
    BY <1>0
  <2>2. /\ Append(s, e) \in Seq(Nat) /\ Len(Append(s, e)) = Len(s) + 1
        /\ Append(s, e)[Len(s) + 1] = e /\ \A k \in 1..Len(s) : Append(s, e)[k] = s[k]
    OBVIOUS
  <2>3. post2[d] = Append(s, e)
    BY <1>0, <2>1
  <2>4. post2 \in [DOMAIN data -> Seq(Nat)] /\ \A c \in DOMAIN data : c # d => post2[c] = post[c]
    BY <1>0, <2>1, <2>2
  <2> QED BY <1>3, <2>1, <2>2, <2>3, <2>4
<1>5. ASSUME NEW a \in DOMAIN array PROVE ArrayInChain(own, before, last, post2, a)'
  <2>0. ArrayInChain(own, before, last, post, a)
    BY <1>0
  <2>1. CASE own[a] # d
    BY <1>1, <1>4, <2>0, <2>1 DEF ArrayInChain
  <2>2. CASE own[a] = d
    <3>1. /\ Len(array[a].slots) > 0 /\ (a = last[d] => array[a].next = 0)
          /\ a # last[d] => /\ array[a].next \in DOMAIN array /\ own[array[a].next] = own[a]
                            /\ before[array[a].next] = before[a] + Len(array[a].slots)
                            /\ before[a] + Len(array[a].slots) <= before[last[d]]
          /\ \A j \in 1..Len(array[a].slots) :
               before[a] + j < Len(post[d]) => array[a].slots[j] = post[d][before[a] + j + 1]
      BY <2>0, <2>2 DEF ArrayInChain
    <3>2. data[d].array # 0
      BY <1>0, <2>2 DEF ChainOfData
    <3>3. /\ data[d].n >= 1 /\ i < Len(array[last[d]].slots)
          /\ before[last[d]] + i + 1 = n /\ array[last[d]].slots[i + 1] = e
          /\ last[d] \in DOMAIN array
      BY <1>0, <1>2, <3>2 DEF ChainOfData
    <3>4. before[a] \in Nat /\ before[last[d]] \in Nat /\ Len(array[a].slots) \in Nat
      BY <1>0, <3>3, RowTypes
    <3>5. ASSUME NEW j \in 1..Len(array[a].slots), before[a] + j < n + 1
          PROVE  array[a].slots[j] = post2[d][before[a] + j + 1]
      <4>1. CASE before[a] + j < n
        <5>1. array[a].slots[j] = post[d][before[a] + j + 1]
          BY <1>3, <3>1, <4>1
        <5>2. before[a] + j + 1 \in 1..n
          BY <3>4, <4>1
        <5> QED BY <1>4, <5>1, <5>2
      <4>2. CASE before[a] + j = n
        <5>1. a = last[d]
          <6>1. PICK b \in Nat, l \in Nat, c \in Nat :
                  b = before[a] /\ l = Len(array[a].slots) /\ c = before[last[d]]
            BY <3>4
          <6>2. a # last[d] => b + l <= c
            BY <3>1, <6>1
          <6>3. c + i + 1 = n /\ b + j = n
            BY <3>3, <4>2, <6>1
          <6>a. j \in 1..l
            BY <6>1
          <6>4. ~(b + l <= c)
            BY ONLY b \in Nat, l \in Nat, c \in Nat, i \in Nat, <6>3, <6>a
          <6> QED BY <6>2, <6>4
        <5>2. j = i + 1
          BY <3>3, <3>4, <4>2, <5>1
        <5>3. array[a].slots[j] = e
          BY <3>3, <5>1, <5>2
        <5>4. post2[d][before[a] + j + 1] = e
          BY <1>4, <4>2
        <5> QED BY <5>3, <5>4
      <4>3. before[a] + j < n \/ before[a] + j = n
        <5>1. PICK b \in Nat : b = before[a]
          BY <3>4
        <5>2. PICK k \in Nat : k = Len(array[a].slots)
          BY <3>4
        <5>3. j \in 1..k /\ b + j < n + 1
          BY <3>5, <5>1, <5>2
        <5>4. b + j < n \/ b + j = n
          BY ONLY <5>3, b \in Nat, n \in Nat, k \in Nat
        <5> QED BY <5>1, <5>4
      <4> QED BY <4>1, <4>2, <4>3
    <3>6. \A j \in 1..Len(array'[a].slots) : before[a] + j < Len(post2[own[a]]) =>
            array'[a].slots[j] = post2[own[a]][before[a] + j + 1]
      BY <1>4, <2>2, <3>5
    <3> QED BY ONLY <2>2, <3>1, <3>6, array' = array DEF ArrayInChain
  <2> QED BY <2>1, <2>2
<1>6. ASSUME NEW c \in DOMAIN data PROVE ChainOfData(own, before, last, post2, c)'
  <2>0. ChainOfData(own, before, last, post, c)
    BY <1>0
  <2>1. CASE c # d
    BY <1>1, <1>4, <2>0, <2>1 DEF ChainOfData
  <2>2. CASE c = d /\ n = 0
    <3>1. data[d].array = 0 /\ data[d].entry = e /\ data'[d].n = 1 /\ Len(post2[d]) = 1
          /\ post2[d][1] = e
      BY <1>1, <1>2, <1>4, <2>0, <2>2 DEF ChainOfData
    <3>2. \A a \in DOMAIN array : own[a] # d
      BY <2>0, <2>2, <3>1 DEF ChainOfData
    <3>3. 1 <= 1 /\ 1 > 0
      OBVIOUS
    <3> QED BY <1>1, <2>2, <3>1, <3>2, <3>3 DEF ChainOfData
  <2>3. CASE c = d /\ n # 0
    <3>1. /\ data[d].array # 0 /\ i < Len(array[last[d]].slots) /\ before[last[d]] + i + 1 = n
      BY <1>2, <2>3
    <3>2. /\ data[d].array \in DOMAIN array /\ own[data[d].array] = d
          /\ before[data[d].array] = 0
          /\ last[d] \in DOMAIN array /\ own[last[d]] = d
      BY <2>0, <2>3, <3>1 DEF ChainOfData
    <3>3. before[last[d]] \in Nat /\ Len(array[last[d]].slots) \in Nat
      BY <1>0, <3>2, RowTypes
    <3>4. n + 1 >= 1 /\ n + 1 <= before[last[d]] + Len(array[last[d]].slots) + 1
      <4>1. PICK b \in Nat, k \in Nat : b = before[last[d]] /\ k = Len(array[last[d]].slots)
        BY <3>3
      <4>2. i < k /\ b + i + 1 = n
        BY <3>1, <4>1
      <4>3. n + 1 >= 1 /\ n + 1 <= b + k + 1
        BY ONLY <4>2, b \in Nat, k \in Nat, i \in Nat, n \in Nat
      <4> QED BY <4>1, <4>3
    <3>5. Len(post2[d]) = n + 1 /\ post2[d][1] = data[d].entry
      BY <1>3, <1>4, <2>3
    <3>6. data'[d].n = n + 1
      BY <1>1, <1>2
    <3> QED BY <1>1, <2>3, <3>1, <3>2, <3>4, <3>5, <3>6 DEF ChainOfData
  <2> QED BY <2>1, <2>2, <2>3
<1>7. Ready(before, last, d)'
  <2>1. CASE n = 0
    BY <1>1, <1>2, <2>1 DEF Ready
  <2>2. CASE n # 0
    <3>1. /\ data[d].array # 0 /\ i < Len(array[last[d]].slots) /\ before[last[d]] + i + 1 = n
          /\ Compact => data[d].tail = last[d] /\ data[d].tail_n = i + 1
      BY <1>2, <2>2
    <3>2. last[d] \in DOMAIN array
      BY <1>0, <3>1 DEF ChainOfData
    <3>3. before[last[d]] \in Nat
      BY <1>0, <3>2
    <3>4. data'[d].n = n + 1 /\ ~(n + 1 <= 1) /\ before[last[d]] < n + 1 - 1
          /\ before[last[d]] + (i + 1) = n + 1 - 1
      <4>1. PICK b \in Nat : b = before[last[d]]
        BY <3>3
      <4>2. b + i + 1 = n
        BY <3>1, <4>1
      <4>3. ~(n + 1 <= 1) /\ b < n + 1 - 1 /\ b + (i + 1) = n + 1 - 1
        BY ONLY <4>2, b \in Nat, i \in Nat, n \in Nat
      <4> QED BY <1>1, <1>2, <4>1, <4>3
    <3> QED BY <1>1, <3>1, <3>4 DEF Ready
  <2> QED BY <2>1, <2>2
<1>8. \A c \in DOMAIN data : c # d /\ Ready(before, last, c) => Ready(before, last, c)'
  BY <1>1 DEF Ready
<1>9. Witness(own, before, last, post2)'
  BY <1>0, <1>1, <1>4 DEF Witness
<1> QED BY <1>1, <1>5, <1>6, <1>7, <1>8, <1>9 DEF Rows

(***************************************************************************)
(* The inline posting of a DATA object that has none yet.                  *)
(***************************************************************************)
LEMMA RowsInline ==
  ASSUME TypeOK, NEW own, NEW before, NEW last, NEW post, Rows(own, before, last, post),
         NEW d \in DOMAIN data, NEW e, data[d].n = 0, array' = array,
         data' = [data EXCEPT ![d].entry = e]
  PROVE  /\ Rows(own, before, last, post)' /\ DOMAIN data' = DOMAIN data
         /\ data'[d].n = 0 /\ data'[d].array = data[d].array /\ data'[d].entry = e
         /\ \A c \in DOMAIN data : Ready(before, last, c) => Ready(before, last, c)'
<1>1. /\ DOMAIN data' = DOMAIN data /\ data'[d].array = data[d].array
      /\ data'[d].n = 0 /\ data'[d].entry = e
      /\ data'[d].tail = data[d].tail /\ data'[d].tail_n = data[d].tail_n
      /\ \A c \in DOMAIN data : c # d => data'[c] = data[c]
  <2>1. data[d] \in DataObject
    BY RowTypes
  <2> QED BY <2>1 DEF DataObject
<1>2. \A a \in DOMAIN array : ArrayInChain(own, before, last, post, a)'
  BY <1>1 DEF Rows, ArrayInChain
<1>3. ASSUME NEW c \in DOMAIN data PROVE ChainOfData(own, before, last, post, c)'
  <2>0. ChainOfData(own, before, last, post, c)
    BY DEF Rows
  <2>1. CASE c # d
    BY <1>1, <2>0, <2>1 DEF ChainOfData
  <2>2. CASE c = d
    <3>1. data[d].array = 0 /\ Len(post[d]) = 0 /\ \A a \in DOMAIN array : own[a] # d
      BY <2>0, <2>2 DEF ChainOfData
    <3> QED BY <1>1, <2>2, <3>1 DEF ChainOfData
  <2> QED BY <2>1, <2>2
<1>4. \A c \in DOMAIN data : Ready(before, last, c) => Ready(before, last, c)'
  <2> TAKE c \in DOMAIN data
  <2>1. CASE c = d
    BY <1>1, <2>1 DEF Ready
  <2>2. CASE c # d
    BY <1>1, <2>2 DEF Ready
  <2> QED BY <2>1, <2>2
<1>5. Witness(own, before, last, post)'
  BY <1>1 DEF Rows, Witness
<1> QED BY <1>1, <1>2, <1>3, <1>4, <1>5 DEF Rows

(***************************************************************************)
(* A new DATA object: its words are clean, it has no postings.             *)
(***************************************************************************)
LEMMA RowsData ==
  ASSUME TypeOK, NEW own, NEW before, NEW last, NEW post, Rows(own, before, last, post),
         NEW o \in Nat, o \notin DOMAIN data, o # 0, array' = array,
         DOMAIN data' = DOMAIN data \cup {o},
         \A c \in DOMAIN data : data'[c] = data[c],
         data'[o].n = 0, data'[o].array = 0,
         NEW last2, last2 = Put(last, o, 0), NEW post2, post2 = Put(post, o, <<>>)
  PROVE  /\ Rows(own, before, last2, post2)'
         /\ Ready(before, last2, o)'
         /\ \A c \in DOMAIN data : Ready(before, last, c) => Ready(before, last2, c)'
<1>0. /\ own \in [DOMAIN array -> DOMAIN data \cup {0, Loose}] /\ before \in [DOMAIN array -> Nat]
      /\ last \in [DOMAIN data -> Nat] /\ post \in [DOMAIN data -> Seq(Nat)]
      /\ \A a \in DOMAIN array : ArrayInChain(own, before, last, post, a)
      /\ \A c \in DOMAIN data : ChainOfData(own, before, last, post, c)
  BY DEF Rows, Witness
<1>1. /\ last2 \in [DOMAIN data' -> Nat] /\ post2 \in [DOMAIN data' -> Seq(Nat)]
      /\ last2[o] = 0 /\ post2[o] = <<>>
      /\ \A c \in DOMAIN data : c # o /\ last2[c] = last[c] /\ post2[c] = post[c]
  <2>1. <<>> \in Seq(Nat)
    OBVIOUS
  <2> QED BY <1>0, <2>1 DEF Put
<1>2. \A a \in DOMAIN array : own[a] # o
  <2>1. Loose # o
    BY DEF Loose
  <2> QED BY <1>0, <2>1
<1>3. ASSUME NEW a \in DOMAIN array PROVE ArrayInChain(own, before, last2, post2, a)'
  <2>1. ArrayInChain(own, before, last, post, a)
    BY <1>0
  <2>2. CASE own[a] \in DOMAIN data
    BY <1>1, <2>1, <2>2 DEF ArrayInChain
  <2>3. CASE own[a] \notin DOMAIN data
    BY <1>2, <2>3 DEF ArrayInChain
  <2> QED BY <2>2, <2>3
<1>4. ASSUME NEW c \in DOMAIN data' PROVE ChainOfData(own, before, last2, post2, c)'
  <2>1. CASE c = o
    <3>1. Len(post2[o]) = 0
      BY <1>1
    <3> QED BY <1>2, <2>1, <3>1 DEF ChainOfData
  <2>2. CASE c # o
    <3>1. c \in DOMAIN data /\ ChainOfData(own, before, last, post, c)
      BY <1>0, <2>2
    <3> QED BY <1>1, <3>1 DEF ChainOfData
  <2> QED BY <2>1, <2>2
<1>5. Ready(before, last2, o)'
  BY DEF Ready
<1>6. \A c \in DOMAIN data : Ready(before, last, c) => Ready(before, last2, c)'
  BY <1>1 DEF Ready
<1>7. Witness(own, before, last2, post2)'
  BY <1>0, <1>1 DEF Witness
<1> QED BY <1>3, <1>4, <1>5, <1>6, <1>7 DEF Rows

-----------------------------------------------------------------------------
(* The steps that leave the postings alone. *)

\* The steps that store to arrays or have stored to one.
Storing == Growing \cup {"global_header", "data_array", "data_tail", "data_count"}

LEMMA GlobalKept ==
  ASSUME NEW own, NEW own2, GlobalOwned(own), hdr'.tail_array = hdr.tail_array,
         \A a \in DOMAIN array : a \in DOMAIN array' /\ (own[a] = 0 => own2[a] = 0),
         pc' # "global_header", pc' \notin Growing \/ op'.cur # 0
  PROVE  GlobalOwned(own2)'
BY DEF GlobalOwned, Growing

LEMMA PostQuiet ==
  ASSUME NEW own, NEW before, NEW last, NEW post, PostParts(own, before, last, post),
         SameRows, SameHints, hdr'.tail_array = hdr.tail_array,
         pc' \notin Storing, Live' => Live /\ ~Linking
  PROVE  PostParts(own, before, last, post)'
<1>1. /\ Rows(own, before, last, post)'
      /\ \A d \in DOMAIN data : Ready(before, last, d) => Ready(before, last, d)'
  BY RowsSame DEF PostParts
<1>2. GlobalOwned(own)'
  BY GlobalKept DEF PostParts, Storing, SameRows
<1>3. ~Linking'
  BY DEF Linking, Storing
<1>4. Live' => \A d \in DOMAIN data' : Ready(before, last, d)'
  BY <1>1 DEF PostParts, SameRows
<1> QED BY <1>1, <1>2, <1>3, <1>4 DEF PostParts

LEMMA PostOutside ==
  ASSUME BaseInv, NEW own, NEW before, NEW last, NEW post, PostParts(own, before, last, post),
         UNCHANGED vars \/ Call \/ Leave \/ Publish \/ FailPublish
  PROVE  PostParts(own, before, last, post)'
<1>0. TypeOK
  BY DEF BaseInv
<1>1. CASE UNCHANGED vars
  <2>1. data' = data /\ array' = array /\ hdr' = hdr /\ w' = w /\ pc' = pc /\ op' = op
    BY <1>1 DEF vars
  <2>2. SameRows /\ SameHints
    BY <2>1 DEF SameRows, SameHints
  <2>3. /\ Rows(own, before, last, post)'
        /\ \A d \in DOMAIN data : Ready(before, last, d) => Ready(before, last, d)'
    BY <2>2, RowsSame DEF PostParts
  <2>4. GlobalOwned(own)'
    BY <2>1 DEF PostParts, GlobalOwned
  <2>5. Linking' = Linking /\ Live' = Live
    BY <2>1 DEF Linking, Live
  <2>6. Linking => LinkPhase(own, before, last, op.cur)'
    BY <2>1 DEF PostParts, LinkPhase, SlotBehind, SlotStored, Unchained
  <2> QED BY <2>1, <2>3, <2>4, <2>5, <2>6 DEF PostParts
<1>2. CASE Call \/ Leave \/ Publish \/ FailPublish
  <2>1. data' = data /\ array' = array /\ hdr' = hdr /\ pc' \in {"idle", "field"}
    BY <1>0, <1>2, CallFrame, LeaveFrame, EndPoisoned DEF objects
  <2>2. SameRows /\ SameHints /\ pc' \notin Storing
    BY <2>1 DEF SameRows, SameHints, Storing, Growing
  <2>3. Live' => Live /\ ~Linking
    <3>1. CASE Call
      <4>1. pc = "idle" /\ w' = w /\ (pc' = "field" => ~w.poisoned)
        BY <1>0, <3>1, CallFrame
      <4> QED BY <2>1, <4>1 DEF Live, Linking, Growing
    <3>2. CASE Leave
      <4>1. w' = w /\ pc' = "idle" /\ pc # "idle"
        BY <3>2, LeaveFrame, LeaveCounters
      <4>2. pc \notin {"idle", "field"} => w.poisoned
        BY DEF BaseInv, ArenaInv, PoisonCover
      <4> QED BY <4>1, <4>2 DEF Live, Linking, Growing
    <3>3. CASE Publish \/ FailPublish
      <4>1. pc = "publish"
        BY <3>3 DEF Publish, FailPublish
      <4> QED BY <4>1 DEF Live, Linking, Growing
    <3> QED BY <1>2, <3>1, <3>2, <3>3
  <2> QED BY <2>1, <2>2, <2>3, PostQuiet
<1> QED BY <1>1, <1>2

LEMMA PostField ==
  ASSUME BaseInv, NEW own, NEW before, NEW last, NEW post, PostParts(own, before, last, post),
         QuietField \/ WriteField \/ StartData \/ Finish \/ WriteEntry
  PROVE  PostParts(own, before, last, post)'
<1>0. TypeOK /\ hdr \in Header /\ data \in [DOMAIN data -> DataObject]
  BY DEF BaseInv, TypeOK, HeaderOK, ObjectsOK
<1>1. array' = array /\ hdr'.tail_array = hdr.tail_array
  BY <1>0 DEF QuietField, SkipField, ReuseData, LinkDataHash, PublishDataBucket, CountData,
              CachedField, FoundField, LinkFieldHash, PublishFieldBucket, CountField,
              SetNextField, SetHeadData, WriteField, StartData, Finish, WriteEntry,
              objects, Header
<1>2. pc \in Request \cup {"entry"} /\ pc' \in Request \cup {"entry", "place"}
  BY <1>0, QuietFieldFrame, CreateFieldFrame, StartPoisoned
     DEF Request, FieldSteps, CreateField, WriteEntry, Goto
<1>3. SameRows /\ SameHints
  <2>1. CASE LinkDataHash \/ SetNextField
    <3>1. \E t, v : \/ data' = data
                    \/ data' = [data EXCEPT ![t].next_hash = v]
                    \/ data' = [data EXCEPT ![t].next_field = v]
      BY <2>1 DEF LinkDataHash, SetNextField
    <3>2. /\ DOMAIN data' = DOMAIN data
          /\ \A d \in DOMAIN data :
               /\ data'[d].n = data[d].n /\ data'[d].array = data[d].array
               /\ data'[d].entry = data[d].entry
               /\ data'[d].tail = data[d].tail /\ data'[d].tail_n = data[d].tail_n
      BY <1>0, <3>1 DEF DataObject
    <3> QED BY <1>1, <3>2 DEF SameRows, SameHints
  <2>2. CASE ~LinkDataHash /\ ~SetNextField
    <3>1. data' = data
      BY <2>2 DEF QuietField, SkipField, ReuseData, PublishDataBucket, CountData,
              CachedField, FoundField, LinkFieldHash, PublishFieldBucket, CountField,
              SetHeadData, WriteField, StartData, Finish, WriteEntry, objects
    <3> QED BY <1>1, <3>1 DEF SameRows, SameHints
  <2> QED BY <2>1, <2>2
<1>4. pc' \notin Storing /\ Live /\ ~Linking
  BY <1>2 DEF Storing, Growing, Live, Linking, Request, FieldSteps
<1> QED BY <1>1, <1>3, <1>4, PostQuiet

LEMMA PostCommit ==
  ASSUME BaseInv, NEW own, NEW before, NEW last, NEW post, PostParts(own, before, last, post),
         \/ Linked \/ CommitObjects \/ CommitTailObject \/ CommitHead \/ CommitTail
         \/ CommitTailEntry \/ CommitCount
  PROVE  PostParts(own, before, last, post)'
<1>0. hdr \in Header
  BY DEF BaseInv, TypeOK, HeaderOK
<1>1. /\ array' = array /\ data' = data /\ hdr'.tail_array = hdr.tail_array
      /\ pc \in {"link"} \cup Commits /\ pc' \in Commits \cup {"publish"}
  BY <1>0 DEF Linked, CommitObjects, CommitTailObject, CommitHead, CommitTail, CommitTailEntry,
     CommitCount, objects, Goto, Commits, Header
<1>2. SameRows /\ SameHints
  BY <1>1 DEF SameRows, SameHints
<1>3. pc' \notin Storing /\ Live /\ ~Linking
  BY <1>1 DEF Storing, Growing, Live, Linking, Commits
<1> QED BY <1>1, <1>2, <1>3, PostQuiet

(***************************************************************************)
(* The new DATA object has no postings.                                    *)
(***************************************************************************)
LEMMA PostWriteData ==
  ASSUME BaseInv, NEW own, NEW before, NEW last, NEW post, PostParts(own, before, last, post),
         WriteData, NEW post2, post2 = Put(post, w.append_offset, <<>>)
  PROVE  \E last2 : PostParts(own, before, last2, post2)'
<1>0. TypeOK
  BY DEF BaseInv
<1>1. PICK o \in Nat : o = w.append_offset
  BY NewPlace
<1>2. o \notin DOMAIN data /\ o # 0 /\ \A k : Word(o, k) = 0
  <2>1. w.append_offset >= 3
    BY <1>0 DEF TypeOK, WriterOK
  <2> QED BY <1>1, <2>1, NewPlace
<1>3. /\ array' = array /\ hdr' = hdr /\ pc = "data" /\ pc' = "hash_next"
      /\ \E v : data' = Put(data, o, v) /\ v.n = 0 /\ v.array = 0
  BY <1>1, <1>2 DEF WriteData, Goto
<1>4. /\ DOMAIN data' = DOMAIN data \cup {o} /\ \A c \in DOMAIN data : data'[c] = data[c]
      /\ data'[o].n = 0 /\ data'[o].array = 0
  BY <1>2, <1>3 DEF Put
<1>5. PICK last2 : last2 = Put(last, o, 0)
  OBVIOUS
<1>6. post2 = Put(post, o, <<>>) /\ Rows(own, before, last, post)
  BY <1>1 DEF PostParts
<1>7. /\ Rows(own, before, last2, post2)' /\ Ready(before, last2, o)'
      /\ \A c \in DOMAIN data : Ready(before, last, c) => Ready(before, last2, c)'
  BY <1>0, <1>2, <1>3, <1>4, <1>5, <1>6, RowsData
<1>8. Live /\ ~Linking /\ ~Linking' /\ pc' \notin Storing
  BY <1>3 DEF Storing, Growing, Live, Linking
<1>9. GlobalOwned(own)'
  BY <1>3, <1>8, GlobalKept DEF PostParts, Storing
<1>10. \A d \in DOMAIN data' : Ready(before, last2, d)'
  BY <1>4, <1>7, <1>8 DEF PostParts
<1>11. PostParts(own, before, last2, post2)'
  BY <1>7, <1>8, <1>9, <1>10 DEF PostParts
<1> QED BY <1>11

-----------------------------------------------------------------------------
(* The stores to the global array. *)

(***************************************************************************)
(* The place of the entry in the global list is in no chain of postings.   *)
(***************************************************************************)
LEMMA PostPlace ==
  ASSUME BaseInv, ListInv, NEW own, NEW before, NEW last, NEW post,
         PostParts(own, before, last, post), PlaceFirst \/ PlaceInTail \/ PlaceInNew
  PROVE  \E own2, before2 : PostParts(own2, before2, last, post)'
<1>0. TypeOK /\ op \in Locals /\ hdr \in Header
  BY DEF BaseInv, TypeOK, CallOK, HeaderOK
<1>1. pc = "place" /\ Live /\ ~Linking
  BY DEF PlaceFirst, PlaceInTail, PlaceInNew, Live, Linking, Growing
<1>2. op.cur = 0 /\ (hdr.entry_array # 0 => GlobalTail = hdr.tail_array /\ hdr.tail_array # 0)
  <2>1. PICK G, F, b, l, s : ListParts(G, F, b, l, s)
    BY DEF ListInv
  <2>2. op.cur = 0 /\ Hinted(b, l) /\ Chained(G, b, l, s)
    BY <1>1, <2>1 DEF ListParts, Phase, Unplaced
  <2>3. hdr.entry_array # 0 => hdr.tail_array \in DOMAIN array
    BY <2>2, ChainInFile DEF Hinted
  <2> QED BY <1>0, <2>2, <2>3, RowTypes DEF GlobalTail
<1>3. /\ Rows(own, before, last, post) /\ GlobalOwned(own)
      /\ \A d \in DOMAIN data : Ready(before, last, d)
  BY <1>1 DEF PostParts
<1>4. CASE PlaceInTail
  <2>1. /\ array' = array /\ data' = data /\ hdr' = hdr /\ pc' = "set_slot"
        /\ op'.cur = 0 /\ op'.arr = GlobalTail /\ hdr.entry_array # 0
    BY <1>0, <1>2, <1>4 DEF PlaceInTail, Goto, objects, Locals
  <2>2. SameRows /\ SameHints
    BY <2>1 DEF SameRows, SameHints
  <2>3. /\ Rows(own, before, last, post)'
        /\ \A d \in DOMAIN data : Ready(before, last, d)'
    BY <1>3, <2>2, RowsSame
  <2>4. GlobalOwned(own)'
    BY <1>2, <1>3, <2>1 DEF GlobalOwned
  <2>5. ~Linking'
    BY <2>1 DEF Linking
  <2>6. PostParts(own, before, last, post)'
    BY <2>1, <2>3, <2>4, <2>5 DEF PostParts
  <2> QED BY <2>6
<1>5. CASE PlaceFirst \/ PlaceInNew
  <2>1. PICK c \in Nat \ {0} : Allocate(c)
    <3>1. CASE PlaceFirst
      <4>1. MinCapacity \in Nat \ {0}
        BY ConstantsAssumption DEF ConstantsAssumption
      <4> QED BY <3>1, <4>1 DEF PlaceFirst
    <3>2. CASE PlaceInNew
      <4>1. GlobalTail \in DOMAIN array
            /\ Allocate(NextCapacity(hdr.n_entries, Len(array[GlobalTail].slots)))
        BY <3>2 DEF PlaceInNew
      <4>2. hdr.n_entries \in Nat /\ Len(array[GlobalTail].slots) \in Nat
        BY <1>0, <4>1, RowTypes DEF Header
      <4> QED BY <4>1, <4>2, CapacityPositive
    <3> QED BY <1>5, <3>1, <3>2
  <2>2. PICK o : o = w.append_offset
    OBVIOUS
  <2>3. /\ o \notin DOMAIN array /\ DOMAIN array' = DOMAIN array \cup {o}
        /\ \A a \in DOMAIN array : array'[a] = array[a]
        /\ hdr'.tail_array = hdr.tail_array
    BY <2>1, <2>2, AllocateFacts DEF SameGlobal
  <2>4. /\ data' = data /\ op'.cur = 0 /\ op'.arr = o /\ pc' \in Growing
        /\ pc' = "link_array" => op'.prev = GlobalTail /\ hdr.entry_array # 0
    <3>1. CASE PlaceFirst
      BY <1>0, <1>2, <2>2, <3>1 DEF PlaceFirst, Goto, Growing, Locals
    <3>2. CASE PlaceInNew
      BY <1>0, <1>2, <2>2, <3>2 DEF PlaceInNew, Goto, Growing, Locals
    <3> QED BY <1>5, <3>1, <3>2
  <2>5. SameObjects
    BY <2>4 DEF SameObjects
  <2>6. PICK own2, before2 : own2 = Put(own, o, 0) /\ before2 = Put(before, o, 0)
    OBVIOUS
  <2>7. /\ Rows(own2, before2, last, post)'
        /\ \A d \in DOMAIN data : Ready(before2, last, d)'
    <3>1. 0 \in {0, Loose}
      OBVIOUS
    <3> QED BY <1>0, <1>3, <2>3, <2>5, <2>6, <3>1, RowsAllocate
  <2>8. own2[o] = 0 /\ \A a \in DOMAIN array : own2[a] = own[a]
    <3>1. own \in [DOMAIN array -> DOMAIN data \cup {0, Loose}]
      BY <1>3 DEF Rows, Witness
    <3> QED BY <2>3, <2>6, <3>1 DEF Put
  <2>9. GlobalOwned(own2)'
    BY <1>2, <1>3, <2>3, <2>4, <2>8 DEF GlobalOwned
  <2>10. ~Linking'
    BY <2>4 DEF Linking, Growing
  <2>11. PostParts(own2, before2, last, post)'
    BY <2>4, <2>7, <2>9, <2>10 DEF PostParts
  <2> QED BY <2>11
<1> QED BY <1>4, <1>5

LEMMA PostGlobalStore ==
  ASSUME BaseInv, NEW own, NEW before, NEW last, NEW post, PostParts(own, before, last, post),
         op.cur = 0, LinkArray \/ SetSlot
  PROVE  PostParts(own, before, last, post)'
<1>0. TypeOK
  BY DEF BaseInv
<1>1. /\ data' = data /\ hdr' = hdr /\ op' = op /\ pc \in Growing
      /\ pc' \in {"set_slot", "global_header"}
  BY DEF LinkArray, SetSlot, Goto, Growing
<1>2. Live /\ ~Linking /\ ~Linking'
  BY <1>1 DEF Live, Linking, Growing
<1>3. /\ Rows(own, before, last, post) /\ GlobalOwned(own)
      /\ \A d \in DOMAIN data : Ready(before, last, d)
  BY <1>2 DEF PostParts
<1>4. PICK x \in DOMAIN array : /\ own[x] = 0 /\ DOMAIN array' = DOMAIN array
                                /\ \A a \in DOMAIN array : a # x => array'[a] = array[a]
  <2>1. CASE LinkArray
    <3>1. /\ op.prev \in DOMAIN array /\ own[op.prev] = 0
          /\ array' = [array EXCEPT ![op.prev].next = op.arr]
      BY <1>3, <2>1 DEF LinkArray, GlobalOwned
    <3> QED BY <1>0, <3>1, StoredArrays
  <2>2. CASE SetSlot
    <3>1. /\ op.arr \in DOMAIN array /\ own[op.arr] = 0
          /\ array' = [array EXCEPT ![op.arr].slots[op.slot + 1] = op.entry]
      BY <1>1, <1>3, <2>2 DEF SetSlot, GlobalOwned
    <3> QED BY <1>0, <3>1, StoredArrays
  <2> QED BY <2>1, <2>2
<1>5. own[x] \notin DOMAIN data
  BY <1>0, <1>4, RowTypes
<1>6. SameObjects
  BY <1>1 DEF SameObjects
<1>7. /\ Rows(own, before, last, post)'
      /\ \A d \in DOMAIN data : Ready(before, last, d)'
  BY <1>0, <1>3, <1>4, <1>5, <1>6, RowsStore
<1>8. GlobalOwned(own)'
  BY <1>1, <1>3, <1>4 DEF GlobalOwned, Growing
<1> QED BY <1>1, <1>2, <1>7, <1>8 DEF PostParts

LEMMA PostHeader ==
  ASSUME BaseInv, MaxOffset < TailModulus,
         NEW own, NEW before, NEW last, NEW post, PostParts(own, before, last, post), GlobalHeader
  PROVE  PostParts(own, before, last, post)'
<1>0. TypeOK /\ hdr \in Header
  BY DEF BaseInv, TypeOK, HeaderOK
<1>1. /\ data' = data /\ array' = array /\ pc = "global_header" /\ pc' = "link"
      /\ hdr'.tail_array = op.arr % TailModulus
  BY <1>0 DEF GlobalHeader, Goto, objects, Header
<1>2. Live /\ ~Linking /\ ~Linking'
  BY <1>1 DEF Live, Linking, Growing
<1>3. /\ Rows(own, before, last, post) /\ GlobalOwned(own)
      /\ \A d \in DOMAIN data : Ready(before, last, d)
  BY <1>2 DEF PostParts
<1>4. op.arr \in DOMAIN array /\ own[op.arr] = 0
  BY <1>1, <1>3 DEF GlobalOwned
<1>5. op.arr % TailModulus = op.arr
  <2>1. PICK x \in Nat, m \in Nat : x = op.arr /\ m = TailModulus
    BY <1>0, <1>4, FiniteArrays, ConstantsAssumption DEF ConstantsAssumption
  <2>2. x \in 1..MaxOffset /\ MaxOffset \in Nat
    BY <1>0, <1>4, <2>1, ConstantsAssumption DEF TypeOK, ObjectsOK, Offsets, ConstantsAssumption
  <2>3. x \in 0..(m - 1)
    BY <2>1, <2>2
  <2>4. x % m = x
    BY <2>3, SmallOffset
  <2> QED BY <2>1, <2>4
<1>6. SameRows /\ SameHints
  BY <1>1 DEF SameRows, SameHints
<1>7. /\ Rows(own, before, last, post)'
      /\ \A d \in DOMAIN data : Ready(before, last, d)'
  BY <1>3, <1>6, RowsSame
<1>8. GlobalOwned(own)'
  BY <1>1, <1>4, <1>5 DEF GlobalOwned, Growing
<1> QED BY <1>1, <1>2, <1>7, <1>8 DEF PostParts

-----------------------------------------------------------------------------
(* The stores to the postings of one DATA object. *)

(***************************************************************************)
(* The state that linking starts from is the one on disk.                  *)
(***************************************************************************)
LEMMA LinkStateOf ==
  ASSUME BaseInv, pc = "link", NEW it \in op.left, NextItem(it)
  PROVE  /\ it.offset \in DOMAIN data /\ LinkState(it).n = data[it.offset].n
         /\ LinkState(it).n # 0 => /\ LinkState(it).array = data[it.offset].array
                                   /\ LinkState(it).tail = data[it.offset].tail
                                   /\ LinkState(it).tail_n = data[it.offset].tail_n
<1>1. it \in Item /\ it.offset \in DOMAIN data
  BY ItemType DEF BaseInv, NextItem
<1>2. CASE it.copy = 1
  <2>1. Remembered(it)
    BY <1>2 DEF BaseInv, FreshInv, LinkSteps
  <2> QED BY <1>2, <2>1 DEF Remembered, LinkState
<1>3. CASE it.copy # 1
  BY <1>1, <1>3 DEF LinkState, Item
<1> QED BY <1>2, <1>3

(***************************************************************************)
(* The chain of a DATA object with two postings ends in the array that the *)
(* next posting goes to, or behind which it goes.                          *)
(***************************************************************************)
LEMMA LinkTail ==
  ASSUME BaseInv, NEW own, NEW before, NEW last, NEW post, PostParts(own, before, last, post),
         pc = "link", NEW it \in op.left, NextItem(it), LinkState(it).n >= 2
  PROVE  /\ data[it.offset].n >= 2 /\ LinkState(it).array # 0
         /\ data[it.offset].array # 0 /\ last[it.offset] \in DOMAIN array
         /\ DataTail(LinkState(it)).at = last[it.offset]
         /\ DataTail(LinkState(it)).used \in Nat
         /\ before[last[it.offset]] + DataTail(LinkState(it)).used = data[it.offset].n - 1
<1>0. TypeOK
  BY DEF BaseInv
<1>1. PICK d, v : d = it.offset /\ v = LinkState(it)
  OBVIOUS
<1>2. d \in DOMAIN data /\ v.n = data[d].n /\ data[d].n >= 2 /\ v.n # 0
  <2>1. d \in DOMAIN data /\ v.n = data[d].n /\ data[d].n >= 2
    BY <1>1, LinkStateOf
  <2> QED BY <1>0, <2>1, RowTypes
<1>3. v.array = data[d].array /\ v.tail = data[d].tail /\ v.tail_n = data[d].tail_n
  BY <1>1, <1>2, LinkStateOf
<1>4. Live /\ ~Linking
  BY DEF Live, Linking, Growing
<1>5. Rows(own, before, last, post) /\ Ready(before, last, d)
  BY <1>2, <1>4 DEF PostParts
<1>6. /\ data[d].array # 0 /\ last[d] \in DOMAIN array
      /\ DataTail(v).at = last[d] /\ DataTail(v).used \in Nat
      /\ before[last[d]] + DataTail(v).used = data[d].n - 1
  BY <1>0, <1>2, <1>3, <1>5, RowTail
<1> QED BY <1>1, <1>2, <1>3, <1>6

\* What all steps from "link" start from.
LEMMA LinkStart ==
  ASSUME BaseInv, NEW own, NEW before, NEW last, NEW post, PostParts(own, before, last, post),
         pc = "link"
  PROVE  /\ Rows(own, before, last, post) /\ GlobalOwned(own) /\ Live /\ ~Linking
         /\ \A d \in DOMAIN data : Ready(before, last, d)
BY DEF PostParts, Live, Linking, Growing

LEMMA PostLinkFirst ==
  ASSUME BaseInv, NEW own, NEW before, NEW last, NEW post, PostParts(own, before, last, post),
         NEW it \in op.left, LinkFirst(it)
  PROVE  PostParts(own, before, last, post)'
<1>0. TypeOK /\ op \in Locals
  BY DEF BaseInv, TypeOK, CallOK
<1>1. /\ pc = "link" /\ NextItem(it) /\ LinkState(it).n = 0 /\ array' = array /\ hdr' = hdr
      /\ data' = [data EXCEPT ![it.offset].entry = op.entry]
      /\ op'.cur = it.offset /\ op'.n = 1 /\ op'.entry = op.entry /\ pc' = "data_count"
  BY <1>0 DEF LinkFirst, Goto, Locals
<1>2. PICK d, e : d = it.offset /\ e = op.entry
  OBVIOUS
<1>3. d \in DOMAIN data /\ data[d].n = 0
  BY <1>1, <1>2, LinkStateOf
<1>4. Rows(own, before, last, post) /\ GlobalOwned(own) /\ \A c \in DOMAIN data : Ready(before, last, c)
  BY <1>1, LinkStart
<1>5. /\ Rows(own, before, last, post)' /\ DOMAIN data' = DOMAIN data
      /\ data'[d].n = 0 /\ data'[d].array = data[d].array /\ data'[d].entry = e
      /\ \A c \in DOMAIN data : Ready(before, last, c)'
  <2>1. data' = [data EXCEPT ![d].entry = e] /\ array' = array
    BY <1>1, <1>2
  <2> QED BY <1>0, <1>3, <1>4, <2>1, RowsInline
<1>6. GlobalOwned(own)'
  BY <1>1, <1>4, GlobalKept DEF Growing
<1>7. data[d].array = 0
  BY <1>3, <1>4, RowTypes DEF Ready
<1>8. LinkPhase(own, before, last, op.cur)'
  BY <1>1, <1>2, <1>3, <1>5, <1>7 DEF LinkPhase
<1> QED BY <1>1, <1>4, <1>5, <1>6, <1>8 DEF PostParts

\* A new array for the postings of the item at hand.
LEMMA PostLinkNew ==
  ASSUME BaseInv, NEW own, NEW before, NEW last, NEW post, PostParts(own, before, last, post),
         NEW it \in op.left, LinkSecond(it) \/ LinkInNew(it)
  PROVE  \E own2, before2 : PostParts(own2, before2, last, post)'
<1>0. TypeOK /\ op \in Locals
  BY DEF BaseInv, TypeOK, CallOK
<1>1. pc = "link" /\ NextItem(it)
  BY DEF LinkSecond, LinkInNew
<1>2. PICK c \in Nat \ {0} : Allocate(c)
  <2>1. CASE LinkSecond(it)
    <3>1. MinCapacity \in Nat \ {0}
      BY ConstantsAssumption DEF ConstantsAssumption
    <3> QED BY <2>1, <3>1 DEF LinkSecond
  <2>2. CASE LinkInNew(it)
    <3>1. DataTail(LinkState(it)).at \in DOMAIN array /\ LinkState(it).n >= 2
          /\ Allocate(NextCapacity(LinkState(it).n - 1, Len(array[DataTail(LinkState(it)).at].slots)))
      BY <2>2 DEF LinkInNew
    <3>2. LinkState(it).n \in Nat
      BY <1>0, <1>1, LinkCountType
    <3>3. LinkState(it).n - 1 \in Nat
      BY <3>1, <3>2
    <3>4. Len(array[DataTail(LinkState(it)).at].slots) \in Nat
      BY <1>0, <3>1, SlotsType
    <3> QED BY <3>1, <3>3, <3>4, CapacityPositive
  <2> QED BY <2>1, <2>2
<1>3. PICK o, d, n : o = w.append_offset /\ d = it.offset /\ n = data[d].n
  OBVIOUS
<1>4. /\ o \notin DOMAIN array /\ DOMAIN array' = DOMAIN array \cup {o}
      /\ \A a \in DOMAIN array : array'[a] = array[a]
      /\ array'[o].next = 0 /\ Len(array'[o].slots) > 0
      /\ hdr'.tail_array = hdr.tail_array
  BY <1>2, <1>3, AllocateFacts DEF SameGlobal
<1>5. d \in DOMAIN data /\ LinkState(it).n = n /\ n \in Nat /\ d # 0
  BY <1>0, <1>1, <1>3, LinkStateOf, RowTypes
<1>6. /\ data' = data /\ op'.cur = d /\ op'.arr = o /\ op'.slot = 0 /\ op'.n = n + 1
      /\ \/ n = 1 /\ pc' = "set_slot"
         \/ n >= 2 /\ pc' = "link_array" /\ op'.prev = DataTail(LinkState(it)).at
            /\ DataTail(LinkState(it)).used >= Len(array[DataTail(LinkState(it)).at].slots)
  <2>1. CASE LinkSecond(it)
    <3>1. n = 1 /\ 2 = n + 1
      BY <1>5, <2>1 DEF LinkSecond
    <3> QED BY <1>0, <1>3, <2>1, <3>1 DEF LinkSecond, Goto, Locals
  <2>2. CASE LinkInNew(it)
    BY <1>0, <1>3, <1>5, <2>2 DEF LinkInNew, Goto, Locals
  <2> QED BY <2>1, <2>2
<1>7. Rows(own, before, last, post) /\ GlobalOwned(own) /\ \A c2 \in DOMAIN data : Ready(before, last, c2)
  BY <1>1, LinkStart
<1>8. SameObjects
  BY <1>6 DEF SameObjects
<1>9. PICK own2, before2 : own2 = Put(own, o, Loose) /\ before2 = Put(before, o, 0)
  OBVIOUS
<1>10. /\ Rows(own2, before2, last, post)'
       /\ \A c2 \in DOMAIN data : Ready(before2, last, c2)'
  <2>1. Loose \in {0, Loose}
    OBVIOUS
  <2> QED BY <1>0, <1>4, <1>7, <1>8, <1>9, <2>1, RowsAllocate
<1>11. /\ own2[o] = Loose
       /\ \A a \in DOMAIN array : own2[a] = own[a] /\ before2[a] = before[a]
  <2>1. /\ own \in [DOMAIN array -> DOMAIN data \cup {0, Loose}]
        /\ before \in [DOMAIN array -> Nat]
    BY <1>7 DEF Rows, Witness
  <2> QED BY <1>4, <1>9, <2>1 DEF Put
<1>12. GlobalOwned(own2)'
  BY <1>4, <1>5, <1>6, <1>7, <1>11, GlobalKept DEF Growing
<1>13. Unchained(own2, op.arr)'
  BY <1>4, <1>6, <1>11 DEF Unchained
<1>14. LinkPhase(own2, before2, last, op.cur)'
  <2>1. CASE n = 1 /\ pc' = "set_slot"
    <3>1. data[d].array = 0
      <4>1. data[d].n <= 1
        BY <1>3, <2>1
      <4> QED BY <1>5, <1>7, <4>1 DEF Ready
    <3>2. 1 + 1 = 2
      OBVIOUS
    <3> QED BY <1>3, <1>5, <1>6, <1>13, <2>1, <3>1, <3>2 DEF LinkPhase
  <2>2. CASE pc' = "link_array"
    <3>1. n >= 2 /\ op'.prev = DataTail(LinkState(it)).at
          /\ DataTail(LinkState(it)).used >= Len(array[DataTail(LinkState(it)).at].slots)
      BY <1>6, <2>2
    <3>2. PICK x, u : x = last[d] /\ u = DataTail(LinkState(it)).used
      OBVIOUS
    <3>3. /\ x \in DOMAIN array /\ DataTail(LinkState(it)).at = x /\ u \in Nat
          /\ before[x] + u = n - 1 /\ data[d].array # 0
      BY <1>1, <1>3, <1>5, <3>1, <3>2, LinkTail
    <3>4. /\ n <= before[x] + Len(array[x].slots) + 1 /\ before[x] \in Nat
          /\ Len(array[x].slots) \in Nat
      <4>1. ChainOfData(own, before, last, post, d) /\ before \in [DOMAIN array -> Nat]
        BY <1>5, <1>7 DEF Rows, Witness
      <4>2. data[d].n <= before[last[d]] + Len(array[last[d]].slots) + 1
        BY <3>3, <4>1 DEF ChainOfData
      <4>3. Len(array[x].slots) \in Nat /\ before[x] \in Nat
        BY <1>0, <3>3, <4>1, RowTypes
      <4> QED BY <1>3, <3>2, <4>2, <4>3
    <3>5. u >= Len(array[x].slots)
      BY <3>1, <3>2, <3>3
    <3>6. n = before[x] + Len(array[x].slots) + 1
      BY ONLY <1>5, <3>3, <3>4, <3>5
    <3>7. array'[x] = array[x] /\ before2[x] = before[x]
      BY <1>4, <1>11, <3>3
    <3> QED BY <1>3, <1>5, <1>6, <1>13, <2>2, <3>1, <3>2, <3>3, <3>6, <3>7 DEF LinkPhase
  <2> QED BY <1>6, <2>1, <2>2
<1>15. PostParts(own2, before2, last, post)'
  BY <1>6, <1>10, <1>12, <1>14 DEF PostParts
<1> QED BY <1>15

LEMMA PostLinkInTail ==
  ASSUME BaseInv, NEW own, NEW before, NEW last, NEW post, PostParts(own, before, last, post),
         NEW it \in op.left, LinkInTail(it)
  PROVE  PostParts(own, before, last, post)'
<1>0. TypeOK /\ op \in Locals
  BY DEF BaseInv, TypeOK, CallOK
<1>1. PICK d, n, t : d = it.offset /\ n = data[d].n /\ t = DataTail(LinkState(it))
  OBVIOUS
<1>2. /\ pc = "link" /\ NextItem(it) /\ LinkState(it).n >= 2
      /\ array' = array /\ hdr' = hdr /\ data' = data /\ pc' = "set_slot"
      /\ op'.cur = d /\ op'.n = LinkState(it).n + 1 /\ op'.arr = t.at /\ op'.slot = t.used
      /\ t.used \in 0..(Len(array[t.at].slots) - 1)
  BY <1>0, <1>1 DEF LinkInTail, Goto, objects, Locals
<1>3. d \in DOMAIN data /\ LinkState(it).n = n /\ n \in Nat /\ d # 0
  BY <1>0, <1>1, <1>2, LinkStateOf, RowTypes
<1>4. Rows(own, before, last, post) /\ GlobalOwned(own) /\ \A c \in DOMAIN data : Ready(before, last, c)
  BY <1>2, LinkStart
<1>5. SameRows /\ SameHints
  BY <1>2 DEF SameRows, SameHints
<1>6. Rows(own, before, last, post)' /\ \A c \in DOMAIN data : Ready(before, last, c)'
  BY <1>4, <1>5, RowsSame
<1>7. GlobalOwned(own)'
  BY <1>2, <1>3, <1>4, GlobalKept
<1>8. PICK x, u : x = last[d] /\ u = t.used
  OBVIOUS
<1>9. /\ x \in DOMAIN array /\ t.at = x /\ u \in Nat
      /\ before[x] + u = n - 1 /\ data[d].array # 0 /\ n >= 2
  BY <1>1, <1>2, <1>3, <1>8, LinkTail
<1>10. before[x] \in Nat /\ Len(array[x].slots) \in Nat
  BY <1>0, <1>4, <1>9, RowTypes DEF Rows, Witness
<1>11. u < Len(array[x].slots) /\ before[x] + u + 1 = n /\ n + 1 > 2
  <2>1. u \in 0..(Len(array[x].slots) - 1)
    BY <1>2, <1>8, <1>9
  <2>2. PICK b \in Nat, l \in Nat : b = before[x] /\ l = Len(array[x].slots)
    BY <1>10
  <2>3. b + u = n - 1 /\ u \in 0..(l - 1) /\ n \in Nat /\ u \in Nat /\ n >= 2
    BY <1>3, <1>9, <2>1, <2>2
  <2>4. u < l /\ b + u + 1 = n /\ n + 1 > 2
    BY ONLY b \in Nat, l \in Nat, <2>3
  <2> QED BY <2>2, <2>4
<1>12. SlotBehind(before, last, d)'
  BY <1>1, <1>2, <1>8, <1>9, <1>11 DEF SlotBehind
<1>13. LinkPhase(own, before, last, op.cur)'
  BY <1>1, <1>2, <1>3, <1>11, <1>12 DEF LinkPhase
<1> QED BY <1>2, <1>6, <1>7, <1>13 DEF PostParts

\* What the steps that link op.cur start from.
LEMMA LinkingStart ==
  ASSUME BaseInv, NEW own, NEW before, NEW last, NEW post, PostParts(own, before, last, post),
         Linking
  PROVE  /\ Rows(own, before, last, post) /\ GlobalOwned(own)
         /\ LinkPhase(own, before, last, op.cur) /\ op.cur \in DOMAIN data /\ op.cur # 0
         /\ \A c \in DOMAIN data : c # op.cur => Ready(before, last, c)
<1>1. Live
  BY DEF Live, Linking, Growing
<1>2. op.cur \in DOMAIN data
  BY DEF PostParts, LinkPhase
<1> QED BY <1>1, <1>2, RowTypes DEF PostParts, BaseInv

(***************************************************************************)
(* The full tail of the chain links to the new array.                      *)
(***************************************************************************)
LEMMA PostLinkArray ==
  ASSUME BaseInv, NEW own, NEW before, NEW last, NEW post, PostParts(own, before, last, post),
         op.cur # 0, LinkArray
  PROVE  \E own2, before2, last2 : PostParts(own2, before2, last2, post)'
<1>0. TypeOK
  BY DEF BaseInv
<1>1. /\ pc = "link_array" /\ pc' = "set_slot" /\ data' = data /\ hdr' = hdr /\ op' = op
      /\ array' = [array EXCEPT ![op.prev].next = op.arr] /\ Linking /\ Linking'
  BY DEF LinkArray, Goto, Linking, Growing
<1>2. PICK d, o, n : d = op.cur /\ o = op.arr /\ n = data[d].n
  OBVIOUS
<1>3. /\ Rows(own, before, last, post) /\ GlobalOwned(own) /\ d \in DOMAIN data
      /\ \A c \in DOMAIN data : c # d => Ready(before, last, c)
  BY <1>1, <1>2, LinkingStart
<1>4. /\ op.n = data[d].n + 1 /\ data[d].n >= 2 /\ op.prev = last[d] /\ op.slot = 0 /\ Unchained(own, o)
      /\ data[d].n = before[last[d]] + Len(array[last[d]].slots) + 1
  BY <1>1, <1>2, LinkingStart DEF LinkPhase
<1>5. data[d].n \in Nat /\ data[d].array # 0
  BY <1>0, <1>3, <1>4, RowTypes DEF Rows, ChainOfData
<1>6. LinksOn(before, last, d, o)
  BY <1>1, <1>2, <1>4, <1>5 DEF LinksOn, SameObjects
<1>7. PICK m, own2, before2, last2 :
        m = data[d].n - 1 /\ Longer(own, before, last, d, o, m, own2, before2, last2)
  BY DEF Longer
<1>8. /\ Rows(own2, before2, last2, post)' /\ last2[d] = o
      /\ before2[o] = data[d].n - 1 /\ array'[o] = array[o]
      /\ \A a \in DOMAIN array : a # o => own2[a] = own[a]
      /\ \A c \in DOMAIN data : c # d => Ready(before2, last2, c)'
  <2>1. /\ Rows(own2, before2, last2, post)' /\ last2[d] = o
        /\ before2[o] = data[d].n - 1 /\ array'[o] = array[o]
        /\ \A a \in DOMAIN array : a # o => own2[a] = own[a]
        /\ \A c \in DOMAIN data : c # d /\ Ready(before, last, c) => Ready(before2, last2, c)'
    <3>1. Rows(own, before, last, post) /\ d \in DOMAIN data /\ Unchained(own, o)
      BY <1>3, <1>4
    <3>2. Rows(own2, before2, last2, post)'
      BY ONLY <1>0, <3>1, <1>6, <1>7, RowsLink
    <3>3. Extended(own, before, last, d, o, own2, before2, last2)
      BY ONLY <1>0, <3>1, <1>6, <1>7, RowsLink
    <3> QED BY <3>2, <3>3 DEF Extended
  <2> QED BY <1>3, <2>1
<1>9. o \in DOMAIN array /\ own[o] # 0 /\ Len(array[o].slots) > 0 /\ Len(array[o].slots) \in Nat
  BY <1>0, <1>4, RowTypes DEF Unchained
<1>10. DOMAIN array' = DOMAIN array
  BY <1>1
<1>11. GlobalOwned(own2)'
  BY <1>1, <1>3, <1>8, <1>9, <1>10, GlobalKept
<1>12. SlotBehind(before2, last2, d)'
  <2>1. 0 < Len(array[o].slots) /\ data[d].n - 1 + 0 + 1 = data[d].n
    BY ONLY <1>5, <1>9
  <2> QED BY <1>1, <1>2, <1>4, <1>5, <1>8, <2>1 DEF SlotBehind
<1>13. op.n > 2
  BY ONLY <1>4, <1>5
<1>14. LinkPhase(own2, before2, last2, op.cur)'
  BY <1>1, <1>2, <1>3, <1>4, <1>12, <1>13 DEF LinkPhase
<1>15. PostParts(own2, before2, last2, post)'
  BY <1>1, <1>2, <1>8, <1>11, <1>14 DEF PostParts
<1> QED BY <1>15

(***************************************************************************)
(* The posting is stored, in a slot that no count covers yet.              *)
(***************************************************************************)
LEMMA PostSetSlot ==
  ASSUME BaseInv, NEW own, NEW before, NEW last, NEW post, PostParts(own, before, last, post),
         op.cur # 0, SetSlot
  PROVE  PostParts(own, before, last, post)'
<1>0. TypeOK /\ op \in Locals /\ Compact \in BOOLEAN
  BY ConstantsAssumption DEF BaseInv, TypeOK, CallOK, ConstantsAssumption
<1>1. /\ pc = "set_slot" /\ data' = data /\ hdr' = hdr /\ op' = op
      /\ array' = [array EXCEPT ![op.arr].slots[op.slot + 1] = op.entry]
      /\ op.arr \in DOMAIN array /\ op.slot + 1 \in DOMAIN array[op.arr].slots
      /\ op.n = 2 => pc' = "data_array"
      /\ op.n # 2 /\ Compact => pc' = "data_tail"
      /\ op.n # 2 /\ ~Compact => pc' = "data_count"
      /\ pc' \in {"data_array", "data_tail", "data_count"}
  BY <1>0 DEF SetSlot, Goto
<1>2. Linking /\ Linking'
  BY <1>1 DEF Linking, Growing
<1>3. PICK d, x, i, e : d = op.cur /\ x = op.arr /\ i = op.slot /\ e = op.entry
  OBVIOUS
<1>4. /\ Rows(own, before, last, post) /\ GlobalOwned(own) /\ d \in DOMAIN data
      /\ \A c \in DOMAIN data : c # d => Ready(before, last, c)
  BY <1>2, <1>3, LinkingStart
<1>5. /\ op.n = data[d].n + 1
      /\ \/ op.n = 2 /\ data[d].array = 0 /\ i = 0 /\ Unchained(own, x)
         \/ op.n > 2 /\ SlotBehind(before, last, d)
  BY <1>1, <1>2, <1>3, LinkingStart DEF LinkPhase
<1>6. i \in Nat /\ e \in Nat /\ data[d].n \in Nat
  BY <1>0, <1>3, <1>4, RowTypes DEF Locals
<1>7. /\ array' = [array EXCEPT ![x].slots[i + 1] = e] /\ x \in DOMAIN array
      /\ i + 1 \in DOMAIN array[x].slots
  BY <1>1, <1>3
<1>8. /\ DOMAIN array' = DOMAIN array
      /\ \A a \in DOMAIN array : a # x => array'[a] = array[a]
      /\ array'[x].next = array[x].next /\ Len(array'[x].slots) = Len(array[x].slots)
      /\ array'[x].slots[i + 1] = e
  <2>1. PICK p \in Seq(Nat) : p = array[x].slots
    BY <1>0, <1>7, SlotsType
  <2>2. /\ Len([p EXCEPT ![i + 1] = e]) = Len(p)
        /\ i + 1 \in DOMAIN p => [p EXCEPT ![i + 1] = e][i + 1] = e
    BY <1>6
  <2>3. array'[x].next = array[x].next /\ array'[x].slots = [p EXCEPT ![i + 1] = e]
    BY <1>0, <1>7, <2>1 DEF TypeOK, ObjectsOK, ArrayObject
  <2>4. /\ DOMAIN array' = DOMAIN array
        /\ \A a \in DOMAIN array : a # x => array'[a] = array[a]
    BY <1>0, <1>7, StoredArrays
  <2> QED BY <1>7, <2>1, <2>2, <2>3, <2>4
<1>9. SameObjects
  BY <1>1 DEF SameObjects
<1>10. GlobalOwned(own)'
  BY <1>1, <1>4, <1>8, GlobalKept DEF Growing
<1>11. SlotStored'
  BY <1>1, <1>3, <1>8 DEF SlotStored
<1>12. CASE op.n = 2 /\ data[d].array = 0 /\ i = 0 /\ Unchained(own, x)
  <2>1. own[x] \notin DOMAIN data
    BY <1>0, <1>12, RowTypes DEF Unchained
  <2>2. /\ Rows(own, before, last, post)'
        /\ \A c \in DOMAIN data : c # d => Ready(before, last, c)'
    BY <1>0, <1>4, <1>7, <1>8, <1>9, <2>1, RowsStore
  <2>3. Unchained(own, x)'
    BY <1>8, <1>12 DEF Unchained
  <2>4. LinkPhase(own, before, last, op.cur)'
    BY <1>1, <1>3, <1>4, <1>5, <1>11, <1>12, <2>3 DEF LinkPhase
  <2> QED BY <1>1, <1>2, <1>3, <1>10, <2>2, <2>4 DEF PostParts
<1>13. CASE op.n > 2 /\ SlotBehind(before, last, d)
  <2>1. /\ data[d].array # 0 /\ x = last[d] /\ i < Len(array[last[d]].slots)
        /\ before[last[d]] + i + 1 = data[d].n
    BY <1>3, <1>13 DEF SlotBehind
  <2>2. array' = [array EXCEPT ![last[d]].slots[i + 1] = e]
    BY <1>7, <2>1
  <2>3. /\ Rows(own, before, last, post)'
        /\ \A c \in DOMAIN data : c # d => Ready(before, last, c)'
    BY <1>0, <1>4, <1>6, <1>9, <2>1, <2>2, RowsSlot
  <2>4. SlotBehind(before, last, d)'
    BY <1>1, <1>3, <1>8, <2>1 DEF SlotBehind
  <2>5. op.n # 2 /\ op.n >= 2 /\ op.n # 1
    BY ONLY <1>5, <1>6, <1>13
  <2>6. LinkPhase(own, before, last, op.cur)'
    BY <1>1, <1>3, <1>4, <1>5, <1>11, <2>4, <2>5 DEF LinkPhase
  <2> QED BY <1>1, <1>2, <1>3, <1>10, <2>3, <2>6 DEF PostParts
<1> QED BY <1>5, <1>12, <1>13

(***************************************************************************)
(* The DATA object learns of its first array.                              *)
(***************************************************************************)
LEMMA PostDataArray ==
  ASSUME BaseInv, NEW own, NEW before, NEW last, NEW post, PostParts(own, before, last, post),
         DataArray
  PROVE  \E own2, before2, last2 : PostParts(own2, before2, last2, post)'
<1>0. TypeOK /\ Compact \in BOOLEAN
  BY ConstantsAssumption DEF BaseInv, ConstantsAssumption
<1>1. /\ pc = "data_array" /\ array' = array /\ hdr' = hdr /\ op' = op
      /\ data' = [data EXCEPT ![op.cur].array = op.arr]
      /\ pc' = IF Compact THEN "data_tail" ELSE "data_count"
  BY DEF DataArray, Goto
<1>2. Linking /\ Linking'
  BY <1>1 DEF Linking
<1>3. PICK d, o : d = op.cur /\ o = op.arr
  OBVIOUS
<1>4. /\ Rows(own, before, last, post) /\ GlobalOwned(own) /\ d \in DOMAIN data
      /\ \A c \in DOMAIN data : c # d => Ready(before, last, c)
  BY <1>2, <1>3, LinkingStart
<1>5. /\ op.n = data[d].n + 1 /\ op.n = 2 /\ data[d].array = 0 /\ op.slot = 0
      /\ Unchained(own, o) /\ SlotStored
  BY <1>1, <1>2, <1>3, LinkingStart DEF LinkPhase
<1>6. data[d].n = 1
  <2>1. data[d].n \in Nat
    BY <1>0, <1>4, RowTypes
  <2> QED BY <1>5, <2>1
<1>7. PICK own2, before2, last2 : Longer(own, before, last, d, o, 0, own2, before2, last2)
  BY DEF Longer
<1>8. data' = [data EXCEPT ![d].array = o]
  BY <1>1, <1>3
<1>9. /\ Rows(own2, before2, last2, post)' /\ last2[d] = o /\ before2[o] = 0
      /\ DOMAIN data' = DOMAIN data /\ data'[d].array = o /\ data'[d].n = data[d].n
      /\ \A a \in DOMAIN array : a # o => own2[a] = own[a]
      /\ \A c \in DOMAIN data : c # d => Ready(before2, last2, c)'
  <2>1. array' = array
    BY <1>1
  <2>2. /\ Rows(own2, before2, last2, post)' /\ last2[d] = o /\ before2[o] = 0
        /\ DOMAIN data' = DOMAIN data /\ data'[d].array = o /\ data'[d].n = data[d].n
        /\ \A a \in DOMAIN array : a # o => own2[a] = own[a]
        /\ \A c \in DOMAIN data : c # d /\ Ready(before, last, c) => Ready(before2, last2, c)'
    BY ONLY <1>0, <1>4, <1>5, <1>6, <1>7, <1>8, <2>1, RowsFirst
  <2> QED BY <1>4, <2>2
<1>10. o \in DOMAIN array /\ own[o] # 0 /\ Len(array[o].slots) > 0 /\ o # 0
  BY <1>0, <1>5, RowTypes DEF Unchained
<1>11. GlobalOwned(own2)'
  BY <1>1, <1>4, <1>9, <1>10, GlobalKept DEF Growing
<1>12. SlotBehind(before2, last2, d)' /\ SlotStored'
  <2>1. 0 < Len(array[o].slots) /\ 0 + 0 + 1 = 1
    BY <1>10
  <2> QED BY <1>1, <1>3, <1>5, <1>6, <1>9, <1>10, <2>1 DEF SlotBehind, SlotStored
<1>13. LinkPhase(own2, before2, last2, op.cur)'
  <2>1. op.n >= 2 /\ op.n # 1
    BY <1>5
  <2>2. Compact => pc' = "data_tail"
    BY <1>1
  <2>3. ~Compact => pc' = "data_count"
    BY <1>1
  <2> QED BY <1>0, <1>1, <1>3, <1>4, <1>5, <1>9, <1>12, <2>1, <2>2, <2>3 DEF LinkPhase
<1>14. PostParts(own2, before2, last2, post)'
  BY <1>1, <1>2, <1>3, <1>9, <1>11, <1>13 DEF PostParts
<1> QED BY <1>14

(***************************************************************************)
(* The compact hint of the DATA object names the slot of the new posting.  *)
(***************************************************************************)
LEMMA PostDataHint ==
  ASSUME BaseInv, NEW own, NEW before, NEW last, NEW post, PostParts(own, before, last, post),
         DataHint
  PROVE  PostParts(own, before, last, post)'
<1>0. TypeOK
  BY DEF BaseInv
<1>1. /\ pc = "data_tail" /\ array' = array /\ hdr' = hdr /\ op' = op /\ pc' = "data_count"
      /\ data' = [data EXCEPT ![op.cur].tail = op.arr, ![op.cur].tail_n = op.slot + 1]
  BY DEF DataHint, Goto
<1>2. Linking /\ Linking'
  BY <1>1 DEF Linking
<1>3. PICK d : d = op.cur
  OBVIOUS
<1>4. /\ Rows(own, before, last, post) /\ GlobalOwned(own) /\ d \in DOMAIN data
      /\ \A c \in DOMAIN data : c # d => Ready(before, last, c)
  BY <1>2, <1>3, LinkingStart
<1>5. /\ op.n = data[d].n + 1 /\ op.n >= 2 /\ SlotBehind(before, last, d) /\ SlotStored
  BY <1>1, <1>2, <1>3, LinkingStart DEF LinkPhase
<1>6. /\ DOMAIN data' = DOMAIN data /\ data'[d].tail = op.arr /\ data'[d].tail_n = op.slot + 1
      /\ \A c \in DOMAIN data : /\ data'[c].n = data[c].n /\ data'[c].array = data[c].array
                                /\ data'[c].entry = data[c].entry
                                /\ c # d => data'[c] = data[c]
  <2>1. data \in [DOMAIN data -> DataObject]
    BY <1>0 DEF TypeOK, ObjectsOK
  <2> QED BY <1>1, <1>3, <1>4, <2>1 DEF DataObject
<1>7. SameRows
  BY <1>1, <1>6 DEF SameRows
<1>8. Rows(own, before, last, post)'
  BY <1>4, <1>7, RowsSame
<1>9. \A c \in DOMAIN data : c # d => Ready(before, last, c)'
  BY <1>4, <1>6 DEF Ready
<1>10. GlobalOwned(own)'
  BY <1>1, <1>4, GlobalKept DEF Growing
<1>11. SlotBehind(before, last, d)' /\ SlotStored'
  BY <1>1, <1>4, <1>5, <1>6 DEF SlotBehind, SlotStored
<1>12. LinkPhase(own, before, last, op.cur)'
  BY <1>1, <1>3, <1>4, <1>5, <1>6, <1>11 DEF LinkPhase
<1> QED BY <1>1, <1>2, <1>3, <1>6, <1>8, <1>9, <1>10, <1>12 DEF PostParts

(***************************************************************************)
(* The count makes the new posting one of the postings.                    *)
(***************************************************************************)
LEMMA PostDataCount ==
  ASSUME BaseInv, NEW own, NEW before, NEW last, NEW post, PostParts(own, before, last, post),
         DataCount, NEW post2, post2 = [post EXCEPT ![op.cur] = Append(post[op.cur], op.entry)]
  PROVE  PostParts(own, before, last, post2)' /\ op.cur \in DOMAIN data
<1>0. TypeOK /\ op \in Locals
  BY DEF BaseInv, TypeOK, CallOK
<1>1. /\ pc = "data_count" /\ array' = array /\ hdr' = hdr /\ pc' = "link"
      /\ data' = [data EXCEPT ![op.cur].n = op.n]
  BY DEF DataCount, Goto
<1>2. Linking /\ ~Linking'
  BY <1>1 DEF Linking, Growing
<1>3. PICK d, e, i : d = op.cur /\ e = op.entry /\ i = op.slot
  OBVIOUS
<1>4. /\ Rows(own, before, last, post) /\ GlobalOwned(own) /\ d \in DOMAIN data
      /\ \A c \in DOMAIN data : c # d => Ready(before, last, c)
  BY <1>2, <1>3, LinkingStart
<1>5. /\ op.n = data[d].n + 1
      /\ \/ op.n = 1 /\ data[d].array = 0 /\ data[d].entry = e
         \/ /\ op.n >= 2 /\ SlotBehind(before, last, d) /\ SlotStored
            /\ Compact => data[d].tail = op.arr /\ data[d].tail_n = i + 1
  BY <1>1, <1>2, <1>3, LinkingStart DEF LinkPhase
<1>6. data[d].n \in Nat /\ e \in Nat /\ i \in Nat
  BY <1>0, <1>3, <1>4, RowTypes DEF Locals
<1>7. \/ data[d].n = 0 /\ data[d].array = 0 /\ data[d].entry = e
      \/ /\ data[d].n >= 1 /\ data[d].array # 0 /\ i < Len(array[last[d]].slots)
         /\ before[last[d]] + i + 1 = data[d].n /\ array[last[d]].slots[i + 1] = e
         /\ Compact => data[d].tail = last[d] /\ data[d].tail_n = i + 1
  <2>1. CASE op.n = 1 /\ data[d].array = 0 /\ data[d].entry = e
    <3>1. data[d].n = 0
      BY <1>5, <1>6, <2>1
    <3> QED BY <2>1, <3>1
  <2>2. CASE /\ op.n >= 2 /\ SlotBehind(before, last, d) /\ SlotStored
             /\ Compact => data[d].tail = op.arr /\ data[d].tail_n = i + 1
    <3>1. data[d].n >= 1
      BY <1>5, <1>6, <2>2
    <3> QED BY <1>3, <2>2, <3>1 DEF SlotBehind, SlotStored
  <2> QED BY <1>5, <2>1, <2>2
<1>8. data' = [data EXCEPT ![d].n = data[d].n + 1]
  BY <1>1, <1>3, <1>5
<1>9. post2 = [post EXCEPT ![d] = Append(post[d], e)]
  BY <1>3
<1>10. /\ Rows(own, before, last, post2)' /\ DOMAIN data' = DOMAIN data
       /\ Ready(before, last, d)'
       /\ \A c \in DOMAIN data : c # d => Ready(before, last, c)'
  <2>1. array' = array
    BY <1>1
  <2>2. /\ Rows(own, before, last, post2)' /\ DOMAIN data' = DOMAIN data
        /\ Ready(before, last, d)'
        /\ \A c \in DOMAIN data : c # d /\ Ready(before, last, c) => Ready(before, last, c)'
    BY ONLY <1>0, <1>4, <1>6, <1>7, <1>8, <1>9, <2>1, RowsCount
  <2> QED BY <1>4, <2>2
<1>11. GlobalOwned(own)'
  BY <1>1, <1>4, GlobalKept DEF Growing
<1> QED BY <1>2, <1>3, <1>4, <1>10, <1>11 DEF PostParts

(***************************************************************************)
(* Only two stores change what is posted: a new DATA object starts without *)
(* postings, and the store of the count adds the entry that is linked.     *)
(***************************************************************************)
PostStep(post, post2) ==
  IF WriteData THEN post2 = Put(post, w.append_offset, <<>>)
  ELSE IF DataCount THEN post2 = [post EXCEPT ![op.cur] = Append(post[op.cur], op.entry)]
  ELSE post2 = post

PostGoes(post) ==
  \E own2, before2, last2, post2 :
    PostParts(own2, before2, last2, post2)' /\ PostStep(post, post2)

LEMMA PostInit ==
  Init => \E own, before, last, post : PostParts(own, before, last, post) /\ post = <<>>
<1> SUFFICES ASSUME Init PROVE PostParts(<<>>, <<>>, <<>>, <<>>)
  OBVIOUS
<1>1. /\ DOMAIN data = {} /\ DOMAIN array = {} /\ pc = "idle" /\ hdr.tail_array = 0
  BY DEF Init
<1>2. DOMAIN <<>> = {} /\ \A S : <<>> \in [{} -> S]
  OBVIOUS
<1>3. Rows(<<>>, <<>>, <<>>, <<>>)
  BY <1>1, <1>2 DEF Rows, Witness
<1>4. GlobalOwned(<<>>) /\ ~Linking
  BY <1>1 DEF GlobalOwned, Linking, Growing
<1> QED BY <1>1, <1>3, <1>4 DEF PostParts

LEMMA PostNext ==
  ASSUME MaxOffset < TailModulus, BaseInv, ListInv, [Next]_vars,
         NEW own, NEW before, NEW last, NEW post, PostParts(own, before, last, post)
  PROVE  PostGoes(post)
<1>0. DataCount => ~WriteData
  BY DEF DataCount, WriteData
<1>1. ASSUME ~WriteData, ~DataCount,
             \E own2, before2, last2 : PostParts(own2, before2, last2, post)'
      PROVE  PostGoes(post)
  BY <1>1 DEF PostGoes, PostStep
<1>2. CASE WriteData
  BY <1>2, PostWriteData DEF PostGoes, PostStep
<1>3. CASE DataCount
  <2>1. ~WriteData
    BY <1>0, <1>3
  <2> QED BY <1>3, <2>1, PostDataCount DEF PostGoes, PostStep
<1>4. CASE ~WriteData /\ ~DataCount
  <2>1. CASE UNCHANGED vars \/ Call \/ Leave \/ Publish \/ FailPublish
    BY <1>1, <1>4, <2>1, PostOutside
  <2>2. CASE QuietField \/ WriteField \/ StartData \/ Finish \/ WriteEntry
    BY <1>1, <1>4, <2>2, PostField
  <2>3. CASE \/ Linked \/ CommitObjects \/ CommitTailObject \/ CommitHead \/ CommitTail
             \/ CommitTailEntry \/ CommitCount
    BY <1>1, <1>4, <2>3, PostCommit
  <2>4. CASE PlaceFirst \/ PlaceInTail \/ PlaceInNew
    BY <1>1, <1>4, <2>4, PostPlace
  <2>5. CASE op.cur = 0 /\ (LinkArray \/ SetSlot)
    BY <1>1, <1>4, <2>5, PostGlobalStore
  <2>6. CASE GlobalHeader
    BY <1>1, <1>4, <2>6, PostHeader
  <2>7. CASE LinkItem
    <3>1. PICK it \in op.left : LinkFirst(it) \/ LinkSecond(it) \/ LinkInTail(it) \/ LinkInNew(it)
      BY <2>7 DEF LinkItem
    <3>2. CASE LinkFirst(it)
      BY <1>1, <1>4, <3>2, PostLinkFirst
    <3>3. CASE LinkSecond(it) \/ LinkInNew(it)
      BY <1>1, <1>4, <3>3, PostLinkNew
    <3>4. CASE LinkInTail(it)
      BY <1>1, <1>4, <3>4, PostLinkInTail
    <3> QED BY <3>1, <3>2, <3>3, <3>4
  <2>8. CASE op.cur # 0 /\ LinkArray
    BY <1>1, <1>4, <2>8, PostLinkArray
  <2>9. CASE op.cur # 0 /\ SetSlot
    BY <1>1, <1>4, <2>9, PostSetSlot
  <2>10. CASE DataArray
    BY <1>1, <1>4, <2>10, PostDataArray
  <2>11. CASE DataHint
    BY <1>1, <1>4, <2>11, PostDataHint
  <2>12. QuietLink \/ CreateLink =>
           \/ PlaceFirst \/ PlaceInTail \/ PlaceInNew \/ LinkArray \/ SetSlot \/ GlobalHeader
           \/ LinkItem \/ DataArray \/ DataHint \/ DataCount \/ Linked
    BY DEF QuietLink, CreateLink, LinkItem
  <2>13. CreateField => WriteData \/ WriteField
    BY DEF CreateField
  <2> QED BY <1>4, <2>1, <2>2, <2>3, <2>4, <2>5, <2>6, <2>7, <2>8, <2>9, <2>10, <2>11, <2>12, <2>13,
             NextGroups
<1> QED BY <1>2, <1>3, <1>4

-----------------------------------------------------------------------------

(***************************************************************************)
(* The links that an append follows behind an entry lead to arrays.        *)
(***************************************************************************)
LEMMA PostUndamaged ==
  ASSUME BaseInv, HashInv, ListInv,
         NEW own, NEW before, NEW last, NEW post, PostParts(own, before, last, post)
  PROVE  NoDamageMet
<1>0. TypeOK
  BY DEF BaseInv
<1>1. ~DamagedTables
  BY HashUndamaged
<1>2. ~(pc = "place" /\ hdr.entry_array # 0 /\ GlobalTail \notin DOMAIN array)
  <2> SUFFICES ASSUME pc = "place", hdr.entry_array # 0 PROVE GlobalTail \in DOMAIN array
    OBVIOUS
  <2>1. PICK G, F, b, l, s : ListParts(G, F, b, l, s)
    BY DEF ListInv
  <2>2. Hinted(b, l) /\ Chained(G, b, l, s)
    BY <2>1 DEF ListParts, Phase, Unplaced
  <2>3. hdr.tail_array \in DOMAIN array
    BY <2>2, ChainInFile DEF Hinted
  <2> QED BY <1>0, <2>3, RowTypes DEF GlobalTail
<1>3. ASSUME pc = "link", NEW it \in op.left, NextItem(it), LinkState(it).n >= 2
      PROVE  LinkState(it).array # 0 /\ DataTail(LinkState(it)).at \in DOMAIN array
  BY <1>3, LinkTail
<1> QED BY <1>1, <1>2, <1>3 DEF NoDamageMet, Damaged, DamagedTables

(***************************************************************************)
(* No append of a running writer, fresh or after a failed call, finds a    *)
(* link that leads nowhere, in a table or an array chain that it built     *)
(* itself (the Corruption returns of the hash walks and of                 *)
(* append_entry_array_with_tail are not taken).                            *)
(***************************************************************************)
THEOREM WriterMeetsNoDamage ==
  ASSUME MaxOffset < TailModulus
  PROVE  Spec => []NoDamageMet
<1> DEFINE PostInv == \E own, before, last, post : PostParts(own, before, last, post)
<1>1. Init => BaseInv /\ HashInv /\ ListInv /\ PostInv
  BY BaseInit, HashInit, ListInit, PostInit
<1>2. BaseInv /\ HashInv /\ ListInv /\ PostInv /\ [Next]_vars =>
        (BaseInv /\ HashInv /\ ListInv /\ PostInv)'
  <2>1. BaseInv /\ ListInv /\ PostInv /\ [Next]_vars => PostInv'
    BY PostNext DEF PostGoes
  <2> QED BY <2>1, BaseNext, HashNext, ListNext
<1>3. BaseInv /\ HashInv /\ ListInv /\ PostInv => NoDamageMet
  BY PostUndamaged
<1> QED BY <1>1, <1>2, <1>3, PTL DEF Spec

-----------------------------------------------------------------------------
(* An entry has each of its DATA objects once. *)

\* No payload is there twice.
Different(s) == \A i, j \in DOMAIN s : s[i] = s[j] /\ s[i] \in Payloads => i = j

\* trusted_unique_payloads: who sets it submits every payload once.
CallerContract ==
  TRUE \in TrustedOptions =>
    \A fields \in Requests : Different(fields)

\* The items of a request without repetitions are all different DATA objects.
SingleItems ==
  /\ pc \in Request /\ op.trusted =>
       /\ Different(op.todo)
       /\ \A it \in op.items : data[it.offset].payload \notin Rest(op.todo)
  /\ \A it \in op.items \cup op.left : it.copy = 1

(***************************************************************************)
(* A step that leaves the request alone, or moves its items to the linking.*)
(***************************************************************************)
LEMMA SingleSame ==
  ASSUME RequestInv, SamePayloads, SingleItems, pc' \in Request => pc \in Request,
         op'.todo = op.todo, op'.trusted = op.trusted, op'.items = op.items,
         op'.left \subseteq op.left \cup op.items
  PROVE  SingleItems'
<1>1. \A it \in op'.items \cup op'.left : it.copy = 1
  BY DEF SingleItems
<1>2. ASSUME pc' \in Request, op'.trusted
      PROVE  /\ Different(op.todo)
             /\ \A it \in op.items : data'[it.offset].payload \notin Rest(op.todo)
  BY <1>2 DEF SingleItems, RequestInv, SamePayloads
<1> QED BY <1>1, <1>2 DEF SingleItems, Different, Rest

\* A call that is over, or has just begun, has no items.
LEMMA SingleNone ==
  ASSUME op'.items = {}, op'.left = {}, pc' \in Request /\ op'.trusted => Different(op'.todo)
  PROVE  SingleItems'
BY DEF SingleItems, Different

LEMMA DifferentTail ==
  ASSUME NEW S, NEW s \in Seq(S), s # <<>>, Different(s)
  PROVE  Different(Tail(s)) /\ (Head(s) \in Payloads => Head(s) \notin Rest(Tail(s)))
<1>1. PICK n \in Nat : n = Len(s) /\ n >= 1 /\ DOMAIN s = 1..n
  OBVIOUS
<1>2. DOMAIN Tail(s) = 1..(n - 1) /\ \A i \in 1..(n - 1) : Tail(s)[i] = s[i + 1]
  BY <1>1
<1>3. Head(s) = s[1] /\ 1 \in DOMAIN s
  BY <1>1
<1>4. \A i \in 1..(n - 1) : i + 1 \in 1..n /\ i + 1 # 1
  BY ONLY <1>1
<1>5. \A i, j \in 1..(n - 1) : i + 1 = j + 1 => i = j
  BY ONLY <1>1
<1>6. Different(Tail(s))
  BY <1>1, <1>2, <1>4, <1>5 DEF Different
<1>7. Head(s) \in Payloads => Head(s) \notin Rest(Tail(s))
  BY <1>1, <1>2, <1>3, <1>4 DEF Different, Rest
<1> QED BY <1>6, <1>7

(***************************************************************************)
(* A field that becomes an item is a new DATA object of the entry.         *)
(***************************************************************************)
LEMMA SingleAdd ==
  ASSUME BaseInv, SingleItems, pc \in Request, op.todo # <<>>, pc' \in Request,
         NEW d \in DOMAIN data, data[d].payload = Payload, NEW n, NEW a, NEW t, NEW tn,
         op'.todo = Tail(op.todo), op'.trusted = op.trusted, op'.left = op.left,
         op'.items = AddItem(d, n, a, t, tn), data' = data \/ SamePayloads
  PROVE  SingleItems'
<1>0. op \in Locals /\ Payload \in Payloads /\ op.todo \in Seq(Payloads \cup {Rejected, Dropped})
  BY DEF BaseInv, TypeOK, CallOK, Locals, ObjectsOK, DataObject
<1>1. SamePayloads
  BY DEF SamePayloads
<1>2. \A it \in op.items : it.offset \in DOMAIN data
  BY DEF BaseInv, RequestInv
<1>3. op.trusted => /\ Different(op.todo)
                    /\ \A it \in op.items : data[it.offset].payload \notin Rest(op.todo)
  BY DEF SingleItems
<1>4. Rest(op.todo) = ({Payload} \cap Payloads) \cup Rest(Tail(op.todo))
  BY <1>0, RestTail DEF Payload
<1>5. PICK copies : copies = {it \in op.items : it.offset = d}
  OBVIOUS
<1>6. op.trusted => copies = {}
  BY <1>0, <1>3, <1>4, <1>5
<1>7. \/ op'.items = op.items
      \/ copies = {} /\ op'.items = op.items \cup {[offset |-> d, copy |-> Cardinality(copies) + 1,
                                    n |-> n, array |-> a, tail |-> t, tail_n |-> tn]}
  BY <1>5, <1>6 DEF AddItem
<1>8. \A it \in op'.items : it.copy = 1 /\ (it \in op.items \/ it.offset = d)
  <2>1. copies = {} => Cardinality(copies) + 1 = 1
    BY FS_EmptySet
  <2>2. \A it \in op.items : it.copy = 1
    BY DEF SingleItems
  <2>3. CASE op'.items = op.items
    BY <2>2, <2>3
  <2>4. CASE copies = {} /\ op'.items = op.items \cup {[offset |-> d, copy |-> Cardinality(copies) + 1,
                                    n |-> n, array |-> a, tail |-> t, tail_n |-> tn]}
    BY <2>1, <2>2, <2>4
  <2> QED BY <1>7, <2>3, <2>4
<1>9. \A it \in op'.items \cup op'.left : it.copy = 1
  BY <1>8 DEF SingleItems
<1>10. ASSUME op.trusted
       PROVE  /\ Different(Tail(op.todo))
              /\ \A it \in op'.items : data'[it.offset].payload \notin Rest(Tail(op.todo))
  <2>1. Different(Tail(op.todo)) /\ Payload \notin Rest(Tail(op.todo))
    BY <1>0, <1>3, <1>10, DifferentTail DEF Payload
  <2> QED BY <1>1, <1>2, <1>3, <1>4, <1>8, <1>10, <2>1 DEF SamePayloads
<1> QED BY <1>9, <1>10 DEF SingleItems, Different, Rest

LEMMA SingleField ==
  ASSUME BaseInv, HashInv, SingleItems, SamePayloads,
         QuietField \/ CreateField \/ StartData \/ Finish \/ WriteEntry
  PROVE  SingleItems'
<1>0. /\ op \in Locals /\ RequestInv /\ TypeOK
      /\ op.todo \in Seq(Payloads \cup {Rejected, Dropped})
  BY DEF BaseInv, TypeOK, CallOK, Locals
<1>1. CASE StartData \/ Finish
  <2>1. op' = op /\ pc \in Request
    BY <1>0, <1>1, StartPoisoned DEF Request
  <2> QED BY <1>0, <2>1, SingleSame
<1>2. CASE WriteEntry
  <2>1. /\ op'.todo = op.todo /\ op'.trusted = op.trusted /\ op'.items = op.items
        /\ op'.left = op.items /\ pc' = "place"
    BY <1>0, <1>2 DEF WriteEntry, Goto, Locals
  <2> QED BY <1>0, <2>1, SingleSame DEF Request, FieldSteps
<1>3. CASE \/ PublishDataBucket \/ CountData \/ CachedField \/ FoundField \/ LinkFieldHash
           \/ PublishFieldBucket \/ CountField \/ WriteField \/ LinkDataHash \/ SetNextField
           \/ WriteData
  <2>1. pc \in Request
    BY <1>3 DEF PublishDataBucket, CountData, CachedField, FoundField, LinkFieldHash,
                PublishFieldBucket, CountField, WriteField, LinkDataHash, SetNextField, WriteData,
                Request, FieldSteps
  <2>2. /\ op'.todo = op.todo /\ op'.items = op.items /\ op'.trusted = op.trusted
        /\ op'.left = op.left
    BY <1>0, <1>3 DEF PublishDataBucket, CountData, CachedField, FoundField, LinkFieldHash,
                      PublishFieldBucket, CountField, WriteField, LinkDataHash, SetNextField,
                      WriteData, Locals
  <2> QED BY <1>0, <2>1, <2>2, SingleSame
<1>4. CASE SkipField
  <2>1. /\ op'.todo = Tail(op.todo) /\ op'.items = op.items /\ op.todo # <<>>
        /\ op'.trusted = op.trusted /\ op'.left = op.left /\ pc = "field"
    BY <1>0, <1>4 DEF SkipField, AtField, Locals
  <2>2. data' = data
    BY <1>4 DEF SkipField, objects
  <2>3. op.trusted => /\ Different(op.todo)
                      /\ \A it \in op.items : data[it.offset].payload \notin Rest(op.todo)
    BY <2>1 DEF SingleItems, Request
  <2>4. Rest(Tail(op.todo)) \subseteq Rest(op.todo)
    BY <1>0, <2>1, RestTail
  <2>5. op.trusted => Different(Tail(op.todo))
    BY <1>0, <2>1, <2>3, DifferentTail
  <2>6. \A it \in op'.items \cup op'.left : it.copy = 1
    BY <2>1 DEF SingleItems
  <2> QED BY <2>1, <2>2, <2>3, <2>4, <2>5, <2>6 DEF SingleItems, Different, Rest
<1>5. CASE ReuseData
  <2>1. /\ op.todo # <<>> /\ Payload \in Payloads /\ pc \in Request /\ pc' \in Request
    BY <1>5 DEF ReuseData, AtField, Goto, Request
  <2>2. PICK d \in FindData(Payload) :
          op' = [op EXCEPT !.todo = Tail(@),
                           !.items = AddItem(d, data[d].n, data[d].array,
                                             data[d].tail, data[d].tail_n)]
    BY <1>5 DEF ReuseData
  <2>3. d \in DOMAIN data /\ data[d].payload = Payload
    <3>1. PICK S, F, L : HashParts(S, F, L)
      BY DEF HashInv
    <3>2. DataChains(S) /\ S \subseteq DOMAIN data
      BY <3>1 DEF HashParts, DataChains
    <3> QED BY <1>0, <2>1, <2>2, <3>2, DataFound
  <2>4. PICK n, a, t, tn : n = data[d].n /\ a = data[d].array /\ t = data[d].tail /\ tn = data[d].tail_n
    OBVIOUS
  <2>5. /\ op'.todo = Tail(op.todo) /\ op'.items = AddItem(d, n, a, t, tn)
        /\ op'.trusted = op.trusted /\ op'.left = op.left
    BY <1>0, <2>2, <2>4 DEF Locals
  <2> QED BY <2>1, <2>3, <2>5, SingleAdd
<1>6. CASE SetHeadData
  <2>1. /\ op'.todo = Tail(op.todo) /\ op'.items = AddItem(op.cur, 0, 0, 0, 0)
        /\ op'.trusted = op.trusted /\ op'.left = op.left
        /\ pc = "head_data" /\ pc' = "field"
    BY <1>0, <1>6 DEF SetHeadData, Goto, Locals
  <2>2. PICK d : d = op.cur
    OBVIOUS
  <2>3. d \in DOMAIN data /\ data[d].payload = Payload
    BY <2>1, <2>2, AtHand DEF FieldSteps
  <2>4. op.todo # <<>>
    BY <2>1 DEF BaseInv, TypeOK, CallOK, FieldSteps
  <2>5. op'.items = AddItem(d, 0, 0, 0, 0) /\ pc \in Request /\ pc' \in Request
    BY <2>1, <2>2 DEF Request, FieldSteps
  <2> QED BY <2>1, <2>3, <2>4, <2>5, SingleAdd
<1> QED BY <1>1, <1>2, <1>3, <1>4, <1>5, <1>6 DEF QuietField, CreateField

LEMMA SingleNext ==
  ASSUME CallerContract, BaseInv, HashInv, SingleItems, [Next]_vars
  PROVE  SingleItems'
<1>0. TypeOK /\ op \in Locals /\ RequestInv /\ SamePayloads
  BY PayloadsNext DEF BaseInv, TypeOK, CallOK
<1>1. CASE UNCHANGED vars
  <2>1. op' = op /\ pc' = pc
    BY <1>1 DEF vars
  <2> QED BY <1>0, <2>1, SingleSame
<1>2. CASE Leave \/ Publish \/ FailPublish \/ RefusePoisoned
           \/ \E s \in SeqnumOptions, b \in Boots, m \in Monotonics : RefuseOptions(s, b, m)
  <2>1. op' = NoOp /\ pc' = "idle"
    BY <1>2 DEF Leave, RejectField, FinishEmpty, FailAppend, Overflow, Publish, FailPublish,
                RefusePoisoned, RefuseOptions, Return
  <2>2. NoOp.items = {} /\ NoOp.left = {}
    BY DEF NoOp
  <2> QED BY <2>1, <2>2, SingleNone DEF Request, FieldSteps
<1>3. ASSUME NEW fields \in Requests, NEW s \in SeqnumOptions, NEW b \in Boots,
             NEW m \in Monotonics, NEW trusted \in TrustedOptions,
             BeginAppend(fields, s, b, m, trusted)
      PROVE  SingleItems'
  <2>1. op'.items = {} /\ op'.left = {} /\ op'.todo = fields /\ op'.trusted = trusted
    BY <1>3 DEF BeginAppend, NoOp
  <2>2. trusted \in BOOLEAN
    BY ConstantsAssumption DEF ConstantsAssumption
  <2>3. trusted => Different(fields)
    BY <2>2 DEF CallerContract
  <2> QED BY <2>1, <2>3, SingleNone
<1>4. CASE QuietField \/ CreateField \/ StartData \/ Finish \/ WriteEntry
  BY <1>0, <1>4, SingleField
<1>5. CASE QuietLink \/ CreateLink
  <2>1. pc' \notin Request
    <3>1. pc' \in LinkSteps \cup {"commit_objects"}
      BY <1>0, <1>5, QuietLinkFrame, CreateLinkFrame
    <3> QED BY <3>1 DEF Request, FieldSteps, LinkSteps
  <2>2. /\ op'.todo = op.todo /\ op'.trusted = op.trusted /\ op'.items = op.items
        /\ op'.left \subseteq op.left
    <3> USE <1>0 DEF Locals
    <3>1. CASE PlaceFirst \/ PlaceInTail \/ PlaceInNew
      BY <3>1 DEF PlaceFirst, PlaceInTail, PlaceInNew
    <3>2. CASE LinkArray \/ SetSlot \/ DataArray \/ DataHint \/ Linked
      BY <3>2 DEF LinkArray, SetSlot, DataArray, DataHint, Linked
    <3>3. CASE GlobalHeader \/ DataCount
      BY <3>3 DEF GlobalHeader, DataCount
    <3>4. ASSUME NEW it \in op.left,
                 LinkFirst(it) \/ LinkSecond(it) \/ LinkInTail(it) \/ LinkInNew(it)
          PROVE  /\ op'.todo = op.todo /\ op'.trusted = op.trusted /\ op'.items = op.items
                 /\ op'.left \subseteq op.left
      <4>1. CASE LinkFirst(it)
        BY <4>1 DEF LinkFirst
      <4>2. CASE LinkSecond(it)
        BY <4>2 DEF LinkSecond
      <4>3. CASE LinkInTail(it)
        BY <4>3 DEF LinkInTail
      <4>4. CASE LinkInNew(it)
        BY <4>4 DEF LinkInNew
      <4> QED BY <3>4, <4>1, <4>2, <4>3, <4>4
    <3> QED BY <1>5, <3>1, <3>2, <3>3, <3>4 DEF QuietLink, CreateLink
  <2> QED BY <1>0, <2>1, <2>2, SingleSame
<1>6. CASE \/ CommitObjects \/ CommitTailObject \/ CommitHead \/ CommitTail
           \/ CommitTailEntry \/ CommitCount
  <2>1. op' = op /\ pc' \notin Request
    BY <1>6 DEF CommitObjects, CommitTailObject, CommitHead, CommitTail, CommitTailEntry,
                CommitCount, Goto, Request, FieldSteps
  <2> QED BY <1>0, <2>1, SingleSame
<1> QED BY <1>1, <1>2, <1>3, <1>4, <1>5, <1>6, NextGroups DEF Call

-----------------------------------------------------------------------------
(* What the postings are. *)

Posted(post, d) == {post[d][i] : i \in DOMAIN post[d]}

ItemsOf(e) == {x[1] : x \in entry[e].items}

\* The DATA objects that the running append has still to count its entry for.
Unposted ==
  IF pc \in LinkSteps
  THEN {it.offset : it \in op.left} \cup (IF Linking THEN {op.cur} ELSE {})
  ELSE {}

(***************************************************************************)
(* Postings are entries that hold the payload, in file order; a committed  *)
(* entry is posted for each of its items, and the running append's for     *)
(* those that it is through with.                                          *)
(***************************************************************************)
PostExact(post) ==
  /\ \A d \in DOMAIN data : \A e \in Posted(post, d) : e \in DOMAIN entry /\ d \in ItemsOf(e)
  /\ \A e \in CommittedByNumber : \A d \in ItemsOf(e) : e \in Posted(post, d)
  /\ \A d \in DOMAIN data : \A i, j \in DOMAIN post[d] : i < j => post[d][i] < post[d][j]
  /\ pc \in LinkSteps \cup Commits =>
       /\ Unposted \subseteq ItemsOf(op.entry)
       /\ \A d \in ItemsOf(op.entry) : d \in Unposted <=> op.entry \notin Posted(post, d)

\* Steps that change neither what is posted nor what is to be posted.
LEMMA ExactSame ==
  ASSUME NEW post, PostExact(post), DOMAIN data' = DOMAIN data, entry' = entry, SameLog,
         \/ pc' \notin LinkSteps \cup Commits
         \/ pc \in LinkSteps \cup Commits /\ op'.entry = op.entry /\ Unposted' = Unposted
  PROVE  PostExact(post)'
<1>1. \A e : ItemsOf(e)' = ItemsOf(e)
  BY DEF ItemsOf
<1>2. \A d : Posted(post, d)' = Posted(post, d)
  BY DEF Posted
<1> QED BY <1>1, <1>2 DEF PostExact, SameLog

LEMMA ExactWriteData ==
  ASSUME BaseInv, NEW post \in [DOMAIN data -> Seq(Nat)], PostExact(post), SameLog, WriteData,
         NEW post2, post2 = Put(post, w.append_offset, <<>>)
  PROVE  PostExact(post2)'
<1>0. TypeOK
  BY DEF BaseInv
<1>1. PICK o : o = w.append_offset
  OBVIOUS
<1>2. /\ entry' = entry /\ DOMAIN data' = DOMAIN data \cup {o} /\ pc' = "hash_next"
      /\ o \notin DOMAIN data
  BY <1>1, NewPlace DEF WriteData, Put, Goto
<1>3. post2[o] = <<>> /\ \A d \in DOMAIN data : post2[d] = post[d]
  BY <1>1, <1>2 DEF Put
<1>4. \A e : ItemsOf(e)' = ItemsOf(e)
  BY <1>2 DEF ItemsOf
<1>5. \A d \in DOMAIN data : Posted(post2, d)' = Posted(post, d)
  BY <1>3 DEF Posted
<1>6. Posted(post2, o)' = {} /\ DOMAIN post2[o] = {}
  BY <1>3 DEF Posted
<1>7. \A e \in CommittedByNumber : ItemsOf(e) \subseteq DOMAIN data
  BY DEF BaseInv, RequestInv, CommittedByNumber, ItemsOf
<1>8. pc' \notin LinkSteps \cup Commits
  BY <1>2 DEF LinkSteps, Commits
<1> QED BY <1>2, <1>3, <1>4, <1>5, <1>6, <1>7, <1>8 DEF PostExact, SameLog

LEMMA ExactWriteEntry ==
  ASSUME BaseInv, NEW post \in [DOMAIN data -> Seq(Nat)], PostExact(post), SameLog, WriteEntry
  PROVE  PostExact(post)'
<1>0. TypeOK /\ op \in Locals
  BY DEF BaseInv, TypeOK, CallOK
<1>1. PICK o : o = w.append_offset
  OBVIOUS
<1>2. /\ DOMAIN entry' = DOMAIN entry \cup {o} /\ data' = data /\ pc' = "place"
      /\ entry'[o].items = {<<it.offset, it.copy>> : it \in op.items}
      /\ op'.entry = o /\ op'.left = op.items
      /\ \A e \in DOMAIN entry : e # o => entry'[e] = entry[e]
  <2>1. data' = data /\ op'.entry = o /\ op'.left = op.items /\ pc' = "place"
    BY <1>0, <1>1 DEF WriteEntry, Goto, Locals
  <2>2. entry'[o].items = {<<it.offset, it.copy>> : it \in op.items}
    BY <1>1 DEF WriteEntry, Put
  <2> QED BY <1>0, <1>1, <2>1, <2>2, WriteEntryFrame
<1>3. o \notin DOMAIN entry
  BY <1>0, <1>1, EntryNumbers DEF BaseInv, ArenaInv, Arena
<1>4. \A e \in DOMAIN entry : ItemsOf(e)' = ItemsOf(e)
  BY <1>2, <1>3 DEF ItemsOf
<1>5. ItemsOf(o)' = {it.offset : it \in op.items}
  <2>1. PICK I : I = op.items /\ entry'[o].items = {<<it.offset, it.copy>> : it \in I}
    BY <1>2
  <2>2. \A x \in entry'[o].items : \E it \in I : x[1] = it.offset
    BY <2>1
  <2>3. \A it \in I : \E x \in entry'[o].items : x[1] = it.offset
    <3> TAKE it \in I
    <3>1. <<it.offset, it.copy>> \in entry'[o].items /\ <<it.offset, it.copy>>[1] = it.offset
      BY <2>1
    <3> QED BY <3>1
  <2>4. {x[1] : x \in entry'[o].items} = {it.offset : it \in I}
    BY <2>2, <2>3
  <2> QED BY <2>1, <2>4 DEF ItemsOf
<1>6. Unposted' = {it.offset : it \in op.items}
  BY <1>2 DEF Unposted, LinkSteps, Linking, Growing
<1>7. \A d : Posted(post, d)' = Posted(post, d)
  BY DEF Posted
<1>8. \A d \in DOMAIN data : o \notin Posted(post, d)
  BY <1>3 DEF PostExact
<1>9. ItemsOf(o)' \subseteq DOMAIN data
  BY <1>5 DEF BaseInv, RequestInv, WriteEntry
<1>10. CommittedByNumber \subseteq DOMAIN entry
  BY DEF CommittedByNumber
<1>11. /\ \A d \in DOMAIN data' : \A e \in Posted(post, d)' : e \in DOMAIN entry' /\ d \in ItemsOf(e)'
       /\ \A e \in CommittedByNumber' : \A d \in ItemsOf(e)' : e \in Posted(post, d)'
  BY <1>2, <1>4, <1>7, <1>10 DEF PostExact, SameLog
<1>12. /\ Unposted' \subseteq ItemsOf(op.entry)'
       /\ \A d \in ItemsOf(op.entry)' : d \in Unposted' /\ op'.entry \notin Posted(post, d)'
  BY <1>2, <1>5, <1>6, <1>7, <1>8, <1>9
<1> QED BY <1>2, <1>11, <1>12 DEF PostExact

\* Every other ENTRY object is in front of the one that is being linked.
LEMMA OthersBefore ==
  ASSUME BaseInv, pc \in LinkSteps \cup Commits
  PROVE  op.entry \in DOMAIN entry /\ \A e \in DOMAIN entry \ {op.entry} : e < op.entry
<1>0. TypeOK /\ SeqnumInv /\ StampInv
  BY DEF BaseInv
<1>1. /\ op.entry \in DOMAIN entry /\ op.seqnum >= w.next_seqnum
      /\ entry[op.entry].seqnum = op.seqnum
      /\ \A e \in DOMAIN entry \ {op.entry} : entry[e].seqnum < w.next_seqnum
  BY <1>0 DEF StampInv, LinkSteps, Commits
<1>2. ASSUME NEW e \in DOMAIN entry \ {op.entry} PROVE e < op.entry
  <2>1. e \in Nat /\ op.entry \in Nat /\ entry[e].seqnum \in Nat /\ op.seqnum \in Nat
        /\ w.next_seqnum \in Nat
    BY <1>0, <1>1, EntryNumbers
  <2>2. entry[e].seqnum < entry[op.entry].seqnum
    BY <1>1, <2>1
  <2>3. op.entry < e => entry[op.entry].seqnum < entry[e].seqnum
    BY <1>0, <1>1 DEF SeqnumInv
  <2> QED BY <1>1, <2>1, <2>2, <2>3
<1> QED BY <1>1, <1>2

LEMMA ExactDataCount ==
  ASSUME BaseInv, NEW post \in [DOMAIN data -> Seq(Nat)], PostExact(post), SingleItems, SameLog,
         DataCount, op.cur \in DOMAIN data,
         NEW post2, post2 = [post EXCEPT ![op.cur] = Append(post[op.cur], op.entry)]
  PROVE  PostExact(post2)'
<1>0. TypeOK /\ op \in Locals
  BY DEF BaseInv, TypeOK, CallOK
<1>1. PICK c, e : c = op.cur /\ e = op.entry
  OBVIOUS
<1>2. /\ DOMAIN data' = DOMAIN data /\ entry' = entry /\ pc = "data_count" /\ pc' = "link"
      /\ op'.entry = e /\ op'.left = op.left
  <2>1. op' = [op EXCEPT !.cur = 0, !.n = 0, !.arr = 0, !.slot = 0, !.prev = 0]
    BY DEF DataCount
  <2>2. op'.entry = op.entry /\ op'.left = op.left
    BY <1>0, <2>1 DEF Locals
  <2> QED BY <1>1, <2>2 DEF DataCount, Goto
<1>3. e \in DOMAIN entry /\ e \in Nat /\ \A x \in DOMAIN entry \ {e} : x < e
  BY <1>0, <1>1, <1>2, OthersBefore, EntryNumbers DEF LinkSteps
<1>4. /\ Unposted = {it.offset : it \in op.left} \cup {c}
      /\ Unposted' = {it.offset : it \in op.left}
  BY <1>1, <1>2 DEF Unposted, Linking, LinkSteps, Growing
<1>5. \A it \in op.left : it.offset # c
  BY <1>1, <1>2 DEF BaseInv, FreshInv, SingleItems, LinkSteps
<1>6. /\ Unposted \subseteq ItemsOf(e)
      /\ \A d \in ItemsOf(e) : d \in Unposted <=> e \notin Posted(post, d)
  BY <1>1, <1>2 DEF PostExact, LinkSteps
<1>7. c \in ItemsOf(e) /\ e \notin Posted(post, c)
  BY <1>4, <1>6
<1>8. PICK p \in Seq(Nat) : p = post[c]
  BY <1>1
<1>9. post2[c] = Append(p, e) /\ \A d \in DOMAIN data : d # c => post2[d] = post[d]
  BY <1>1, <1>8
<1>10. PICK n \in Nat : n = Len(p) /\ DOMAIN p = 1..n
  <2>1. Len(p) \in Nat /\ DOMAIN p = 1..Len(p)
    BY ONLY p \in Seq(Nat)
  <2> QED BY ONLY <2>1
<1>11. /\ DOMAIN Append(p, e) = 1..(n + 1) /\ Append(p, e)[n + 1] = e
       /\ \A i \in 1..n : Append(p, e)[i] = p[i]
  BY <1>3, <1>10
<1>12. 1..(n + 1) = 1..n \cup {n + 1}
  BY ONLY <1>10
<1>13. Posted(post2, c)' = Posted(post, c) \cup {e}
  BY <1>8, <1>9, <1>10, <1>11, <1>12 DEF Posted
<1>14. \A d \in DOMAIN data : d # c => Posted(post2, d)' = Posted(post, d)
  BY <1>9 DEF Posted
<1>15. \A x : ItemsOf(x)' = ItemsOf(x)
  BY <1>2 DEF ItemsOf
<1>16. \A x \in DOMAIN entry : ItemsOf(x) \subseteq DOMAIN data
  BY DEF BaseInv, RequestInv, ItemsOf
<1>17. \A d \in DOMAIN data' : \A x \in Posted(post2, d)' : x \in DOMAIN entry' /\ d \in ItemsOf(x)'
  BY <1>1, <1>2, <1>3, <1>7, <1>13, <1>14, <1>15 DEF PostExact
<1>18. \A x \in CommittedByNumber' : \A d \in ItemsOf(x)' : x \in Posted(post2, d)'
  <2>1. CommittedByNumber' = CommittedByNumber /\ CommittedByNumber \subseteq DOMAIN entry
    BY DEF SameLog, CommittedByNumber
  <2> QED BY <1>13, <1>14, <1>15, <1>16, <2>1 DEF PostExact
<1>19. \A i, j \in DOMAIN post2[c] : i < j => post2[c][i] < post2[c][j]
  <2>1. \A i \in 1..n : p[i] < e
    <3> TAKE i \in 1..n
    <3>1. p[i] \in Posted(post, c)
      BY <1>8, <1>10 DEF Posted
    <3>2. p[i] \in DOMAIN entry
      BY <1>1, <3>1 DEF PostExact
    <3> QED BY <1>3, <1>7, <3>1, <3>2
  <2>2. \A i, j \in 1..n : i < j => p[i] < p[j]
    BY <1>1, <1>8, <1>10 DEF PostExact
  <2> SUFFICES ASSUME NEW i \in 1..(n + 1), NEW j \in 1..(n + 1), i < j
               PROVE  Append(p, e)[i] < Append(p, e)[j]
    BY <1>9, <1>11
  <2>3. i \in 1..n /\ (j \in 1..n \/ j = n + 1)
    BY ONLY n \in Nat, i \in 1..(n + 1), j \in 1..(n + 1), i < j
  <2> QED BY <1>11, <2>1, <2>2, <2>3
<1>20. \A d \in DOMAIN data' : \A i, j \in DOMAIN post2[d] : i < j => post2[d][i] < post2[d][j]
  BY <1>2, <1>9, <1>19 DEF PostExact
<1>21. /\ Unposted' \subseteq ItemsOf(op.entry)'
       /\ \A d \in ItemsOf(op.entry)' : d \in Unposted' <=> op'.entry \notin Posted(post2, d)'
  <2>1. ItemsOf(op.entry)' = ItemsOf(e) /\ ItemsOf(e) \subseteq DOMAIN data
    BY <1>2, <1>3, <1>15, <1>16 DEF ItemsOf
  <2> QED BY <1>2, <1>4, <1>5, <1>6, <1>13, <1>14, <2>1
<1> QED BY <1>17, <1>18, <1>20, <1>21 DEF PostExact

LEMMA ExactCount ==
  ASSUME BaseInv, NEW post, PostExact(post), CommitCount
  PROVE  PostExact(post)'
<1>1. /\ entry' = entry /\ data' = data /\ pc = "commit_count" /\ pc' = "publish"
      /\ CommittedByNumber' = DOMAIN entry /\ CommittedByNumber = DOMAIN entry \ {op.entry}
  BY CountAdds DEF BaseInv
<1>2. Unposted = {}
  BY <1>1 DEF Unposted, LinkSteps
<1>3. \A d \in ItemsOf(op.entry) : op.entry \in Posted(post, d)
  BY <1>1, <1>2 DEF PostExact, Commits
<1>4. \A e : ItemsOf(e)' = ItemsOf(e)
  BY <1>1 DEF ItemsOf
<1>5. \A d : Posted(post, d)' = Posted(post, d)
  BY DEF Posted
<1>6. pc' \notin LinkSteps \cup Commits
  BY <1>1 DEF LinkSteps, Commits
<1> QED BY <1>1, <1>3, <1>4, <1>5, <1>6 DEF PostExact

\* The steps that link leave the other objects alone.
LEMMA LinkKeepsObjects ==
  ASSUME BaseInv, QuietLink \/ CreateLink
  PROVE  DOMAIN data' = DOMAIN data /\ entry' = entry /\ op'.entry = op.entry
<1>0. TypeOK
  BY DEF BaseInv
<1>1. entry' = entry /\ op'.entry = op.entry
  BY <1>0, QuietLinkFrame, CreateLinkFrame, LinkKeepsRequest
<1>2. CASE PlaceFirst \/ PlaceInTail \/ PlaceInNew \/ LinkArray \/ SetSlot \/ GlobalHeader \/ Linked
  BY <1>1, <1>2 DEF PlaceFirst, PlaceInTail, PlaceInNew, LinkArray, SetSlot, GlobalHeader, Linked,
                    objects
<1>3. CASE DataArray \/ DataHint \/ DataCount
  BY <1>1, <1>3 DEF DataArray, DataHint, DataCount
<1>4. ASSUME NEW it \in op.left, LinkFirst(it) \/ LinkSecond(it) \/ LinkInTail(it) \/ LinkInNew(it)
      PROVE  DOMAIN data' = DOMAIN data
  BY <1>4 DEF LinkFirst, LinkSecond, LinkInTail, LinkInNew, objects
<1> QED BY <1>1, <1>2, <1>3, <1>4 DEF QuietLink, CreateLink

(***************************************************************************)
(* The steps that link, other than the store of a count, work on the same  *)
(* DATA objects as before.                                                 *)
(***************************************************************************)
LEMMA UnpostedKept ==
  ASSUME BaseInv, ListInv, QuietLink \/ CreateLink, ~DataCount
  PROVE  Unposted' = Unposted /\ pc \in LinkSteps
<1>0. TypeOK /\ op \in Locals
  BY DEF BaseInv, TypeOK, CallOK
<1>1. pc \in LinkSteps
  BY <1>0, QuietLinkFrame, CreateLinkFrame
<1>2. CASE PlaceFirst \/ PlaceInTail \/ PlaceInNew
  <2>1. pc = "place" /\ pc' \in Growing /\ op'.left = op.left /\ op'.cur = op.cur
    BY <1>0, <1>2 DEF PlaceFirst, PlaceInTail, PlaceInNew, Goto, Growing, Locals
  <2>2. op.cur = 0
    BY <2>1 DEF ListInv, ListParts, Phase, Unplaced
  <2> QED BY <1>1, <2>1, <2>2 DEF Unposted, Linking, LinkSteps, Growing
<1>3. CASE LinkArray \/ SetSlot
  <2>1. /\ op' = op /\ pc \in Growing
        /\ op.cur = 0 => pc' \in {"set_slot", "global_header"}
        /\ op.cur # 0 => pc' \in {"set_slot", "data_array", "data_tail", "data_count"}
    <3>1. CASE LinkArray
      BY <3>1 DEF LinkArray, Goto, Growing
    <3>2. CASE SetSlot
      <4>1. Compact \in BOOLEAN
        BY ConstantsAssumption DEF ConstantsAssumption
      <4>2. op' = op /\ pc \in Growing
        BY <3>2 DEF SetSlot, Growing
      <4>3. op.cur = 0 => pc' = "global_header"
        BY <3>2 DEF SetSlot, Goto
      <4>4. op.cur # 0 => pc' \in {"data_array", "data_tail", "data_count"}
        BY <3>2, <4>1 DEF SetSlot, Goto
      <4> QED BY <4>2, <4>3, <4>4
    <3> QED BY <1>3, <3>1, <3>2
  <2> QED BY <1>1, <2>1 DEF Unposted, Linking, LinkSteps, Growing
<1>4. CASE GlobalHeader
  <2>1. pc = "global_header" /\ pc' = "link" /\ op'.left = op.left
    BY <1>0, <1>4 DEF GlobalHeader, Goto, Locals
  <2> QED BY <1>1, <2>1 DEF Unposted, Linking, LinkSteps, Growing
<1>5. CASE DataArray \/ DataHint
  <2>1. op' = op /\ pc \in {"data_array", "data_tail"} /\ pc' \in {"data_tail", "data_count"}
    BY <1>5 DEF DataArray, DataHint, Goto
  <2> QED BY <1>1, <2>1 DEF Unposted, Linking, LinkSteps
<1>6. CASE Linked
  <2>1. pc = "link" /\ pc' = "commit_objects" /\ op.left = {}
    BY <1>6 DEF Linked, Goto
  <2> QED BY <1>1, <2>1 DEF Unposted, Linking, LinkSteps, Growing
<1>7. ASSUME NEW it \in op.left, LinkFirst(it) \/ LinkSecond(it) \/ LinkInTail(it) \/ LinkInNew(it)
      PROVE  Unposted' = Unposted
  <2>1. /\ pc = "link" /\ NextItem(it) /\ pc' \in Growing \cup {"data_count"}
        /\ op'.cur = it.offset /\ op'.left = op.left \ {it}
    <3>1. CASE LinkFirst(it)
      BY <1>0, <3>1 DEF LinkFirst, Goto, Locals
    <3>2. CASE LinkSecond(it)
      BY <1>0, <3>2 DEF LinkSecond, Goto, Growing, Locals
    <3>3. CASE LinkInTail(it)
      BY <1>0, <3>3 DEF LinkInTail, Goto, Growing, Locals
    <3>4. CASE LinkInNew(it)
      BY <1>0, <3>4 DEF LinkInNew, Goto, Growing, Locals
    <3> QED BY <1>7, <3>1, <3>2, <3>3, <3>4
  <2>2. it.offset # 0
    BY <1>0, <2>1, RowTypes DEF NextItem
  <2>3. Unposted = {j.offset : j \in op.left}
    BY <2>1 DEF Unposted, Linking, LinkSteps, Growing
  <2>4. Unposted' = {j.offset : j \in op.left \ {it}} \cup {it.offset}
    BY <2>1, <2>2 DEF Unposted, Linking, LinkSteps, Growing
  <2> QED BY <1>7, <2>3, <2>4
<1> QED BY <1>1, <1>2, <1>3, <1>4, <1>5, <1>6, <1>7 DEF QuietLink, CreateLink

LEMMA ExactNext ==
  ASSUME BaseInv, ListInv, SingleItems, [Next]_vars,
         NEW own, NEW before, NEW last, NEW post, PostParts(own, before, last, post),
         PostExact(post), NEW post2, PostStep(post, post2)
  PROVE  PostExact(post2)'
<1>0. TypeOK /\ post \in [DOMAIN data -> Seq(Nat)]
  BY DEF BaseInv, PostParts, Rows, Witness
<1>1. CASE WriteData
  <2>1. SameLog
    BY <1>1, LogSame DEF WriteData, CommitCount
  <2> QED BY <1>0, <1>1, <2>1, ExactWriteData DEF PostStep
<1>2. CASE DataCount
  <2>1. SameLog /\ ~WriteData /\ Linking
    BY <1>2, LogSame DEF WriteData, CommitCount, DataCount, Linking
  <2>2. op.cur \in DOMAIN data
    BY <2>1, LinkingStart
  <2> QED BY <1>0, <1>2, <2>1, <2>2, ExactDataCount DEF PostStep
<1>3. CASE ~WriteData /\ ~DataCount
  <2>0. post2 = post
    BY <1>3 DEF PostStep
  <2>1. CASE CommitCount
    BY <2>0, <2>1, ExactCount
  <2>2. CASE ~CommitCount
    <3>0. SameLog
      BY <2>2, LogSame
    <3>1. CASE WriteEntry
      BY <1>0, <2>0, <3>0, <3>1, ExactWriteEntry
    <3>2. CASE UNCHANGED vars
      <4>1. data' = data /\ entry' = entry /\ pc' = pc /\ op' = op
        BY <3>2 DEF vars, objects
      <4>2. Unposted' = Unposted
        BY <4>1 DEF Unposted, Linking
      <4> QED BY <2>0, <3>0, <4>1, <4>2, ExactSame
    <3>3. CASE Call \/ Leave \/ Publish \/ FailPublish \/ StartData \/ Finish
      <4>1. data' = data /\ entry' = entry /\ pc' \in {"idle", "field", "data", "entry"}
        BY <1>0, <3>3, CallFrame, LeaveFrame, EndPoisoned, StartPoisoned DEF objects
      <4> QED BY <2>0, <3>0, <4>1, ExactSame DEF LinkSteps, Commits
    <3>4. CASE QuietField \/ WriteField
      <4>1. DOMAIN data' = DOMAIN data
        BY <3>4 DEF QuietField, SkipField, ReuseData, LinkDataHash, PublishDataBucket, CountData,
             CachedField, FoundField, LinkFieldHash, PublishFieldBucket, CountField, SetNextField,
             SetHeadData, WriteField, objects
      <4>2. entry' = entry /\ pc' \in Request
        BY <1>0, <3>4, QuietFieldFrame, CreateFieldFrame DEF CreateField, Request
      <4> QED BY <2>0, <3>0, <4>1, <4>2, ExactSame DEF LinkSteps, Commits, Request, FieldSteps
    <3>5. CASE QuietLink \/ CreateLink
      <4>1. /\ DOMAIN data' = DOMAIN data /\ entry' = entry /\ op'.entry = op.entry
            /\ Unposted' = Unposted /\ pc \in LinkSteps
        BY <1>3, <3>5, LinkKeepsObjects, UnpostedKept
      <4> QED BY <2>0, <3>0, <4>1, ExactSame
    <3>6. CASE CommitObjects \/ CommitTailObject \/ CommitHead \/ CommitTail \/ CommitTailEntry
      <4>1. data' = data /\ entry' = entry /\ op' = op /\ pc \in Commits /\ pc' \in Commits
        BY <3>6 DEF CommitObjects, CommitTailObject, CommitHead, CommitTail, CommitTailEntry,
                    objects, Goto, Commits
      <4>2. Unposted' = {} /\ Unposted = {}
        BY <4>1 DEF Unposted, LinkSteps, Commits
      <4> QED BY <2>0, <3>0, <4>1, <4>2, ExactSame
    <3> QED BY <1>3, <2>2, <3>1, <3>2, <3>3, <3>4, <3>5, <3>6, NextGroups DEF CreateField
  <2> QED BY <2>1, <2>2
<1> QED BY <1>1, <1>2, <1>3

-----------------------------------------------------------------------------

\* Committed entries lie in front of the others.
LEMMA CommittedBefore ==
  ASSUME BaseInv, NEW c \in CommittedByNumber, NEW e \in DOMAIN entry, e <= c
  PROVE  e \in CommittedByNumber
<1>1. /\ c \in DOMAIN entry /\ entry[c].seqnum < w.next_seqnum
      /\ c \in Nat /\ e \in Nat /\ entry[c].seqnum \in Nat /\ entry[e].seqnum \in Nat
      /\ w.next_seqnum \in Nat
  BY EntryNumbers DEF BaseInv, CommittedByNumber
<1>2. e < c => entry[e].seqnum < entry[c].seqnum
  BY <1>1 DEF BaseInv, SeqnumInv
<1>3. entry[e].seqnum < w.next_seqnum
  BY <1>1, <1>2
<1> QED BY <1>3 DEF CommittedByNumber

(***************************************************************************)
(* A list of the committed entries in file order ends with the last one.   *)
(***************************************************************************)
LEMMA LastListed ==
  ASSUME TypeOK, ListInv, NEW log, log = Committed, log # <<>>
  PROVE  /\ log[Len(log)] \in CommittedByNumber
         /\ \A e \in CommittedByNumber : e <= log[Len(log)]
<1>1. PICK n \in Nat : n = Len(log) /\ DOMAIN log = 1..n
  BY ListRead
<1>2. /\ {log[i] : i \in 1..n} = CommittedByNumber
      /\ \A i, j \in 1..n : i < j => log[i] < log[j]
  BY <1>1, ListRead DEF CommittedListed, ListedExactly
<1>3. n # 0
  BY <1>1, ListRead
<1>4. n \in 1..n /\ \A i \in 1..n : i < n \/ i = n
  BY ONLY <1>3, n \in Nat
<1>5. \A e \in CommittedByNumber : e \in Nat
  BY EntryNumbers DEF CommittedByNumber
<1>6. \A i \in 1..n : log[i] <= log[n]
  <2> TAKE i \in 1..n
  <2>1. log[i] \in Nat /\ log[n] \in Nat
    BY <1>2, <1>4, <1>5
  <2>2. log[i] < log[n] \/ log[i] = log[n]
    BY <1>2, <1>4
  <2> QED BY ONLY <2>1, <2>2
<1> QED BY <1>1, <1>2, <1>4, <1>6

(***************************************************************************)
(* Postings that are exact are read as an exact index.                     *)
(***************************************************************************)
LEMMA ExactRead ==
  ASSUME BaseInv, HashInv, ListInv, NEW own, NEW before, NEW last, NEW post,
         PostParts(own, before, last, post), PostExact(post)
  PROVE  CommittedIndexExact
<1>0. TypeOK /\ Rows(own, before, last, post)
  BY DEF BaseInv, PostParts
<1> DEFINE log == Committed
           upTo == IF log = <<>> THEN 0 ELSE log[Len(log)]
<1>1. ListedExactly(log)
  BY <1>0, ListRead DEF CommittedListed
<1>2. (log = <<>> => upTo = 0) /\ (log # <<>> => upTo = log[Len(log)])
  OBVIOUS
<1>a. log # <<>> => /\ log[Len(log)] \in CommittedByNumber
                    /\ \A e \in CommittedByNumber : e <= log[Len(log)]
  BY <1>0, LastListed
<1>b. log = <<>> => DOMAIN log = {}
  OBVIOUS
<1> HIDE DEF log, upTo
<1>3. {log[i] : i \in DOMAIN log} = CommittedByNumber
  BY <1>1 DEF ListedExactly
<1>4. \A e \in DOMAIN entry : e <= upTo <=> e \in CommittedByNumber
  <2> TAKE e \in DOMAIN entry
  <2>1. e \in Nat /\ e # 0
    BY <1>0, EntryNumbers DEF BaseInv, ArenaInv, Arena
  <2>2. CASE log = <<>>
    <3>1. CommittedByNumber = {} /\ upTo = 0
      BY <1>2, <1>3, <1>b, <2>2
    <3> QED BY <2>1, <3>1
  <2>3. CASE log # <<>>
    <3>1. upTo \in CommittedByNumber /\ \A c \in CommittedByNumber : c <= upTo
      BY <1>2, <1>a, <2>3
    <3> QED BY <3>1, CommittedBefore
  <2> QED BY <2>2, <2>3
<1>5. \A i \in DOMAIN log : log[i] \in DOMAIN entry
  BY <1>3 DEF CommittedByNumber
<1>6. \A i \in DOMAIN log : \A x \in entry[log[i]].items : x[1] \in DOMAIN data
  BY <1>5 DEF BaseInv, RequestInv
<1>7. ASSUME NEW d \in DOMAIN data
      PROVE  LET seen == PostingsOf(d)
                 accepted == {i \in DOMAIN seen : seen[i] <= upTo}
                 holders == {e \in {log[i] : i \in DOMAIN log} : Holds(e, d)}
             IN  /\ \A i \in DOMAIN seen : seen[i] \in DOMAIN entry
                 /\ {seen[i] : i \in accepted} = holders
                 /\ \A i, j \in accepted : i < j => seen[i] < seen[j]
                 /\ holders # {} => FindData(data[d].payload) = {d}
  <2> DEFINE seen == PostingsOf(d)
             accepted == {i \in DOMAIN seen : seen[i] <= upTo}
             holders == {e \in {log[i] : i \in DOMAIN log} : Holds(e, d)}
  <2>a. /\ \A i : i \in accepted <=> i \in DOMAIN seen /\ seen[i] <= upTo
        /\ \A e : e \in holders <=> e \in {log[i] : i \in DOMAIN log} /\ Holds(e, d)
    OBVIOUS
  <2>1. seen = post[d]
    BY <1>0, <1>7, RowRead
  <2> HIDE DEF seen, accepted, holders
  <2>2. {seen[i] : i \in DOMAIN seen} = Posted(post, d)
    BY <2>1 DEF Posted
  <2>3. \A e \in Posted(post, d) : e \in DOMAIN entry /\ d \in ItemsOf(e)
    BY DEF PostExact
  <2>4. \A e : Holds(e, d) <=> d \in ItemsOf(e)
    BY DEF Holds, ItemsOf
  <2>5. holders = {e \in CommittedByNumber : d \in ItemsOf(e)}
    BY <1>3, <2>a, <2>4
  <2>6. \A i \in DOMAIN seen : seen[i] \in DOMAIN entry
    BY <2>2, <2>3
  <2>7. {seen[i] : i \in accepted} = holders
    <3>1. ASSUME NEW i \in accepted PROVE seen[i] \in holders
      <4>1. i \in DOMAIN seen /\ seen[i] <= upTo
        BY <2>a
      <4>2. seen[i] \in Posted(post, d) /\ seen[i] \in DOMAIN entry /\ d \in ItemsOf(seen[i])
        BY <2>2, <2>3, <4>1
      <4> QED BY <1>4, <2>5, <4>1, <4>2
    <3>2. ASSUME NEW e \in holders PROVE \E i \in accepted : seen[i] = e
      <4>1. e \in CommittedByNumber /\ d \in ItemsOf(e) /\ e \in DOMAIN entry
        BY <2>5 DEF CommittedByNumber
      <4>2. e \in Posted(post, d) /\ e <= upTo
        BY <1>4, <4>1 DEF PostExact
      <4>3. PICK i \in DOMAIN seen : seen[i] = e
        BY <2>2, <4>2
      <4> QED BY <2>a, <4>2, <4>3
    <3> QED BY <3>1, <3>2
  <2>8. \A i, j \in accepted : i < j => seen[i] < seen[j]
    BY <2>1, <2>a DEF PostExact
  <2>9. holders # {} => FindData(data[d].payload) = {d}
    <3> SUFFICES ASSUME NEW e \in holders PROVE FindData(data[d].payload) = {d}
      OBVIOUS
    <3>1. PICK x \in entry[e].items : x[1] = d
      BY <2>a DEF Holds
    <3>2. e \in DOMAIN entry
      BY <2>5 DEF CommittedByNumber
    <3> QED BY <1>0, <3>1, <3>2, HashItemsFound
  <2> QED BY <2>6, <2>7, <2>8, <2>9 DEF seen, accepted, holders
<1> QED BY <1>1, <1>6, <1>7 DEF CommittedIndexExact, log, upTo

(***************************************************************************)
(* At every moment of every append, failed appends included, a reader      *)
(* finds exactly the committed entries: in the global array, in the        *)
(* postings of each payload, once each and in file order, and through the  *)
(* hash tables of the DATA and the FIELD objects, and the field cache      *)
(* agrees with the tables.  It takes that no offset of the file outgrows   *)
(* the u32 in which a header keeps the offset of its last array, and that  *)
(* who sets trusted_unique_payloads gives every payload of an entry once.  *)
(***************************************************************************)
THEOREM CommittedIsLinked ==
  ASSUME MaxOffset < TailModulus, CallerContract
  PROVE  Spec => []CommittedLinked
<1> DEFINE ExactInv == \E own, before, last, post :
                         PostParts(own, before, last, post) /\ PostExact(post)
           AllInv == BaseInv /\ HashInv /\ ListInv /\ SingleItems /\ ExactInv
<1>1. Init => AllInv
  <2> SUFFICES ASSUME Init PROVE AllInv
    OBVIOUS
  <2>1. BaseInv /\ HashInv /\ ListInv
    BY BaseInit, HashInit, ListInit
  <2>2. DOMAIN data = {} /\ DOMAIN entry = {} /\ pc = "idle" /\ op = NoOp
    BY DEF Init
  <2>3. SingleItems
    BY <2>2 DEF SingleItems, NoOp, Request, FieldSteps
  <2>4. PostExact(<<>>)
    BY <2>2 DEF PostExact, CommittedByNumber, LinkSteps, Commits
  <2> QED BY <2>1, <2>3, <2>4, PostInit
<1>2. AllInv /\ [Next]_vars => AllInv'
  <2> SUFFICES ASSUME AllInv, [Next]_vars PROVE AllInv'
    OBVIOUS
  <2>1. BaseInv' /\ HashInv' /\ ListInv' /\ SingleItems'
    BY BaseNext, HashNext, ListNext, SingleNext
  <2>2. PICK own, before, last, post : PostParts(own, before, last, post) /\ PostExact(post)
    OBVIOUS
  <2>3. PICK own2, before2, last2, post2 :
          PostParts(own2, before2, last2, post2)' /\ PostStep(post, post2)
    BY <2>2, PostNext DEF PostGoes
  <2>4. PostExact(post2)'
    BY <2>2, <2>3, ExactNext
  <2> QED BY <2>1, <2>3, <2>4
<1>3. AllInv => CommittedLinked
  <2> SUFFICES ASSUME AllInv PROVE CommittedLinked
    OBVIOUS
  <2>1. CommittedIndexExact
    BY ExactRead
  <2>2. TypeOK /\ CommittedListed
    BY ListRead DEF BaseInv
  <2>3. CommittedFieldsListed /\ CacheCoherent
    BY <2>2, HashFields, HashCache
  <2> QED BY <2>1, <2>3 DEF CommittedLinked
<1> QED BY <1>1, <1>2, <1>3, PTL DEF Spec
=============================================================================
