-------------------------- MODULE HashChainProofs --------------------------
(***************************************************************************)
(* The two hash tables, the DATA lists of the FIELD objects and the        *)
(* writer's field cache, for every value of the constants: at every store  *)
(* of every append each hash chain ends and finds one object per payload   *)
(* or name, and every item of an entry is on the list of its FIELD object. *)
(***************************************************************************)
EXTENDS GlobalListProofs

-----------------------------------------------------------------------------
(* Walks over single links. *)

(***************************************************************************)
(* Visit follows the links one by one.                                     *)
(***************************************************************************)
LEMMA VisitWalk ==
  ASSUME NEW head \in Nat, NEW nx, IsFiniteSet(DOMAIN nx), nx \in [DOMAIN nx -> Nat]
  PROVE  \E f \in [0..Cardinality(DOMAIN nx) -> Nat] :
           /\ f[0] = head
           /\ \A i \in 1..Cardinality(DOMAIN nx) :
                f[i] = IF f[i - 1] \in DOMAIN nx THEN nx[f[i - 1]] ELSE f[i - 1]
           /\ Visit(head, nx) = f
<1> DEFINE n == Cardinality(DOMAIN nx)
           Ext(p) == IF p \in DOMAIN nx THEN nx[p] ELSE p
           step == [p \in Nat |-> Ext(p)]
           R(f) == [i \in 0..n |-> IF i = 0 THEN head ELSE Ext(f[i - 1])]
<1>1. n \in Nat
  BY FS_CardinalityType
<1>2. step \in [Nat -> Nat]
  OBVIOUS
<1>4. PICK f : Iteration(f, n, Nat, step, head)
  <2> HIDE DEF n, step, Ext, R
  <2> QED BY <1>1, <1>2, Iterates
<1>5. f \in [0..n -> Nat] /\ f[0] = head /\ \A i \in 1..n : f[i] = step[f[i - 1]]
  <2> HIDE DEF n, step, Ext, R
  <2> QED BY <1>4 DEF Iteration
<1>6. \A i \in 1..n : f[i] = Ext(f[i - 1])
  <2> TAKE i \in 1..n
  <2>1. i - 1 \in 0..n
    BY <1>1
  <2> HIDE DEF Ext, n
  <2>2. f[i - 1] \in Nat
    BY <1>5, <2>1
  <2>3. \A p \in Nat : step[p] = Ext(p)
    OBVIOUS
  <2> HIDE DEF step
  <2> QED BY <1>5, <2>2, <2>3
<1>7. f = R(f)
  <2> HIDE DEF Ext, n
  <2> QED BY <1>1, <1>5, <1>6
<1>8. ASSUME NEW g, g = R(g) PROVE g = f
  <2> DEFINE S == {i \in Nat : i \in 0..n => g[i] = f[i]}
  <2>1. 0 \in S
    <3>1. g[0] = head
      <4> HIDE DEF Ext, n
      <4> QED BY <1>1, <1>8
    <3> QED BY <1>5, <3>1
  <2>2. ASSUME NEW i \in Nat, i \in S PROVE i + 1 \in S
    <3> SUFFICES ASSUME i + 1 \in 0..n PROVE g[i + 1] = f[i + 1]
      OBVIOUS
    <3>1. i \in 0..n /\ i + 1 \in 1..n /\ (i + 1) - 1 = i
      BY <1>1
    <3>2. g[i] = f[i]
      BY <2>2, <3>1
    <3>3. g[i + 1] = Ext(g[i])
      <4> HIDE DEF Ext, n, S
      <4>1. \A j \in 1..n : R(g)[j] = Ext(g[j - 1])
        BY <1>1
      <4> HIDE DEF R
      <4> QED BY <1>8, <3>1, <4>1
    <3>4. f[i + 1] = Ext(f[i])
      <4> HIDE DEF Ext, n, S
      <4> QED BY <1>6, <3>1
    <3> QED BY <3>2, <3>3, <3>4
  <2>3. \A i \in 0..n : g[i] = f[i]
    <3>1. \A i \in Nat : i \in S
      <4> HIDE DEF S
      <4> QED BY <2>1, <2>2, SetInduction
    <3> QED BY <1>1, <3>1
  <2>4. g = [i \in 0..n |-> g[i]]
    <3> HIDE DEF Ext, n
    <3> QED BY <1>8
  <2>5. f = [i \in 0..n |-> f[i]]
    BY <1>5
  <2> HIDE DEF R, n
  <2> QED BY <2>3, <2>4, <2>5
<1>9. Visit(head, nx) = (CHOOSE g : g = R(g))
  BY DEF Visit
<1>10. Visit(head, nx) = f
  <2> HIDE DEF R
  <2> QED BY <1>7, <1>8, <1>9
<1> QED BY <1>5, <1>6, <1>10

(***************************************************************************)
(* From head, the links nx lead through C in the order of the ranks r, and *)
(* there they end.                                                         *)
(***************************************************************************)
Linear(nx, C, head, r) ==
  /\ C \subseteq DOMAIN nx /\ r \in [C -> Int]
  /\ IF C = {} THEN head = 0 ELSE head \in C /\ \A c \in C : c = head \/ r[head] < r[c]
  /\ \A a \in C : IF nx[a] = 0 THEN \A c \in C : c = a \/ r[c] < r[a]
                  ELSE /\ nx[a] \in C /\ r[a] < r[nx[a]]
                       /\ \A c \in C : c = a \/ c = nx[a] \/ r[c] < r[a] \/ r[nx[a]] < r[c]

(***************************************************************************)
(* Such a walk ends, and it meets the objects of C.                        *)
(***************************************************************************)
LEMMA LinearMet ==
  ASSUME NEW head \in Nat, NEW nx, IsFiniteSet(DOMAIN nx), 0 \notin DOMAIN nx,
         nx \in [DOMAIN nx -> Nat], NEW C, NEW r, Linear(nx, C, head, r)
  PROVE  Met(head, nx) = C /\ Ends(head, nx)
<1> DEFINE n == Cardinality(DOMAIN nx)
<1>0. n \in Nat
  BY FS_CardinalityType
<1>1. PICK f \in [0..n -> Nat] :
        /\ f[0] = head
        /\ \A i \in 1..n : f[i] = IF f[i - 1] \in DOMAIN nx THEN nx[f[i - 1]] ELSE f[i - 1]
        /\ Visit(head, nx) = f
  BY VisitWalk
<1> HIDE DEF n
<1> DEFINE In(i) == f[i] \in C \cup {0}
           Up(i) == f[i] \in C => \A j \in 0..(i - 1) : f[j] \in C /\ r[f[j]] < r[f[i]]
           Past(i) == \A c \in C : f[i] = 0 \/ c = f[i] \/ r[c] < r[f[i]] =>
                        \E j \in 0..i : f[j] = c
           S == {i \in Nat : i \in 0..n => In(i) /\ Up(i) /\ Past(i)}
<1>2. /\ C \subseteq DOMAIN nx /\ 0 \notin C /\ \A c \in C : r[c] \in Int
      /\ IF C = {} THEN head = 0 ELSE head \in C /\ \A c \in C : c = head \/ r[head] < r[c]
      /\ \A a \in C : IF nx[a] = 0 THEN \A c \in C : c = a \/ r[c] < r[a]
                      ELSE /\ nx[a] \in C /\ r[a] < r[nx[a]]
                           /\ \A c \in C : c = a \/ c = nx[a] \/ r[c] < r[a] \/ r[nx[a]] < r[c]
  BY DEF Linear
<1>3. 0 \in S
  <2>1. f[0] = head
    BY <1>1
  <2>2. CASE C = {}
    BY <1>2, <2>1, <2>2
  <2>3. CASE C # {}
    <3>1. head \in C /\ head # 0 /\ \A c \in C : c = head \/ r[head] < r[c]
      BY <1>2, <2>3
    <3>2. Past(0)
      BY <1>2, <2>1, <3>1
    <3> QED BY <2>1, <3>1, <3>2
  <2> QED BY <2>2, <2>3
<1>4. ASSUME NEW i \in Nat, i \in S PROVE i + 1 \in S
  <2> SUFFICES ASSUME i + 1 \in 0..n PROVE In(i + 1) /\ Up(i + 1) /\ Past(i + 1)
    OBVIOUS
  <2>0. i \in 0..n /\ i + 1 \in 1..n /\ (i + 1) - 1 = i
    BY <1>0
  <2>1. In(i) /\ Up(i) /\ Past(i)
    BY <1>4, <2>0
  <2>2. f[i + 1] = IF f[i] \in DOMAIN nx THEN nx[f[i]] ELSE f[i]
    BY <1>1, <2>0
  <2>3. \A c : (\E j \in 0..i : f[j] = c) => \E j \in 0..(i + 1) : f[j] = c
    OBVIOUS
  <2>4. CASE f[i] \in C
    <3>a. PICK a \in C : a = f[i]
      BY <2>4
    <3>1. f[i + 1] = nx[a] /\ r[a] \in Int
      BY <1>2, <2>2, <3>a
    <3>2. CASE nx[a] = 0
      <4>1. f[i + 1] = 0 /\ \A c \in C : c = a \/ r[c] < r[a]
        BY <1>2, <3>1, <3>2
      <4>2. Past(i + 1)
        BY <2>1, <2>3, <3>a, <4>1
      <4> QED BY <1>2, <4>1, <4>2
    <3>3. CASE nx[a] # 0
      <4>b. PICK b \in C : b = nx[a]
        BY <1>2, <3>3
      <4>1. /\ f[i + 1] = b /\ r[a] < r[b] /\ b # 0 /\ r[b] \in Int
            /\ \A c \in C : c = a \/ c = b \/ r[c] < r[a] \/ r[b] < r[c]
        BY <1>2, <3>1, <3>3, <4>b
      <4>2. Past(i + 1)
        <5> SUFFICES ASSUME NEW c \in C, c = b \/ r[c] < r[b]
                     PROVE  \E j \in 0..(i + 1) : f[j] = c
          BY <4>1
        <5>1. CASE c = b
          BY <4>1, <5>1
        <5>2. CASE c # b
          <6>1. c = a \/ r[c] < r[a]
            BY <1>2, <4>1, <5>2
          <6> QED BY <2>1, <2>3, <3>a, <6>1
        <5> QED BY <5>1, <5>2
      <4>3. Up(i + 1)
        <5> SUFFICES ASSUME NEW j \in 0..i PROVE f[j] \in C /\ r[f[j]] < r[b]
          BY <2>0, <4>1
        <5>1. CASE j = i
          BY <3>a, <4>1, <5>1
        <5>2. CASE j # i
          <6>1. f[j] \in C /\ r[f[j]] < r[a]
            BY <2>1, <3>a, <5>2
          <6>2. r[f[j]] \in Int
            BY <1>2, <6>1
          <6> QED BY <3>1, <4>1, <6>1, <6>2
        <5> QED BY <5>1, <5>2
      <4> QED BY <4>1, <4>2, <4>3
    <3> QED BY <3>2, <3>3
  <2>5. CASE f[i] \notin C
    <3>1. f[i] = 0 /\ f[i + 1] = 0
      BY <2>1, <2>2, <2>5
    <3>2. Past(i + 1)
      BY <2>1, <2>3, <3>1
    <3> QED BY <1>2, <3>1, <3>2
  <2> QED BY <2>4, <2>5
<1>5. \A i \in 0..n : In(i) /\ Up(i) /\ Past(i)
  <2>1. \A i \in Nat : i \in S
    <3> HIDE DEF S
    <3> QED BY <1>3, <1>4, SetInduction
  <2> QED BY <1>0, <2>1
<1>6. f[n] = 0
  <2> SUFFICES ASSUME f[n] # 0 PROVE FALSE
    OBVIOUS
  <2>1. \A i \in 0..n : f[i] \in C
    BY <1>0, <1>5
  <2>2. f \in [0..n -> DOMAIN nx]
    BY <1>2, <2>1
  <2>3. \A i, j \in 0..n : i < j => f[i] # f[j]
    <3> SUFFICES ASSUME NEW i \in 0..n, NEW j \in 0..n, i < j PROVE f[i] # f[j]
      OBVIOUS
    <3>1. i \in 0..(j - 1) /\ Up(j)
      BY <1>0, <1>5
    <3>2. r[f[i]] < r[f[j]] /\ r[f[i]] \in Int
      BY <1>2, <2>1, <3>1
    <3> QED BY <3>2
  <2>4. \A i, j \in 0..n : i # j => f[i] # f[j]
    <3> TAKE i, j \in 0..n
    <3>1. i < j \/ j < i \/ i = j
      BY <1>0
    <3> QED BY <2>3, <3>1
  <2>5. IsFiniteSet(0..n) /\ Cardinality(0..n) = n + 1
    <3>1. 0 \in Int /\ n \in Int /\ ~ (0 > n) /\ n - 0 + 1 = n + 1
      BY <1>0
    <3> QED BY <3>1, FS_Interval
  <2>6. Cardinality(DOMAIN nx) < Cardinality(0..n)
    BY <1>0, <2>5 DEF n
  <2>7. \E x, y \in 0..n : x # y /\ f[x] = f[y]
    BY <2>2, <2>5, <2>6, FS_PigeonHole
  <2> QED BY <2>4, <2>7
<1>7. Ends(head, nx)
  BY <1>1, <1>6 DEF Ends, n
<1>8. {f[i] : i \in 0..n} \ {0} = C
  <2>1. \A c \in C : \E j \in 0..n : f[j] = c
    BY <1>0, <1>5, <1>6
  <2> QED BY <1>2, <1>5, <2>1
<1>9. Met(head, nx) = C
  <2>1. DOMAIN f = 0..n
    OBVIOUS
  <2> QED BY <1>1, <1>8, <2>1 DEF Met
<1> QED BY <1>7, <1>9
-----------------------------------------------------------------------------
(* Hash chains and FIELD lists at every step of an append. *)

\* From head, the links nx lead through C in ascending order, and there they end.
Ascending(nx, C, head) ==
  /\ C \subseteq DOMAIN nx
  /\ IF C = {} THEN head = 0 ELSE head \in C /\ \A c \in C : head <= c
  /\ \A a \in C : IF nx[a] = 0 THEN \A c \in C : c <= a
                  ELSE nx[a] \in C /\ a < nx[a] /\ \A c \in C : c <= a \/ nx[a] <= c

\* The same in descending order.
Descending(nx, C, head) ==
  /\ C \subseteq DOMAIN nx
  /\ IF C = {} THEN head = 0 ELSE head \in C /\ \A c \in C : c <= head
  /\ \A a \in C : IF nx[a] = 0 THEN \A c \in C : a <= c
                  ELSE nx[a] \in C /\ nx[a] < a /\ \A c \in C : a <= c \/ c <= nx[a]

\* The bucket's tail is the object of C that links to nothing.
TailOf(nx, C, tail) == IF C = {} THEN tail = 0 ELSE tail \in C /\ nx[tail] = 0

\* Of the linked DATA or FIELD objects those of one bucket.
DataCell(S, b) == {d \in S : DataBucket[data[d].payload] = b}
FieldCell(F, b) == {f \in F : FieldBucket[field[f].name] = b}

\* Of the listed DATA objects those of one field name.
ValuesOf(L, n) == {d \in L : FieldOf[data[d].payload] = n}

\* The linked DATA objects S are those the hash chains find, one per payload.
DataChains(S) ==
  /\ S \subseteq DOMAIN data
  /\ \A b \in Buckets : Ascending(DataNext, DataCell(S, b), dht[b].head)
  /\ \A c, d \in S : data[c].payload = data[d].payload => c = d

FieldChains(F) ==
  /\ F \subseteq DOMAIN field
  /\ \A b \in Buckets : Ascending(FieldNext, FieldCell(F, b), fht[b].head)
  /\ \A f, g \in F : field[f].name = field[g].name => f = g

\* The DATA objects L are those on the list of the FIELD object of their name.
FieldLists(F, L) ==
  /\ \A f \in F : Descending(FieldNextOf, ValuesOf(L, field[f].name), field[f].head)
  /\ \A d \in L : \E f \in F : field[f].name = FieldOf[data[d].payload]

\* The cache and all items refer to linked objects.
Referred(F, L) ==
  /\ \A n \in DOMAIN cache : cache[n] \in F /\ field[cache[n]].name = n
  /\ \A e \in DOMAIN entry : \A x \in entry[e].items : x[1] \in L
  /\ \A it \in op.items : it.offset \in L

\* A DATA object behind all linked ones, the first of its payload.
FreshData(S, o) ==
  /\ o \notin S /\ data[o].next_hash = 0
  /\ \A d \in S : d < o /\ data[d].payload # Payload

UnlistedField(F, o) ==
  /\ o \in DOMAIN field \ F /\ field[o].name = Name
  /\ field[o].next_hash = 0 /\ field[o].head = 0
  /\ \A f \in F : f < o /\ field[f].name # Name

\* The writer will go on with the file as it is.
Live == pc # "idle" \/ ~w.poisoned

(***************************************************************************)
(* Where the running append is with the object it creates.                 *)
(***************************************************************************)
DataTails(S) ==
  \A b \in Buckets : ~(pc = "bucket" /\ b = DataBucket[Payload]) =>
                       TailOf(DataNext, DataCell(S, b), dht[b].tail)

FieldTails(F) ==
  \A b \in Buckets : ~(pc = "field_bucket" /\ b = FieldBucket[Name]) =>
                       TailOf(FieldNext, FieldCell(F, b), fht[b].tail)

\* The steps with a DATA object that its hash chain finds and no FIELD lists yet.
Listing == {"count_data", "add_field", "field_next_hash", "field_bucket", "count_field",
            "next_field", "head_data"}

DataPhase(S, L) ==
  /\ pc \notin FieldSteps => S \subseteq L
  /\ pc = "data" => S \subseteq L /\ \A d \in S : data[d].payload # Payload
  /\ pc = "hash_next" => S \subseteq L /\ FreshData(S, op.cur)
  /\ pc = "bucket" =>
       /\ S \subseteq L \cup {op.cur} /\ op.cur \notin L /\ \A d \in L : d < op.cur
       /\ data[op.cur].next_hash = 0
       /\ IF dht[DataBucket[Payload]].head = 0 THEN FreshData(S, op.cur) ELSE op.cur \in S
  /\ pc \in Listing =>
       op.cur \in S /\ S \subseteq L \cup {op.cur} /\ op.cur \notin L /\ \A d \in L : d < op.cur

FieldPhase(F) ==
  /\ pc = "field_next_hash" => UnlistedField(F, op.field)
  /\ pc = "field_bucket" =>
       IF fht[FieldBucket[Name]].head = 0 THEN UnlistedField(F, op.field)
       ELSE op.field \in F /\ field[op.field].name = Name /\ field[op.field].next_hash = 0
  /\ pc \in {"count_field", "next_field", "head_data"} =>
       op.field \in F /\ field[op.field].name = Name
  /\ pc = "head_data" => data[op.cur].next_field = field[op.field].head

(***************************************************************************)
(* The invariant of the two hash tables and the FIELD lists.               *)
(***************************************************************************)
HashParts(S, F, L) ==
  /\ L \subseteq S
  /\ DataChains(S) /\ FieldChains(F) /\ FieldLists(F, L) /\ Referred(F, L)
  /\ Live => DataTails(S) /\ FieldTails(F) /\ DataPhase(S, L) /\ FieldPhase(F)

HashInv == \E S, F, L : HashParts(S, F, L)

(***************************************************************************)
(* Both kinds of lists are met as a whole, and their walks end.            *)
(***************************************************************************)
LEMMA AscendingMet ==
  ASSUME NEW head, NEW nx, IsFiniteSet(DOMAIN nx), 0 \notin DOMAIN nx, DOMAIN nx \subseteq Nat,
         nx \in [DOMAIN nx -> Nat], NEW C, Ascending(nx, C, head)
  PROVE  Met(head, nx) = C /\ Ends(head, nx)
<1>1. PICK r : r = [c \in C |-> c]
  OBVIOUS
<1>2. \A c \in C : c \in Nat /\ r[c] = c
  BY <1>1 DEF Ascending
<1>3. r \in [C -> Int]
  BY <1>1, <1>2
<1>4. head \in Nat
  BY <1>2 DEF Ascending
<1>5. IF C = {} THEN head = 0 ELSE head \in C /\ \A c \in C : c = head \/ r[head] < r[c]
  BY <1>2 DEF Ascending
<1>6. ASSUME NEW a \in C
      PROVE  IF nx[a] = 0 THEN \A c \in C : c = a \/ r[c] < r[a]
             ELSE /\ nx[a] \in C /\ r[a] < r[nx[a]]
                  /\ \A c \in C : c = a \/ c = nx[a] \/ r[c] < r[a] \/ r[nx[a]] < r[c]
  <2>1. CASE nx[a] = 0
    BY <1>2, <2>1 DEF Ascending
  <2>2. CASE nx[a] # 0
    <3>1. nx[a] \in C /\ a < nx[a] /\ \A c \in C : c <= a \/ nx[a] <= c
      BY <2>2 DEF Ascending
    <3>2. PICK b \in C : b = nx[a]
      BY <3>1
    <3>3. r[a] < r[b] /\ \A c \in C : c = a \/ c = b \/ r[c] < r[a] \/ r[b] < r[c]
      BY <1>2, <3>1, <3>2
    <3> QED BY <2>2, <3>2, <3>3
  <2> QED BY <2>1, <2>2
<1>7. Linear(nx, C, head, r)
  BY <1>3, <1>5, <1>6 DEF Linear, Ascending
<1> QED BY <1>4, <1>7, LinearMet

LEMMA DescendingMet ==
  ASSUME NEW head, NEW nx, IsFiniteSet(DOMAIN nx), 0 \notin DOMAIN nx, DOMAIN nx \subseteq Nat,
         nx \in [DOMAIN nx -> Nat], NEW C, Descending(nx, C, head)
  PROVE  Met(head, nx) = C /\ Ends(head, nx)
<1>1. PICK r : r = [c \in C |-> 0 - c]
  OBVIOUS
<1>2. \A c \in C : c \in Nat /\ r[c] = 0 - c
  BY <1>1 DEF Descending
<1>3. r \in [C -> Int]
  BY <1>1, <1>2
<1>4. head \in Nat
  BY <1>2 DEF Descending
<1>5. IF C = {} THEN head = 0 ELSE head \in C /\ \A c \in C : c = head \/ r[head] < r[c]
  BY <1>2 DEF Descending
<1>6. ASSUME NEW a \in C
      PROVE  IF nx[a] = 0 THEN \A c \in C : c = a \/ r[c] < r[a]
             ELSE /\ nx[a] \in C /\ r[a] < r[nx[a]]
                  /\ \A c \in C : c = a \/ c = nx[a] \/ r[c] < r[a] \/ r[nx[a]] < r[c]
  <2>1. CASE nx[a] = 0
    BY <1>2, <2>1 DEF Descending
  <2>2. CASE nx[a] # 0
    <3>1. nx[a] \in C /\ nx[a] < a /\ \A c \in C : a <= c \/ c <= nx[a]
      BY <2>2 DEF Descending
    <3>2. PICK b \in C : b = nx[a]
      BY <3>1
    <3>3. r[a] < r[b] /\ \A c \in C : c = a \/ c = b \/ r[c] < r[a] \/ r[b] < r[c]
      BY <1>2, <3>1, <3>2
    <3> QED BY <2>2, <3>2, <3>3
  <2> QED BY <2>1, <2>2
<1>7. Linear(nx, C, head, r)
  BY <1>3, <1>5, <1>6 DEF Linear, Descending
<1> QED BY <1>4, <1>7, LinearMet

(***************************************************************************)
(* Links of other objects do not matter to a list.                         *)
(***************************************************************************)
LEMMA ListSame ==
  ASSUME NEW nx, NEW C, NEW head, NEW tail, NEW links, C \subseteq DOMAIN links,
         \A a \in C : links[a] = nx[a]
  PROVE  /\ Ascending(nx, C, head) => Ascending(links, C, head)
         /\ Descending(nx, C, head) => Descending(links, C, head)
         /\ TailOf(nx, C, tail) => TailOf(links, C, tail)
<1>1. Ascending(nx, C, head) => Ascending(links, C, head)
  BY DEF Ascending
<1>2. Descending(nx, C, head) => Descending(links, C, head)
  BY DEF Descending
<1>3. TailOf(nx, C, tail) => TailOf(links, C, tail)
  BY DEF TailOf
<1> QED BY <1>1, <1>2, <1>3

(***************************************************************************)
(* An object behind all others joins a hash chain at its tail.             *)
(***************************************************************************)
LEMMA AscendingGrows ==
  ASSUME NEW nx, NEW C, NEW head, NEW t, NEW links, NEW o \in Nat \ {0},
         Ascending(nx, C, head), t \in C, nx[t] = 0, \A c \in C : c \in Nat /\ c < o,
         C \cup {o} \subseteq DOMAIN links, links[t] = o, links[o] = 0,
         \A a \in C \ {t} : links[a] = nx[a]
  PROVE  Ascending(links, C \cup {o}, head)
<1> DEFINE D == C \cup {o}
<1>1. \A c \in C : c <= t
  BY DEF Ascending
<1>2. head \in D /\ \A c \in D : head <= c
  BY DEF Ascending
<1>3. ASSUME NEW a \in D
      PROVE  IF links[a] = 0 THEN \A c \in D : c <= a
             ELSE links[a] \in D /\ a < links[a] /\ \A c \in D : c <= a \/ links[a] <= c
  <2>1. CASE a = o
    BY <2>1
  <2>2. CASE a = t
    BY <1>1, <2>2
  <2>3. CASE a # o /\ a # t
    <3>1. a \in C /\ links[a] = nx[a]
      BY <2>3
    <3>2. nx[a] # 0
      <4>1. nx[a] = 0 => \A c \in C : c <= a
        BY <3>1 DEF Ascending
      <4>2. t \in Nat /\ a \in Nat
        BY <3>1
      <4> QED BY <1>1, <2>3, <3>1, <4>1, <4>2
    <3>3. nx[a] \in C /\ a < nx[a] /\ \A c \in C : c <= a \/ nx[a] <= c
      BY <3>1, <3>2 DEF Ascending
    <3>4. nx[a] <= o
      BY <3>3
    <3> QED BY <3>1, <3>2, <3>3, <3>4
  <2> QED BY <2>1, <2>2, <2>3
<1> HIDE DEF D
<1>4. D # {} /\ D \subseteq DOMAIN links
  BY DEF D
<1>5. Ascending(links, D, head)
  BY <1>2, <1>3, <1>4 DEF Ascending
<1> QED BY <1>5 DEF D

LEMMA AscendingOne ==
  ASSUME NEW links, NEW o \in Nat, o \in DOMAIN links, links[o] = 0
  PROVE  Ascending(links, {o}, o)
BY DEF Ascending

(***************************************************************************)
(* An object behind all others joins a FIELD list at its head.             *)
(***************************************************************************)
LEMMA DescendingGrows ==
  ASSUME NEW nx, NEW C, NEW head, NEW links, NEW o \in Nat \ {0},
         Descending(nx, C, head), \A c \in C : c \in Nat \ {0} /\ c < o,
         C \cup {o} \subseteq DOMAIN links, links[o] = head,
         \A a \in C : links[a] = nx[a]
  PROVE  Descending(links, C \cup {o}, o)
<1> DEFINE D == C \cup {o}
<1>1. \A c \in D : c <= o
  OBVIOUS
<1>2. ASSUME NEW a \in D
      PROVE  IF links[a] = 0 THEN \A c \in D : a <= c
             ELSE links[a] \in D /\ links[a] < a /\ \A c \in D : a <= c \/ c <= links[a]
  <2>1. CASE a = o
    <3>1. CASE C = {}
      BY <2>1, <3>1 DEF Descending
    <3>2. CASE C # {}
      <4>1. head \in C /\ \A c \in C : c <= head
        BY <3>2 DEF Descending
      <4> QED BY <2>1, <4>1
    <3> QED BY <3>1, <3>2
  <2>2. CASE a # o
    <3>1. a \in C /\ links[a] = nx[a] /\ a <= o
      BY <2>2
    <3>2. IF nx[a] = 0 THEN \A c \in C : a <= c
          ELSE nx[a] \in C /\ nx[a] < a /\ \A c \in C : a <= c \/ c <= nx[a]
      BY <3>1 DEF Descending
    <3> QED BY <3>1, <3>2
  <2> QED BY <2>1, <2>2
<1> HIDE DEF D
<1>3. D # {} /\ D \subseteq DOMAIN links /\ o \in D
  BY DEF D
<1>4. Descending(links, D, o)
  BY <1>1, <1>2, <1>3 DEF Descending
<1> QED BY <1>4 DEF D

-----------------------------------------------------------------------------
(* What the chains of a state find. *)

LEMMA ChainTypes ==
  ASSUME TypeOK
  PROVE  /\ IsFiniteSet(DOMAIN data) /\ 0 \notin DOMAIN data /\ DOMAIN data \subseteq Nat
         /\ IsFiniteSet(DOMAIN field) /\ 0 \notin DOMAIN field /\ DOMAIN field \subseteq Nat
         /\ DataNext \in [DOMAIN data -> Nat] /\ FieldNextOf \in [DOMAIN data -> Nat]
         /\ FieldNext \in [DOMAIN field -> Nat]
         /\ \A d \in DOMAIN data : data[d].payload \in Payloads
         /\ \A f \in DOMAIN field : field[f].name \in Names
<1>1. MaxOffset \in Nat
  BY ConstantsAssumption DEF ConstantsAssumption
<1>2. 1 \in Int /\ MaxOffset \in Int
  BY <1>1
<1>3. IsFiniteSet(1..MaxOffset)
  BY <1>2, FS_Interval
<1>4. /\ DOMAIN data \subseteq 1..MaxOffset /\ data \in [DOMAIN data -> DataObject]
      /\ DOMAIN field \subseteq 1..MaxOffset /\ field \in [DOMAIN field -> FieldObject]
  BY DEF TypeOK, ObjectsOK, Offsets
<1>5. IsFiniteSet(DOMAIN data) /\ IsFiniteSet(DOMAIN field)
  BY <1>3, <1>4, FS_Subset
<1>6. /\ \A a \in DOMAIN data : a \in Nat /\ a # 0
      /\ \A a \in DOMAIN field : a \in Nat /\ a # 0
  BY <1>1, <1>4
<1>7. \A d \in DOMAIN data : data[d].next_hash \in Nat /\ data[d].next_field \in Nat
                             /\ data[d].payload \in Payloads
  BY <1>4 DEF DataObject
<1>8. \A f \in DOMAIN field : field[f].next_hash \in Nat /\ field[f].name \in Names
  BY <1>4 DEF FieldObject
<1> QED BY <1>5, <1>6, <1>7, <1>8 DEF DataNext, FieldNext, FieldNextOf

(***************************************************************************)
(* find_data_match_parts finds the linked object of a payload, and the     *)
(* walk over the chain ends.                                               *)
(***************************************************************************)
LEMMA DataFound ==
  ASSUME TypeOK, NEW S, DataChains(S), NEW p \in Payloads
  PROVE  /\ FindData(p) = {d \in S : data[d].payload = p}
         /\ Ends(dht[DataBucket[p]].head, DataNext)
<1>1. DataBucket[p] \in Buckets
  BY ConstantsAssumption DEF ConstantsAssumption
<1>2. PICK b \in Buckets : b = DataBucket[p]
  BY <1>1
<1>3. PICK C : C = DataCell(S, b)
  OBVIOUS
<1>4. PICK nx : nx = DataNext
  OBVIOUS
<1>5. PICK head : head = dht[b].head
  OBVIOUS
<1>6. Ascending(nx, C, head)
  BY <1>3, <1>4, <1>5 DEF DataChains
<1>7. DOMAIN nx = DOMAIN data /\ nx \in [DOMAIN data -> Nat]
  BY <1>4, ChainTypes
<1>8. IsFiniteSet(DOMAIN nx) /\ 0 \notin DOMAIN nx /\ DOMAIN nx \subseteq Nat
  BY <1>7, ChainTypes
<1>9. Met(head, nx) = C /\ Ends(head, nx)
  BY <1>6, <1>7, <1>8, AscendingMet
<1>10. FindData(p) = {d \in C \cap DOMAIN data : data[d].payload = p}
  BY <1>2, <1>4, <1>5, <1>9 DEF FindData
<1>11. \A d \in S : d \in DOMAIN data
  BY DEF DataChains
<1>12. {d \in C \cap DOMAIN data : data[d].payload = p} = {d \in S : data[d].payload = p}
  BY <1>2, <1>3, <1>11 DEF DataCell
<1> QED BY <1>2, <1>4, <1>5, <1>9, <1>10, <1>12

LEMMA FieldFound ==
  ASSUME TypeOK, NEW F, FieldChains(F), NEW n \in Names
  PROVE  /\ FindField(n) = {f \in F : field[f].name = n}
         /\ Ends(fht[FieldBucket[n]].head, FieldNext)
<1>1. FieldBucket[n] \in Buckets
  BY ConstantsAssumption DEF ConstantsAssumption
<1>2. PICK b \in Buckets : b = FieldBucket[n]
  BY <1>1
<1>3. PICK C : C = FieldCell(F, b)
  OBVIOUS
<1>4. PICK nx : nx = FieldNext
  OBVIOUS
<1>5. PICK head : head = fht[b].head
  OBVIOUS
<1>6. Ascending(nx, C, head)
  BY <1>3, <1>4, <1>5 DEF FieldChains
<1>7. DOMAIN nx = DOMAIN field /\ nx \in [DOMAIN field -> Nat]
  BY <1>4, ChainTypes
<1>8. IsFiniteSet(DOMAIN nx) /\ 0 \notin DOMAIN nx /\ DOMAIN nx \subseteq Nat
  BY <1>7, ChainTypes
<1>9. Met(head, nx) = C /\ Ends(head, nx)
  BY <1>6, <1>7, <1>8, AscendingMet
<1>10. FindField(n) = {f \in C \cap DOMAIN field : field[f].name = n}
  BY <1>2, <1>4, <1>5, <1>9 DEF FindField
<1>11. \A f \in F : f \in DOMAIN field
  BY DEF FieldChains
<1>12. {f \in C \cap DOMAIN field : field[f].name = n} = {f \in F : field[f].name = n}
  BY <1>2, <1>3, <1>11 DEF FieldCell
<1> QED BY <1>2, <1>4, <1>5, <1>9, <1>10, <1>12

(***************************************************************************)
(* A listed DATA object is met from the FIELD object of its name.          *)
(***************************************************************************)
LEMMA ListMet ==
  ASSUME TypeOK, NEW S, NEW F, NEW L, L \subseteq S, DataChains(S), FieldChains(F),
         FieldLists(F, L), NEW d \in L
  PROVE  \E f \in FindField(FieldOf[data[d].payload]) : d \in Met(field[f].head, FieldNextOf)
<1>1. d \in DOMAIN data
  BY DEF DataChains
<1>2. FieldOf[data[d].payload] \in Names
  BY <1>1, ChainTypes, ConstantsAssumption DEF ConstantsAssumption
<1>3. PICK n \in Names : n = FieldOf[data[d].payload]
  BY <1>2
<1>4. PICK f \in F : field[f].name = n
  BY <1>3 DEF FieldLists
<1>5. f \in FindField(n)
  BY <1>4, FieldFound
<1>6. PICK nx : nx = FieldNextOf
  OBVIOUS
<1>7. PICK C : C = ValuesOf(L, n)
  OBVIOUS
<1>8. PICK head : head = field[f].head
  OBVIOUS
<1>9. Descending(nx, C, head)
  BY <1>4, <1>6, <1>7, <1>8 DEF FieldLists
<1>10. DOMAIN nx = DOMAIN data /\ nx \in [DOMAIN data -> Nat]
  BY <1>6, ChainTypes
<1>11. IsFiniteSet(DOMAIN nx) /\ 0 \notin DOMAIN nx /\ DOMAIN nx \subseteq Nat
  BY <1>10, ChainTypes
<1>12. Met(head, nx) = C
  BY <1>9, <1>10, <1>11, DescendingMet
<1>13. d \in C
  BY <1>3, <1>7 DEF ValuesOf
<1> QED BY <1>3, <1>5, <1>6, <1>8, <1>12, <1>13

-----------------------------------------------------------------------------
(* Steps that leave the chains and lists alone. *)

\* The DATA objects S keep payloads and hash links, the bucket heads are the same.
SameData(S) ==
  /\ \A b \in Buckets : dht'[b].head = dht[b].head
  /\ \A d \in S : /\ d \in DOMAIN data' /\ data'[d].payload = data[d].payload
                  /\ data'[d].next_hash = data[d].next_hash

SameFields(F) ==
  /\ \A b \in Buckets : fht'[b].head = fht[b].head
  /\ \A f \in F : /\ f \in DOMAIN field' /\ field'[f].name = field[f].name
                  /\ field'[f].next_hash = field[f].next_hash

LEMMA DataChainsSame ==
  ASSUME NEW S, DataChains(S), SameData(S)
  PROVE  DataChains(S)'
<1>1. S \subseteq DOMAIN data /\ S \subseteq DOMAIN data'
  BY DEF DataChains, SameData
<1>2. \A b \in Buckets : Ascending(DataNext, DataCell(S, b), dht[b].head)'
  <2> TAKE b \in Buckets
  <2>1. PICK C : C = DataCell(S, b)
    OBVIOUS
  <2>2. DataCell(S, b)' = C
    BY <1>1, <2>1 DEF SameData, DataCell
  <2>3. C \subseteq DOMAIN DataNext' /\ \A a \in C : DataNext'[a] = DataNext[a]
    BY <1>1, <2>1 DEF SameData, DataCell, DataNext
  <2>4. PICK nx, links, h : nx = DataNext /\ links = DataNext' /\ h = dht[b].head
    OBVIOUS
  <2>5. Ascending(nx, C, h)
    BY <2>1, <2>4 DEF DataChains
  <2>6. Ascending(links, C, h)
    BY <2>3, <2>4, <2>5, ListSame
  <2>7. dht'[b].head = h
    BY <2>4 DEF SameData
  <2> QED BY <2>2, <2>4, <2>6, <2>7
<1> QED BY <1>1, <1>2 DEF DataChains, SameData

LEMMA FieldChainsSame ==
  ASSUME NEW F, FieldChains(F), SameFields(F)
  PROVE  FieldChains(F)'
<1>1. F \subseteq DOMAIN field /\ F \subseteq DOMAIN field'
  BY DEF FieldChains, SameFields
<1>2. \A b \in Buckets : Ascending(FieldNext, FieldCell(F, b), fht[b].head)'
  <2> TAKE b \in Buckets
  <2>1. PICK C : C = FieldCell(F, b)
    OBVIOUS
  <2>2. FieldCell(F, b)' = C
    BY <1>1, <2>1 DEF SameFields, FieldCell
  <2>3. C \subseteq DOMAIN FieldNext' /\ \A a \in C : FieldNext'[a] = FieldNext[a]
    BY <1>1, <2>1 DEF SameFields, FieldCell, FieldNext
  <2>4. PICK nx, links, h : nx = FieldNext /\ links = FieldNext' /\ h = fht[b].head
    OBVIOUS
  <2>5. Ascending(nx, C, h)
    BY <2>1, <2>4 DEF FieldChains
  <2>6. Ascending(links, C, h)
    BY <2>3, <2>4, <2>5, ListSame
  <2>7. fht'[b].head = h
    BY <2>4 DEF SameFields
  <2> QED BY <2>2, <2>4, <2>6, <2>7
<1> QED BY <1>1, <1>2 DEF FieldChains, SameFields

\* The FIELD objects F keep names and heads, the DATA objects L their links.
SameLists(F, L) ==
  /\ \A f \in F : field'[f].name = field[f].name /\ field'[f].head = field[f].head
  /\ \A d \in L : /\ d \in DOMAIN data /\ d \in DOMAIN data'
                  /\ data'[d].payload = data[d].payload
                  /\ data'[d].next_field = data[d].next_field

LEMMA ValuesSame ==
  ASSUME NEW L, \A d \in L : data'[d].payload = data[d].payload, NEW n
  PROVE  ValuesOf(L, n)' = ValuesOf(L, n)
BY DEF ValuesOf

LEMMA FieldListsSame ==
  ASSUME NEW F, NEW L, FieldLists(F, L), SameLists(F, L)
  PROVE  FieldLists(F, L)'
<1>1. \A f \in F : Descending(FieldNextOf, ValuesOf(L, field[f].name), field[f].head)'
  <2> TAKE f \in F
  <2>1. PICK n : n = field[f].name
    OBVIOUS
  <2>2. PICK C : C = ValuesOf(L, n)
    OBVIOUS
  <2>3. ValuesOf(L, n)' = C
    BY <2>2, ValuesSame DEF SameLists
  <2>4. C \subseteq DOMAIN FieldNextOf' /\ \A a \in C : FieldNextOf'[a] = FieldNextOf[a]
    BY <2>2 DEF SameLists, ValuesOf, FieldNextOf
  <2>5. PICK nx, links, h : nx = FieldNextOf /\ links = FieldNextOf' /\ h = field[f].head
    OBVIOUS
  <2>6. Descending(nx, C, h)
    BY <2>1, <2>2, <2>5 DEF FieldLists
  <2>7. Descending(links, C, h)
    BY <2>4, <2>5, <2>6, ListSame
  <2>8. field'[f].head = h /\ field'[f].name = n
    BY <2>1, <2>5 DEF SameLists
  <2> QED BY <2>3, <2>5, <2>7, <2>8
<1>2. \A d \in L : \E f \in F : field'[f].name = FieldOf[data'[d].payload]
  BY DEF FieldLists, SameLists
<1> QED BY <1>1, <1>2 DEF FieldLists

LEMMA DataTailsSame ==
  ASSUME NEW S, DataChains(S), DataTails(S), SameData(S),
         \A b \in Buckets : dht'[b].tail = dht[b].tail,
         pc = "bucket" => pc' = "bucket" /\ op'.todo = op.todo
  PROVE  DataTails(S)'
<1> SUFFICES ASSUME NEW b \in Buckets, ~(pc' = "bucket" /\ b = DataBucket[Payload'])
             PROVE  TailOf(DataNext, DataCell(S, b), dht[b].tail)'
  BY DEF DataTails
<1>1. op'.todo = op.todo => Payload' = Payload
  BY DEF Payload
<1>2. PICK C, nx, links, t :
        C = DataCell(S, b) /\ nx = DataNext /\ links = DataNext' /\ t = dht[b].tail
  OBVIOUS
<1>3. TailOf(nx, C, t)
  BY <1>1, <1>2 DEF DataTails
<1>4. DataCell(S, b)' = C
  BY <1>2 DEF SameData, DataCell
<1>5. C \subseteq DOMAIN links /\ \A a \in C : links[a] = nx[a]
  BY <1>2 DEF SameData, DataCell, DataNext, DataChains
<1>6. TailOf(links, C, t)
  BY <1>3, <1>5, ListSame
<1> QED BY <1>2, <1>4, <1>6

LEMMA FieldTailsSame ==
  ASSUME NEW F, FieldChains(F), FieldTails(F), SameFields(F),
         \A b \in Buckets : fht'[b].tail = fht[b].tail,
         pc = "field_bucket" => pc' = "field_bucket" /\ op'.todo = op.todo
  PROVE  FieldTails(F)'
<1> SUFFICES ASSUME NEW b \in Buckets, ~(pc' = "field_bucket" /\ b = FieldBucket[Name'])
             PROVE  TailOf(FieldNext, FieldCell(F, b), fht[b].tail)'
  BY DEF FieldTails
<1>1. op'.todo = op.todo => Name' = Name
  BY DEF Payload, Name
<1>2. PICK C, nx, links, t :
        C = FieldCell(F, b) /\ nx = FieldNext /\ links = FieldNext' /\ t = fht[b].tail
  OBVIOUS
<1>3. TailOf(nx, C, t)
  BY <1>1, <1>2 DEF FieldTails
<1>4. FieldCell(F, b)' = C
  BY <1>2 DEF SameFields, FieldCell
<1>5. C \subseteq DOMAIN links /\ \A a \in C : links[a] = nx[a]
  BY <1>2 DEF SameFields, FieldCell, FieldNext, FieldChains
<1>6. TailOf(links, C, t)
  BY <1>3, <1>5, ListSame
<1> QED BY <1>2, <1>4, <1>6

\* The words of the index: none of them changes, though objects may be added.
SameChains ==
  /\ DOMAIN data \subseteq DOMAIN data' /\ DOMAIN field \subseteq DOMAIN field'
  /\ dht' = dht /\ fht' = fht /\ \A f \in DOMAIN field : field'[f] = field[f]
  /\ \A o \in DOMAIN data : /\ data'[o].payload = data[o].payload
                            /\ data'[o].next_hash = data[o].next_hash
                            /\ data'[o].next_field = data[o].next_field

\* The parts of the invariant that do not depend on the step.
Indexed(S, F, L) ==
  L \subseteq S /\ DataChains(S) /\ FieldChains(F) /\ FieldLists(F, L)

LEMMA IndexedSame ==
  ASSUME NEW S, NEW F, NEW L, Indexed(S, F, L), SameChains
  PROVE  Indexed(S, F, L)' /\ SameData(S) /\ SameFields(F)
<1>1. S \subseteq DOMAIN data /\ L \subseteq DOMAIN data /\ F \subseteq DOMAIN field
  BY DEF Indexed, DataChains, FieldChains
<1>2. SameData(S) /\ SameFields(F) /\ SameLists(F, L)
  BY <1>1 DEF SameChains, SameData, SameFields, SameLists
<1> QED BY <1>2, DataChainsSame, FieldChainsSame, FieldListsSame DEF Indexed

LEMMA TailsSame ==
  ASSUME NEW S, NEW F, NEW L, Indexed(S, F, L), SameChains, DataTails(S), FieldTails(F),
         pc = "bucket" => pc' = "bucket" /\ op'.todo = op.todo,
         pc = "field_bucket" => pc' = "field_bucket" /\ op'.todo = op.todo
  PROVE  DataTails(S)' /\ FieldTails(F)'
<1>1. dht' = dht /\ fht' = fht
  BY DEF SameChains
<1> QED BY <1>1, IndexedSame, DataTailsSame, FieldTailsSame DEF Indexed

\* What a step that is not about the index must show.
LEMMA HashQuiet ==
  ASSUME NEW S, NEW F, NEW L, HashParts(S, F, L), SameChains, Referred(F, L)',
         pc \notin FieldSteps, pc' \notin FieldSteps, Live' => Live
  PROVE  HashParts(S, F, L)'
<1>1. Indexed(S, F, L)'
  BY IndexedSame DEF HashParts, Indexed
<1>2. Live' => DataTails(S)' /\ FieldTails(F)'
  BY TailsSame DEF HashParts, Indexed, FieldSteps
<1>3. Live' => DataPhase(S, L)' /\ FieldPhase(F)'
  BY DEF HashParts, DataPhase, FieldPhase, FieldSteps, Listing
<1> QED BY <1>1, <1>2, <1>3 DEF HashParts, Indexed

LEMMA ReferredSame ==
  ASSUME NEW F, NEW L, Referred(F, L), field' = field, cache' = cache, entry' = entry,
         op'.items \subseteq op.items
  PROVE  Referred(F, L)'
BY DEF Referred

LEMMA DataWords ==
  ASSUME TypeOK, NEW t, NEW v, field' = field, dht' = dht, fht' = fht,
         \/ data' = data
         \/ data' = [data EXCEPT ![t].entry = v]
         \/ data' = [data EXCEPT ![t].array = v]
         \/ data' = [data EXCEPT ![t].n = v]
         \/ \E v2 : data' = [data EXCEPT ![t].tail = v, ![t].tail_n = v2]
  PROVE  SameChains
<1>1. data \in [DOMAIN data -> DataObject]
  BY DEF TypeOK, ObjectsOK
<1> QED BY <1>1 DEF SameChains, DataObject

-----------------------------------------------------------------------------
(* The steps outside the field list. *)

LEMMA HashInit == Init => HashInv
<1> SUFFICES ASSUME Init PROVE HashInv
  OBVIOUS
<1>1. /\ DOMAIN data = {} /\ DOMAIN field = {} /\ DOMAIN entry = {} /\ DOMAIN cache = {}
      /\ pc = "idle" /\ op.items = {}
      /\ \A b \in Buckets : dht[b].head = 0 /\ dht[b].tail = 0 /\ fht[b].head = 0 /\ fht[b].tail = 0
  BY DEF Init, NoOp
<1>2. \A b : DataCell({}, b) = {} /\ FieldCell({}, b) = {}
  BY DEF DataCell, FieldCell
<1>3. DataChains({}) /\ FieldChains({}) /\ FieldLists({}, {}) /\ Referred({}, {})
  BY <1>1, <1>2 DEF DataChains, FieldChains, FieldLists, Referred, Ascending
<1>4. DataTails({}) /\ FieldTails({})
  BY <1>1, <1>2 DEF DataTails, FieldTails, TailOf
<1>5. DataPhase({}, {}) /\ FieldPhase({})
  BY <1>1 DEF DataPhase, FieldPhase, Listing
<1> QED BY <1>3, <1>4, <1>5 DEF HashInv, HashParts

LEMMA HashOutside ==
  ASSUME BaseInv, [Next]_vars, NEW S, NEW F, NEW L, HashParts(S, F, L),
         Call \/ Leave \/ Publish \/ FailPublish
  PROVE  HashParts(S, F, L)'
<1>0. TypeOK
  BY DEF BaseInv
<1>1. /\ data' = data /\ field' = field /\ entry' = entry /\ dht' = dht /\ fht' = fht
      /\ pc' \in {"idle", "field"}
  BY <1>0, CallFrame, LeaveFrame, EndPoisoned DEF objects, tables
<1>2. cache' = cache
  BY DEF Call, BeginAppend, RefuseOptions, RefusePoisoned, Leave, RejectField, FinishEmpty,
         FailAppend, Overflow, Publish, FailPublish
<1>3. op'.items = {}
  <2>1. NoOp.items = {}
    BY DEF NoOp
  <2>2. CASE Leave \/ Publish \/ FailPublish
    <3>1. op' = NoOp
      BY <2>2 DEF Leave, RejectField, FinishEmpty, FailAppend, Overflow, Publish, FailPublish, Return
    <3> QED BY <2>1, <3>1
  <2>3. CASE Call
    <3>1. CASE RefusePoisoned \/ \E q \in SeqnumOptions, b \in Boots, m \in Monotonics :
                                   RefuseOptions(q, b, m)
      BY <2>1, <3>1 DEF RefuseOptions, RefusePoisoned, Return
    <3>2. ASSUME NEW fields, NEW q, NEW b, NEW m, NEW trusted, BeginAppend(fields, q, b, m, trusted)
          PROVE  op'.items = {}
      BY <3>2 DEF BeginAppend, NoOp
    <3> QED BY <2>3, <3>1, <3>2 DEF Call
  <2> QED BY <2>2, <2>3
<1>4. SameChains
  BY <1>1 DEF SameChains
<1>5. Referred(F, L)'
  BY <1>1, <1>2, <1>3, ReferredSame DEF HashParts
<1>6. pc' \notin FieldSteps
  BY <1>1 DEF FieldSteps
<1>7. CASE pc \notin FieldSteps
  <2>1. Live' => Live
    <3>1. CASE Call
      <4>1. pc = "idle" /\ w' = w /\ (pc' = "field" => ~w.poisoned)
        BY <1>0, <3>1, CallFrame
      <4> QED BY <1>1, <4>1 DEF Live
    <3>2. CASE Leave
      BY <3>2, LeaveCounters DEF Live
    <3>3. CASE Publish \/ FailPublish
      BY <1>0, <3>3, EndPoisoned DEF Live
    <3> QED BY <3>1, <3>2, <3>3
  <2> QED BY <1>4, <1>5, <1>6, <1>7, <2>1, HashQuiet
<1>8. CASE pc \in FieldSteps
  <2>1. w.poisoned /\ Leave
    <3>1. pc \notin {"idle", "field", "publish"}
      BY <1>8 DEF FieldSteps
    <3> QED BY <1>0, <3>1, CallFrame, EndPoisoned DEF BaseInv, ArenaInv, PoisonCover
  <2>2. ~Live'
    BY <2>1, LeaveFrame DEF Live
  <2>3. Indexed(S, F, L)'
    BY <1>4, IndexedSame DEF HashParts, Indexed
  <2> QED BY <1>5, <2>2, <2>3 DEF HashParts, Indexed
<1> QED BY <1>7, <1>8

\* The steps that link an entry, and those that commit it.
LEMMA HashLinks ==
  ASSUME BaseInv, NEW S, NEW F, NEW L, HashParts(S, F, L),
         \/ QuietLink \/ CreateLink \/ CommitObjects \/ CommitTailObject \/ CommitHead
         \/ CommitTail \/ CommitTailEntry \/ CommitCount
  PROVE  HashParts(S, F, L)'
<1>0. TypeOK /\ op \in Locals
  BY DEF BaseInv, TypeOK, CallOK
<1>1. pc \in LinkSteps \cup Commits /\ pc' \in LinkSteps \cup Commits \cup {"publish"}
  BY <1>0, QuietLinkFrame, CreateLinkFrame, CommitFrame
     DEF CommitObjects, CommitCount, Goto, Commits, LinkSteps
<1>2. entry' = entry /\ cache' = cache /\ field' = field /\ dht' = dht /\ fht' = fht
  BY DEF QuietLink, CreateLink, PlaceInTail, LinkArray, SetSlot, GlobalHeader, LinkFirst,
         LinkInTail, DataArray, DataHint, DataCount, Linked, PlaceFirst, PlaceInNew, LinkSecond,
         LinkInNew, CommitObjects, CommitTailObject, CommitHead, CommitTail, CommitTailEntry,
         CommitCount, objects, tables
<1>3. op'.items = op.items
  <2>1. CASE QuietLink
    <3>1. ASSUME NEW it \in op.left, LinkInTail(it) PROVE op'.items = op.items
      BY <1>0, <3>1 DEF LinkInTail, Locals
    <3>2. ASSUME NEW it \in op.left, LinkFirst(it) PROVE op'.items = op.items
      BY <1>0, <3>2 DEF LinkFirst, Locals
    <3> QED BY <1>0, <2>1, <3>1, <3>2
            DEF QuietLink, PlaceInTail, LinkArray, SetSlot, GlobalHeader,
                DataArray, DataHint, DataCount, Linked, Locals
  <2>2. CASE CreateLink
    <3>1. ASSUME NEW it \in op.left, LinkInNew(it) PROVE op'.items = op.items
      BY <1>0, <3>1 DEF LinkInNew, Locals
    <3>2. ASSUME NEW it \in op.left, LinkSecond(it) PROVE op'.items = op.items
      BY <1>0, <3>2 DEF LinkSecond, Locals
    <3> QED BY <1>0, <2>2, <3>1, <3>2 DEF CreateLink, PlaceFirst, PlaceInNew, Locals
  <2>3. CASE ~QuietLink /\ ~CreateLink
    BY <2>3 DEF CommitObjects, CommitTailObject, CommitHead, CommitTail, CommitTailEntry,
               CommitCount
  <2> QED BY <2>1, <2>2, <2>3
<1>4. SameChains
  <2>1. \E t, v : \/ data' = data
                  \/ data' = [data EXCEPT ![t].entry = v]
                  \/ data' = [data EXCEPT ![t].array = v]
                  \/ data' = [data EXCEPT ![t].n = v]
                  \/ \E v2 : data' = [data EXCEPT ![t].tail = v, ![t].tail_n = v2]
    <3>1. ASSUME NEW it \in op.left, LinkFirst(it)
          PROVE  data' = [data EXCEPT ![it.offset].entry = op.entry]
      BY <3>1 DEF LinkFirst
    <3>2. CASE DataArray
      BY <3>2 DEF DataArray
    <3>3. CASE DataHint
      BY <3>3 DEF DataHint
    <3>4. CASE DataCount
      BY <3>4 DEF DataCount
    <3>5. CASE /\ ~DataArray /\ ~DataHint /\ ~DataCount
               /\ ~(\E it \in op.left : LinkFirst(it))
      <4>1. data' = data
        BY <3>5 DEF QuietLink, CreateLink, PlaceInTail, LinkArray, SetSlot, GlobalHeader,
           LinkInTail, Linked, PlaceFirst, PlaceInNew, LinkSecond,
           LinkInNew, CommitObjects, CommitTailObject, CommitHead, CommitTail, CommitTailEntry,
           CommitCount, objects
      <4> QED BY <4>1
    <3> QED BY <3>1, <3>2, <3>3, <3>4, <3>5
  <2> QED BY <1>0, <1>2, <2>1, DataWords
<1>5. pc \notin FieldSteps /\ pc' \notin FieldSteps /\ Live
  BY <1>1 DEF FieldSteps, LinkSteps, Commits, Live
<1>6. Referred(F, L)'
  BY <1>2, <1>3, ReferredSame DEF HashParts
<1> QED BY <1>4, <1>5, <1>6, HashQuiet

LEMMA HashEntry ==
  ASSUME BaseInv, NEW S, NEW F, NEW L, HashParts(S, F, L), Finish \/ WriteEntry
  PROVE  HashParts(S, F, L)'
<1>0. TypeOK /\ op \in Locals
  BY DEF BaseInv, TypeOK, CallOK
<1>1. /\ data' = data /\ field' = field /\ dht' = dht /\ fht' = fht /\ cache' = cache
      /\ op'.items = op.items /\ pc \in {"field", "entry"} /\ pc' \in {"entry", "place"}
  BY <1>0 DEF Finish, WriteEntry, Goto, objects, tables, Locals
<1>2. SameChains
  BY <1>1 DEF SameChains
<1>3. Referred(F, L)'
  <2>1. CASE Finish
    BY <1>1, <2>1, ReferredSame DEF HashParts, Finish, objects
  <2>2. CASE WriteEntry
    <3>1. entry' = Put(entry, w.append_offset,
                       [seqnum |-> op.seqnum, boot |-> op.boot, mono |-> op.mono,
                        items |-> {<<it.offset, it.copy>> : it \in op.items}])
      BY <2>2 DEF WriteEntry
    <3>2. \A e \in DOMAIN entry' :
            \/ e \in DOMAIN entry /\ entry'[e] = entry[e]
            \/ entry'[e].items = {<<it.offset, it.copy>> : it \in op.items}
      BY <3>1 DEF Put
    <3>3. \A e \in DOMAIN entry' : \A x \in entry'[e].items : x[1] \in L
      BY <3>2 DEF HashParts, Referred
    <3> QED BY <1>1, <3>3 DEF HashParts, Referred
  <2> QED BY <2>1, <2>2
<1>4. pc \notin FieldSteps /\ pc' \notin FieldSteps /\ Live
  BY <1>1 DEF FieldSteps, Live
<1> QED BY <1>2, <1>3, <1>4, HashQuiet

-----------------------------------------------------------------------------
(* The steps on one field of the request. *)

LEMMA HashMoved ==
  ASSUME NEW S, NEW F, NEW L, HashParts(S, F, L), Live, SameChains, Referred(F, L)',
         pc \notin {"bucket", "field_bucket"}, DataPhase(S, L)', FieldPhase(F)'
  PROVE  HashParts(S, F, L)'
<1>1. Indexed(S, F, L)'
  BY IndexedSame DEF HashParts, Indexed
<1>2. DataTails(S)' /\ FieldTails(F)'
  BY TailsSame DEF HashParts, Indexed
<1> QED BY <1>1, <1>2 DEF HashParts, Indexed

\* The payload and the name at hand are the same as long as the request is.
LEMMA SamePayload ==
  ASSUME op'.todo = op.todo
  PROVE  Payload' = Payload /\ Name' = Name
BY DEF Payload, Name

LEMMA AtHand ==
  ASSUME BaseInv, pc \in FieldSteps
  PROVE  /\ Payload \in Payloads /\ Name \in Names
         /\ DataBucket[Payload] \in Buckets /\ FieldBucket[Name] \in Buckets
         /\ pc # "data" => /\ op.cur \in DOMAIN data /\ data[op.cur].payload = Payload
                           /\ op.cur \in Nat \ {0}
<1>1. Payload \in Payloads /\ Name \in Names
  BY NameType DEF BaseInv, TypeOK, CallOK, Payload
<1>2. DataBucket[Payload] \in Buckets /\ FieldBucket[Name] \in Buckets
  BY <1>1, ConstantsAssumption DEF ConstantsAssumption
<1>3. pc # "data" => op.cur \in DOMAIN data /\ data[op.cur].payload = Payload
  BY DEF BaseInv, RequestInv, Payload
<1>4. \A d \in DOMAIN data : d \in Nat \ {0}
  BY ChainTypes DEF BaseInv
<1> QED BY <1>1, <1>2, <1>3, <1>4

\* A new object lies behind all others and starts with empty links.
LEMMA NewPlace ==
  ASSUME BaseInv
  PROVE  /\ w.append_offset \notin DOMAIN data /\ w.append_offset \notin DOMAIN field
         /\ \A o \in DOMAIN data \cup DOMAIN field : o < w.append_offset
         /\ w.append_offset \in Nat /\ \A k : Word(w.append_offset, k) = 0
<1>1. w.append_offset \in Nat
  BY DEF BaseInv, TypeOK, WriterOK, Writer
<1>2. DOMAIN data \cup DOMAIN field \subseteq 3..(w.append_offset - 1)
  BY DEF BaseInv, ArenaInv
<1>3. \A o \in DOMAIN data \cup DOMAIN field : o < w.append_offset /\ o \in Nat
  BY <1>1, <1>2
<1>4. \A k : Word(w.append_offset, k) = 0
  BY DEF BaseInv, FreshInv, Word
<1> QED BY <1>1, <1>3, <1>4

LEMMA HashItems ==
  ASSUME BaseInv, NEW S, NEW F, NEW L, HashParts(S, F, L), SkipField \/ ReuseData
  PROVE  HashParts(S, F, L)'
<1>0. TypeOK /\ op \in Locals
  BY DEF BaseInv, TypeOK, CallOK
<1>1. /\ data' = data /\ field' = field /\ entry' = entry /\ dht' = dht /\ fht' = fht
      /\ cache' = cache /\ pc = "field" /\ pc' = "field"
  BY DEF SkipField, ReuseData, AtField, Goto, objects, tables
<1>2. SameChains
  BY <1>1 DEF SameChains
<1>3. pc \notin FieldSteps /\ pc' \notin FieldSteps /\ Live
  BY <1>1 DEF FieldSteps, Live
<1>4. Referred(F, L)'
  <2>1. CASE SkipField
    <3>1. op'.items = op.items
      BY <1>0, <2>1 DEF SkipField, Locals
    <3> QED BY <1>1, <3>1, ReferredSame DEF HashParts
  <2>2. CASE ReuseData
    <3>1. PICK d \in FindData(Payload) :
            op' = [op EXCEPT !.todo = Tail(@),
                             !.items = AddItem(d, data[d].n, data[d].array,
                                               data[d].tail, data[d].tail_n)]
      BY <2>2 DEF ReuseData
    <3>2. PICK n, a, t, tn : n = data[d].n /\ a = data[d].array /\ t = data[d].tail
                             /\ tn = data[d].tail_n
      OBVIOUS
    <3>3. op'.items = AddItem(d, n, a, t, tn)
      BY <1>0, <3>1, <3>2 DEF Locals
    <3>4. d \in L
      <4>1. PICK p \in Payloads : p = Payload
        BY <2>2 DEF ReuseData
      <4>2. d \in S
        BY <1>0, <3>1, <4>1, DataFound DEF HashParts
      <4> QED BY <1>3, <4>2 DEF HashParts, DataPhase
    <3>5. \A it \in op'.items : it \in op.items \/ it.offset = d
      BY <3>3, AddItemOffsets
    <3> QED BY <1>1, <3>4, <3>5 DEF HashParts, Referred
  <2> QED BY <2>1, <2>2
<1> QED BY <1>2, <1>3, <1>4, HashQuiet

LEMMA HashStart ==
  ASSUME BaseInv, NEW S, NEW F, NEW L, HashParts(S, F, L), StartData
  PROVE  HashParts(S, F, L)'
<1>0. TypeOK
  BY DEF BaseInv
<1>1. /\ data' = data /\ field' = field /\ entry' = entry /\ dht' = dht /\ fht' = fht
      /\ cache' = cache /\ op' = op /\ pc = "field" /\ pc' = "data"
  BY DEF StartData, AtField, Goto, objects, tables
<1>2. SameChains /\ Live
  BY <1>1 DEF SameChains, Live
<1>3. Referred(F, L)'
  BY <1>1, ReferredSame DEF HashParts
<1>4. S \subseteq L
  BY <1>1, <1>2 DEF HashParts, DataPhase, FieldSteps
<1>5. \A d \in S : data[d].payload # Payload
  <2>1. PICK p \in Payloads : p = Payload
    BY DEF StartData
  <2>2. {d \in S : data[d].payload = p} = {}
    BY <1>0, <2>1, DataFound DEF HashParts, StartData
  <2> QED BY <2>1, <2>2
<1>6. DataPhase(S, L)' /\ FieldPhase(F)'
  <2>1. Payload' = Payload
    BY <1>1, SamePayload
  <2> QED BY <1>1, <1>4, <1>5, <2>1 DEF DataPhase, FieldPhase, Listing, FieldSteps
<1>7. pc \notin {"bucket", "field_bucket"}
  BY <1>1
<1> QED BY <1>2, <1>3, <1>6, <1>7, HashMoved

LEMMA HashWriteData ==
  ASSUME BaseInv, NEW S, NEW F, NEW L, HashParts(S, F, L), WriteData
  PROVE  HashParts(S, F, L)'
<1>0. TypeOK /\ op \in Locals
  BY DEF BaseInv, TypeOK, CallOK
<1>1. /\ field' = field /\ entry' = entry /\ dht' = dht /\ fht' = fht
      /\ cache' = cache /\ pc = "data" /\ pc' = "hash_next"
      /\ op'.items = op.items /\ op'.todo = op.todo /\ op'.cur = w.append_offset
  BY <1>0 DEF WriteData, Goto, tables, Locals
<1>2. PICK o, v : o = w.append_offset /\ data' = Put(data, o, v)
                  /\ v.payload = Payload /\ v.next_hash = 0
  BY NewPlace DEF WriteData
<1>3. /\ DOMAIN data' = DOMAIN data \cup {o} /\ data'[o] = v
      /\ \A d \in DOMAIN data : d # o => data'[d] = data[d]
  BY <1>2 DEF Put
<1>4. o \notin DOMAIN data /\ \A d \in DOMAIN data : d < o
  BY <1>2, NewPlace
<1>5. SameChains
  BY <1>1, <1>3, <1>4 DEF SameChains
<1>6. Referred(F, L)'
  BY <1>1, ReferredSame DEF HashParts
<1>7. S \subseteq L /\ Live /\ S \subseteq DOMAIN data /\ \A d \in S : data[d].payload # Payload
  BY <1>1 DEF HashParts, DataChains, DataPhase, Live
<1>8. Payload' = Payload
  BY <1>1, SamePayload
<1>9. FreshData(S, op.cur)'
  BY <1>1, <1>2, <1>3, <1>4, <1>7, <1>8 DEF FreshData
<1>10. DataPhase(S, L)' /\ FieldPhase(F)'
  BY <1>1, <1>7, <1>9 DEF DataPhase, FieldPhase, Listing, FieldSteps
<1>11. pc \notin {"bucket", "field_bucket"}
  BY <1>1
<1> QED BY <1>5, <1>6, <1>7, <1>10, <1>11, HashMoved

\* The new DATA object o of payload p joins its hash chain in this step: behind the
\* old tail t, or as the first one of its bucket.
DataJoin(S, p, o, t) ==
  /\ o \in DOMAIN data' /\ data'[o].payload = p /\ data'[o].next_hash = 0
  /\ \A d \in S : /\ d < o /\ data[d].payload # p
                  /\ d \in DOMAIN data' /\ data'[d].payload = data[d].payload
                  /\ d # t => data'[d].next_hash = data[d].next_hash
  /\ \A b \in Buckets : b # DataBucket[p] => dht'[b].head = dht[b].head
  /\ \/ /\ DataCell(S, DataBucket[p]) = {} /\ dht'[DataBucket[p]].head = o /\ t = 0
     \/ /\ t \in DataCell(S, DataBucket[p]) /\ data[t].next_hash = 0
        /\ data'[t].next_hash = o
        /\ dht'[DataBucket[p]].head = dht[DataBucket[p]].head

LEMMA DataJoins ==
  ASSUME TypeOK, NEW S, DataChains(S), NEW p \in Payloads, NEW o \in Nat \ {0}, NEW t,
         DataJoin(S, p, o, t)
  PROVE  /\ DataChains(S \cup {o})'
         /\ \A b \in Buckets : b # DataBucket[p] =>
              /\ DataCell(S \cup {o}, b)' = DataCell(S, b)
              /\ DataCell(S, b) \subseteq DOMAIN DataNext'
              /\ \A a \in DataCell(S, b) : DataNext'[a] = DataNext[a]
<1> USE DEF DataJoin
<1>1. PICK c \in Buckets : c = DataBucket[p]
  BY ConstantsAssumption DEF ConstantsAssumption
<1>2. /\ S \subseteq DOMAIN data /\ S \subseteq DOMAIN data' /\ o \notin S
      /\ \A d \in S : d \in Nat
  <2>1. S \subseteq DOMAIN data /\ DOMAIN data \subseteq Nat
    BY ChainTypes DEF DataChains
  <2> QED BY <2>1
<1>3. DataCell(S \cup {o}, c)' = DataCell(S, c) \cup {o}
  BY <1>1, <1>2 DEF DataCell
<1>4. ASSUME NEW b \in Buckets, b # c
      PROVE  /\ DataCell(S \cup {o}, b)' = DataCell(S, b)
             /\ DataCell(S, b) \subseteq DOMAIN DataNext'
             /\ \A a \in DataCell(S, b) : DataNext'[a] = DataNext[a]
  <2>1. DataCell(S \cup {o}, b)' = DataCell(S, b)
    BY <1>1, <1>2, <1>4 DEF DataCell
  <2>2. \A a \in DataCell(S, b) : a \in S /\ a # t
    <3>1. \A a \in DataCell(S, b) : a \in S /\ DataBucket[data[a].payload] = b /\ a # 0
      BY <1>2, ChainTypes DEF DataCell
    <3>2. t = 0 \/ DataBucket[data[t].payload] = c
      BY <1>1 DEF DataCell
    <3> QED BY <1>4, <3>1, <3>2
  <2> QED BY <1>2, <2>1, <2>2 DEF DataNext
<1>5. ASSUME NEW b \in Buckets
      PROVE  Ascending(DataNext, DataCell(S \cup {o}, b), dht[b].head)'
  <2>1. PICK C, nx, links, h :
          C = DataCell(S, b) /\ nx = DataNext /\ links = DataNext' /\ h = dht[b].head
    OBVIOUS
  <2>2. Ascending(nx, C, h)
    BY <2>1 DEF DataChains
  <2>3. CASE b # c
    <3>1. C \subseteq DOMAIN links /\ \A a \in C : links[a] = nx[a]
      BY <1>4, <2>1, <2>3
    <3>2. Ascending(links, C, h)
      BY <2>2, <3>1, ListSame
    <3>3. dht'[b].head = h
      BY <1>1, <2>1, <2>3
    <3> QED BY <1>4, <2>1, <2>3, <3>2, <3>3
  <2>4. CASE b = c /\ DataCell(S, c) = {}
    <3>1. t = 0 /\ dht'[b].head = o
      BY <1>1, <2>4
    <3>2. o \in DOMAIN links /\ links[o] = 0
      BY <2>1 DEF DataNext
    <3>3. Ascending(links, {o}, o)
      BY <3>2, AscendingOne
    <3> QED BY <1>3, <2>1, <2>4, <3>1, <3>3
  <2>5. CASE b = c /\ DataCell(S, c) # {}
    <3>1. t \in C /\ data[t].next_hash = 0 /\ data'[t].next_hash = o /\ dht'[b].head = h
      BY <1>1, <2>1, <2>5
    <3>2. \A a \in C : a \in S
      BY <2>1 DEF DataCell
    <3>3. nx[t] = 0 /\ links[t] = o /\ links[o] = 0 /\ C \cup {o} \subseteq DOMAIN links
      BY <1>2, <2>1, <3>1, <3>2 DEF DataNext
    <3>4. \A a \in C \ {t} : links[a] = nx[a]
      BY <1>2, <2>1, <3>2 DEF DataNext
    <3>5. \A a \in C : a \in Nat /\ a < o
      BY <1>2, <3>2
    <3>6. Ascending(links, C \cup {o}, h)
      BY <2>2, <3>1, <3>3, <3>4, <3>5, AscendingGrows
    <3> QED BY <1>3, <2>1, <2>5, <3>1, <3>6
  <2> QED BY <2>3, <2>4, <2>5
<1>6. \A x, y \in S \cup {o} : data'[x].payload = data'[y].payload => x = y
  BY DEF DataChains
<1>7. DataChains(S \cup {o})'
  BY <1>2, <1>5, <1>6 DEF DataChains
<1> QED BY <1>1, <1>4, <1>7

\* A bucket is empty exactly if its head, and so its tail, is zero.
LEMMA EmptyCell ==
  ASSUME TypeOK, NEW S, DataChains(S), NEW b \in Buckets
  PROVE  /\ DataCell(S, b) = {} <=> dht[b].head = 0
         /\ TailOf(DataNext, DataCell(S, b), dht[b].tail) =>
              (DataCell(S, b) = {} <=> dht[b].tail = 0)
<1>1. 0 \notin DataCell(S, b)
  BY ChainTypes DEF DataChains, DataCell
<1>2. Ascending(DataNext, DataCell(S, b), dht[b].head)
  BY DEF DataChains
<1>3. DataCell(S, b) = {} <=> dht[b].head = 0
  BY <1>1, <1>2 DEF Ascending
<1> QED BY <1>1, <1>3 DEF TailOf

LEMMA HashLinkData ==
  ASSUME BaseInv, NEW S, NEW F, NEW L, HashParts(S, F, L), LinkDataHash
  PROVE  \E T : HashParts(T, F, L)'
<1>0. TypeOK
  BY DEF BaseInv
<1>1. /\ field' = field /\ entry' = entry /\ dht' = dht /\ fht' = fht
      /\ cache' = cache /\ pc = "hash_next" /\ pc' = "bucket" /\ op' = op
  BY DEF LinkDataHash, Goto, tables
<1>2. pc \in FieldSteps \ {"data"}
  BY <1>1 DEF FieldSteps
<1>3. PICK p \in Payloads : p = Payload
  BY <1>2, AtHand
<1>4. PICK b \in Buckets : b = DataBucket[p]
  BY <1>2, <1>3, AtHand
<1>5. PICK o \in Nat \ {0} : o = op.cur
  BY <1>2, AtHand
<1>6. PICK t : t = dht[b].tail
  OBVIOUS
<1>7. /\ o \in DOMAIN data /\ data[o].payload = p /\ o \notin S /\ data[o].next_hash = 0
      /\ \A d \in S : d < o /\ data[d].payload # p
  BY <1>1, <1>2, <1>3, <1>5, AtHand DEF HashParts, DataPhase, FreshData, Live
<1>8. S \subseteq L /\ L \subseteq S /\ Live /\ S \subseteq DOMAIN data
  BY <1>1 DEF HashParts, DataChains, DataPhase, Live
<1>9. Payload' = Payload
  BY <1>1, SamePayload
<1>10. Referred(F, L)'
  BY <1>1, ReferredSame DEF HashParts
<1>11. TailOf(DataNext, DataCell(S, b), t)
  BY <1>1, <1>6, <1>8 DEF HashParts, DataTails
<1>12. DataCell(S, b) = {} <=> t = 0
  BY <1>0, <1>6, <1>11, EmptyCell DEF HashParts
<1>13. FieldPhase(F)'
  BY <1>1 DEF FieldPhase
<1>14. CASE t = 0
  <2>1. data' = data
    BY <1>3, <1>4, <1>6, <1>14 DEF LinkDataHash
  <2>2. SameChains
    BY <1>1, <2>1 DEF SameChains
  <2>3. dht[b].head = 0
    BY <1>0, <1>12, <1>14, EmptyCell DEF HashParts
  <2>4. FreshData(S, op.cur)'
    BY <1>1, <1>3, <1>5, <1>7, <1>9, <2>1 DEF FreshData
  <2>5. DataPhase(S, L)'
    BY <1>1, <1>3, <1>4, <1>5, <1>7, <1>8, <1>9, <2>1, <2>3, <2>4
       DEF DataPhase, Listing, FieldSteps
  <2>6. pc \notin {"bucket", "field_bucket"}
    BY <1>1
  <2> QED BY <1>8, <1>10, <1>13, <2>2, <2>5, <2>6, HashMoved
<1>15. CASE t # 0
  <2>1. t \in DataCell(S, b) /\ data[t].next_hash = 0 /\ t \in S /\ t \in DOMAIN data /\ t # o
    BY <1>7, <1>8, <1>11, <1>12, <1>15 DEF TailOf, DataCell, DataNext
  <2>2. data' = [data EXCEPT ![t].next_hash = o]
    BY <1>3, <1>4, <1>5, <1>6, <1>15 DEF LinkDataHash
  <2>3. /\ DOMAIN data' = DOMAIN data /\ \A d \in DOMAIN data : d # t => data'[d] = data[d]
        /\ data'[t].next_hash = o /\ data'[t].payload = data[t].payload
        /\ data'[t].next_field = data[t].next_field
    <3>1. data[t] \in DataObject
      BY <1>0, <2>1 DEF TypeOK, ObjectsOK
    <3> QED BY <2>1, <2>2, <3>1 DEF DataObject
  <2>4. \A d \in DOMAIN data : /\ data'[d].payload = data[d].payload
                               /\ data'[d].next_field = data[d].next_field
                               /\ d # t => data'[d].next_hash = data[d].next_hash
    BY <2>3
  <2> DEFINE T == S \cup {o}
  <2>5. /\ o \in DOMAIN data' /\ data'[o].payload = p /\ data'[o].next_hash = 0
        /\ \A d \in S : /\ d < o /\ data[d].payload # p
                        /\ d \in DOMAIN data' /\ data'[d].payload = data[d].payload
                        /\ d # t => data'[d].next_hash = data[d].next_hash
    BY <1>7, <1>8, <2>1, <2>3, <2>4
  <2>6. /\ \A c \in Buckets : c # DataBucket[p] => dht'[c].head = dht[c].head
        /\ dht'[DataBucket[p]].head = dht[DataBucket[p]].head
        /\ t \in DataCell(S, DataBucket[p]) /\ data[t].next_hash = 0 /\ data'[t].next_hash = o
    BY <1>1, <1>4, <2>1, <2>3
  <2>7. /\ DataChains(T)'
        /\ \A c \in Buckets : c # b =>
              /\ DataCell(T, c)' = DataCell(S, c)
              /\ DataCell(S, c) \subseteq DOMAIN DataNext'
              /\ \A a \in DataCell(S, c) : DataNext'[a] = DataNext[a]
    <3>1. DataChains(S)
      BY DEF HashParts
    <3>2. DataJoin(S, p, o, t)
      BY <2>5, <2>6 DEF DataJoin
    <3> QED BY <1>0, <1>4, <3>1, <3>2, DataJoins
  <2> HIDE DEF T
  <2>8. FieldChains(F)' /\ FieldLists(F, L)'
    <3>1. SameFields(F) /\ SameLists(F, L)
      BY <1>1, <1>8, <2>3, <2>4 DEF SameFields, SameLists, HashParts, FieldChains
    <3> QED BY <3>1, FieldChainsSame, FieldListsSame DEF HashParts
  <2>9. FieldTails(F)'
    <3>1. SameFields(F)
      BY <1>1 DEF SameFields, HashParts, FieldChains
    <3> QED BY <1>1, <1>8, <3>1, FieldTailsSame DEF HashParts
  <2>10. DataTails(T)'
    <3> SUFFICES ASSUME NEW c \in Buckets, c # b
                 PROVE  TailOf(DataNext, DataCell(T, c), dht[c].tail)'
      BY <1>1, <1>3, <1>4, <1>9 DEF DataTails
    <3>1. PICK C, nx, links, x : C = DataCell(S, c) /\ nx = DataNext /\ links = DataNext'
                                 /\ x = dht[c].tail
      OBVIOUS
    <3>2. TailOf(nx, C, x)
      BY <1>1, <1>8, <3>1 DEF HashParts, DataTails
    <3>3. C \subseteq DOMAIN links /\ \A a \in C : links[a] = nx[a]
      BY <2>7, <3>1
    <3>4. TailOf(links, C, x)
      BY <3>2, <3>3, ListSame
    <3> QED BY <1>1, <2>7, <3>1, <3>4
  <2>11. DataPhase(T, L)'
    <3>1. dht[b].head # 0
      BY <1>0, <1>12, <1>15, EmptyCell DEF HashParts
    <3>2. op'.cur \in T /\ op'.cur \notin L /\ T \subseteq L \cup {op'.cur}
          /\ \A d \in L : d < op'.cur
      BY <1>1, <1>5, <1>7, <1>8 DEF T
    <3>3. data'[op'.cur].next_hash = 0 /\ dht'[DataBucket[Payload']].head # 0
      BY <1>1, <1>3, <1>4, <1>5, <1>9, <2>5, <3>1
    <3> QED BY <1>1, <3>2, <3>3 DEF DataPhase, Listing, FieldSteps
  <2>12. L \subseteq T
    BY <1>8 DEF T
  <2>13. HashParts(T, F, L)'
    BY <1>10, <1>13, <2>7, <2>8, <2>9, <2>10, <2>11, <2>12 DEF HashParts
  <2> QED BY <2>13
<1> QED BY <1>14, <1>15

LEMMA HashPublishData ==
  ASSUME BaseInv, NEW S, NEW F, NEW L, HashParts(S, F, L), PublishDataBucket
  PROVE  \E T : HashParts(T, F, L)'
<1>0. TypeOK
  BY DEF BaseInv
<1>1. /\ data' = data /\ field' = field /\ entry' = entry /\ fht' = fht
      /\ cache' = cache /\ pc = "bucket" /\ pc' = "count_data" /\ op' = op
  BY DEF PublishDataBucket, Goto, objects
<1>2. pc \in FieldSteps \ {"data"}
  BY <1>1 DEF FieldSteps
<1>3. PICK p \in Payloads : p = Payload
  BY <1>2, AtHand
<1>4. PICK b \in Buckets : b = DataBucket[p]
  BY <1>2, <1>3, AtHand
<1>5. PICK o \in Nat \ {0} : o = op.cur
  BY <1>2, AtHand
<1>6. /\ \A c \in Buckets : c # b => dht'[c] = dht[c]
      /\ dht'[b].tail = o
      /\ dht'[b].head = IF dht[b].head = 0 THEN o ELSE dht[b].head
  BY <1>0, <1>3, <1>4, <1>5 DEF PublishDataBucket, TypeOK, HeaderOK
<1>7. /\ o \in DOMAIN data /\ data[o].payload = p /\ data[o].next_hash = 0
      /\ S \subseteq L \cup {o} /\ o \notin L /\ \A d \in L : d < o
      /\ IF dht[b].head = 0 THEN FreshData(S, o) ELSE o \in S
  BY <1>1, <1>2, <1>3, <1>4, <1>5, AtHand DEF HashParts, DataPhase, Live
<1>8. L \subseteq S /\ Live /\ S \subseteq DOMAIN data /\ DataChains(S)
  BY <1>1 DEF HashParts, DataChains, Live
<1>9. Referred(F, L)'
  BY <1>1, ReferredSame DEF HashParts
<1>10. FieldPhase(F)'
  BY <1>1 DEF FieldPhase
<1>11. FieldChains(F)' /\ FieldLists(F, L)' /\ FieldTails(F)'
  <2>1. SameFields(F) /\ SameLists(F, L)
    BY <1>1, <1>8 DEF SameFields, SameLists, HashParts, FieldChains
  <2> QED BY <1>1, <1>8, <2>1, FieldChainsSame, FieldListsSame, FieldTailsSame DEF HashParts
<1>12. \A c \in Buckets : c # b => TailOf(DataNext, DataCell(S, c), dht[c].tail)
  BY <1>1, <1>3, <1>4, <1>8 DEF HashParts, DataTails
<1>13. CASE dht[b].head # 0
  <2>1. o \in S
    BY <1>7, <1>13
  <2>2. SameData(S)
    BY <1>1, <1>6, <1>8, <1>13 DEF SameData
  <2>3. DataChains(S)'
    BY <1>8, <2>2, DataChainsSame
  <2>4. DataTails(S)'
    <3> SUFFICES ASSUME NEW c \in Buckets
                 PROVE  TailOf(DataNext, DataCell(S, c), dht[c].tail)'
      BY <1>1 DEF DataTails
    <3>1. DataNext' = DataNext /\ DataCell(S, c)' = DataCell(S, c)
      BY <1>1 DEF DataNext, DataCell
    <3>2. CASE c # b
      <4>1. dht'[c].tail = dht[c].tail
        BY <1>6, <3>2
      <4>2. TailOf(DataNext, DataCell(S, c), dht[c].tail)
        BY <1>12, <3>2
      <4> QED BY <3>1, <4>1, <4>2 DEF TailOf
    <3>3. CASE c = b
      <4>1. o \in DataCell(S, c) /\ DataNext[o] = 0
        BY <1>4, <1>7, <2>1, <3>3 DEF DataCell, DataNext
      <4> QED BY <1>6, <3>1, <3>3, <4>1 DEF TailOf
    <3> QED BY <3>2, <3>3
  <2>5. DataPhase(S, L)'
    BY <1>1, <1>5, <1>7, <2>1 DEF DataPhase, Listing, FieldSteps
  <2> QED BY <1>8, <1>9, <1>10, <1>11, <2>3, <2>4, <2>5 DEF HashParts
<1>14. CASE dht[b].head = 0
  <2>1. DataCell(S, b) = {}
    BY <1>0, <1>8, <1>14, EmptyCell
  <2>2. /\ o \in DOMAIN data' /\ data'[o].payload = p /\ data'[o].next_hash = 0
        /\ \A d \in S : /\ d < o /\ data[d].payload # p
                        /\ d \in DOMAIN data' /\ data'[d].payload = data[d].payload
                        /\ d # 0 => data'[d].next_hash = data[d].next_hash
    BY <1>1, <1>3, <1>7, <1>8, <1>14 DEF FreshData
  <2>3. /\ \A c \in Buckets : c # DataBucket[p] => dht'[c].head = dht[c].head
        /\ DataCell(S, DataBucket[p]) = {} /\ dht'[DataBucket[p]].head = o
    BY <1>4, <1>6, <1>14, <2>1
  <2> DEFINE T == S \cup {o}
  <2>4. /\ DataChains(T)'
        /\ DataCell(T, b)' = DataCell(S, b) \cup {o}
        /\ \A c \in Buckets : c # b => DataCell(T, c)' = DataCell(S, c)
    <3>1. DataJoin(S, p, o, 0)
      BY <2>2, <2>3 DEF DataJoin
    <3>2. DataChains(T)'
      BY <1>0, <1>8, <3>1, DataJoins
    <3>3. DataCell(T, b)' = DataCell(S, b) \cup {o}
      BY <1>4, <2>2 DEF DataCell
    <3>4. \A c \in Buckets : c # DataBucket[p] => DataCell(T, c)' = DataCell(S, c)
      BY <1>0, <1>8, <3>1, DataJoins
    <3> QED BY <1>4, <3>2, <3>3, <3>4
  <2> HIDE DEF T
  <2>5. DataTails(T)'
    <3> SUFFICES ASSUME NEW c \in Buckets
                 PROVE  TailOf(DataNext, DataCell(T, c), dht[c].tail)'
      BY <1>1 DEF DataTails
    <3>1. DataNext' = DataNext
      BY <1>1 DEF DataNext
    <3>2. CASE c # b
      <4>1. dht'[c].tail = dht[c].tail
        BY <1>6, <3>2
      <4>2. TailOf(DataNext, DataCell(S, c), dht[c].tail)
        BY <1>12, <3>2
      <4> QED BY <2>4, <3>1, <3>2, <4>1, <4>2 DEF TailOf
    <3>3. CASE c = b
      <4>1. DataCell(T, c)' = {o} /\ DataNext'[o] = 0
        BY <2>1, <2>2, <2>4, <3>3 DEF DataNext
      <4> QED BY <1>6, <3>3, <4>1 DEF TailOf
    <3> QED BY <3>2, <3>3
  <2>6. DataPhase(T, L)'
    <3>1. o \in T /\ T \subseteq L \cup {o} /\ op'.cur = o
      BY <1>1, <1>5, <1>7 DEF T
    <3> QED BY <1>1, <1>7, <3>1 DEF DataPhase, Listing, FieldSteps
  <2>7. L \subseteq T
    BY <1>8 DEF T
  <2>8. HashParts(T, F, L)'
    BY <1>9, <1>10, <1>11, <2>4, <2>5, <2>6, <2>7 DEF HashParts
  <2> QED BY <2>8
<1> QED BY <1>13, <1>14

-----------------------------------------------------------------------------
(* The FIELD object of the new DATA object. *)

\* A FIELD object found, or counted, goes into the cache.
LEMMA CacheRefers ==
  ASSUME NEW F, NEW L, Referred(F, L), NEW n, NEW f \in F, field[f].name = n,
         cache' = CacheInsert(n, f), field' = field, entry' = entry, op'.items = op.items
  PROVE  Referred(F, L)'
<1>1. \A x \in DOMAIN cache' : \/ x = n /\ cache'[x] = f
                               \/ x \in DOMAIN cache /\ cache'[x] = cache[x]
  BY DEF CacheInsert, Put
<1> QED BY <1>1 DEF Referred

LEMMA HashFindField ==
  ASSUME BaseInv, NEW S, NEW F, NEW L, HashParts(S, F, L),
         CountData \/ CachedField \/ FoundField \/ CountField
  PROVE  HashParts(S, F, L)'
<1>0. TypeOK /\ op \in Locals
  BY DEF BaseInv, TypeOK, CallOK
<1>1. /\ data' = data /\ field' = field /\ entry' = entry /\ dht' = dht /\ fht' = fht
      /\ pc \in {"count_data", "add_field", "count_field"} /\ pc' \in {"add_field", "next_field"}
      /\ op'.items = op.items /\ op'.todo = op.todo /\ op'.cur = op.cur
  BY <1>0 DEF CountData, CachedField, FoundField, CountField, Goto, objects, tables, Locals
<1>2. SameChains /\ Live
  BY <1>1 DEF SameChains, Live
<1>3. PICK n \in Names : n = Name
  BY <1>1, AtHand DEF FieldSteps
<1>4. Name' = Name
  BY <1>1, SamePayload
<1>5. DataPhase(S, L)'
  BY <1>1, <1>2 DEF HashParts, DataPhase, Listing, FieldSteps
<1>6. pc \notin {"bucket", "field_bucket"}
  BY <1>1
<1>7. CASE CountData
  <2>1. cache' = cache /\ pc' = "add_field"
    BY <1>7 DEF CountData, Goto
  <2>2. Referred(F, L)'
    BY <1>1, <2>1, ReferredSame DEF HashParts
  <2>3. FieldPhase(F)'
    BY <2>1 DEF FieldPhase
  <2> QED BY <1>2, <1>5, <1>6, <2>2, <2>3, HashMoved
<1>8. CASE CachedField \/ FoundField \/ CountField
  <2>1. PICK f : f = op'.field
    OBVIOUS
  <2>2. f \in F /\ field[f].name = n /\ pc' = "next_field"
    <3>1. CASE CachedField
      BY <1>0, <1>3, <2>1, <3>1 DEF CachedField, HashParts, Referred, Locals, Goto
    <3>2. CASE FoundField
      <4>1. FindField(n) = {g \in F : field[g].name = n}
        BY <1>0, <1>3, FieldFound DEF HashParts
      <4>2. f \in FindField(n)
        BY <1>0, <1>3, <2>1, <3>2 DEF FoundField, Locals
      <4> QED BY <3>2, <4>1, <4>2 DEF FoundField, Goto
    <3>3. CASE CountField
      BY <1>2, <1>3, <2>1, <3>3 DEF CountField, HashParts, FieldPhase, Goto
    <3> QED BY <1>8, <3>1, <3>2, <3>3
  <2>3. Referred(F, L)'
    <3>1. CASE CachedField
      <4>1. cache' = cache
        BY <3>1 DEF CachedField
      <4> QED BY <1>1, <4>1, ReferredSame DEF HashParts
    <3>2. CASE FoundField \/ CountField
      <4>1. cache' = CacheInsert(n, f)
        BY <1>0, <1>3, <2>1, <3>2 DEF FoundField, CountField, Locals
      <4> QED BY <1>1, <2>2, <4>1, CacheRefers DEF HashParts
    <3> QED BY <1>8, <3>1, <3>2
  <2>4. FieldPhase(F)'
    BY <1>1, <1>3, <1>4, <2>1, <2>2 DEF FieldPhase
  <2> QED BY <1>2, <1>5, <1>6, <2>3, <2>4, HashMoved
<1> QED BY <1>7, <1>8

LEMMA HashWriteField ==
  ASSUME BaseInv, NEW S, NEW F, NEW L, HashParts(S, F, L), WriteField
  PROVE  HashParts(S, F, L)'
<1>0. TypeOK /\ op \in Locals
  BY DEF BaseInv, TypeOK, CallOK
<1>1. /\ data' = data /\ entry' = entry /\ dht' = dht /\ fht' = fht
      /\ cache' = cache /\ pc = "add_field" /\ pc' = "field_next_hash"
      /\ op'.items = op.items /\ op'.todo = op.todo /\ op'.cur = op.cur
      /\ op'.field = w.append_offset
  BY <1>0 DEF WriteField, Goto, tables, Locals
<1>2. PICK o, v : o = w.append_offset /\ field' = Put(field, o, v)
                  /\ v.name = Name /\ v.next_hash = 0 /\ v.head = 0
  BY NewPlace DEF WriteField
<1>3. /\ DOMAIN field' = DOMAIN field \cup {o} /\ field'[o] = v
      /\ \A f \in DOMAIN field : f # o => field'[f] = field[f]
  BY <1>2 DEF Put
<1>4. o \notin DOMAIN field /\ \A f \in DOMAIN field : f < o
  BY <1>2, NewPlace
<1>5. SameChains
  BY <1>1, <1>3, <1>4 DEF SameChains
<1>6. Live /\ F \subseteq DOMAIN field
  BY <1>1 DEF HashParts, FieldChains, Live
<1>7. PICK n \in Names : n = Name
  BY <1>1, AtHand DEF FieldSteps
<1>8. \A f \in F : field[f].name # n
  <2>1. {f \in F : field[f].name = n} = {}
    BY <1>0, <1>7, FieldFound DEF HashParts, WriteField
  <2> QED BY <2>1
<1>9. Name' = Name
  BY <1>1, SamePayload
<1>10. Referred(F, L)'
  BY <1>1, <1>3, <1>4, <1>6 DEF HashParts, Referred
<1>11. UnlistedField(F, op.field)'
  BY <1>1, <1>2, <1>3, <1>4, <1>6, <1>7, <1>8, <1>9 DEF UnlistedField
<1>12. DataPhase(S, L)' /\ FieldPhase(F)'
  BY <1>1, <1>6, <1>11 DEF HashParts, DataPhase, FieldPhase, Listing, FieldSteps
<1>13. pc \notin {"bucket", "field_bucket"}
  BY <1>1
<1> QED BY <1>5, <1>6, <1>10, <1>12, <1>13, HashMoved

\* The new FIELD object o of name n joins its hash chain in this step, and no DATA
\* object of that name is listed yet.
FieldJoin(F, n, o, t) ==
  /\ o \in DOMAIN field' /\ field'[o].name = n /\ field'[o].next_hash = 0 /\ field'[o].head = 0
  /\ \A f \in F : /\ f < o /\ field[f].name # n
                  /\ f \in DOMAIN field' /\ field'[f].name = field[f].name
                  /\ field'[f].head = field[f].head
                  /\ f # t => field'[f].next_hash = field[f].next_hash
  /\ \A b \in Buckets : b # FieldBucket[n] => fht'[b].head = fht[b].head
  /\ \/ /\ FieldCell(F, FieldBucket[n]) = {} /\ fht'[FieldBucket[n]].head = o /\ t = 0
     \/ /\ t \in FieldCell(F, FieldBucket[n]) /\ field[t].next_hash = 0
        /\ field'[t].next_hash = o
        /\ fht'[FieldBucket[n]].head = fht[FieldBucket[n]].head

LEMMA FieldJoins ==
  ASSUME TypeOK, NEW F, FieldChains(F), NEW n \in Names, NEW o \in Nat \ {0}, NEW t,
         FieldJoin(F, n, o, t)
  PROVE  /\ FieldChains(F \cup {o})'
         /\ \A b \in Buckets : b # FieldBucket[n] =>
              /\ FieldCell(F \cup {o}, b)' = FieldCell(F, b)
              /\ FieldCell(F, b) \subseteq DOMAIN FieldNext'
              /\ \A a \in FieldCell(F, b) : FieldNext'[a] = FieldNext[a]
<1> USE DEF FieldJoin
<1>1. PICK c \in Buckets : c = FieldBucket[n]
  BY ConstantsAssumption DEF ConstantsAssumption
<1>2. /\ F \subseteq DOMAIN field /\ F \subseteq DOMAIN field' /\ o \notin F
      /\ \A f \in F : f \in Nat
  <2>1. F \subseteq DOMAIN field /\ DOMAIN field \subseteq Nat
    BY ChainTypes DEF FieldChains
  <2> QED BY <2>1
<1>3. FieldCell(F \cup {o}, c)' = FieldCell(F, c) \cup {o}
  BY <1>1, <1>2 DEF FieldCell
<1>4. ASSUME NEW b \in Buckets, b # c
      PROVE  /\ FieldCell(F \cup {o}, b)' = FieldCell(F, b)
             /\ FieldCell(F, b) \subseteq DOMAIN FieldNext'
             /\ \A a \in FieldCell(F, b) : FieldNext'[a] = FieldNext[a]
  <2>1. FieldCell(F \cup {o}, b)' = FieldCell(F, b)
    BY <1>1, <1>2, <1>4 DEF FieldCell
  <2>2. \A a \in FieldCell(F, b) : a \in F /\ a # t
    <3>1. \A a \in FieldCell(F, b) : a \in F /\ FieldBucket[field[a].name] = b /\ a # 0
      BY <1>2, ChainTypes DEF FieldCell
    <3>2. t = 0 \/ FieldBucket[field[t].name] = c
      BY <1>1 DEF FieldCell
    <3> QED BY <1>4, <3>1, <3>2
  <2> QED BY <1>2, <2>1, <2>2 DEF FieldNext
<1>5. ASSUME NEW b \in Buckets
      PROVE  Ascending(FieldNext, FieldCell(F \cup {o}, b), fht[b].head)'
  <2>1. PICK C, nx, links, h :
          C = FieldCell(F, b) /\ nx = FieldNext /\ links = FieldNext' /\ h = fht[b].head
    OBVIOUS
  <2>2. Ascending(nx, C, h)
    BY <2>1 DEF FieldChains
  <2>3. CASE b # c
    <3>1. C \subseteq DOMAIN links /\ \A a \in C : links[a] = nx[a]
      BY <1>4, <2>1, <2>3
    <3>2. Ascending(links, C, h)
      BY <2>2, <3>1, ListSame
    <3>3. fht'[b].head = h
      BY <1>1, <2>1, <2>3
    <3> QED BY <1>4, <2>1, <2>3, <3>2, <3>3
  <2>4. CASE b = c /\ FieldCell(F, c) = {}
    <3>1. t = 0 /\ fht'[b].head = o
      BY <1>1, <2>4
    <3>2. o \in DOMAIN links /\ links[o] = 0
      BY <2>1 DEF FieldNext
    <3>3. Ascending(links, {o}, o)
      BY <3>2, AscendingOne
    <3> QED BY <1>3, <2>1, <2>4, <3>1, <3>3
  <2>5. CASE b = c /\ FieldCell(F, c) # {}
    <3>1. t \in C /\ field[t].next_hash = 0 /\ field'[t].next_hash = o /\ fht'[b].head = h
      BY <1>1, <2>1, <2>5
    <3>2. \A a \in C : a \in F
      BY <2>1 DEF FieldCell
    <3>3. nx[t] = 0 /\ links[t] = o /\ links[o] = 0 /\ C \cup {o} \subseteq DOMAIN links
      BY <1>2, <2>1, <3>1, <3>2 DEF FieldNext
    <3>4. \A a \in C \ {t} : links[a] = nx[a]
      BY <1>2, <2>1, <3>2 DEF FieldNext
    <3>5. \A a \in C : a \in Nat /\ a < o
      BY <1>2, <3>2
    <3>6. Ascending(links, C \cup {o}, h)
      BY <2>2, <3>1, <3>3, <3>4, <3>5, AscendingGrows
    <3> QED BY <1>3, <2>1, <2>5, <3>1, <3>6
  <2> QED BY <2>3, <2>4, <2>5
<1>6. \A x, y \in F \cup {o} : field'[x].name = field'[y].name => x = y
  BY DEF FieldChains
<1>7. FieldChains(F \cup {o})'
  BY <1>2, <1>5, <1>6 DEF FieldChains
<1> QED BY <1>1, <1>4, <1>7

\* The list of the new FIELD object is empty, those of the others are as they were.
LEMMA FieldListJoins ==
  ASSUME NEW S, NEW F, NEW L, Indexed(S, F, L), NEW n, NEW o, NEW t, FieldJoin(F, n, o, t),
         data' = data
  PROVE  FieldLists(F \cup {o}, L)'
<1>1. SameLists(F, L)
  BY DEF FieldJoin, SameLists, Indexed, DataChains
<1>2. FieldLists(F, L)'
  BY <1>1, FieldListsSame DEF Indexed
<1>3. ValuesOf(L, n)' = {}
  <2>1. \A d \in L : FieldOf[data[d].payload] # n
    BY DEF Indexed, FieldLists, FieldJoin
  <2> QED BY <2>1 DEF ValuesOf
<1>4. field'[o].name = n /\ field'[o].head = 0
  BY DEF FieldJoin
<1>5. Descending(FieldNextOf, ValuesOf(L, field[o].name), field[o].head)'
  BY <1>3, <1>4 DEF Descending
<1> QED BY <1>2, <1>5 DEF FieldLists

LEMMA EmptyFieldCell ==
  ASSUME TypeOK, NEW F, FieldChains(F), NEW b \in Buckets
  PROVE  /\ FieldCell(F, b) = {} <=> fht[b].head = 0
         /\ TailOf(FieldNext, FieldCell(F, b), fht[b].tail) =>
              (FieldCell(F, b) = {} <=> fht[b].tail = 0)
<1>1. 0 \notin FieldCell(F, b)
  BY ChainTypes DEF FieldChains, FieldCell
<1>2. Ascending(FieldNext, FieldCell(F, b), fht[b].head)
  BY DEF FieldChains
<1>3. FieldCell(F, b) = {} <=> fht[b].head = 0
  BY <1>1, <1>2 DEF Ascending
<1> QED BY <1>1, <1>3 DEF TailOf

LEMMA HashLinkField ==
  ASSUME BaseInv, NEW S, NEW F, NEW L, HashParts(S, F, L), LinkFieldHash
  PROVE  \E T : HashParts(S, T, L)'
<1>0. TypeOK
  BY DEF BaseInv
<1>1. /\ data' = data /\ entry' = entry /\ dht' = dht /\ fht' = fht
      /\ cache' = cache /\ pc = "field_next_hash" /\ pc' = "field_bucket" /\ op' = op
  BY DEF LinkFieldHash, Goto, tables
<1>2. PICK n \in Names : n = Name
  BY <1>1, AtHand DEF FieldSteps
<1>3. PICK b \in Buckets : b = FieldBucket[n]
  BY <1>1, <1>2, AtHand DEF FieldSteps
<1>4. PICK t : t = fht[b].tail
  OBVIOUS
<1>5. Live /\ F \subseteq DOMAIN field /\ FieldChains(F) /\ Indexed(S, F, L) /\ Referred(F, L)
  BY <1>1 DEF HashParts, FieldChains, Live, Indexed
<1>6. UnlistedField(F, op.field)
  BY <1>1, <1>5 DEF HashParts, FieldPhase
<1>7. PICK o : o = op.field
  OBVIOUS
<1>8. /\ o \in DOMAIN field /\ o \notin F /\ field[o].name = n /\ field[o].next_hash = 0
      /\ field[o].head = 0 /\ \A f \in F : f < o /\ field[f].name # n
      /\ o \in Nat \ {0}
  <2>1. DOMAIN field \subseteq Nat /\ 0 \notin DOMAIN field
    BY <1>0, ChainTypes
  <2> QED BY <1>2, <1>6, <1>7, <2>1 DEF UnlistedField
<1>9. Name' = Name
  BY <1>1, SamePayload
<1>10. DataPhase(S, L)'
  BY <1>1, <1>5 DEF HashParts, DataPhase, Listing, FieldSteps
<1>11. TailOf(FieldNext, FieldCell(F, b), t)
  BY <1>1, <1>4, <1>5 DEF HashParts, FieldTails
<1>12. FieldCell(F, b) = {} <=> t = 0
  BY <1>0, <1>4, <1>5, <1>11, EmptyFieldCell
<1>13. CASE t = 0
  <2>1. field' = field
    BY <1>2, <1>3, <1>4, <1>13 DEF LinkFieldHash
  <2>2. SameChains
    BY <1>1, <2>1 DEF SameChains
  <2>3. fht[b].head = 0
    BY <1>0, <1>5, <1>12, <1>13, EmptyFieldCell
  <2>4. UnlistedField(F, op.field)'
    BY <1>1, <1>6, <1>9, <2>1 DEF UnlistedField
  <2>5. FieldPhase(F)'
    BY <1>1, <1>2, <1>3, <1>9, <2>3, <2>4 DEF FieldPhase
  <2>6. pc \notin {"bucket", "field_bucket"} /\ Referred(F, L)'
    BY <1>1, <1>5, <2>1, ReferredSame
  <2> QED BY <1>5, <1>10, <2>2, <2>5, <2>6, HashMoved
<1>14. CASE t # 0
  <2>1. t \in FieldCell(F, b) /\ field[t].next_hash = 0 /\ t \in F /\ t \in DOMAIN field /\ t # o
    BY <1>5, <1>8, <1>11, <1>12, <1>14 DEF TailOf, FieldCell, FieldNext
  <2>2. field' = [field EXCEPT ![t].next_hash = o]
    BY <1>2, <1>3, <1>4, <1>7, <1>14 DEF LinkFieldHash
  <2>3. /\ DOMAIN field' = DOMAIN field /\ \A f \in DOMAIN field : f # t => field'[f] = field[f]
        /\ field'[t].next_hash = o /\ field'[t].name = field[t].name
        /\ field'[t].head = field[t].head
    <3>1. field[t] \in FieldObject
      BY <1>0, <2>1 DEF TypeOK, ObjectsOK
    <3> QED BY <2>1, <2>2, <3>1 DEF FieldObject
  <2> DEFINE T == F \cup {o}
  <2>4. FieldJoin(F, n, o, t)
    BY <1>1, <1>3, <1>5, <1>8, <2>1, <2>3 DEF FieldJoin
  <2>5. /\ FieldChains(T)'
        /\ \A c \in Buckets : c # b =>
              /\ FieldCell(T, c)' = FieldCell(F, c)
              /\ FieldCell(F, c) \subseteq DOMAIN FieldNext'
              /\ \A a \in FieldCell(F, c) : FieldNext'[a] = FieldNext[a]
    BY <1>0, <1>3, <1>5, <1>8, <2>4, FieldJoins
  <2>6. FieldLists(T, L)'
    BY <1>1, <1>5, <2>4, FieldListJoins
  <2>7. Referred(T, L)'
    BY <1>1, <1>5, <2>3 DEF Referred
  <2> HIDE DEF T
  <2>8. SameData(S)
    BY <1>1, <1>5 DEF SameData, Indexed, DataChains
  <2>9. DataChains(S)' /\ DataTails(S)'
    BY <1>1, <1>5, <2>8, DataChainsSame, DataTailsSame DEF HashParts
  <2>10. FieldTails(T)'
    <3> SUFFICES ASSUME NEW c \in Buckets, c # b
                 PROVE  TailOf(FieldNext, FieldCell(T, c), fht[c].tail)'
      BY <1>1, <1>2, <1>3, <1>9 DEF FieldTails
    <3>1. PICK C, nx, links, x : C = FieldCell(F, c) /\ nx = FieldNext /\ links = FieldNext'
                                 /\ x = fht[c].tail
      OBVIOUS
    <3>2. TailOf(nx, C, x)
      BY <1>1, <1>5, <3>1 DEF HashParts, FieldTails
    <3>3. C \subseteq DOMAIN links /\ \A a \in C : links[a] = nx[a]
      BY <2>5, <3>1
    <3>4. TailOf(links, C, x)
      BY <3>2, <3>3, ListSame
    <3> QED BY <1>1, <2>5, <3>1, <3>4
  <2>11. FieldPhase(T)'
    <3>1. fht[b].head # 0
      BY <1>0, <1>5, <1>12, <1>14, EmptyFieldCell
    <3>2. op'.field \in T
      BY <1>1, <1>7 DEF T
    <3>3. field'[op'.field].name = Name' /\ field'[op'.field].next_hash = 0
          /\ fht'[FieldBucket[Name']].head # 0
      BY <1>1, <1>2, <1>3, <1>7, <1>8, <1>9, <2>1, <2>3, <3>1
    <3> QED BY <1>1, <3>2, <3>3 DEF FieldPhase
  <2>12. HashParts(S, T, L)'
    BY <1>5, <1>10, <2>5, <2>6, <2>7, <2>9, <2>10, <2>11 DEF HashParts, Indexed
  <2> QED BY <2>12
<1> QED BY <1>13, <1>14

LEMMA HashPublishField ==
  ASSUME BaseInv, NEW S, NEW F, NEW L, HashParts(S, F, L), PublishFieldBucket
  PROVE  \E T : HashParts(S, T, L)'
<1>0. TypeOK
  BY DEF BaseInv
<1>1. /\ data' = data /\ field' = field /\ entry' = entry /\ dht' = dht
      /\ cache' = cache /\ pc = "field_bucket" /\ pc' = "count_field" /\ op' = op
  BY DEF PublishFieldBucket, Goto, objects
<1>2. PICK n \in Names : n = Name
  BY <1>1, AtHand DEF FieldSteps
<1>3. PICK b \in Buckets : b = FieldBucket[n]
  BY <1>1, <1>2, AtHand DEF FieldSteps
<1>4. PICK o : o = op.field
  OBVIOUS
<1>5. /\ \A c \in Buckets : c # b => fht'[c] = fht[c]
      /\ fht'[b].tail = o
      /\ fht'[b].head = IF fht[b].head = 0 THEN o ELSE fht[b].head
  BY <1>0, <1>2, <1>3, <1>4 DEF PublishFieldBucket, TypeOK, HeaderOK
<1>6. Live /\ F \subseteq DOMAIN field /\ FieldChains(F) /\ Indexed(S, F, L) /\ Referred(F, L)
  BY <1>1 DEF HashParts, FieldChains, Live, Indexed
<1>7. IF fht[b].head = 0 THEN UnlistedField(F, o)
      ELSE o \in F /\ field[o].name = n /\ field[o].next_hash = 0
  BY <1>1, <1>2, <1>3, <1>4, <1>6 DEF HashParts, FieldPhase
<1>8. /\ o \in DOMAIN field /\ field[o].name = n /\ field[o].next_hash = 0 /\ o \in Nat \ {0}
  <2>1. DOMAIN field \subseteq Nat /\ 0 \notin DOMAIN field
    BY <1>0, ChainTypes
  <2> QED BY <1>2, <1>6, <1>7, <2>1 DEF UnlistedField
<1>9. Name' = Name
  BY <1>1, SamePayload
<1>10. DataPhase(S, L)'
  BY <1>1, <1>6 DEF HashParts, DataPhase, Listing, FieldSteps
<1>11. DataChains(S)' /\ DataTails(S)'
  <2>1. SameData(S)
    BY <1>1, <1>6 DEF SameData, Indexed, DataChains
  <2> QED BY <1>1, <1>6, <2>1, DataChainsSame, DataTailsSame DEF HashParts
<1>12. \A c \in Buckets : c # b => TailOf(FieldNext, FieldCell(F, c), fht[c].tail)
  BY <1>1, <1>2, <1>3, <1>6 DEF HashParts, FieldTails
<1>13. CASE fht[b].head # 0
  <2>1. o \in F
    BY <1>7, <1>13
  <2>2. SameFields(F) /\ SameLists(F, L)
    BY <1>1, <1>5, <1>6, <1>13 DEF SameFields, SameLists, Indexed, DataChains
  <2>3. FieldChains(F)' /\ FieldLists(F, L)'
    BY <1>6, <2>2, FieldChainsSame, FieldListsSame DEF Indexed
  <2>4. FieldTails(F)'
    <3> SUFFICES ASSUME NEW c \in Buckets
                 PROVE  TailOf(FieldNext, FieldCell(F, c), fht[c].tail)'
      BY <1>1 DEF FieldTails
    <3>1. FieldNext' = FieldNext /\ FieldCell(F, c)' = FieldCell(F, c)
      BY <1>1 DEF FieldNext, FieldCell
    <3>2. CASE c # b
      <4>1. fht'[c].tail = fht[c].tail
        BY <1>5, <3>2
      <4>2. TailOf(FieldNext, FieldCell(F, c), fht[c].tail)
        BY <1>12, <3>2
      <4> QED BY <3>1, <4>1, <4>2 DEF TailOf
    <3>3. CASE c = b
      <4>1. o \in FieldCell(F, c) /\ FieldNext[o] = 0
        BY <1>3, <1>8, <2>1, <3>3 DEF FieldCell, FieldNext
      <4> QED BY <1>5, <3>1, <3>3, <4>1 DEF TailOf
    <3> QED BY <3>2, <3>3
  <2>5. FieldPhase(F)'
    BY <1>1, <1>2, <1>4, <1>8, <1>9, <2>1 DEF FieldPhase
  <2>6. Referred(F, L)'
    BY <1>1, <1>6, ReferredSame
  <2>7. HashParts(S, F, L)'
    BY <1>6, <1>10, <1>11, <2>3, <2>4, <2>5, <2>6 DEF HashParts, Indexed
  <2> QED BY <2>7
<1>14. CASE fht[b].head = 0
  <2>1. FieldCell(F, b) = {}
    BY <1>0, <1>6, <1>14, EmptyFieldCell
  <2>2. field[o].head = 0 /\ \A f \in F : f < o /\ field[f].name # n
    BY <1>2, <1>7, <1>14 DEF UnlistedField
  <2> DEFINE T == F \cup {o}
  <2>3. FieldJoin(F, n, o, 0)
    BY <1>1, <1>3, <1>5, <1>6, <1>8, <1>14, <2>1, <2>2 DEF FieldJoin
  <2>4. FieldChains(T)'
    BY <1>0, <1>6, <1>8, <2>3, FieldJoins
  <2>5. FieldLists(T, L)'
    BY <1>1, <1>6, <2>3, FieldListJoins
  <2>6. FieldCell(T, b)' = {o} /\ \A c \in Buckets : c # b => FieldCell(T, c)' = FieldCell(F, c)
    BY <1>1, <1>3, <1>8, <2>1 DEF FieldCell
  <2>7. Referred(T, L)'
    BY <1>1, <1>6 DEF Referred
  <2>8. o \in T
    OBVIOUS
  <2> HIDE DEF T
  <2>9. FieldTails(T)'
    <3> SUFFICES ASSUME NEW c \in Buckets
                 PROVE  TailOf(FieldNext, FieldCell(T, c), fht[c].tail)'
      BY <1>1 DEF FieldTails
    <3>1. FieldNext' = FieldNext
      BY <1>1 DEF FieldNext
    <3>2. CASE c # b
      <4>1. fht'[c].tail = fht[c].tail
        BY <1>5, <3>2
      <4>2. TailOf(FieldNext, FieldCell(F, c), fht[c].tail)
        BY <1>12, <3>2
      <4> QED BY <2>6, <3>1, <3>2, <4>1, <4>2 DEF TailOf
    <3>3. CASE c = b
      <4>1. FieldCell(T, c)' = {o} /\ FieldNext'[o] = 0
        BY <1>1, <1>8, <2>6, <3>3 DEF FieldNext
      <4> QED BY <1>5, <3>3, <4>1 DEF TailOf
    <3> QED BY <3>2, <3>3
  <2>10. FieldPhase(T)'
    BY <1>1, <1>2, <1>4, <1>8, <1>9, <2>8 DEF FieldPhase
  <2>11. HashParts(S, T, L)'
    BY <1>6, <1>10, <1>11, <2>4, <2>5, <2>7, <2>9, <2>10 DEF HashParts, Indexed
  <2> QED BY <2>11
<1> QED BY <1>13, <1>14

LEMMA HashNextField ==
  ASSUME BaseInv, NEW S, NEW F, NEW L, HashParts(S, F, L), SetNextField
  PROVE  HashParts(S, F, L)'
<1>0. TypeOK
  BY DEF BaseInv
<1>1. /\ field' = field /\ entry' = entry /\ dht' = dht /\ fht' = fht
      /\ cache' = cache /\ pc = "next_field" /\ pc' = "head_data" /\ op' = op
      /\ data' = [data EXCEPT ![op.cur].next_field = field[op.field].head]
  BY DEF SetNextField, Goto, tables
<1>2. Live /\ Indexed(S, F, L) /\ S \subseteq DOMAIN data /\ F \subseteq DOMAIN field
  BY <1>1 DEF HashParts, DataChains, FieldChains, Live, Indexed
<1>3. op.cur \in S /\ op.cur \notin L
  BY <1>1, <1>2 DEF HashParts, DataPhase, Listing
<1>4. op.field \in F /\ field[op.field].name = Name
  BY <1>1, <1>2 DEF HashParts, FieldPhase
<1>5. /\ DOMAIN data' = DOMAIN data
      /\ \A d \in DOMAIN data : /\ data'[d].payload = data[d].payload
                                /\ data'[d].next_hash = data[d].next_hash
                                /\ d # op.cur => data'[d].next_field = data[d].next_field
      /\ data'[op.cur].next_field = field[op.field].head
  <2>1. data[op.cur] \in DataObject /\ op.cur \in DOMAIN data
    BY <1>0, <1>2, <1>3 DEF TypeOK, ObjectsOK
  <2> QED BY <1>1, <2>1 DEF DataObject
<1>6. SameData(S) /\ SameFields(F) /\ SameLists(F, L)
  BY <1>1, <1>2, <1>3, <1>5 DEF SameData, SameFields, SameLists, Indexed
<1>7. DataChains(S)' /\ FieldChains(F)' /\ FieldLists(F, L)'
  BY <1>2, <1>6, DataChainsSame, FieldChainsSame, FieldListsSame DEF Indexed
<1>8. DataTails(S)' /\ FieldTails(F)'
  BY <1>1, <1>2, <1>6, DataTailsSame, FieldTailsSame DEF HashParts, Indexed
<1>9. Referred(F, L)'
  BY <1>1, ReferredSame DEF HashParts
<1>10. Name' = Name
  BY <1>1, SamePayload
<1>11. DataPhase(S, L)'
  BY <1>1, <1>2 DEF HashParts, DataPhase, Listing, FieldSteps
<1>12. FieldPhase(F)'
  BY <1>1, <1>4, <1>5, <1>10 DEF FieldPhase
<1> QED BY <1>2, <1>7, <1>8, <1>9, <1>11, <1>12 DEF HashParts, Indexed

LEMMA HashHeadData ==
  ASSUME BaseInv, NEW S, NEW F, NEW L, HashParts(S, F, L), SetHeadData
  PROVE  \E T : HashParts(S, F, T)'
<1>0. TypeOK /\ op \in Locals
  BY DEF BaseInv, TypeOK, CallOK
<1>1. /\ data' = data /\ entry' = entry /\ dht' = dht /\ fht' = fht
      /\ cache' = cache /\ pc = "head_data" /\ pc' = "field"
      /\ op.field \in DOMAIN field /\ field' = [field EXCEPT ![op.field].head = op.cur]
      /\ op'.items = AddItem(op.cur, 0, 0, 0, 0)
  BY <1>0 DEF SetHeadData, Goto, tables, Locals
<1>2. Live /\ Indexed(S, F, L) /\ S \subseteq DOMAIN data /\ F \subseteq DOMAIN field
      /\ Referred(F, L)
  BY <1>1 DEF HashParts, DataChains, FieldChains, Live, Indexed
<1>3. PICK o, g, n : o = op.cur /\ g = op.field /\ n = Name
  OBVIOUS
<1>4. /\ o \in S /\ o \notin L /\ S \subseteq L \cup {o} /\ \A d \in L : d < o
      /\ o \in Nat \ {0} /\ FieldOf[data[o].payload] = n
  BY <1>1, <1>2, <1>3, AtHand DEF HashParts, DataPhase, Listing, FieldSteps, Name
<1>5. g \in F /\ field[g].name = n /\ data[o].next_field = field[g].head
  BY <1>1, <1>2, <1>3 DEF HashParts, FieldPhase
<1>6. /\ DOMAIN field' = DOMAIN field /\ field'[g].head = o
      /\ \A f \in DOMAIN field : /\ field'[f].name = field[f].name
                                 /\ field'[f].next_hash = field[f].next_hash
                                 /\ f # g => field'[f].head = field[f].head
  <2>1. field[g] \in FieldObject /\ g \in DOMAIN field
    BY <1>0, <1>1, <1>3 DEF TypeOK, ObjectsOK
  <2> QED BY <1>1, <1>3, <2>1 DEF FieldObject
<1>7. SameData(S) /\ SameFields(F)
  BY <1>1, <1>2, <1>6 DEF SameData, SameFields
<1>8. DataChains(S)' /\ FieldChains(F)'
  BY <1>2, <1>7, DataChainsSame, FieldChainsSame DEF Indexed
<1>9. DataTails(S)' /\ FieldTails(F)'
  BY <1>1, <1>2, <1>7, DataTailsSame, FieldTailsSame DEF HashParts, Indexed
<1> DEFINE T == L \cup {o}
<1>10. T \subseteq S /\ S \subseteq T /\ o \in T /\ L \subseteq T
  BY <1>2, <1>4 DEF Indexed
<1>11. \A f \in F : field[f].name = n => f = g
  BY <1>2, <1>5 DEF Indexed, FieldChains
<1>12. ASSUME NEW f \in F
       PROVE  Descending(FieldNextOf, ValuesOf(T, field[f].name), field[f].head)'
  <2>1. PICK C, nx, h, m : C = ValuesOf(L, m) /\ nx = FieldNextOf /\ h = field[f].head
                           /\ m = field[f].name
    OBVIOUS
  <2>2. Descending(nx, C, h)
    BY <1>2, <2>1 DEF Indexed, FieldLists
  <2>3. field'[f].name = m /\ FieldNextOf' = nx
    BY <1>1, <1>2, <1>6, <2>1 DEF FieldNextOf
  <2>4. CASE f = g
    <3>1. ValuesOf(T, m)' = C \cup {o}
      BY <1>1, <1>4, <1>5, <2>1, <2>4 DEF ValuesOf
    <3>2. \A c \in C : c \in Nat \ {0} /\ c < o
      <4>1. \A c \in C : c \in L /\ c \in DOMAIN data
        BY <1>2, <2>1 DEF ValuesOf, Indexed
      <4>2. \A c \in DOMAIN data : c \in Nat \ {0}
        BY <1>0, ChainTypes
      <4> QED BY <1>4, <4>1, <4>2
    <3>3. C \cup {o} \subseteq DOMAIN nx /\ nx[o] = h
      BY <1>2, <1>4, <1>5, <2>1, <2>4 DEF ValuesOf, FieldNextOf, Indexed
    <3>4. Descending(nx, C \cup {o}, o)
      BY <1>4, <2>2, <3>2, <3>3, DescendingGrows
    <3> QED BY <1>6, <2>3, <2>4, <3>1, <3>4
  <2>5. CASE f # g
    <3>1. m # n
      BY <1>11, <2>1, <2>5
    <3>2. ValuesOf(T, m)' = C
      BY <1>1, <1>4, <2>1, <3>1 DEF ValuesOf
    <3>3. field'[f].head = h
      BY <1>2, <1>6, <2>1, <2>5
    <3> QED BY <2>2, <2>3, <3>2, <3>3
  <2> QED BY <2>4, <2>5
<1>13. \A d \in T : \E f \in F : field'[f].name = FieldOf[data'[d].payload]
  <2>1. \A d \in L : \E f \in F : field[f].name = FieldOf[data[d].payload]
    BY <1>2 DEF Indexed, FieldLists
  <2>2. \A f \in F : field'[f].name = field[f].name
    BY <1>2, <1>6
  <2> QED BY <1>1, <1>4, <1>5, <2>1, <2>2
<1>14. FieldLists(F, T)'
  BY <1>12, <1>13 DEF FieldLists
<1>15. Referred(F, T)'
  <2>1. \A it \in op'.items : it \in op.items \/ it.offset = o
    <3>1. op'.items = AddItem(o, 0, 0, 0, 0)
      BY <1>1, <1>3
    <3> QED BY <3>1, AddItemOffsets
  <2>2. \A f \in F : field'[f].name = field[f].name
    BY <1>2, <1>6
  <2> QED BY <1>1, <1>2, <1>10, <2>1, <2>2 DEF Referred
<1> HIDE DEF T
<1>16. DataPhase(S, T)' /\ FieldPhase(F)'
  BY <1>1, <1>10 DEF DataPhase, FieldPhase, Listing, FieldSteps
<1>17. HashParts(S, F, T)'
  BY <1>8, <1>9, <1>10, <1>14, <1>15, <1>16 DEF HashParts
<1> QED BY <1>17

(***************************************************************************)
(* Every step keeps the invariant of the hash tables and the lists.        *)
(***************************************************************************)
LEMMA HashNext == BaseInv /\ HashInv /\ [Next]_vars => HashInv'
<1> SUFFICES ASSUME BaseInv, HashInv, [Next]_vars PROVE HashInv'
  OBVIOUS
<1>1. PICK S, F, L : HashParts(S, F, L)
  BY DEF HashInv
<1> SUFFICES \E T, G, M : HashParts(T, G, M)'
  BY DEF HashInv
<1>2. CASE UNCHANGED vars
  <2>1. /\ data' = data /\ field' = field /\ entry' = entry /\ dht' = dht /\ fht' = fht
        /\ cache' = cache /\ op' = op /\ pc' = pc /\ w' = w
    BY <1>2 DEF vars
  <2>2. SameChains
    BY <2>1 DEF SameChains
  <2>3. Indexed(S, F, L)' /\ Referred(F, L)'
    BY <1>1, <2>1, <2>2, IndexedSame, ReferredSame DEF HashParts, Indexed
  <2>4. Live' => Live /\ DataTails(S)' /\ FieldTails(F)'
    BY <1>1, <2>1, <2>2, TailsSame DEF HashParts, Indexed, Live
  <2>5. Payload' = Payload /\ Name' = Name
    BY <2>1, SamePayload
  <2>6. \A o : FreshData(S, o)' <=> FreshData(S, o)
    BY <2>1, <2>5 DEF FreshData
  <2>7. Live' => DataPhase(S, L)'
    BY <1>1, <2>1, <2>4, <2>5, <2>6 DEF HashParts, DataPhase
  <2>8. Live' => FieldPhase(F)'
    BY <1>1, <2>1, <2>4, <2>5 DEF HashParts, FieldPhase, UnlistedField
  <2>9. HashParts(S, F, L)'
    BY <2>3, <2>4, <2>7, <2>8 DEF HashParts, Indexed
  <2> QED BY <2>9
<1>3. CASE Next
  <2>1. CASE Call \/ Leave \/ Publish \/ FailPublish
    BY <1>1, <2>1, HashOutside
  <2>2. CASE QuietLink \/ CreateLink \/ CommitObjects \/ CommitTailObject \/ CommitHead
             \/ CommitTail \/ CommitTailEntry \/ CommitCount
    BY <1>1, <2>2, HashLinks
  <2>3. CASE Finish \/ WriteEntry
    BY <1>1, <2>3, HashEntry
  <2>4. CASE SkipField \/ ReuseData
    BY <1>1, <2>4, HashItems
  <2>5. CASE StartData
    BY <1>1, <2>5, HashStart
  <2>6. CASE WriteData
    BY <1>1, <2>6, HashWriteData
  <2>7. CASE LinkDataHash
    BY <1>1, <2>7, HashLinkData
  <2>8. CASE PublishDataBucket
    BY <1>1, <2>8, HashPublishData
  <2>9. CASE CountData \/ CachedField \/ FoundField \/ CountField
    BY <1>1, <2>9, HashFindField
  <2>10. CASE WriteField
    BY <1>1, <2>10, HashWriteField
  <2>11. CASE LinkFieldHash
    BY <1>1, <2>11, HashLinkField
  <2>12. CASE PublishFieldBucket
    BY <1>1, <2>12, HashPublishField
  <2>13. CASE SetNextField
    BY <1>1, <2>13, HashNextField
  <2>14. CASE SetHeadData
    BY <1>1, <2>14, HashHeadData
  <2> QED BY <1>3, <2>1, <2>2, <2>3, <2>4, <2>5, <2>6, <2>7, <2>8, <2>9, <2>10, <2>11, <2>12,
             <2>13, <2>14, NextGroups DEF QuietField, CreateField
<1> QED BY <1>2, <1>3

-----------------------------------------------------------------------------
(* What follows for readers and for the writer itself. *)

LEMMA HashCache ==
  ASSUME TypeOK, HashInv
  PROVE  CacheCoherent
<1>1. PICK S, F, L : HashParts(S, F, L)
  BY DEF HashInv
<1> SUFFICES ASSUME NEW n \in DOMAIN cache PROVE FindField(n) = {cache[n]}
  BY DEF CacheCoherent
<1>2. n \in Names
  BY DEF TypeOK, WriterOK
<1>3. cache[n] \in F /\ field[cache[n]].name = n
  BY <1>1 DEF HashParts, Referred
<1>4. FindField(n) = {f \in F : field[f].name = n}
  BY <1>1, <1>2, FieldFound DEF HashParts
<1>5. \A f \in F : field[f].name = n => f = cache[n]
  BY <1>1, <1>3 DEF HashParts, FieldChains
<1> QED BY <1>3, <1>4, <1>5

(***************************************************************************)
(* The items of every ENTRY object are found, by payload and by field.     *)
(***************************************************************************)
LEMMA HashItemsFound ==
  ASSUME TypeOK, HashInv, NEW e \in DOMAIN entry, NEW x \in entry[e].items
  PROVE  /\ x[1] \in DOMAIN data /\ FindData(data[x[1]].payload) = {x[1]}
         /\ \E f \in FindField(FieldOf[data[x[1]].payload]) : x[1] \in Met(field[f].head, FieldNextOf)
<1>1. PICK S, F, L : HashParts(S, F, L)
  BY DEF HashInv
<1>2. PICK d : d = x[1]
  OBVIOUS
<1>3. d \in L /\ d \in S /\ d \in DOMAIN data
  BY <1>1, <1>2 DEF HashParts, Referred, DataChains
<1>4. PICK p \in Payloads : p = data[d].payload
  BY <1>3, ChainTypes
<1>5. FindData(p) = {c \in S : data[c].payload = p}
  BY <1>1, DataFound DEF HashParts
<1>6. {c \in S : data[c].payload = p} = {d}
  BY <1>1, <1>3, <1>4 DEF HashParts, DataChains
<1>7. \E f \in FindField(FieldOf[data[d].payload]) : d \in Met(field[f].head, FieldNextOf)
  BY <1>1, <1>3, ListMet DEF HashParts
<1> QED BY <1>2, <1>3, <1>4, <1>5, <1>6, <1>7

LEMMA HashFields ==
  ASSUME TypeOK, HashInv, CommittedListed
  PROVE  CommittedFieldsListed
<1>1. CommittedSet = CommittedByNumber
  BY DEF CommittedSet, CommittedListed, ListedExactly
<1>2. \A e \in CommittedSet : e \in DOMAIN entry
  BY <1>1 DEF CommittedByNumber
<1> QED BY <1>2, HashItemsFound DEF CommittedFieldsListed

(***************************************************************************)
(* The writer walks no broken hash chain and changes no missing object.    *)
(***************************************************************************)
DamagedTables ==
  \/ /\ AtField /\ Payload \in Payloads /\ FindData(Payload) = {}
     /\ ~Ends(dht[DataBucket[Payload]].head, DataNext)
  \/ pc = "hash_next" /\ dht[DataBucket[Payload]].tail \notin DOMAIN data \cup {0}
  \/ pc = "count_data" /\ ~Ends(dht[DataBucket[Payload]].head, DataNext)
  \/ /\ pc = "add_field" /\ Name \notin DOMAIN cache /\ FindField(Name) = {}
     /\ ~Ends(fht[FieldBucket[Name]].head, FieldNext)
  \/ pc = "field_next_hash" /\ fht[FieldBucket[Name]].tail \notin DOMAIN field \cup {0}
  \/ pc = "count_field" /\ ~Ends(fht[FieldBucket[Name]].head, FieldNext)
  \/ pc \in {"next_field", "head_data"} /\ op.field \notin DOMAIN field

LEMMA HashUndamaged ==
  ASSUME BaseInv, HashInv
  PROVE  ~DamagedTables
<1>0. TypeOK
  BY DEF BaseInv
<1>1. PICK S, F, L : HashParts(S, F, L)
  BY DEF HashInv
<1>2. \A p \in Payloads : Ends(dht[DataBucket[p]].head, DataNext)
  BY <1>0, <1>1, DataFound DEF HashParts
<1>3. \A n \in Names : Ends(fht[FieldBucket[n]].head, FieldNext)
  BY <1>0, <1>1, FieldFound DEF HashParts
<1>4. pc \in FieldSteps => Payload \in Payloads /\ Name \in Names
  BY AtHand
<1>5. pc = "hash_next" => dht[DataBucket[Payload]].tail \in DOMAIN data \cup {0}
  <2> SUFFICES ASSUME pc = "hash_next"
               PROVE  dht[DataBucket[Payload]].tail \in DOMAIN data \cup {0}
    OBVIOUS
  <2>1. PICK b \in Buckets : b = DataBucket[Payload]
    BY AtHand DEF FieldSteps
  <2>2. TailOf(DataNext, DataCell(S, b), dht[b].tail) /\ DataCell(S, b) \subseteq DOMAIN data
    BY <1>1 DEF HashParts, Live, DataTails, DataChains, DataCell
  <2> QED BY <2>1, <2>2 DEF TailOf
<1>6. pc = "field_next_hash" => fht[FieldBucket[Name]].tail \in DOMAIN field \cup {0}
  <2> SUFFICES ASSUME pc = "field_next_hash"
               PROVE  fht[FieldBucket[Name]].tail \in DOMAIN field \cup {0}
    OBVIOUS
  <2>1. PICK b \in Buckets : b = FieldBucket[Name]
    BY AtHand DEF FieldSteps
  <2>2. TailOf(FieldNext, FieldCell(F, b), fht[b].tail) /\ FieldCell(F, b) \subseteq DOMAIN field
    BY <1>1 DEF HashParts, Live, FieldTails, FieldChains, FieldCell
  <2> QED BY <2>1, <2>2 DEF TailOf
<1>7. pc \in {"next_field", "head_data"} => op.field \in DOMAIN field
  BY <1>1 DEF HashParts, Live, FieldPhase, FieldChains
<1> QED BY <1>2, <1>3, <1>4, <1>5, <1>6, <1>7 DEF DamagedTables, FieldSteps

(***************************************************************************)
(* At every step of every append, failed ones included, each name in the   *)
(* field cache has exactly one FIELD object on the hash chain, the cached  *)
(* one: a full cache that was cleared is refilled from the chain, and an   *)
(* append that fails between the FIELD object and its bucket leaves        *)
(* nothing in the cache (FieldCache::insert, add_field).                   *)
(***************************************************************************)
THEOREM CacheIsCoherent == Spec => []CacheCoherent
<1>1. Init => BaseInv /\ HashInv
  BY BaseInit, HashInit
<1>2. BaseInv /\ HashInv /\ [Next]_vars => (BaseInv /\ HashInv)'
  BY BaseNext, HashNext
<1>3. BaseInv /\ HashInv => CacheCoherent
  BY HashCache DEF BaseInv
<1> QED BY <1>1, <1>2, <1>3, PTL DEF Spec

(***************************************************************************)
(* In a file below 4 GiB every payload of a committed entry is, at every   *)
(* store, on the DATA list of the FIELD object that the hash chain of its  *)
(* name finds (link_data_to_field, add_field).                             *)
(***************************************************************************)
THEOREM FieldIndexIsComplete ==
  ASSUME MaxOffset < TailModulus
  PROVE  Spec => []CommittedFieldsListed
<1>1. Init => BaseInv /\ HashInv /\ ListInv
  BY BaseInit, HashInit, ListInit
<1>2. BaseInv /\ HashInv /\ ListInv /\ [Next]_vars => (BaseInv /\ HashInv /\ ListInv)'
  BY BaseNext, HashNext, ListNext
<1>3. BaseInv /\ HashInv /\ ListInv => CommittedFieldsListed
  BY HashFields, ListRead DEF BaseInv
<1> QED BY <1>1, <1>2, <1>3, PTL DEF Spec
=============================================================================
