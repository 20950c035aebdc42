-------------------------- MODULE GlobalListProofs --------------------------
(***************************************************************************)
(* The list of all entries, as readers walk it, for every value of the     *)
(* constants of the writer: at every store of every append the first       *)
(* n_entries slots of the global entry array chain are the committed       *)
(* entries, in file order.                                                 *)
(***************************************************************************)
EXTENDS WriterCallProofs, WellFoundedInduction

-----------------------------------------------------------------------------
(* Walks.  The library's induction theorems take an operator; the one used *)
(* here is about a set, from the fact that < is well founded on Nat.       *)

Below == {p \in Nat \X Nat : p[1] < p[2]}

LEMMA BelowWellFounded == IsWellFoundedOn(Below, Nat)
BY NatLessThanWellFounded DEF OpToRel, Below

(***************************************************************************)
(* A set of numbers with 0 that is closed under successors has them all.   *)
(***************************************************************************)
LEMMA SetInduction ==
  ASSUME NEW S, 0 \in S, \A i \in Nat : i \in S => i + 1 \in S
  PROVE  \A i \in Nat : i \in S
<1> DEFINE T == Nat \ S
<1> SUFFICES ASSUME T # {} PROVE FALSE
  OBVIOUS
<1>2. T \subseteq Nat
  OBVIOUS
<1> HIDE DEF T
<1>3. PICK x \in T : \A y \in T : ~ (<<y, x>> \in Below)
  BY ONLY BelowWellFounded, <1>2, T # {}, WFMin
<1>4. x \in Nat /\ x # 0 /\ x \notin S
  BY <1>2 DEF T
<1>5. x - 1 \in Nat /\ x - 1 \notin S
  BY <1>4
<1>6. x - 1 \in T
  BY <1>5 DEF T
<1>7. <<x - 1, x>> \in Below
  BY <1>4, <1>5 DEF Below
<1> QED BY <1>3, <1>6, <1>7

\* f iterates step on X, n times from base.
Iteration(f, n, X, step, base) ==
  f \in [0..n -> X] /\ f[0] = base /\ \A i \in 1..n : f[i] = step[f[i - 1]]

(***************************************************************************)
(* Every step function can be iterated any number of times.                *)
(***************************************************************************)
LEMMA Iterates ==
  ASSUME NEW X, NEW step \in [X -> X], NEW base \in X, NEW n \in Nat
  PROVE  \E f : Iteration(f, n, X, step, base)
<1> DEFINE S == {m \in Nat : \E f : Iteration(f, m, X, step, base)}
<1>1. 0 \in S
  <2>1. Iteration([i \in 0..0 |-> base], 0, X, step, base)
    BY DEF Iteration
  <2> QED BY <2>1
<1>2. ASSUME NEW m \in Nat, m \in S PROVE m + 1 \in S
  <2>1. PICK f : Iteration(f, m, X, step, base)
    BY <1>2
  <2> DEFINE g == [i \in 0..(m + 1) |-> IF i = m + 1 THEN step[f[m]] ELSE f[i]]
  <2>2. g \in [0..(m + 1) -> X]
    BY <2>1 DEF Iteration
  <2>3. g[0] = base
    BY <2>1 DEF Iteration
  <2>4. ASSUME NEW i \in 1..(m + 1) PROVE g[i] = step[g[i - 1]]
    <3>1. CASE i = m + 1
      BY <3>1
    <3>2. CASE i # m + 1
      BY <3>2, <2>1 DEF Iteration
    <3> QED BY <3>1, <3>2
  <2> HIDE DEF g
  <2>5. Iteration(g, m + 1, X, step, base)
    BY <2>2, <2>3, <2>4 DEF Iteration
  <2> QED BY <2>5
<1>3. n \in S
  <2> HIDE DEF S
  <2> QED BY <1>1, <1>2, SetInduction
<1> QED BY <1>3

\* Where a walk over an array chain is, and the slots it has collected.
Spot == [at : Nat, slots : Seq(Nat)]

(***************************************************************************)
(* Flatten collects the slots of one array after the other.                *)
(***************************************************************************)
LEMMA FlattenWalk ==
  ASSUME NEW head \in Nat, NEW arr, IsFiniteSet(DOMAIN arr), arr \in [DOMAIN arr -> ArrayObject]
  PROVE  \E f \in [0..Cardinality(DOMAIN arr) -> Spot] :
           /\ f[0] = [at |-> head, slots |-> <<>>]
           /\ \A i \in 1..Cardinality(DOMAIN arr) :
                f[i] = IF f[i - 1].at \in DOMAIN arr
                       THEN [at |-> arr[f[i - 1].at].next,
                             slots |-> f[i - 1].slots \o arr[f[i - 1].at].slots]
                       ELSE f[i - 1]
           /\ Flatten(head, arr) = f[Cardinality(DOMAIN arr)].slots
<1> DEFINE n == Cardinality(DOMAIN arr)
           Ext(p) == IF p.at \in DOMAIN arr
                     THEN [at |-> arr[p.at].next, slots |-> p.slots \o arr[p.at].slots]
                     ELSE p
           step == [p \in Spot |-> Ext(p)]
           base == [at |-> head, slots |-> <<>>]
           F(f) == [i \in 0..n |-> IF i = 0 THEN base
                                   ELSE CHOOSE q \in {Ext(p) : p \in {f[i - 1]}} : TRUE]
<1>1. n \in Nat
  BY FS_CardinalityType
<1>2. step \in [Spot -> Spot]
  <2> SUFFICES ASSUME NEW p \in Spot PROVE Ext(p) \in Spot
    OBVIOUS
  <2>1. CASE p.at \in DOMAIN arr
    <3>1. arr[p.at] \in ArrayObject
      BY <2>1
    <3>2. arr[p.at].next \in Nat /\ arr[p.at].slots \in Seq(Nat) /\ p.slots \in Seq(Nat)
      BY <3>1 DEF ArrayObject, Spot
    <3>3. p.slots \o arr[p.at].slots \in Seq(Nat)
      BY <3>2
    <3> QED BY <2>1, <3>2, <3>3 DEF Spot
  <2>2. CASE p.at \notin DOMAIN arr
    BY <2>2
  <2> QED BY <2>1, <2>2
<1>3. base \in Spot
  BY DEF Spot
<1>4. PICK f : Iteration(f, n, Spot, step, base)
  <2> HIDE DEF n, step, base, Ext, F
  <2> QED BY <1>1, <1>2, <1>3, Iterates
<1>4a. f \in [0..n -> Spot] /\ f[0] = base /\ \A i \in 1..n : f[i] = step[f[i - 1]]
  <2> HIDE DEF n, step, base, Ext, F
  <2> QED BY <1>4 DEF Iteration
<1>5. \A i \in 1..n : f[i] = Ext(f[i - 1])
  <2> HIDE DEF Ext, n
  <2> QED BY <1>1, <1>4a
<1>6. \A g : \A i \in 1..n : (CHOOSE q \in {Ext(p) : p \in {g[i - 1]}} : TRUE) = Ext(g[i - 1])
  <2> HIDE DEF Ext, n
  <2> QED OBVIOUS
<1>7. f = F(f)
  <2> HIDE DEF Ext, n, base
  <2> QED BY <1>1, <1>4a, <1>5, <1>6
<1>8. ASSUME NEW g, g = F(g)
      PROVE  g[n] = f[n]
  <2> DEFINE S == {i \in Nat : i \in 0..n => g[i] = f[i]}
  <2>1. g[0] = f[0]
    <3> HIDE DEF Ext, n, base
    <3> QED BY <1>1, <1>4a, <1>8
  <2>2. ASSUME NEW i \in Nat, i \in S PROVE i + 1 \in S
    <3> SUFFICES ASSUME i + 1 \in 0..n PROVE g[i + 1] = f[i + 1]
      OBVIOUS
    <3>1. i \in 0..n /\ i + 1 \in 1..n /\ (i + 1) - 1 = i
      BY <1>1
    <3>2. g[i] = f[i]
      BY <2>2, <3>1
    <3>3. g[i + 1] = Ext(g[i])
      <4> HIDE DEF Ext, n, base, S
      <4>1. g[i + 1] = CHOOSE q \in {Ext(p) : p \in {g[(i + 1) - 1]}} : TRUE
        BY <1>8, <3>1, <1>1
      <4> QED BY <4>1, <1>6, <3>1
    <3>4. f[i + 1] = Ext(f[i])
      <4> HIDE DEF Ext, n, base, S
      <4> QED BY <1>5, <3>1
    <3> QED BY <3>2, <3>3, <3>4
  <2>3. n \in S
    <3>1. 0 \in S
      BY <2>1
    <3> HIDE DEF S
    <3> QED BY <1>1, <3>1, <2>2, SetInduction
  <2> QED BY <2>3, <1>1
<1>9. Flatten(head, arr) = (CHOOSE g : g = F(g))[n].slots
  BY DEF Flatten
<1>10. Flatten(head, arr) = f[n].slots
  <2> HIDE DEF F, n
  <2> QED BY <1>7, <1>8, <1>9
<1> QED BY <1>4a, <1>5, <1>10

(***************************************************************************)
(* The arrays G of arr are a chain from head to last, with before[a] slots *)
(* in front of array a.                                                    *)
(***************************************************************************)
IsChain(arr, G, before, head, last) ==
  /\ G \subseteq DOMAIN arr /\ before \in [G -> Nat]
  /\ head \in G /\ before[head] = 0
  /\ last \in G /\ arr[last].next = 0
  /\ \A a \in G : Len(arr[a].slots) > 0
  /\ \A a \in G \ {last} :
       /\ arr[a].next \in G
       /\ before[arr[a].next] = before[a] + Len(arr[a].slots)
       /\ before[a] + Len(arr[a].slots) <= before[last]

\* The first n slots of the chain hold the sequence s.
Holding(arr, G, before, n, s) ==
  \A a \in G : \A j \in 1..Len(arr[a].slots) :
    before[a] + j <= n => arr[a].slots[j] = s[before[a] + j]

(***************************************************************************)
(* The slots of two sequences put together.                                *)
(***************************************************************************)
LEMMA Concatenation ==
  ASSUME NEW p \in Seq(Nat), NEW q \in Seq(Nat)
  PROVE  /\ p \o q \in Seq(Nat) /\ Len(p \o q) = Len(p) + Len(q)
         /\ \A k \in 1..Len(p) : (p \o q)[k] = p[k]
         /\ \A k \in 1..Len(q) : (p \o q)[Len(p) + k] = q[k]
OBVIOUS

\* The arrays arr of a file have a chain from head whose first n slots hold s.
ChainHolds(arr, G, before, head, last, n, s) ==
  /\ IsFiniteSet(DOMAIN arr) /\ 0 \notin DOMAIN arr /\ arr \in [DOMAIN arr -> ArrayObject]
  /\ head \in Nat /\ IsChain(arr, G, before, head, last)
  /\ n \in Nat /\ n <= before[last] + Len(arr[last].slots)
  /\ Holding(arr, G, before, n, s)

(***************************************************************************)
(* The walk over a chain takes its slots in order and ends with them all.  *)
(***************************************************************************)
LEMMA ChainFlatten ==
  ASSUME NEW arr, NEW G, NEW before, NEW head, NEW last, NEW n, NEW s,
         ChainHolds(arr, G, before, head, last, n, s)
  PROVE  /\ Flatten(head, arr) \in Seq(Nat) /\ n <= Len(Flatten(head, arr))
         /\ \A k \in 1..n : Flatten(head, arr)[k] = s[k]
<1> /\ IsFiniteSet(DOMAIN arr) /\ 0 \notin DOMAIN arr /\ arr \in [DOMAIN arr -> ArrayObject]
    /\ head \in Nat /\ IsChain(arr, G, before, head, last)
    /\ n \in Nat /\ n <= before[last] + Len(arr[last].slots)
    /\ Holding(arr, G, before, n, s)
  BY DEF ChainHolds
<1> DEFINE c == Cardinality(DOMAIN arr)
           total == before[last] + Len(arr[last].slots)
<1>0. c \in Nat
  BY FS_CardinalityType
<1>1. PICK f \in [0..c -> Spot] :
        /\ f[0] = [at |-> head, slots |-> <<>>]
        /\ \A i \in 1..c :
             f[i] = IF f[i - 1].at \in DOMAIN arr
                    THEN [at |-> arr[f[i - 1].at].next,
                          slots |-> f[i - 1].slots \o arr[f[i - 1].at].slots]
                    ELSE f[i - 1]
        /\ Flatten(head, arr) = f[c].slots
  BY FlattenWalk
<1> HIDE DEF c
<1> DEFINE At(i) == IF f[i].at \in G THEN Len(f[i].slots) = before[f[i].at]
                    ELSE f[i].at = 0 /\ Len(f[i].slots) = total
           Right(i) == \A k \in 1..Len(f[i].slots) : k <= n => f[i].slots[k] = s[k]
           Up(i) == f[i].at \in G =>
                      \A j \in 0..(i - 1) : /\ f[j].at \in G
                                            /\ before[f[j].at] < before[f[i].at]
           S == {i \in Nat : i \in 0..c => At(i) /\ Right(i) /\ Up(i)}
<1>2. \A i \in 0..c : f[i].at \in Nat /\ f[i].slots \in Seq(Nat)
  BY DEF Spot
<1>3. \A a \in G : /\ a \in DOMAIN arr /\ before[a] \in Nat
                   /\ arr[a].slots \in Seq(Nat) /\ Len(arr[a].slots) \in Nat
                   /\ Len(arr[a].slots) > 0
  BY DEF IsChain, ArrayObject
<1>4. last \in G /\ arr[last].next = 0 /\ 0 \notin G /\ total \in Nat
  BY <1>3 DEF IsChain
<1>5. 0 \in S
  <2>1. f[0].at = head /\ f[0].slots = <<>>
    BY <1>1
  <2>2. head \in G /\ before[head] = 0
    BY DEF IsChain
  <2> QED BY <2>1, <2>2
<1>6. ASSUME NEW i \in Nat, i \in S PROVE i + 1 \in S
  <2> SUFFICES ASSUME i + 1 \in 0..c PROVE At(i + 1) /\ Right(i + 1) /\ Up(i + 1)
    OBVIOUS
  <2>0. i \in 0..c /\ i + 1 \in 1..c /\ (i + 1) - 1 = i
    BY <1>0
  <2>1. At(i) /\ Right(i) /\ Up(i)
    BY <1>6, <2>0
  <2>2. f[i + 1] = IF f[i].at \in DOMAIN arr
                   THEN [at |-> arr[f[i].at].next, slots |-> f[i].slots \o arr[f[i].at].slots]
                   ELSE f[i]
    BY <1>1, <2>0
  <2>3. CASE f[i].at \in G
    <3>a. PICK a \in G : a = f[i].at
      BY <2>3
    <3>b. PICK p : p = f[i].slots
      OBVIOUS
    <3>c. PICK q : q = arr[a].slots
      OBVIOUS
    <3>d. a \in DOMAIN arr
      BY <1>3
    <3>1. f[i + 1].at = arr[a].next /\ f[i + 1].slots = p \o q
      <4>1. f[i + 1] = [at |-> arr[a].next, slots |-> p \o q]
        BY ONLY <2>2, <3>a, <3>b, <3>c, <3>d, Zenon
      <4> QED BY ONLY <4>1
    <3>2. p \in Seq(Nat) /\ q \in Seq(Nat) /\ Len(p) = before[a] /\ before[a] \in Nat
          /\ Len(q) \in Nat /\ Len(q) > 0
      BY <1>2, <1>3, <2>0, <2>1, <2>3, <3>a, <3>b, <3>c
    <3>2a. /\ Len(p \o q) = Len(p) + Len(q)
           /\ \A k \in 1..Len(p) : (p \o q)[k] = p[k]
           /\ \A k \in 1..Len(q) : (p \o q)[Len(p) + k] = q[k]
      BY <3>2, Concatenation
    <3>3. Len(f[i + 1].slots) = before[a] + Len(q)
      BY <3>1, <3>2, <3>2a
    <3>4. At(i + 1)
      <4>1. CASE a = last
        BY <1>4, <3>1, <3>3, <3>c, <4>1
      <4>2. CASE a # last
        <5>1. arr[a].next \in G /\ before[arr[a].next] = before[a] + Len(q)
          BY <3>c, <4>2 DEF IsChain
        <5> QED BY <3>1, <3>3, <5>1
      <4> QED BY <4>1, <4>2
    <3>5. Right(i + 1)
      <4> SUFFICES ASSUME NEW k \in 1..(Len(p) + Len(q)), k <= n PROVE (p \o q)[k] = s[k]
        BY <3>1, <3>2, <3>2a
      <4>1. CASE k <= Len(p)
        <5>1. k \in 1..Len(p)
          BY <3>2, <4>1
        <5>2. p[k] = s[k]
          BY <2>1, <3>b, <5>1
        <5> QED BY <3>2a, <5>1, <5>2
      <4>2. CASE k > Len(p)
        <5> DEFINE j == k - Len(p)
        <5>1. j \in 1..Len(q) /\ Len(p) + j = k
          BY ONLY <3>2, <4>2, k \in 1..(Len(p) + Len(q))
        <5> HIDE DEF j
        <5>2. (p \o q)[k] = q[j]
          BY <3>2a, <5>1
        <5>3. q[j] = s[before[a] + j]
          BY <3>2, <3>c, <5>1 DEF Holding
        <5> QED BY <3>2, <5>1, <5>2, <5>3
      <4> QED BY <3>2, <4>1, <4>2
    <3>6. Up(i + 1)
      <4> SUFFICES ASSUME f[i + 1].at \in G, NEW j \in 0..i
                   PROVE  f[j].at \in G /\ before[f[j].at] < before[f[i + 1].at]
        BY <2>0
      <4>1. before[f[i + 1].at] = before[a] + Len(q)
        BY <3>1, <3>c, <1>4 DEF IsChain
      <4>2. CASE j = i
        BY <3>a, <3>2, <4>1, <4>2
      <4>3. CASE j # i
        <5>1. f[j].at \in G /\ before[f[j].at] < before[a]
          BY <2>1, <2>3, <3>a, <4>3
        <5>2. before[f[j].at] \in Nat
          BY <1>3, <5>1
        <5> QED BY <3>2, <4>1, <5>1, <5>2
      <4> QED BY <4>2, <4>3
    <3> QED BY <3>4, <3>5, <3>6
  <2>4. CASE f[i].at \notin G
    <3>1. f[i].at = 0 /\ f[i + 1] = f[i]
      BY <2>1, <2>2, <2>4
    <3>2. f[i + 1].at \notin G
      BY <2>4, <3>1
    <3> QED BY <2>1, <3>1, <3>2
  <2> QED BY <2>3, <2>4
<1>7. c \in S
  <2> HIDE DEF S
  <2> QED BY <1>0, <1>5, <1>6, SetInduction
<1>8. At(c) /\ Right(c) /\ Up(c)
  BY <1>0, <1>7
<1>9. f[c].at \notin G
  <2> SUFFICES ASSUME f[c].at \in G PROVE FALSE
    OBVIOUS
  <2> DEFINE h == [i \in 0..c |-> f[i].at]
  <2>1. \A i \in 0..c : f[i].at \in G
    BY <1>0, <1>8
  <2>2. h \in [0..c -> DOMAIN arr]
    BY <1>3, <2>1
  <2>3. ASSUME NEW i \in 0..c, NEW j \in 0..c, i < j PROVE f[i].at # f[j].at
    <3>1. Up(j)
      <4>1. j \in S
        <5> HIDE DEF S
        <5> QED BY <1>5, <1>6, SetInduction
      <4> QED BY <4>1
    <3>2. before[f[i].at] < before[f[j].at]
      BY <2>1, <2>3, <3>1
    <3>3. before[f[i].at] \in Nat
      BY <1>3, <2>1
    <3> QED BY <3>2, <3>3
  <2>4. \A i, j \in 0..c : i # j => h[i] # h[j]
    <3> TAKE i, j \in 0..c
    <3>1. i < j \/ j < i \/ i = j
      BY <1>0
    <3> QED BY <2>3, <3>1
  <2>5. IsFiniteSet(0..c) /\ Cardinality(0..c) = c + 1
    <3>1. 0 \in Int /\ c \in Int /\ ~ (0 > c) /\ c - 0 + 1 = c + 1
      BY <1>0
    <3> QED BY <3>1, FS_Interval
  <2>6. Cardinality(DOMAIN arr) < Cardinality(0..c)
    BY <1>0, <2>5 DEF c
  <2> HIDE DEF h
  <2>7. \E x, y \in 0..c : x # y /\ h[x] = h[y]
    BY <2>2, <2>5, <2>6, FS_PigeonHole
  <2> QED BY <2>4, <2>7
<1>10. Len(f[c].slots) = total
  BY <1>8, <1>9
<1>11. Flatten(head, arr) = f[c].slots /\ f[c].slots \in Seq(Nat)
  BY <1>0, <1>1, <1>2
<1> QED BY <1>4, <1>8, <1>10, <1>11


(***************************************************************************)
(* A walk for the tail array stays among arrays that link only to one      *)
(* another.                                                                *)
(***************************************************************************)
LEMMA TailArrayInside ==
  ASSUME NEW arr, IsFiniteSet(DOMAIN arr), 0 \notin DOMAIN arr,
         arr \in [DOMAIN arr -> ArrayObject],
         NEW F, \A a \in F : a \in DOMAIN arr /\ arr[a].next \in F \cup {0},
         NEW head \in F \cup {0}, NEW limit, NEW orLast
  PROVE  TailArray(head, arr, limit, orLast).at \in F \cup {0}
<1> DEFINE n == Cardinality(DOMAIN arr)
           X == [at : F \cup {0}, before : Nat]
           Ext(p) == IF \/ p.at \notin DOMAIN arr
                        \/ p.before + Len(arr[p.at].slots) >= limit
                        \/ orLast /\ arr[p.at].next = 0
                     THEN p
                     ELSE [at |-> arr[p.at].next, before |-> p.before + Len(arr[p.at].slots)]
           step == [p \in X |-> Ext(p)]
           base == [at |-> head, before |-> 0]
           R(f) == [i \in 0..n |-> IF i = 0 THEN base ELSE Ext(f[i - 1])]
<1>1. n \in Nat
  BY FS_CardinalityType
<1>a. ASSUME NEW p \in X PROVE Ext(p) \in X
  <2>0. p.before \in Nat /\ p.at \in F \cup {0}
    OBVIOUS
  <2>1. CASE p.at \in F
    <3>1. arr[p.at] \in ArrayObject
      BY <2>1
    <3>2. Len(arr[p.at].slots) \in Nat
      BY <3>1 DEF ArrayObject
    <3>3. p.before + Len(arr[p.at].slots) \in Nat /\ arr[p.at].next \in F \cup {0}
      BY <2>0, <2>1, <3>2
    <3>4. [at |-> arr[p.at].next, before |-> p.before + Len(arr[p.at].slots)] \in X
      BY <3>3
    <3>5. Ext(p) = p \/ Ext(p) = [at |-> arr[p.at].next, before |-> p.before + Len(arr[p.at].slots)]
      BY Zenon
    <3> HIDE DEF Ext, X
    <3> QED BY <3>4, <3>5
  <2>2. CASE p.at = 0
    BY <2>2
  <2> QED BY <2>0, <2>1, <2>2
<1>2. step \in [X -> X]
  <2> HIDE DEF Ext
  <2> QED BY <1>a
<1>3. base \in X
  OBVIOUS
<1>4. PICK f : Iteration(f, n, X, step, base)
  <2> HIDE DEF n, X, step, base, Ext, R
  <2> QED BY <1>1, <1>2, <1>3, Iterates
<1>5. f \in [0..n -> X] /\ f[0] = base /\ \A i \in 1..n : f[i] = step[f[i - 1]]
  <2> HIDE DEF n, X, step, base, Ext, R
  <2> QED BY <1>4 DEF Iteration
<1>6. \A i \in 1..n : f[i] = Ext(f[i - 1])
  <2> TAKE i \in 1..n
  <2>1. i - 1 \in 0..n
    BY <1>1
  <2> HIDE DEF Ext, n, X, base
  <2>2. f[i - 1] \in X
    BY <1>5, <2>1
  <2>3. \A p \in X : step[p] = Ext(p)
    OBVIOUS
  <2> HIDE DEF step
  <2> QED BY <1>5, <2>2, <2>3
<1>7. f = R(f)
  <2> HIDE DEF Ext, n, base, X
  <2> QED BY <1>1, <1>5, <1>6
<1>8. ASSUME NEW g, g = R(g)
      PROVE  g[n].at \in F \cup {0}
  <2> DEFINE S == {i \in Nat : i \in 0..n => g[i] \in X}
  <2>1. 0 \in S
    <3>1. g[0] = base
      <4> HIDE DEF Ext, n, base, X
      <4> QED BY <1>1, <1>8
    <3>2. g[0] \in X
      <4> HIDE DEF X, base
      <4> QED BY <1>3, <3>1
    <3> HIDE DEF X
    <3> QED BY <3>2
  <2>2. ASSUME NEW i \in Nat, i \in S PROVE i + 1 \in S
    <3> SUFFICES ASSUME i + 1 \in 0..n PROVE g[i + 1] \in X
      OBVIOUS
    <3>1. i \in 0..n /\ i + 1 \in 1..n /\ (i + 1) - 1 = i
      BY <1>1
    <3>2. g[i] \in X
      BY <2>2, <3>1
    <3>3. g[i + 1] = Ext(g[i])
      <4> HIDE DEF Ext, n, base, S, X
      <4>1. \A j \in 1..n : R(g)[j] = Ext(g[j - 1])
        BY <1>1
      <4> HIDE DEF R
      <4> QED BY <1>8, <3>1, <4>1
    <3> HIDE DEF Ext, X
    <3> QED BY <1>a, <3>2, <3>3
  <2>3. n \in S
    <3> HIDE DEF S
    <3> QED BY <1>1, <2>1, <2>2, SetInduction
  <2>4. g[n] \in X
    BY <1>1, <2>3
  <2> QED BY <2>4
<1>9. TailArray(head, arr, limit, orLast) = (CHOOSE g : g = R(g))[n]
  BY DEF TailArray
<1> HIDE DEF R, n
<1> QED BY <1>7, <1>8, <1>9

(***************************************************************************)
(* The u32 that the header keeps of an offset below 4 GiB is the offset.   *)
(***************************************************************************)
LEMMA SmallOffset ==
  ASSUME NEW m \in Nat, NEW x \in 0..(m - 1)
  PROVE  x % m = x
OBVIOUS

-----------------------------------------------------------------------------
(* The global array chain at every step of an append. *)

\* s lists the committed entries in file order.
Lists(s) ==
  /\ s \in [1..hdr.n_entries -> DOMAIN entry]
  /\ \A i, j \in 1..hdr.n_entries : i < j => s[i] < s[j]
  /\ {s[i] : i \in 1..hdr.n_entries} = CommittedByNumber

\* The chain that the header names holds the list s.
Chained(G, before, last, s) ==
  IF hdr.entry_array = 0 THEN hdr.n_entries = 0 /\ G = {}
  ELSE /\ IsChain(array, G, before, hdr.entry_array, last)
       /\ hdr.n_entries <= before[last] + Len(array[last].slots)
       /\ Holding(array, G, before, hdr.n_entries, s)

\* The header's hints name the tail of the chain and the slots used in it.
Hinted(before, last) ==
  hdr.entry_array # 0 =>
    /\ hdr.tail_array = last /\ hdr.tail_array_n > 0
    /\ before[last] + hdr.tail_array_n = hdr.n_entries

\* They are one entry ahead of the count, and that entry is in its slot.
Filled(before, last) ==
  /\ hdr.entry_array # 0
  /\ hdr.tail_array = last /\ hdr.tail_array_n \in 1..Len(array[last].slots)
  /\ before[last] + hdr.tail_array_n = hdr.n_entries + 1
  /\ array[last].slots[hdr.tail_array_n] = op.entry

\* A new array that nothing refers to yet.
Unlinked(a, G, F) ==
  /\ a \in DOMAIN array \ (G \cup F)
  /\ array[a].next = 0 /\ Len(array[a].slots) > 0

\* A new array waits to be linked behind the full tail.
GrowReady(G, F, before, last) ==
  /\ hdr.entry_array # 0 /\ op.prev = last /\ op.slot = 0
  /\ Unlinked(op.arr, G, F)
  /\ hdr.n_entries = before[last] + Len(array[last].slots)

\* The slot that the entry goes to is the first one that is not counted.
SlotReady(G, F, before, last) ==
  IF hdr.entry_array = 0 THEN op.slot = 0 /\ Unlinked(op.arr, G, F)
  ELSE /\ op.arr = last /\ before[last] + op.slot = hdr.n_entries
       /\ op.slot < Len(array[last].slots)

\* The steps before the global array is touched, and those after its header is stored.
Unplaced == Request \cup {"entry", "place", "publish"}
Placed == {"link", "data_array", "data_tail", "data_count"} \cup Commits
Growing == {"link_array", "set_slot"}

(***************************************************************************)
(* Where the running append is with the global chain and, past it, with    *)
(* the arrays F of the postings.                                           *)
(***************************************************************************)
Phase(G, F, before, last) ==
  /\ pc \in Unplaced \/ (pc = "idle" /\ ~w.poisoned) => Hinted(before, last)
  /\ pc \in {"entry", "place"} => op.cur = 0
  /\ pc = "link_array" /\ op.cur = 0 => GrowReady(G, F, before, last)
  /\ pc = "set_slot" /\ op.cur = 0 => SlotReady(G, F, before, last)
  /\ pc = "global_header" =>
       SlotReady(G, F, before, last) /\ array[op.arr].slots[op.slot + 1] = op.entry
  /\ pc \in Placed \/ (pc \in Growing /\ op.cur # 0) => Filled(before, last)
  /\ pc \in Growing /\ op.cur # 0 => op.arr \in F
  /\ pc \in {"data_array", "data_tail"} => op.arr \in F
  /\ pc = "link_array" /\ op.cur # 0 => op.prev \in F

\* The arrays of postings lie apart from the global chain.
Separate(G, F) ==
  /\ F \subseteq DOMAIN array /\ F \cap G = {}
  /\ \A a \in F : array[a].next \in F \cup {0}

\* DATA objects, and the states remembered of them, refer to no other arrays.
RefersWithin(F) ==
  /\ \A d \in DOMAIN data : data[d].array \in F \cup {0} /\ data[d].tail \in F \cup {0}
  /\ \A it \in op.items \cup op.left : it.array \in F \cup {0} /\ it.tail \in F \cup {0}

(***************************************************************************)
(* The invariant of the global list: a chain of arrays holds the committed *)
(* entries, and no store to a postings array can reach it.                 *)
(***************************************************************************)
ListParts(G, F, before, last, s) ==
  /\ Lists(s) /\ Chained(G, before, last, s) /\ Phase(G, F, before, last)
  /\ Separate(G, F) /\ RefersWithin(F)

ListInv == \E G, F, before, last, s : ListParts(G, F, before, last, s)

\* What a step that is not about the global array leaves alone.
SameGlobal ==
  /\ hdr'.n_entries = hdr.n_entries /\ hdr'.entry_array = hdr.entry_array
  /\ hdr'.tail_array = hdr.tail_array /\ hdr'.tail_array_n = hdr.tail_array_n

SameLog == CommittedByNumber' = CommittedByNumber /\ DOMAIN entry \subseteq DOMAIN entry'

LEMMA ListsKept ==
  ASSUME NEW s, Lists(s), SameLog, hdr'.n_entries = hdr.n_entries
  PROVE  Lists(s)'
<1>1. s \in [1..hdr.n_entries -> DOMAIN entry']
  BY DEF Lists, SameLog
<1> QED BY <1>1 DEF Lists, SameLog

(***************************************************************************)
(* A step that stores to no array and to none of the four header fields.   *)
(***************************************************************************)
LEMMA ChainKept ==
  ASSUME NEW G, NEW F, NEW before, NEW last, NEW s, SameGlobal, array' = array
  PROVE  /\ Chained(G, before, last, s) => Chained(G, before, last, s)'
         /\ Hinted(before, last) => Hinted(before, last)'
         /\ Filled(before, last) /\ op'.entry = op.entry => Filled(before, last)'
         /\ Separate(G, F) => Separate(G, F)'
<1>1. Chained(G, before, last, s) => Chained(G, before, last, s)'
  BY DEF Chained, SameGlobal
<1>2. Hinted(before, last) => Hinted(before, last)'
  BY DEF Hinted, SameGlobal
<1>3. Filled(before, last) /\ op'.entry = op.entry => Filled(before, last)'
  BY DEF Filled, SameGlobal
<1>4. Separate(G, F) => Separate(G, F)'
  BY DEF Separate
<1> QED BY <1>1, <1>2, <1>3, <1>4

(***************************************************************************)
(* DATA objects that keep their link states refer to the same arrays.      *)
(***************************************************************************)
LEMMA PostingsKept ==
  ASSUME NEW F, RefersWithin(F), SameLinks, DOMAIN data' = DOMAIN data,
         \A it \in op'.items \cup op'.left :
           \/ it \in op.items \cup op.left
           \/ it.array \in F \cup {0} /\ it.tail \in F \cup {0}
  PROVE  RefersWithin(F)'
BY DEF RefersWithin, SameLinks

LEMMA LinksSame ==
  ASSUME data' = data
  PROVE  SameLinks /\ DOMAIN data' = DOMAIN data
BY DEF SameLinks

-----------------------------------------------------------------------------
(* The steps. *)

\* The invariants of the running writer that the list rests on.
BaseInv ==
  TypeOK /\ ArenaInv /\ SeqnumInv /\ RequestInv /\ StampInv /\ FreshInv

LEMMA BaseInit == Init => BaseInv
BY TypeInit, ArenaInit, SeqnumInit, RequestInit, StampInit, FreshInit DEF BaseInv

LEMMA BaseNext == BaseInv /\ [Next]_vars => BaseInv'
BY TypeNext, ArenaNext, SeqnumNext, RequestNext, StampNext, FreshNext DEF BaseInv

LEMMA LogSame ==
  ASSUME BaseInv, [Next]_vars, ~CommitCount
  PROVE  SameLog
<1>1. Uncommitted
  BY LogKept DEF BaseInv
<1>2. EntryWriteOnce
  BY WriteOnceNext DEF BaseInv
<1> QED BY <1>1, <1>2 DEF Uncommitted, EntryWriteOnce, SameLog

LEMMA ListInit == Init => ListInv
<1> SUFFICES ASSUME Init PROVE ListInv
  OBVIOUS
<1> DEFINE s == [i \in {} |-> 0]
<1>1. /\ hdr.n_entries = 0 /\ hdr.entry_array = 0 /\ DOMAIN data = {} /\ DOMAIN entry = {}
      /\ pc = "idle" /\ op.items = {} /\ op.left = {} /\ DOMAIN array = {}
  BY DEF Init, NoOp
<1>2. Lists(s)
  <2>1. 1..hdr.n_entries = {} /\ CommittedByNumber = {}
    BY <1>1 DEF CommittedByNumber
  <2> QED BY <2>1 DEF Lists
<1>3. Chained({}, s, 0, s)
  BY <1>1 DEF Chained
<1>4. Separate({}, {}) /\ RefersWithin({})
  BY <1>1 DEF Separate, RefersWithin
<1>5. Phase({}, {}, s, 0)
  <2>1. pc \notin Unplaced \cup Placed \cup Growing \cup {"entry", "place", "global_header"}
    BY <1>1 DEF Unplaced, Placed, Growing, Request, FieldSteps, Commits
  <2>2. Hinted(s, 0)
    BY <1>1 DEF Hinted
  <2> QED BY <2>1, <2>2 DEF Phase, Placed, Growing
<1> HIDE DEF s
<1> QED BY <1>2, <1>3, <1>4, <1>5 DEF ListInv, ListParts

(***************************************************************************)
(* The end of a call, for whatever reason, and the start of the next.      *)
(***************************************************************************)
LEMMA ListOutside ==
  ASSUME BaseInv, BaseInv', [Next]_vars, NEW G, NEW F, NEW before, NEW last, NEW s,
         ListParts(G, F, before, last, s),
         UNCHANGED vars \/ Call \/ Leave \/ Publish \/ FailPublish
  PROVE  ListParts(G, F, before, last, s)'
<1>1. CASE UNCHANGED vars
  <2>1. /\ data' = data /\ entry' = entry /\ array' = array /\ hdr' = hdr /\ w' = w
        /\ pc' = pc /\ op' = op
    BY <1>1 DEF vars
  <2>2. CommittedByNumber' = CommittedByNumber
    BY <2>1 DEF CommittedByNumber
  <2> QED BY <2>1, <2>2 DEF ListParts, Lists, Chained, Phase, Separate, RefersWithin, Hinted,
                           Filled, Unlinked, GrowReady, SlotReady
<1>2. CASE Call \/ Leave \/ Publish \/ FailPublish
  <2>1. /\ data' = data /\ entry' = entry /\ array' = array /\ hdr' = hdr
        /\ pc' \in {"idle", "field"}
    BY <1>2, CallFrame, LeaveFrame, EndPoisoned DEF objects, BaseInv
  <2>2. op'.items = {} /\ op'.left = {}
    <3>1. NoOp.items = {} /\ NoOp.left = {}
      BY DEF NoOp
    <3>2. CASE op' = NoOp
      BY <3>1, <3>2
    <3>3. CASE Leave \/ Publish \/ FailPublish
      <4>1. op' = NoOp
        BY <3>3 DEF Leave, RejectField, FinishEmpty, FailAppend, Overflow, Publish,
                   FailPublish, Return
      <4> QED BY <3>2, <4>1
    <3>4. CASE Call
      <4>1. CASE RefusePoisoned \/ \E q \in SeqnumOptions, b \in Boots, m \in Monotonics :
                                     RefuseOptions(q, b, m)
        BY <3>2, <4>1 DEF RefuseOptions, RefusePoisoned, Return
      <4>2. ASSUME NEW fields, NEW q, NEW b, NEW m, NEW trusted, BeginAppend(fields, q, b, m, trusted)
            PROVE  op'.items = {} /\ op'.left = {}
        BY <4>2 DEF BeginAppend, NoOp
      <4> QED BY <3>4, <4>1, <4>2 DEF Call
    <3> QED BY <1>2, <3>3, <3>4
  <2>3. ~CommitCount
    BY <2>1 DEF CommitCount, Goto
  <2>4. SameLog /\ SameGlobal
    BY <2>1, <2>3, LogSame DEF SameGlobal
  <2>5. Hinted(before, last) => Phase(G, F, before, last)'
    <3>1. pc' \notin Placed \cup Growing \cup {"entry", "place", "global_header"}
      BY <2>1 DEF Placed, Growing, Commits
    <3> QED BY <2>1, <2>4, <3>1, ChainKept DEF Phase, Placed, Growing
  <2>6. pc' = "idle" /\ w'.poisoned => Phase(G, F, before, last)'
    BY DEF Phase, Placed, Growing, Unplaced, Request, FieldSteps, Commits
  <2>7. pc \in Unplaced \/ (pc = "idle" /\ ~w.poisoned) \/ (pc' = "idle" /\ w'.poisoned)
    <3>1. CASE Call
      BY <3>1, CallFrame DEF BaseInv
    <3>2. CASE Leave
      <4>1. w' = w /\ pc' = "idle"
        BY <3>2, LeaveFrame
      <4>2. pc \notin {"idle"} /\ pc # "field" => w.poisoned
        BY DEF BaseInv, ArenaInv, PoisonCover
      <4>3. pc # "idle"
        BY <3>2, LeaveCounters
      <4> QED BY <4>1, <4>2, <4>3 DEF Unplaced, Request
    <3>3. CASE Publish \/ FailPublish
      BY <3>3, EndPoisoned DEF BaseInv, Unplaced
    <3> QED BY <1>2, <3>1, <3>2, <3>3
  <2>8. Phase(G, F, before, last)'
    BY <2>5, <2>6, <2>7 DEF ListParts, Phase
  <2>9. RefersWithin(F)'
    BY <2>1, <2>2, LinksSame, PostingsKept DEF ListParts
  <2> QED BY <2>1, <2>4, <2>8, <2>9, ListsKept, ChainKept DEF ListParts, SameGlobal
<1> QED BY <1>1, <1>2

(***************************************************************************)
(* The steps of the field list know the arrays of the DATA objects only.   *)
(***************************************************************************)
LEMMA ListField ==
  ASSUME BaseInv, [Next]_vars, NEW G, NEW F, NEW before, NEW last, NEW s,
         ListParts(G, F, before, last, s),
         QuietField \/ CreateField \/ StartData \/ Finish
  PROVE  ListParts(G, F, before, last, s)'
<1>0. TypeOK /\ FreshInv /\ hdr \in Header
  BY DEF BaseInv, TypeOK, HeaderOK
<1>1. array' = array /\ SameGlobal
  BY <1>0 DEF QuietField, SkipField, ReuseData, LinkDataHash, PublishDataBucket, CountData,
              CachedField, FoundField, LinkFieldHash, PublishFieldBucket, CountField,
              SetNextField, SetHeadData, CreateField, WriteData, WriteField, StartData, Finish,
              objects, SameGlobal, Header
<1>2. pc \in Request /\ pc' \in Request \cup {"entry"}
  BY <1>0, QuietFieldFrame, CreateFieldFrame, StartPoisoned DEF Request, FieldSteps
<1>3. ~CommitCount
  BY <1>2 DEF CommitCount, Request, FieldSteps
<1>4. SameLog
  BY <1>3, LogSame
<1>5. Phase(G, F, before, last)'
  <2>1. Hinted(before, last)'
    BY <1>1, <1>2, ChainKept DEF ListParts, Phase, Unplaced
  <2>2. pc' = "entry" => op'.cur = 0
    <3>1. CASE Finish
      BY <1>0, <3>1 DEF Finish, FreshInv
    <3>2. CASE ~Finish
      BY <1>0, <3>2, QuietFieldFrame, CreateFieldFrame DEF StartData, Goto, Request, FieldSteps
    <3> QED BY <3>1, <3>2
  <2>3. pc' \notin Placed \cup Growing \cup {"place", "global_header", "idle"}
    BY <1>2 DEF Placed, Growing, Commits, Request, FieldSteps
  <2> QED BY <2>1, <2>2, <2>3 DEF Phase, Placed, Growing
<1>6. RefersWithin(F)'
  <2>1. CASE StartData \/ Finish \/ WriteField \/ SkipField \/ PublishDataBucket \/ CountData
             \/ CachedField \/ FoundField \/ LinkFieldHash \/ PublishFieldBucket \/ CountField
    <3>1. data' = data /\ op'.items = op.items /\ op'.left = op.left
      BY <1>0, <2>1
         DEF StartData, Finish, WriteField, SkipField, PublishDataBucket, CountData, CachedField,
             FoundField, LinkFieldHash, PublishFieldBucket, CountField, objects, TypeOK, CallOK, Locals
    <3> QED BY <3>1, LinksSame, PostingsKept DEF ListParts
  <2>2. CASE LinkDataHash \/ SetNextField
    <3>1. SameLinks /\ DOMAIN data' = DOMAIN data
      BY <1>0, <2>2, LinksSame, DataStores DEF LinkDataHash, SetNextField
    <3>2. op' = op
      BY <2>2 DEF LinkDataHash, SetNextField
    <3> QED BY <3>1, <3>2, PostingsKept DEF ListParts
  <2>3. CASE ReuseData
    <3>1. PICK d \in FindData(Payload) :
            op' = [op EXCEPT !.todo = Tail(@),
                             !.items = AddItem(d, data[d].n, data[d].array,
                                               data[d].tail, data[d].tail_n)]
      BY <2>3 DEF ReuseData
    <3>2. d \in DOMAIN data /\ data' = data /\ pc = "field"
      BY <2>3 DEF FindData, ReuseData, AtField, objects
    <3>3. op'.items = AddItem(d, data[d].n, data[d].array, data[d].tail, data[d].tail_n)
          /\ op'.left = op.left
      BY <1>0, <3>1 DEF TypeOK, CallOK, Locals
    <3>4. d \in Nat /\ data[d] \in DataObject
      BY <1>0, <3>2 DEF TypeOK, ObjectsOK, Offsets
    <3>5. \A it \in op'.items : it \in op.items \/ (it.array = data[d].array /\ it.tail = data[d].tail)
      <4>1. data[d].n \in Nat /\ data[d].array \in Nat /\ data[d].tail \in Nat /\ data[d].tail_n \in Nat
        BY <3>4 DEF DataObject
      <4>2. Numbered(op.items)
        BY <1>0, <3>2 DEF FreshInv
      <4> DEFINE n == data[d].n
                 a == data[d].array
                 t == data[d].tail
                 tn == data[d].tail_n
      <4>3. \A it \in AddItem(d, n, a, t, tn) : 
              \/ it \in op.items
              \/ it.offset = d /\ it.n = n /\ it.array = a /\ it.tail = t /\ it.tail_n = tn
        <5>0. TypeOK
          BY <1>0
        <5>1. d \in Nat /\ n \in Nat /\ a \in Nat /\ t \in Nat /\ tn \in Nat
          BY <3>4, <4>1
        <5> HIDE DEF n, a, t, tn
        <5> QED BY ONLY <5>0, <5>1, <4>2, AddItemNumbered
      <4> QED BY <3>3, <4>3
    <3>6. data[d].array \in F \cup {0} /\ data[d].tail \in F \cup {0}
      BY <3>2 DEF ListParts, RefersWithin
    <3> QED BY <3>2, <3>3, <3>5, <3>6, LinksSame, PostingsKept DEF ListParts
  <2>4. CASE SetHeadData
    <3>1. data' = data /\ pc = "head_data"
      BY <2>4 DEF SetHeadData
    <3>2. op'.items = AddItem(op.cur, 0, 0, 0, 0) /\ op'.left = op.left
      BY <1>0, <2>4 DEF SetHeadData, TypeOK, CallOK, Locals
    <3>3. op.cur \in Nat
      BY <1>0 DEF TypeOK, CallOK, Locals
    <3>4. \A it \in op'.items : it \in op.items \/ (it.array = 0 /\ it.tail = 0)
      BY <1>0, <3>1, <3>2, <3>3, AddItemNumbered DEF FreshInv, FieldSteps
    <3> QED BY <3>1, <3>2, <3>4, LinksSame, PostingsKept DEF ListParts
  <2>5. CASE WriteData
    <3> DEFINE o == w.append_offset
    <3>1. PICK v : /\ data' = Put(data, o, v) /\ v.array = 0 /\ v.tail = 0
      <4>1. \A k : Word(o, k) = 0
        BY <1>0 DEF FreshInv, Word
      <4> QED BY <2>5, <4>1 DEF WriteData
    <3>2. op'.items = op.items /\ op'.left = op.left
      BY <1>0, <2>5 DEF WriteData, TypeOK, CallOK, Locals
    <3>3. \A d \in DOMAIN data' : data'[d] = v \/ (d \in DOMAIN data /\ data'[d] = data[d])
      BY <3>1 DEF Put
    <3> QED BY <3>1, <3>2, <3>3 DEF ListParts, RefersWithin
  <2> QED BY <2>1, <2>2, <2>3, <2>4, <2>5 DEF QuietField, CreateField
<1> QED BY <1>1, <1>4, <1>5, <1>6, ListsKept, ChainKept DEF ListParts, SameGlobal

(***************************************************************************)
(* A step that changes no array of the chain.                              *)
(***************************************************************************)
LEMMA ChainUntouched ==
  ASSUME NEW G, NEW before, NEW last, NEW s, SameGlobal, Chained(G, before, last, s),
         \A a \in G : a \in DOMAIN array' /\ array'[a] = array[a]
  PROVE  /\ Chained(G, before, last, s)'
         /\ Hinted(before, last) => Hinted(before, last)'
         /\ Filled(before, last) /\ op'.entry = op.entry => Filled(before, last)'
<1>1. CASE hdr.entry_array = 0
  BY <1>1 DEF Chained, Hinted, Filled, SameGlobal
<1>2. CASE hdr.entry_array # 0
  <2>1. IsChain(array, G, before, hdr.entry_array, last) /\ last \in G
    BY <1>2 DEF Chained, IsChain
  <2>2. IsChain(array', G, before, hdr'.entry_array, last)
    BY <2>1 DEF IsChain, SameGlobal
  <2>3. Holding(array', G, before, hdr'.n_entries, s)
    BY <1>2 DEF Chained, Holding, SameGlobal
  <2>4. Chained(G, before, last, s)'
    BY <1>2, <2>1, <2>2, <2>3 DEF Chained, SameGlobal
  <2>5. Hinted(before, last) => Hinted(before, last)'
    BY DEF Hinted, SameGlobal
  <2>6. Filled(before, last) /\ op'.entry = op.entry => Filled(before, last)'
    BY <2>1 DEF Filled, SameGlobal
  <2> QED BY <2>4, <2>5, <2>6
<1> QED BY <1>1, <1>2

LEMMA ChainInFile ==
  ASSUME NEW G, NEW before, NEW last, NEW s, Chained(G, before, last, s)
  PROVE  G \subseteq DOMAIN array /\ (hdr.entry_array # 0 => last \in G)
BY DEF Chained, IsChain

LEMMA CapacityPositive ==
  ASSUME NEW i \in Nat, NEW p \in Nat
  PROVE  NextCapacity(i, p) \in Nat \ {0}
<1>1. MinCapacity \in Nat \ {0}
  BY ConstantsAssumption DEF ConstantsAssumption
<1> QED BY <1>1 DEF NextCapacity, Max2

(***************************************************************************)
(* allocate_new_array adds an array with empty links and slots at the end  *)
(* of the file.                                                            *)
(***************************************************************************)
LEMMA AllocateFacts ==
  ASSUME BaseInv, NEW c \in Nat \ {0}, Allocate(c)
  PROVE  /\ w.append_offset \notin DOMAIN array
         /\ DOMAIN array' = DOMAIN array \cup {w.append_offset}
         /\ \A a \in DOMAIN array : array'[a] = array[a]
         /\ array'[w.append_offset].next = 0 /\ Len(array'[w.append_offset].slots) > 0
         /\ SameGlobal /\ w.append_offset # 0
<1> DEFINE o == w.append_offset
<1>0. TypeOK /\ ArenaInv /\ DOMAIN residue = {} /\ o \in Nat /\ o >= 3
  BY ArenaNumbers DEF BaseInv, FreshInv
<1>1. o \notin DOMAIN array
  BY <1>0 DEF ArenaInv
<1>2. array' = Put(array, o, NewArray(o, c)) /\ hdr' = [hdr EXCEPT !.n_arrays = @ + 1]
  BY DEF Allocate
<1>3. NewArray(o, c).next = 0 /\ NewArray(o, c).slots = [i \in 1..c |-> Word(o, i + 2)]
  BY <1>0 DEF NewArray, Word
<1>4. Len(NewArray(o, c).slots) = c
  <2>1. \A i \in 1..c : Word(o, i + 2) = 0
    BY <1>0 DEF Word
  <2>2. [i \in 1..c |-> Word(o, i + 2)] \in Seq(Nat) /\ Len([i \in 1..c |-> Word(o, i + 2)]) = c
    BY <2>1
  <2> QED BY <1>3, <2>2
<1>5. SameGlobal
  BY <1>0, <1>2 DEF SameGlobal, TypeOK, HeaderOK, Header
<1> HIDE DEF o
<1>6. /\ DOMAIN array' = DOMAIN array \cup {o}
      /\ \A a \in DOMAIN array : array'[a] = array[a]
      /\ array'[o] = NewArray(o, c)
  BY <1>1, <1>2 DEF Put
<1>7. array'[o].next = 0 /\ Len(array'[o].slots) > 0 /\ o # 0
  BY <1>0, <1>3, <1>4, <1>6
<1> QED BY <1>1, <1>5, <1>6, <1>7 DEF o

LEMMA SeparateGrows ==
  ASSUME NEW G, NEW F, NEW o, Separate(G, F), G \subseteq DOMAIN array, o \notin DOMAIN array,
         DOMAIN array' = DOMAIN array \cup {o}, \A a \in DOMAIN array : array'[a] = array[a],
         array'[o].next = 0
  PROVE  Separate(G, F)' /\ Separate(G, F \cup {o})'
BY DEF Separate

(***************************************************************************)
(* The ENTRY object, and the choice of its slot in the global array.       *)
(***************************************************************************)
LEMMA ListPlace ==
  ASSUME BaseInv, BaseInv', [Next]_vars, NEW G, NEW F, NEW before, NEW last, NEW s,
         ListParts(G, F, before, last, s),
         WriteEntry \/ PlaceFirst \/ PlaceInTail \/ PlaceInNew
  PROVE  ListParts(G, F, before, last, s)'
<1>0. TypeOK /\ hdr \in Header /\ op \in Locals
  BY DEF BaseInv, TypeOK, HeaderOK, CallOK
<1>a. /\ Lists(s) /\ Chained(G, before, last, s) /\ Phase(G, F, before, last)
      /\ Separate(G, F) /\ RefersWithin(F)
  BY DEF ListParts
<1>b. pc \in {"entry", "place"} /\ Hinted(before, last) /\ op.cur = 0
  BY <1>a DEF WriteEntry, PlaceFirst, PlaceInTail, PlaceInNew, Phase, Unplaced
<1>c. G \subseteq DOMAIN array /\ (hdr.entry_array # 0 => last \in G)
  BY <1>a, ChainInFile
<1>1. ~CommitCount
  BY <1>b DEF CommitCount
<1>2. SameLog
  BY <1>1, LogSame
<1>3. CASE WriteEntry
  <2>1. /\ array' = array /\ hdr' = hdr /\ data' = data /\ pc' = "place"
        /\ op'.items = op.items /\ op'.left = op.items /\ op'.cur = op.cur
    BY <1>0, <1>3 DEF WriteEntry, Goto, Locals
  <2>2. SameGlobal
    BY <2>1 DEF SameGlobal
  <2>3. Phase(G, F, before, last)'
    BY <1>b, <2>1, <2>2, ChainKept DEF Phase, Placed, Growing, Commits
  <2>4. RefersWithin(F)'
    BY <1>a, <2>1, LinksSame, PostingsKept
  <2> QED BY <1>a, <1>2, <2>1, <2>2, <2>3, <2>4, ListsKept, ChainKept DEF ListParts, SameGlobal
<1>4. CASE PlaceFirst
  <2>1. /\ data' = data /\ pc' = "set_slot" /\ op'.items = op.items /\ op'.left = op.left
        /\ op'.cur = 0 /\ op'.arr = w.append_offset /\ op'.slot = 0 /\ hdr.entry_array = 0
        /\ Allocate(MinCapacity)
    BY <1>0, <1>4, <1>b DEF PlaceFirst, Goto, Locals
  <2>2. MinCapacity \in Nat \ {0}
    BY ConstantsAssumption DEF ConstantsAssumption
  <2>3. /\ w.append_offset \notin DOMAIN array
        /\ DOMAIN array' = DOMAIN array \cup {w.append_offset}
        /\ \A a \in DOMAIN array : array'[a] = array[a]
        /\ array'[w.append_offset].next = 0 /\ Len(array'[w.append_offset].slots) > 0
        /\ SameGlobal /\ w.append_offset # 0
    BY <2>1, <2>2, AllocateFacts
  <2>4. Chained(G, before, last, s)'
    BY <1>a, <1>c, <2>3, ChainUntouched
  <2>5. Separate(G, F)'
    BY <1>a, <1>c, <2>3, SeparateGrows
  <2>6. Unlinked(op.arr, G, F)'
    BY <1>a, <1>c, <2>1, <2>3 DEF Unlinked, Separate
  <2>7. Phase(G, F, before, last)'
    BY <2>1, <2>3, <2>6 DEF Phase, SlotReady, SameGlobal, Placed, Growing, Commits, Unplaced,
                           Request, FieldSteps
  <2>8. RefersWithin(F)'
    BY <1>a, <2>1, LinksSame, PostingsKept
  <2> QED BY <1>a, <1>2, <2>3, <2>4, <2>5, <2>7, <2>8, ListsKept DEF ListParts, SameGlobal
<1>5. CASE PlaceInTail \/ PlaceInNew
  <2>1. hdr.entry_array # 0 /\ last \in G /\ last \in DOMAIN array
    BY <1>5, <1>c DEF PlaceInTail, PlaceInNew
  <2>2. /\ hdr.tail_array = last /\ hdr.tail_array_n > 0
        /\ before[last] + hdr.tail_array_n = hdr.n_entries
    BY <1>b, <2>1 DEF Hinted
  <2>3. /\ before[last] \in Nat /\ hdr.n_entries \in Nat /\ hdr.tail_array_n \in Nat
        /\ Len(array[last].slots) \in Nat /\ last # 0 /\ last \in Nat
        /\ hdr.n_entries <= before[last] + Len(array[last].slots)
    <3>1. IsChain(array, G, before, hdr.entry_array, last)
          /\ hdr.n_entries <= before[last] + Len(array[last].slots)
      BY <1>a, <2>1 DEF Chained
    <3>2. before[last] \in Nat
      BY <2>1, <3>1 DEF IsChain
    <3>3. hdr.n_entries \in Nat /\ hdr.tail_array_n \in Nat
      BY <1>0 DEF Header
    <3>4. Len(array[last].slots) \in Nat /\ last \in Nat
      BY <1>0, <2>1, SlotsType
    <3>5. last # 0
      BY <1>0, <2>1 DEF TypeOK, ObjectsOK, Offsets
    <3> QED BY <3>1, <3>2, <3>3, <3>4, <3>5
  <2>4. GlobalTail = last /\ GlobalUsed = hdr.tail_array_n
    BY <2>2, <2>3 DEF GlobalTail, GlobalUsed
  <2>5. CASE PlaceInTail
    <3>1. /\ array' = array /\ hdr' = hdr /\ data' = data /\ pc' = "set_slot"
          /\ op'.items = op.items /\ op'.left = op.left /\ op'.cur = 0
          /\ op'.arr = last /\ op'.slot = hdr.tail_array_n
          /\ hdr.tail_array_n < Len(array[last].slots)
      <4>1. /\ array' = array /\ hdr' = hdr /\ data' = data /\ pc' = "set_slot"
            /\ op' = [op EXCEPT !.arr = last, !.slot = hdr.tail_array_n]
            /\ hdr.tail_array_n \in 0..(Len(array[last].slots) - 1)
        BY <2>4, <2>5 DEF PlaceInTail, Goto, objects
      <4>2. /\ op'.items = op.items /\ op'.left = op.left /\ op'.cur = 0
            /\ op'.arr = last /\ op'.slot = hdr.tail_array_n
        BY ONLY <1>0, <1>b, <4>1 DEF Locals
      <4>3. hdr.tail_array_n < Len(array[last].slots)
        BY ONLY <2>3, <4>1
      <4> QED BY ONLY <4>1, <4>2, <4>3
    <3>2. SameGlobal
      BY <3>1 DEF SameGlobal
    <3>3. SlotReady(G, F, before, last)'
      BY <2>1, <2>2, <3>1 DEF SlotReady
    <3>4. Phase(G, F, before, last)'
      BY <3>1, <3>3 DEF Phase, Placed, Growing, Commits, Unplaced, Request, FieldSteps
    <3>5. RefersWithin(F)'
      BY <1>a, <3>1, LinksSame, PostingsKept
    <3> QED BY <1>a, <1>2, <3>1, <3>2, <3>4, <3>5, ListsKept, ChainKept DEF ListParts, SameGlobal
  <2>6. CASE PlaceInNew
    <3> DEFINE c == NextCapacity(hdr.n_entries, Len(array[last].slots))
    <3>1. /\ data' = data /\ pc' = "link_array" /\ op'.items = op.items /\ op'.left = op.left
          /\ op'.cur = 0 /\ op'.arr = w.append_offset /\ op'.slot = 0 /\ op'.prev = last
          /\ Allocate(c) /\ hdr.tail_array_n >= Len(array[last].slots)
      BY <1>0, <1>b, <2>4, <2>6 DEF PlaceInNew, Goto, Locals
    <3>2. c \in Nat \ {0}
      BY <2>3, CapacityPositive
    <3> HIDE DEF c
    <3>3. /\ w.append_offset \notin DOMAIN array
          /\ DOMAIN array' = DOMAIN array \cup {w.append_offset}
          /\ \A a \in DOMAIN array : array'[a] = array[a]
          /\ array'[w.append_offset].next = 0 /\ Len(array'[w.append_offset].slots) > 0
          /\ SameGlobal /\ w.append_offset # 0
      BY <3>1, <3>2, AllocateFacts
    <3>4. Chained(G, before, last, s)'
      BY <1>a, <1>c, <3>3, ChainUntouched
    <3>5. Separate(G, F)'
      BY <1>a, <1>c, <3>3, SeparateGrows
    <3>6. Unlinked(op.arr, G, F)'
      BY <1>a, <1>c, <3>1, <3>3 DEF Unlinked, Separate
    <3>7. hdr.n_entries = before[last] + Len(array[last].slots)
      BY <2>2, <2>3, <3>1
    <3>8. GrowReady(G, F, before, last)'
      BY <2>1, <3>1, <3>3, <3>6, <3>7 DEF GrowReady, SameGlobal
    <3>9. Phase(G, F, before, last)'
      BY <3>1, <3>8 DEF Phase, Placed, Growing, Commits, Unplaced, Request, FieldSteps
    <3>10. RefersWithin(F)'
      BY <1>a, <3>1, LinksSame, PostingsKept
    <3> QED BY <1>a, <1>2, <3>3, <3>4, <3>5, <3>9, <3>10, ListsKept DEF ListParts, SameGlobal
  <2> QED BY <1>5, <2>5, <2>6
<1> QED BY <1>3, <1>4, <1>5

(***************************************************************************)
(* A full tail gets a successor: the chain is one array longer, and all of *)
(* its counted slots are where they were.                                  *)
(***************************************************************************)
LEMMA ChainGrows ==
  ASSUME NEW G, NEW before, NEW last, NEW s, NEW o,
         TypeOK, hdr.entry_array # 0, Chained(G, before, last, s),
         o \in DOMAIN array \ G, array[o].next = 0, Len(array[o].slots) > 0,
         hdr.n_entries = before[last] + Len(array[last].slots),
         array' = [array EXCEPT ![last].next = o], SameGlobal,
         NEW longer, longer = [a \in G \cup {o} |-> IF a = o THEN hdr.n_entries ELSE before[a]]
  PROVE  Chained(G \cup {o}, longer, o, s)'
<1>1. /\ IsChain(array, G, before, hdr.entry_array, last)
      /\ Holding(array, G, before, hdr.n_entries, s)
  BY DEF Chained
<1>2. last \in G /\ G \subseteq DOMAIN array /\ before \in [G -> Nat] /\ last # o
  BY <1>1 DEF IsChain
<1>3. \A a \in DOMAIN array : array[a] \in ArrayObject /\ Len(array[a].slots) \in Nat
  BY SlotsType
<1>4. /\ DOMAIN array' = DOMAIN array
      /\ \A a \in DOMAIN array : array'[a].slots = array[a].slots
      /\ \A a \in DOMAIN array : a # last => array'[a].next = array[a].next
      /\ array'[last].next = o
  BY <1>2, <1>3 DEF ArrayObject
<1>5. hdr.n_entries \in Nat
  BY DEF TypeOK, HeaderOK, Header
<1>6. /\ longer \in [G \cup {o} -> Nat] /\ longer[o] = hdr.n_entries
      /\ \A a \in G : longer[a] = before[a]
  BY <1>2, <1>5
<1>7. IsChain(array', G \cup {o}, longer, hdr'.entry_array, o)
  <2>1. /\ G \cup {o} \subseteq DOMAIN array' /\ hdr'.entry_array \in G \cup {o}
        /\ longer[hdr'.entry_array] = 0 /\ array'[o].next = 0
    BY <1>1, <1>2, <1>4, <1>6 DEF IsChain, SameGlobal
  <2>2. \A a \in G \cup {o} : Len(array'[a].slots) > 0
    BY <1>1, <1>2, <1>4 DEF IsChain
  <2>3. ASSUME NEW a \in (G \cup {o}) \ {o}
        PROVE  /\ array'[a].next \in G \cup {o}
               /\ longer[array'[a].next] = longer[a] + Len(array'[a].slots)
               /\ longer[a] + Len(array'[a].slots) <= longer[o]
    <3>1. CASE a = last
      BY <1>2, <1>4, <1>5, <1>6, <3>1
    <3>2. CASE a # last
      <4>1. a \in G /\ array'[a].next = array[a].next /\ array'[a].slots = array[a].slots
        BY <1>2, <1>4, <2>3, <3>2
      <4>2. /\ array[a].next \in G /\ before[array[a].next] = before[a] + Len(array[a].slots)
            /\ before[a] + Len(array[a].slots) <= before[last]
        BY <1>1, <3>2, <4>1 DEF IsChain
      <4>3. /\ before[a] \in Nat /\ before[last] \in Nat
            /\ Len(array[a].slots) \in Nat /\ Len(array[last].slots) \in Nat
        BY <1>2, <1>3, <4>1
      <4>4. before[a] + Len(array[a].slots) <= hdr.n_entries
        <5>1. PICK x, y, z : /\ x = before[a] + Len(array[a].slots)
                             /\ y = before[last] /\ z = Len(array[last].slots)
          OBVIOUS
        <5>2. x \in Nat /\ y \in Nat /\ z \in Nat /\ x <= y /\ hdr.n_entries = y + z
          BY <4>2, <4>3, <5>1
        <5>3. x <= y + z
          BY ONLY <5>2
        <5> QED BY ONLY <5>1, <5>2, <5>3
      <4>5. /\ longer[a] = before[a] /\ longer[array[a].next] = before[array[a].next]
            /\ longer[o] = hdr.n_entries
        BY ONLY <1>6, <4>1, <4>2, o \notin G
      <4> QED BY ONLY <4>1, <4>2, <4>4, <4>5
    <3> QED BY <3>1, <3>2
  <2> QED BY <1>6, <2>1, <2>2, <2>3 DEF IsChain
<1>8. Holding(array', G \cup {o}, longer, hdr'.n_entries, s)
  <2> SUFFICES ASSUME NEW a \in G \cup {o}, NEW j \in 1..Len(array'[a].slots),
                      longer[a] + j <= hdr.n_entries
               PROVE  array'[a].slots[j] = s[longer[a] + j]
    BY DEF Holding, SameGlobal
  <2>0. a \in DOMAIN array /\ array'[a].slots = array[a].slots /\ Len(array[a].slots) \in Nat
    BY <1>2, <1>3, <1>4
  <2>1. a # o
    BY <1>5, <1>6, <2>0
  <2> QED BY <1>1, <1>6, <2>0, <2>1 DEF Holding
<1>9. hdr'.n_entries <= longer[o] + Len(array'[o].slots)
  BY <1>3, <1>4, <1>5, <1>6 DEF SameGlobal
<1> QED BY <1>7, <1>8, <1>9 DEF Chained, SameGlobal

(***************************************************************************)
(* A store to a slot behind the counted ones.                              *)
(***************************************************************************)
LEMMA ChainSlot ==
  ASSUME NEW G, NEW before, NEW last, NEW s, NEW i \in Nat, NEW v \in Nat,
         TypeOK, hdr.entry_array # 0, Chained(G, before, last, s),
         before[last] + i = hdr.n_entries, i < Len(array[last].slots),
         array' = [array EXCEPT ![last].slots[i + 1] = v], SameGlobal
  PROVE  Chained(G, before, last, s)' /\ array'[last].slots[i + 1] = v
<1>1. /\ IsChain(array, G, before, hdr.entry_array, last)
      /\ Holding(array, G, before, hdr.n_entries, s)
      /\ hdr.n_entries <= before[last] + Len(array[last].slots)
  BY DEF Chained
<1>2. last \in G /\ G \subseteq DOMAIN array /\ before[last] \in Nat
  BY <1>1 DEF IsChain
<1>3. \A a \in DOMAIN array : /\ array[a] \in ArrayObject /\ Len(array[a].slots) \in Nat
                              /\ array[a].slots \in Seq(Nat)
  BY SlotsType
<1>4. /\ DOMAIN array' = DOMAIN array
      /\ \A a \in DOMAIN array : array'[a].next = array[a].next
      /\ \A a \in DOMAIN array : a # last => array'[a].slots = array[a].slots
      /\ array'[last].slots = [array[last].slots EXCEPT ![i + 1] = v]
  BY <1>2, <1>3 DEF ArrayObject
<1>5. /\ Len(array'[last].slots) = Len(array[last].slots)
      /\ \A j \in 1..Len(array[last].slots) : j # i + 1 => array'[last].slots[j] = array[last].slots[j]
      /\ array'[last].slots[i + 1] = v
  <2>1. PICK p \in Seq(Nat) : p = array[last].slots
    BY <1>2, <1>3
  <2>2. /\ Len([p EXCEPT ![i + 1] = v]) = Len(p)
        /\ \A j \in 1..Len(p) : j # i + 1 => [p EXCEPT ![i + 1] = v][j] = p[j]
        /\ i + 1 \in 1..Len(p) => [p EXCEPT ![i + 1] = v][i + 1] = v
    OBVIOUS
  <2>3. i + 1 \in 1..Len(p)
    BY <2>1
  <2> QED BY <1>4, <2>1, <2>2, <2>3
<1>6. \A a \in G : Len(array'[a].slots) = Len(array[a].slots) /\ array'[a].next = array[a].next
  BY <1>2, <1>4, <1>5
<1>7. IsChain(array', G, before, hdr'.entry_array, last)
  BY <1>1, <1>2, <1>4, <1>6 DEF IsChain, SameGlobal
<1>8. Holding(array', G, before, hdr'.n_entries, s)
  <2> SUFFICES ASSUME NEW a \in G, NEW j \in 1..Len(array[a].slots), before[a] + j <= hdr.n_entries
               PROVE  array'[a].slots[j] = array[a].slots[j]
    BY <1>1, <1>6 DEF Holding, SameGlobal
  <2>1. CASE a # last
    BY <1>2, <1>4, <2>1
  <2>2. CASE a = last
    <3>1. j # i + 1
      BY <1>2, <1>3, <2>2
    <3> QED BY <1>5, <2>2, <3>1
  <2> QED BY <2>1, <2>2
<1> QED BY <1>1, <1>5, <1>7, <1>8 DEF Chained, SameGlobal

LEMMA StoredArrays ==
  ASSUME TypeOK, NEW p \in DOMAIN array, NEW v,
         \/ array' = [array EXCEPT ![p].next = v]
         \/ \E i : array' = [array EXCEPT ![p].slots[i] = v]
  PROVE  /\ DOMAIN array' = DOMAIN array
         /\ \A a \in DOMAIN array : a # p => array'[a] = array[a]
BY DEF TypeOK, ObjectsOK

(***************************************************************************)
(* The old tail learns of the new array, the entry gets its slot.          *)
(***************************************************************************)
LEMMA ListGrow ==
  ASSUME BaseInv, [Next]_vars, NEW G, NEW F, NEW before, NEW last, NEW s,
         ListParts(G, F, before, last, s), op.cur = 0, LinkArray
  PROVE  ListInv'
<1>0. TypeOK
  BY DEF BaseInv
<1>a. /\ Lists(s) /\ Chained(G, before, last, s) /\ Separate(G, F) /\ RefersWithin(F)
      /\ GrowReady(G, F, before, last)
  BY DEF ListParts, LinkArray, Phase
<1>1. /\ array' = [array EXCEPT ![last].next = op.arr] /\ pc' = "set_slot" /\ pc = "link_array"
      /\ data' = data /\ hdr' = hdr /\ op' = op
  BY <1>a DEF LinkArray, Goto, GrowReady
<1>2. SameLog /\ SameGlobal
  BY <1>1, LogSame DEF CommitCount, SameGlobal
<1>3. /\ hdr.entry_array # 0 /\ op.slot = 0 /\ op.arr \in DOMAIN array \ (G \cup F)
      /\ array[op.arr].next = 0 /\ Len(array[op.arr].slots) > 0
      /\ hdr.n_entries = before[last] + Len(array[last].slots)
  BY <1>a DEF GrowReady, Unlinked
<1>4. last \in G /\ G \subseteq DOMAIN array /\ last \in DOMAIN array
  BY <1>a, <1>3, ChainInFile
<1> DEFINE H == G \cup {op.arr}
           longer == [a \in H |-> IF a = op.arr THEN hdr.n_entries ELSE before[a]]
<1>5. Chained(H, longer, op.arr, s)'
  <2>1. PICK o : o = op.arr
    OBVIOUS
  <2>2. PICK m : m = [a \in G \cup {o} |-> IF a = o THEN hdr.n_entries ELSE before[a]]
    OBVIOUS
  <2>3. /\ o \in DOMAIN array \ G /\ array[o].next = 0 /\ Len(array[o].slots) > 0
        /\ array' = [array EXCEPT ![last].next = o]
    BY <1>1, <1>3, <2>1
  <2>4. Chained(G \cup {o}, m, o, s)'
    BY ONLY <1>0, <1>2, <1>3, <1>a, <2>2, <2>3, ChainGrows
  <2>5. H' = G \cup {o} /\ longer' = m /\ op'.arr = o
    BY <1>1, <2>1, <2>2
  <2> QED BY ONLY <2>4, <2>5
<1>6. /\ DOMAIN array' = DOMAIN array
      /\ \A a \in DOMAIN array : a # last => array'[a] = array[a]
  BY <1>0, <1>1, <1>4, StoredArrays
<1>7. Separate(H, F)'
  <2>1. \A a \in F : a # last /\ a \in DOMAIN array /\ a \notin H
    BY <1>a, <1>3, <1>4 DEF Separate
  <2>2. H' = H /\ F \cap H = {}
    BY <1>1, <2>1
  <2> HIDE DEF H
  <2> QED BY <1>a, <1>6, <2>1, <2>2 DEF Separate
<1>8. Phase(H, F, longer, op.arr)'
  <2>1. array'[op.arr] = array[op.arr] /\ hdr.n_entries \in Nat
    BY <1>0, <1>3, <1>4, <1>6 DEF TypeOK, HeaderOK, Header
  <2>2. longer[op.arr] = hdr.n_entries
    OBVIOUS
  <2>3. SlotReady(H, F, longer, op.arr)'
    <3> HIDE DEF H, longer
    <3>1. longer'[op'.arr] = longer[op.arr]
      BY <1>1, <2>2 DEF longer, H
    <3> QED BY <1>1, <1>3, <2>1, <2>2, <3>1 DEF SlotReady
  <2> HIDE DEF H, longer
  <2> QED BY <1>1, <2>3 DEF Phase, Placed, Growing, Commits, Unplaced, Request, FieldSteps
<1>9. Lists(s)' /\ RefersWithin(F)'
  BY <1>1, <1>2, <1>a, ListsKept, LinksSame, PostingsKept DEF SameGlobal
<1> HIDE DEF H, longer
<1> QED BY <1>5, <1>7, <1>8, <1>9 DEF ListInv, ListParts

LEMMA ListSlot ==
  ASSUME BaseInv, [Next]_vars, NEW G, NEW F, NEW before, NEW last, NEW s,
         ListParts(G, F, before, last, s), op.cur = 0, SetSlot
  PROVE  ListParts(G, F, before, last, s)'
<1>0. TypeOK /\ op.slot \in Nat /\ op.entry \in Nat
  BY DEF BaseInv, TypeOK, CallOK, Locals
<1>a. /\ Lists(s) /\ Chained(G, before, last, s) /\ Separate(G, F) /\ RefersWithin(F)
      /\ SlotReady(G, F, before, last)
  BY DEF ListParts, SetSlot, Phase
<1>1. /\ array' = [array EXCEPT ![op.arr].slots[op.slot + 1] = op.entry]
      /\ pc' = "global_header" /\ pc = "set_slot"
      /\ data' = data /\ hdr' = hdr /\ op' = op /\ op.arr \in DOMAIN array
      /\ op.slot + 1 \in DOMAIN array[op.arr].slots
  BY DEF SetSlot, Goto
<1>2. SameLog /\ SameGlobal
  BY <1>1, LogSame DEF CommitCount, SameGlobal
<1>3. G \subseteq DOMAIN array /\ (hdr.entry_array # 0 => last \in G)
  BY <1>a, ChainInFile
<1>4. /\ DOMAIN array' = DOMAIN array
      /\ \A a \in DOMAIN array : a # op.arr => array'[a] = array[a]
  BY <1>0, <1>1, StoredArrays
<1>5. /\ array[op.arr] \in ArrayObject /\ array[op.arr].slots \in Seq(Nat)
      /\ Len(array[op.arr].slots) \in Nat
  BY <1>0, <1>1, SlotsType
<1>6. array'[op.arr].next = array[op.arr].next
      /\ array'[op.arr].slots = [array[op.arr].slots EXCEPT ![op.slot + 1] = op.entry]
  BY <1>0, <1>1, <1>5 DEF ArrayObject, TypeOK, ObjectsOK
<1>7. Len(array'[op.arr].slots) = Len(array[op.arr].slots)
      /\ array'[op.arr].slots[op.slot + 1] = op.entry
  <2>1. PICK p \in Seq(Nat) : p = array[op.arr].slots
    BY <1>5
  <2>2. /\ Len([p EXCEPT ![op.slot + 1] = op.entry]) = Len(p)
        /\ op.slot + 1 \in DOMAIN p => [p EXCEPT ![op.slot + 1] = op.entry][op.slot + 1] = op.entry
    BY <1>0
  <2> QED BY <1>1, <1>6, <2>1, <2>2
<1>8. Chained(G, before, last, s)'
  <2>1. CASE hdr.entry_array = 0
    BY <1>2, <1>a, <2>1 DEF Chained, SameGlobal
  <2>2. CASE hdr.entry_array # 0
    <3>1. op.arr = last /\ before[last] + op.slot = hdr.n_entries /\ op.slot < Len(array[last].slots)
      BY <1>a, <2>2 DEF SlotReady
    <3> QED BY <1>0, <1>1, <1>2, <1>a, <2>2, <3>1, ChainSlot
  <2> QED BY <2>1, <2>2
<1>9. op.arr \notin F
  BY <1>3, <1>a DEF SlotReady, Unlinked, Separate
<1>10. Separate(G, F)'
  <2>1. \A a \in F : array'[a] = array[a]
    BY <1>4, <1>9, <1>a DEF Separate
  <2> QED BY <1>4, <1>a, <2>1 DEF Separate
<1>11. SlotReady(G, F, before, last)'
  BY <1>1, <1>4, <1>6, <1>7, <1>a DEF SlotReady, Unlinked
<1>12. Phase(G, F, before, last)'
  BY <1>1, <1>7, <1>11 DEF Phase, Placed, Growing, Commits, Unplaced, Request, FieldSteps
<1>13. Lists(s)' /\ RefersWithin(F)'
  BY <1>1, <1>2, <1>a, ListsKept, LinksSame, PostingsKept DEF SameGlobal
<1> QED BY <1>8, <1>10, <1>12, <1>13 DEF ListParts

(***************************************************************************)
(* The header stores of the global array: the first array becomes a chain  *)
(* of one, and the hints name the array and slot of the entry.             *)
(***************************************************************************)
LEMMA ListHeader ==
  ASSUME BaseInv, [Next]_vars, MaxOffset < TailModulus,
         NEW G, NEW F, NEW before, NEW last, NEW s,
         ListParts(G, F, before, last, s), GlobalHeader
  PROVE  ListInv'
<1>0. /\ TypeOK /\ op.slot \in Nat /\ hdr \in Header /\ op \in Locals /\ hdr.n_entries \in Nat
  BY DEF BaseInv, TypeOK, CallOK, Locals, HeaderOK, Header
<1>a. /\ Lists(s) /\ Chained(G, before, last, s) /\ Separate(G, F) /\ RefersWithin(F)
      /\ SlotReady(G, F, before, last) /\ array[op.arr].slots[op.slot + 1] = op.entry
  BY DEF ListParts, GlobalHeader, Phase
<1>1. /\ array' = array /\ data' = data /\ pc = "global_header" /\ pc' = "link"
      /\ op'.items = op.items /\ op'.left = op.left /\ op'.entry = op.entry
      /\ hdr'.n_entries = hdr.n_entries /\ hdr'.tail_array_n = op.slot + 1
      /\ hdr'.tail_array = op.arr % TailModulus
      /\ hdr'.entry_array = IF hdr.entry_array = 0 THEN op.arr ELSE hdr.entry_array
  BY <1>0 DEF GlobalHeader, Goto, objects, Locals, Header
<1>2. SameLog
  BY <1>1, LogSame DEF CommitCount
<1>3. G \subseteq DOMAIN array /\ (hdr.entry_array # 0 => last \in G)
  BY <1>a, ChainInFile
<1>4. op.arr \in DOMAIN array
  BY <1>3, <1>a DEF SlotReady, Unlinked
<1>5. /\ op.arr \in Nat /\ op.arr # 0 /\ op.arr \in 0..(TailModulus - 1) /\ TailModulus \in Nat
      /\ Len(array[op.arr].slots) \in Nat
  <2>1. op.arr \in 1..MaxOffset /\ MaxOffset \in Nat /\ TailModulus \in Nat
    BY <1>0, <1>4, ConstantsAssumption DEF TypeOK, ObjectsOK, Offsets, ConstantsAssumption
  <2> QED BY <1>0, <1>4, <2>1, SlotsType
<1>6. hdr'.tail_array = op.arr
  BY <1>1, <1>5, SmallOffset
<1>7. Lists(s)' /\ RefersWithin(F)'
  BY <1>1, <1>2, <1>a, ListsKept, LinksSame, PostingsKept
<1>8. CASE hdr.entry_array = 0
  <2> DEFINE one == [a \in {op.arr} |-> 0]
  <2>1. hdr.n_entries = 0 /\ G = {} /\ op.slot = 0 /\ Unlinked(op.arr, G, F)
    BY <1>8, <1>a DEF Chained, SlotReady
  <2>2. hdr'.entry_array = op.arr /\ hdr'.n_entries = 0
    BY <1>1, <1>8, <2>1
  <2>3. IsChain(array, {op.arr}, one, op.arr, op.arr)
    BY <1>4, <2>1 DEF IsChain, Unlinked
  <2>4. Holding(array, {op.arr}, one, 0, s)
    BY <1>5 DEF Holding
  <2>5. one[op.arr] = 0
    OBVIOUS
  <2>6. PICK o, b : o = op.arr /\ b = one
    OBVIOUS
  <2> HIDE DEF one
  <2>7. Chained({o}, b, o, s)'
    BY <1>1, <1>5, <2>2, <2>3, <2>4, <2>5, <2>6 DEF Chained
  <2>8. Filled(b, o)'
    <3>1. /\ hdr'.entry_array # 0 /\ hdr'.tail_array = o /\ hdr'.tail_array_n = 1
          /\ hdr'.n_entries = 0 /\ b[o] = 0 /\ op'.entry = op.entry /\ array'[o] = array[o]
      BY <1>1, <1>5, <1>6, <2>1, <2>2, <2>5, <2>6
    <3>2. Len(array[o].slots) \in Nat /\ Len(array[o].slots) > 0 /\ array[o].slots[1] = op.entry
      BY <1>5, <1>a, <2>1, <2>6 DEF Unlinked
    <3> QED BY ONLY <3>1, <3>2 DEF Filled
  <2>9. Separate({o}, F)'
    BY <1>1, <1>a, <2>1, <2>6 DEF Separate, Unlinked
  <2>10. Phase({o}, F, b, o)'
    BY <1>1, <2>8 DEF Phase, Placed, Growing, Commits, Unplaced, Request, FieldSteps
  <2> QED BY <1>7, <2>7, <2>9, <2>10 DEF ListInv, ListParts
<1>9. CASE hdr.entry_array # 0
  <2>1. op.arr = last /\ before[last] + op.slot = hdr.n_entries /\ op.slot < Len(array[last].slots)
    BY <1>9, <1>a DEF SlotReady
  <2>2. hdr'.entry_array = hdr.entry_array
    BY <1>1, <1>9
  <2>3. Chained(G, before, last, s)'
    BY <1>1, <1>9, <1>a, <2>2 DEF Chained
  <2>4. before[last] \in Nat
    BY <1>3, <1>9, <1>a DEF Chained, IsChain
  <2>5. Filled(before, last)'
    <3>1. /\ hdr'.entry_array # 0 /\ hdr'.tail_array = last /\ hdr'.tail_array_n = op.slot + 1
          /\ hdr'.n_entries = hdr.n_entries /\ op'.entry = op.entry /\ array'[last] = array[last]
      BY <1>1, <1>6, <1>9, <2>1, <2>2
    <3>2. /\ Len(array[last].slots) \in Nat /\ op.slot + 1 \in 1..Len(array[last].slots)
          /\ array[last].slots[op.slot + 1] = op.entry
          /\ before[last] + (op.slot + 1) = hdr.n_entries + 1
      <4>1. Len(array[last].slots) \in Nat /\ array[last].slots[op.slot + 1] = op.entry
        BY <1>5, <1>a, <2>1
      <4>2. op.slot + 1 \in 1..Len(array[last].slots)
        BY ONLY <1>0, <2>1, <4>1
      <4>3. before[last] + (op.slot + 1) = hdr.n_entries + 1
        BY ONLY <1>0, <2>1, <2>4
      <4> QED BY <4>1, <4>2, <4>3
    <3> QED BY ONLY <3>1, <3>2 DEF Filled
  <2>6. Separate(G, F)'
    BY <1>1, <1>a DEF Separate
  <2>7. Phase(G, F, before, last)'
    BY <1>1, <2>5 DEF Phase, Placed, Growing, Commits, Unplaced, Request, FieldSteps
  <2> QED BY <1>7, <2>3, <2>6, <2>7 DEF ListInv, ListParts
<1> QED BY <1>8, <1>9

LEMMA FiniteArrays ==
  ASSUME TypeOK
  PROVE  /\ IsFiniteSet(DOMAIN array) /\ 0 \notin DOMAIN array
         /\ array \in [DOMAIN array -> ArrayObject] /\ DOMAIN array \subseteq Nat
<1>1. MaxOffset \in Nat
  BY ConstantsAssumption DEF ConstantsAssumption
<1>2. 1 \in Int /\ MaxOffset \in Int
  BY <1>1
<1>3. IsFiniteSet(1..MaxOffset)
  BY <1>2, FS_Interval
<1>4. DOMAIN array \subseteq 1..MaxOffset /\ array \in [DOMAIN array -> ArrayObject]
  BY DEF TypeOK, ObjectsOK, Offsets
<1>5. IsFiniteSet(DOMAIN array)
  BY <1>3, <1>4, FS_Subset
<1>6. \A a \in DOMAIN array : a \in Nat /\ a # 0
  BY <1>1, <1>4
<1> QED BY <1>4, <1>5, <1>6

(***************************************************************************)
(* The array that append_to_data_entry_array_tail picks, by the hint or by *)
(* a walk, is one of the postings arrays.                                  *)
(***************************************************************************)
LEMMA DataTailInside ==
  ASSUME TypeOK, NEW G, NEW F, Separate(G, F), RefersWithin(F), NEW it \in op.left, NextItem(it),
         DataTail(LinkState(it)).at \in DOMAIN array
  PROVE  DataTail(LinkState(it)).at \in F
<1> DEFINE v == LinkState(it)
<1>0. 0 \notin DOMAIN array
  BY FiniteArrays
<1>1. v.array \in F \cup {0} /\ v.tail \in F \cup {0}
  <2>1. it \in Item /\ it.offset \in DOMAIN data
    BY ItemType DEF NextItem
  <2>2. CASE it.copy = 1
    BY <2>2 DEF LinkState, RefersWithin
  <2>3. CASE it.copy # 1
    <3>1. v.array = data[it.offset].array /\ v.tail = data[it.offset].tail
      BY <2>1, <2>3 DEF LinkState, Item
    <3> HIDE DEF v
    <3> QED BY <2>1, <3>1 DEF RefersWithin
  <2> QED BY <2>2, <2>3
<1> HIDE DEF v
<1>2. CASE HintUsable(v)
  BY <1>0, <1>1, <1>2 DEF v, DataTail, HintUsable
<1>3. CASE ~HintUsable(v)
  <2>1. DataTail(v).at = TailArray(v.array, array, v.n - 1, FALSE).at
    BY <1>3 DEF DataTail
  <2>2. \A a \in F : a \in DOMAIN array /\ array[a].next \in F \cup {0}
    BY DEF Separate
  <2>3. TailArray(v.array, array, v.n - 1, FALSE).at \in F \cup {0}
    BY <1>1, <2>2, FiniteArrays, TailArrayInside
  <2> QED BY <1>0, <2>1, <2>3 DEF v
<1> QED BY <1>2, <1>3

\* The steps that come after the header of the global array.
AfterHeader(F) ==
  /\ pc \in Placed \/ (pc \in Growing /\ op.cur # 0)
  /\ pc \in Growing => op.arr \in F
  /\ pc \in {"data_array", "data_tail"} => op.arr \in F
  /\ pc = "link_array" => op.prev \in F

LEMMA LinkingPhase ==
  ASSUME NEW G, NEW F, NEW before, NEW last, AfterHeader(F), Filled(before, last)
  PROVE  Phase(G, F, before, last)
BY DEF AfterHeader, Phase, Placed, Growing, Commits, Unplaced, Request, FieldSteps

(***************************************************************************)
(* Linking an item to its DATA object: a new array joins the postings      *)
(* arrays, an old one is among them.                                       *)
(***************************************************************************)
LEMMA ListLink ==
  ASSUME BaseInv, BaseInv', [Next]_vars, NEW G, NEW F, NEW before, NEW last, NEW s,
         ListParts(G, F, before, last, s), LinkItem
  PROVE  ListInv'
<1>0. TypeOK /\ hdr \in Header /\ op \in Locals
  BY DEF BaseInv, TypeOK, HeaderOK, CallOK
<1>1. PICK it \in op.left : LinkFirst(it) \/ LinkSecond(it) \/ LinkInTail(it) \/ LinkInNew(it)
  BY DEF LinkItem
<1>2. pc = "link" /\ NextItem(it)
  BY <1>1 DEF LinkFirst, LinkSecond, LinkInTail, LinkInNew
<1>a. /\ Lists(s) /\ Chained(G, before, last, s) /\ Filled(before, last)
      /\ Separate(G, F) /\ RefersWithin(F)
  BY <1>2 DEF ListParts, Phase, Placed
<1>3. SameLog
  BY <1>2, LogSame DEF CommitCount
<1>4. G \subseteq DOMAIN array
  BY <1>a, ChainInFile
<1>5. it.offset # 0
  BY <1>0, <1>2 DEF NextItem, TypeOK, ObjectsOK, Offsets
<1>6. CASE LinkFirst(it)
  <2>1. /\ array' = array /\ hdr' = hdr /\ pc' = "data_count" /\ op'.entry = op.entry
        /\ op'.items = op.items /\ op'.left \subseteq op.left
        /\ data' = [data EXCEPT ![it.offset].entry = op.entry]
    BY <1>0, <1>6 DEF LinkFirst, Goto, Locals
  <2>2. SameGlobal
    BY <2>1 DEF SameGlobal
  <2>3. RefersWithin(F)'
    BY <1>0, <1>a, <2>1, DataStores, PostingsKept
  <2>4. AfterHeader(F)'
    BY <2>1 DEF AfterHeader, Placed, Growing
  <2>5. Phase(G, F, before, last)'
    BY <1>a, <2>1, <2>2, <2>4, ChainKept, LinkingPhase DEF AfterHeader, Phase, Placed, Growing,
       Commits, Unplaced, Request, FieldSteps
  <2>6. ListParts(G, F, before, last, s)'
    BY <1>3, <1>a, <2>1, <2>2, <2>3, <2>5, ListsKept, ChainKept DEF ListParts, SameGlobal
  <2> QED BY <2>6 DEF ListInv
<1>7. CASE LinkSecond(it) \/ LinkInNew(it)
  <2>1. PICK c \in Nat \ {0} : Allocate(c)
    <3>1. CASE LinkSecond(it)
      <4>1. MinCapacity \in Nat \ {0}
        BY ConstantsAssumption DEF ConstantsAssumption
      <4> QED BY <3>1, <4>1 DEF LinkSecond
    <3>2. CASE LinkInNew(it)
      <4>1. DataTail(LinkState(it)).at \in DOMAIN array /\ LinkState(it).n >= 2
            /\ Allocate(NextCapacity(LinkState(it).n - 1, Len(array[DataTail(LinkState(it)).at].slots)))
        BY <3>2 DEF LinkInNew
      <4>2. LinkState(it).n \in Nat
        BY <1>0, <1>2, LinkCountType
      <4>3. LinkState(it).n - 1 \in Nat
        BY <4>1, <4>2
      <4>4. Len(array[DataTail(LinkState(it)).at].slots) \in Nat
        BY <1>0, <4>1, SlotsType
      <4> QED BY <4>1, <4>3, <4>4, CapacityPositive
    <3> QED BY <1>7, <3>1, <3>2
  <2>2. PICK o : o = w.append_offset
    OBVIOUS
  <2>3. /\ o \notin DOMAIN array /\ DOMAIN array' = DOMAIN array \cup {o}
        /\ \A a \in DOMAIN array : array'[a] = array[a]
        /\ array'[o].next = 0 /\ SameGlobal
    BY <2>1, <2>2, AllocateFacts
  <2>4. /\ data' = data /\ op'.entry = op.entry /\ op'.cur = it.offset /\ op'.arr = o
        /\ op'.items = op.items /\ op'.left \subseteq op.left
    <3>1. CASE LinkSecond(it)
      BY <1>0, <2>2, <3>1 DEF LinkSecond, Locals
    <3>2. CASE LinkInNew(it)
      BY <1>0, <2>2, <3>2 DEF LinkInNew, Locals
    <3> QED BY <1>7, <3>1, <3>2
  <2>5. Chained(G, before, last, s)' /\ Filled(before, last)'
    BY <1>4, <1>a, <2>3, <2>4, ChainUntouched
  <2>6. Separate(G, F \cup {o})'
    BY <1>4, <1>a, <2>3, SeparateGrows
  <2>7. RefersWithin(F \cup {o})'
    <3>1. RefersWithin(F)'
      BY <1>a, <2>4, LinksSame, PostingsKept
    <3> QED BY <3>1 DEF RefersWithin
  <2>8. AfterHeader(F \cup {o})'
    <3>1. CASE LinkSecond(it)
      BY <1>5, <2>4, <3>1 DEF LinkSecond, Goto, AfterHeader, Placed, Growing
    <3>2. CASE LinkInNew(it)
      <4>1. /\ pc' = "link_array" /\ op'.prev = DataTail(LinkState(it)).at
            /\ DataTail(LinkState(it)).at \in DOMAIN array
        BY <1>0, <3>2 DEF LinkInNew, Goto, Locals
      <4>2. DataTail(LinkState(it)).at \in F
        BY <1>0, <1>2, <1>a, <4>1, DataTailInside
      <4> QED BY <1>5, <2>4, <4>1, <4>2 DEF AfterHeader, Placed, Growing
    <3> QED BY <1>7, <3>1, <3>2
  <2>9. Phase(G, F \cup {o}, before, last)'
    BY <2>5, <2>8 DEF AfterHeader, Phase, Placed, Growing, Commits, Unplaced, Request, FieldSteps
  <2> QED BY <1>3, <1>a, <2>3, <2>5, <2>6, <2>7, <2>9, ListsKept DEF ListInv, ListParts, SameGlobal
<1>8. CASE LinkInTail(it)
  <2>1. /\ array' = array /\ hdr' = hdr /\ data' = data /\ pc' = "set_slot"
        /\ op'.entry = op.entry /\ op'.cur = it.offset /\ op'.arr = DataTail(LinkState(it)).at
        /\ op'.items = op.items /\ op'.left \subseteq op.left
        /\ DataTail(LinkState(it)).at \in DOMAIN array
    BY <1>0, <1>8 DEF LinkInTail, Goto, Locals, objects
  <2>2. SameGlobal
    BY <2>1 DEF SameGlobal
  <2>3. DataTail(LinkState(it)).at \in F
    BY <1>0, <1>2, <1>a, <2>1, DataTailInside
  <2>4. AfterHeader(F)'
    BY <1>5, <2>1, <2>3 DEF AfterHeader, Placed, Growing
  <2>5. Filled(before, last)'
    BY <1>a, <2>1, <2>2, ChainKept
  <2>6. Phase(G, F, before, last)'
    BY <2>4, <2>5 DEF AfterHeader, Phase, Placed, Growing, Commits, Unplaced, Request, FieldSteps
  <2>7. RefersWithin(F)'
    BY <1>a, <2>1, LinksSame, PostingsKept
  <2>8. ListParts(G, F, before, last, s)'
    BY <1>3, <1>a, <2>1, <2>2, <2>6, <2>7, ListsKept, ChainKept DEF ListParts, SameGlobal
  <2> QED BY <2>8 DEF ListInv
<1> QED BY <1>1, <1>6, <1>7, <1>8

(***************************************************************************)
(* The stores to postings arrays and DATA objects, and the header stores   *)
(* before the count.                                                       *)
(***************************************************************************)
LEMMA ListStores ==
  ASSUME BaseInv, [Next]_vars, NEW G, NEW F, NEW before, NEW last, NEW s,
         ListParts(G, F, before, last, s),
         \/ op.cur # 0 /\ (LinkArray \/ SetSlot)
         \/ DataArray \/ DataHint \/ DataCount \/ Linked
         \/ CommitObjects \/ CommitTailObject \/ CommitHead \/ CommitTail \/ CommitTailEntry
  PROVE  ListParts(G, F, before, last, s)'
<1>0. TypeOK /\ hdr \in Header /\ op \in Locals
  BY DEF BaseInv, TypeOK, HeaderOK, CallOK
<1>a. /\ Lists(s) /\ Chained(G, before, last, s) /\ Separate(G, F) /\ RefersWithin(F)
  BY DEF ListParts
<1>b. /\ Filled(before, last) /\ pc # "commit_count"
      /\ op.cur # 0 /\ (LinkArray \/ SetSlot) => op.arr \in F
      /\ op.cur # 0 /\ LinkArray => op.prev \in F
      /\ DataArray \/ DataHint => op.arr \in F
  BY DEF ListParts, Phase, Placed, Growing, Commits, LinkArray, SetSlot, DataArray, DataHint,
         DataCount, Linked, CommitObjects, CommitTailObject, CommitHead, CommitTail, CommitTailEntry
<1>c. SameLog
  BY <1>b, LogSame DEF CommitCount
<1>d. G \subseteq DOMAIN array
  BY <1>a, ChainInFile
<1>1. CASE op.cur # 0 /\ (LinkArray \/ SetSlot)
  <2>1. data' = data /\ hdr' = hdr /\ op' = op
    BY <1>1 DEF LinkArray, SetSlot
  <2>2. SameGlobal
    BY <2>1 DEF SameGlobal
  <2>3. PICK p \in F : /\ DOMAIN array' = DOMAIN array
                       /\ \A a \in DOMAIN array : a # p => array'[a] = array[a]
                       /\ array'[p].next \in F \cup {0}
    <3>1. CASE LinkArray
      <4>1. op.prev \in F /\ op.arr \in F /\ op.prev \in DOMAIN array
            /\ array' = [array EXCEPT ![op.prev].next = op.arr]
        BY <1>1, <1>b, <3>1 DEF LinkArray
      <4>2. /\ DOMAIN array' = DOMAIN array
            /\ \A a \in DOMAIN array : a # op.prev => array'[a] = array[a]
        BY <1>0, <4>1, StoredArrays
      <4>3. array'[op.prev].next = op.arr
        BY <1>0, <4>1 DEF TypeOK, ObjectsOK, ArrayObject
      <4> QED BY <4>1, <4>2, <4>3
    <3>2. CASE SetSlot
      <4>1. op.arr \in F /\ op.arr \in DOMAIN array
            /\ array' = [array EXCEPT ![op.arr].slots[op.slot + 1] = op.entry]
        BY <1>1, <1>b, <3>2 DEF SetSlot
      <4>2. /\ DOMAIN array' = DOMAIN array
            /\ \A a \in DOMAIN array : a # op.arr => array'[a] = array[a]
        BY <1>0, <4>1, StoredArrays
      <4>3. array'[op.arr].next = array[op.arr].next
        BY <1>0, <4>1 DEF TypeOK, ObjectsOK, ArrayObject
      <4>4. array[op.arr].next \in F \cup {0}
        BY <1>a, <4>1 DEF Separate
      <4> QED BY <4>1, <4>2, <4>3, <4>4
    <3> QED BY <1>1, <3>1, <3>2
  <2>4. \A a \in G : a \in DOMAIN array' /\ array'[a] = array[a]
    BY <1>a, <1>d, <2>3 DEF Separate
  <2>5. Chained(G, before, last, s)' /\ Filled(before, last)'
    BY <1>a, <1>b, <2>1, <2>2, <2>4, ChainUntouched
  <2>6. Separate(G, F)'
    BY <1>a, <2>3 DEF Separate
  <2>7. AfterHeader(F)'
    <3>1. pc' \in {"set_slot", "data_array", "data_tail", "data_count"}
      <4>1. CASE LinkArray
        BY <4>1 DEF LinkArray, Goto
      <4>2. CASE SetSlot
        <5>1. Compact \in BOOLEAN
          BY ConstantsAssumption DEF ConstantsAssumption
        <5> QED BY <1>1, <4>2, <5>1 DEF SetSlot, Goto
      <4> QED BY <1>1, <4>1, <4>2
    <3> QED BY <1>1, <1>b, <2>1, <3>1 DEF AfterHeader, Placed, Growing
  <2>8. Phase(G, F, before, last)'
    BY <2>5, <2>7 DEF AfterHeader, Phase, Placed, Growing, Commits, Unplaced, Request, FieldSteps
  <2>9. RefersWithin(F)'
    BY <1>a, <2>1, LinksSame, PostingsKept
  <2> QED BY <1>a, <1>c, <2>2, <2>5, <2>6, <2>8, <2>9, ListsKept DEF ListParts, SameGlobal
<1>2. ASSUME array' = array, SameGlobal, op'.entry = op.entry, AfterHeader(F)', RefersWithin(F)'
      PROVE  ListParts(G, F, before, last, s)'
  <2>1. Chained(G, before, last, s)' /\ Filled(before, last)' /\ Separate(G, F)'
    BY <1>2, <1>a, <1>b, ChainKept
  <2>2. Phase(G, F, before, last)'
    BY <1>2, <2>1 DEF AfterHeader, Phase, Placed, Growing, Commits, Unplaced, Request, FieldSteps
  <2> QED BY <1>2, <1>a, <1>c, <2>1, <2>2, ListsKept DEF ListParts, SameGlobal
<1>3. CASE DataArray \/ DataHint
  <2>1. /\ array' = array /\ hdr' = hdr /\ op' = op /\ pc' \in {"data_tail", "data_count"}
    BY <1>3 DEF DataArray, DataHint, Goto
  <2>2. \A d \in DOMAIN data' : /\ d \in DOMAIN data
                                /\ data'[d].array = data[d].array \/ data'[d].array = op.arr
                                /\ data'[d].tail = data[d].tail \/ data'[d].tail = op.arr
    BY <1>0, <1>3 DEF DataArray, DataHint, TypeOK, ObjectsOK, DataObject
  <2>3. RefersWithin(F)'
    BY <1>3, <1>a, <1>b, <2>1, <2>2 DEF RefersWithin
  <2>4. AfterHeader(F)' /\ SameGlobal
    BY <1>3, <1>b, <2>1 DEF AfterHeader, Placed, Growing, SameGlobal
  <2> QED BY <1>2, <2>1, <2>3, <2>4
<1>4. CASE DataCount
  <2>1. /\ array' = array /\ hdr' = hdr /\ pc' = "link" /\ op'.entry = op.entry
        /\ op'.items = op.items /\ op'.left = op.left
    BY <1>0, <1>4 DEF DataCount, Goto, Locals
  <2>2. \A d \in DOMAIN data' : /\ d \in DOMAIN data
                                /\ data'[d].array = data[d].array /\ data'[d].tail = data[d].tail
    BY <1>0, <1>4 DEF DataCount, TypeOK, ObjectsOK, DataObject
  <2>3. RefersWithin(F)'
    BY <1>a, <2>1, <2>2 DEF RefersWithin
  <2>4. AfterHeader(F)' /\ SameGlobal
    BY <2>1 DEF AfterHeader, Placed, Growing, SameGlobal
  <2> QED BY <1>2, <2>1, <2>3, <2>4
<1>5. CASE Linked \/ CommitObjects \/ CommitTailObject \/ CommitHead \/ CommitTail \/ CommitTailEntry
  <2>1. array' = array /\ data' = data /\ op' = op /\ pc' \in Commits
    BY <1>5 DEF Linked, CommitObjects, CommitTailObject, CommitHead, CommitTail, CommitTailEntry,
               objects, Goto, Commits
  <2>2. SameGlobal
    BY <1>0, <1>5 DEF Linked, CommitObjects, CommitTailObject, CommitHead, CommitTail,
                      CommitTailEntry, SameGlobal, Header
  <2>3. RefersWithin(F)'
    BY <1>a, <2>1, LinksSame, PostingsKept
  <2>4. AfterHeader(F)'
    BY <2>1 DEF AfterHeader, Placed, Growing, Commits
  <2> QED BY <1>2, <2>1, <2>2, <2>3, <2>4
<1> QED BY <1>1, <1>3, <1>4, <1>5

(***************************************************************************)
(* The count store: the list has one entry more, which is in the slot that *)
(* the count now covers and lies behind all others in the file.            *)
(***************************************************************************)
LEMMA ListCount ==
  ASSUME BaseInv, NEW G, NEW F, NEW before, NEW last, NEW s,
         ListParts(G, F, before, last, s), CommitCount
  PROVE  ListInv'
<1>0. TypeOK /\ StampInv /\ SeqnumInv /\ hdr \in Header /\ hdr.n_entries \in Nat
  BY DEF BaseInv, TypeOK, HeaderOK, Header
<1>a. /\ Lists(s) /\ Chained(G, before, last, s) /\ Separate(G, F) /\ RefersWithin(F)
      /\ Filled(before, last)
  BY DEF ListParts, Phase, CommitCount, Placed, Commits
<1>1. /\ entry' = entry /\ op' = op /\ data' = data /\ pc = "commit_count" /\ pc' = "publish"
      /\ op.entry \in DOMAIN entry /\ op.seqnum >= w.next_seqnum
      /\ entry[op.entry].seqnum = op.seqnum
      /\ \A e \in DOMAIN entry \ {op.entry} : entry[e].seqnum < w.next_seqnum
      /\ CommittedByNumber' = DOMAIN entry /\ CommittedByNumber = DOMAIN entry \ {op.entry}
  BY <1>0, CountAdds
<1>2. /\ array' = array /\ hdr'.n_entries = hdr.n_entries + 1 /\ hdr'.entry_array = hdr.entry_array
      /\ hdr'.tail_array = hdr.tail_array /\ hdr'.tail_array_n = hdr.tail_array_n
  BY <1>0 DEF CommitCount, objects, Header
<1>n. PICK n \in Nat : n = hdr.n_entries
  BY <1>0
<1>t. PICK t : t = [i \in 1..(n + 1) |-> IF i = n + 1 THEN op.entry ELSE s[i]]
  OBVIOUS
<1>3. /\ \A i \in 1..n : s[i] \in CommittedByNumber /\ s[i] \in DOMAIN entry /\ t[i] = s[i]
      /\ t[n + 1] = op.entry /\ 1..(n + 1) = 1..n \cup {n + 1}
  <2>1. \A i \in 1..n : s[i] \in CommittedByNumber /\ s[i] \in DOMAIN entry
    BY <1>a, <1>n DEF Lists
  <2> QED BY <1>t, <2>1
<1>4. \A e \in DOMAIN entry \ {op.entry} : e < op.entry
  <2> TAKE e \in DOMAIN entry \ {op.entry}
  <2>1. e \in Nat /\ op.entry \in Nat /\ entry[e].seqnum \in Nat /\ op.seqnum \in Nat
        /\ w.next_seqnum \in Nat
    BY <1>0, <1>1, EntryNumbers
  <2>2. entry[e].seqnum < entry[op.entry].seqnum
    BY <1>1, <2>1
  <2>3. op.entry < e => entry[op.entry].seqnum < entry[e].seqnum
    BY <1>0, <1>1 DEF SeqnumInv
  <2> QED BY <1>1, <2>1, <2>2, <2>3
<1>5. Lists(t)'
  <2>1. t \in [1..(n + 1) -> DOMAIN entry]
    BY <1>1, <1>3, <1>t
  <2>2. \A i, j \in 1..(n + 1) : i < j => t[i] < t[j]
    <3> SUFFICES ASSUME NEW i \in 1..(n + 1), NEW j \in 1..(n + 1), i < j PROVE t[i] < t[j]
      OBVIOUS
    <3>1. i \in 1..n
      OBVIOUS
    <3>2. CASE j = n + 1
      <4>1. t[i] = s[i] /\ s[i] \in DOMAIN entry \ {op.entry} /\ t[j] = op.entry
        BY <1>1, <1>3, <3>1, <3>2
      <4> QED BY <1>4, <4>1
    <3>3. CASE j # n + 1
      <4>1. j \in 1..n
        BY <3>3
      <4> QED BY <1>3, <1>a, <1>n, <3>1, <4>1 DEF Lists
    <3> QED BY <3>2, <3>3
  <2>3. {t[i] : i \in 1..(n + 1)} = DOMAIN entry
    <3>1. {s[i] : i \in 1..n} = DOMAIN entry \ {op.entry}
      BY <1>1, <1>a, <1>n DEF Lists
    <3>2. {t[i] : i \in 1..(n + 1)} = {s[i] : i \in 1..n} \cup {op.entry}
      BY <1>3
    <3> QED BY <1>1, <3>1, <3>2
  <2> QED BY <1>1, <1>2, <1>n, <2>1, <2>2, <2>3 DEF Lists
<1>6. hdr.entry_array # 0 /\ IsChain(array, G, before, hdr.entry_array, last)
      /\ Holding(array, G, before, n, s)
  BY <1>a, <1>n DEF Filled, Chained
<1>7. /\ last \in G /\ \A a \in G : a \in DOMAIN array /\ before[a] \in Nat
      /\ \A a \in G : Len(array[a].slots) \in Nat
      /\ \A a \in G \ {last} : before[a] + Len(array[a].slots) <= before[last]
  <2>1. /\ last \in G /\ \A a \in G : a \in DOMAIN array /\ before[a] \in Nat
        /\ \A a \in G \ {last} : before[a] + Len(array[a].slots) <= before[last]
    BY <1>6 DEF IsChain
  <2> QED BY <1>0, <2>1, SlotsType
<1>8. PICK k \in Nat : /\ k = hdr.tail_array_n /\ k \in 1..Len(array[last].slots)
                       /\ before[last] + k = n + 1 /\ array[last].slots[k] = op.entry
                       /\ hdr.tail_array = last
  BY <1>7, <1>a, <1>n DEF Filled
<1>9. Holding(array, G, before, n + 1, t)
  <2> SUFFICES ASSUME NEW a \in G, NEW j \in 1..Len(array[a].slots), before[a] + j <= n + 1
               PROVE  array[a].slots[j] = t[before[a] + j]
    BY DEF Holding
  <2>0. before[a] \in Nat /\ before[last] \in Nat /\ Len(array[a].slots) \in Nat
    BY <1>7
  <2>1. CASE a = last /\ j = k
    BY <1>3, <1>8, <2>1
  <2>2. CASE ~(a = last /\ j = k)
    <3>1. before[a] + j <= n
      <4>1. CASE a = last
        BY ONLY <1>8, <2>0, <2>2, <4>1, n \in Nat, j \in 1..Len(array[a].slots), before[a] + j <= n + 1
      <4>2. CASE a # last
        <5>1. before[a] + Len(array[a].slots) <= before[last]
          BY <1>7, <4>2
        <5>2. before[last] <= n
          BY <1>7, <1>8, <2>0
        <5>3. j <= Len(array[a].slots) /\ j \in Nat
          BY <2>0
        <5> QED BY ONLY <2>0, <5>1, <5>2, <5>3, n \in Nat
      <4> QED BY <4>1, <4>2
    <3>2. before[a] + j \in 1..n
      BY <2>0, <3>1
    <3>3. array[a].slots[j] = s[before[a] + j]
      BY <1>6, <3>1 DEF Holding
    <3> QED BY <1>3, <3>2, <3>3
  <2> QED BY <2>1, <2>2
<1>10. Chained(G, before, last, t)'
  <2>1. n + 1 <= before[last] + Len(array[last].slots)
    BY <1>7, <1>8
  <2> QED BY <1>2, <1>6, <1>9, <1>n, <2>1 DEF Chained
<1>11. Hinted(before, last)'
  BY <1>2, <1>8, <1>n DEF Hinted
<1>12. Phase(G, F, before, last)'
  BY <1>1, <1>11 DEF Phase, Placed, Growing, Commits
<1>13. Separate(G, F)' /\ RefersWithin(F)'
  BY <1>1, <1>2, <1>a, LinksSame, PostingsKept DEF Separate
<1> QED BY <1>5, <1>10, <1>12, <1>13 DEF ListInv, ListParts

(***************************************************************************)
(* Every step of a writer whose offsets fit the header's u32.              *)
(***************************************************************************)
LEMMA ListNext ==
  ASSUME MaxOffset < TailModulus
  PROVE  BaseInv /\ ListInv /\ [Next]_vars => ListInv'
<1> SUFFICES ASSUME BaseInv, ListInv, [Next]_vars PROVE ListInv'
  OBVIOUS
<1>0. BaseInv'
  BY BaseNext
<1>1. PICK G, F, before, last, s : ListParts(G, F, before, last, s)
  BY DEF ListInv
<1>2. ASSUME ListParts(G, F, before, last, s)' PROVE ListInv'
  BY <1>2 DEF ListInv
<1>3. CASE UNCHANGED vars \/ Call \/ Leave \/ Publish \/ FailPublish
  BY <1>0, <1>1, <1>2, <1>3, ListOutside
<1>4. CASE QuietField \/ CreateField \/ StartData \/ Finish
  BY <1>1, <1>2, <1>4, ListField
<1>5. CASE WriteEntry \/ PlaceFirst \/ PlaceInTail \/ PlaceInNew
  BY <1>0, <1>1, <1>2, <1>5, ListPlace
<1>6. CASE op.cur = 0 /\ LinkArray
  BY <1>1, <1>6, ListGrow
<1>7. CASE op.cur = 0 /\ SetSlot
  BY <1>1, <1>2, <1>7, ListSlot
<1>8. CASE GlobalHeader
  BY <1>1, <1>8, ListHeader
<1>9. CASE LinkItem
  BY <1>0, <1>1, <1>9, ListLink
<1>10. CASE \/ op.cur # 0 /\ (LinkArray \/ SetSlot)
            \/ DataArray \/ DataHint \/ DataCount \/ Linked
            \/ CommitObjects \/ CommitTailObject \/ CommitHead \/ CommitTail \/ CommitTailEntry
  BY <1>1, <1>2, <1>10, ListStores
<1>11. CASE CommitCount
  BY <1>1, <1>11, ListCount
<1>12. QuietLink \/ CreateLink =>
         \/ PlaceFirst \/ PlaceInTail \/ PlaceInNew \/ LinkArray \/ SetSlot \/ GlobalHeader
         \/ LinkItem \/ DataArray \/ DataHint \/ DataCount \/ Linked
  BY DEF QuietLink, CreateLink, LinkItem
<1> QED BY <1>3, <1>4, <1>5, <1>6, <1>7, <1>8, <1>9, <1>10, <1>11, <1>12, NextGroups

(***************************************************************************)
(* A chain that holds the list is read as the list.                        *)
(***************************************************************************)
LEMMA ListRead ==
  ASSUME TypeOK, ListInv
  PROVE  /\ CommittedListed
         /\ Len(Committed) \in Nat /\ DOMAIN Committed = 1..Len(Committed)
         /\ Len(Committed) = 0 => Committed = <<>>
         /\ \A i, j \in DOMAIN Committed : i < j => Committed[i] < Committed[j]
<1>1. PICK G, F, before, last, s : ListParts(G, F, before, last, s)
  BY DEF ListInv
<1>2. PICK n \in Nat : n = hdr.n_entries
  BY DEF TypeOK, HeaderOK, Header
<1>3. /\ s \in [1..n -> DOMAIN entry] /\ {s[i] : i \in 1..n} = CommittedByNumber
      /\ \A i, j \in 1..n : i < j => s[i] < s[j]
  BY <1>1, <1>2 DEF ListParts, Lists
<1>4. PICK all : all = Flatten(hdr.entry_array, array)
  OBVIOUS
<1>5. n = 0 \/ (all \in Seq(Nat) /\ n <= Len(all) /\ \A k \in 1..n : all[k] = s[k])
  <2>1. CASE hdr.entry_array = 0
    BY <1>1, <1>2, <2>1 DEF ListParts, Chained
  <2>2. CASE hdr.entry_array # 0
    <3>1. /\ IsChain(array, G, before, hdr.entry_array, last)
          /\ n <= before[last] + Len(array[last].slots) /\ Holding(array, G, before, n, s)
      BY <1>1, <1>2, <2>2 DEF ListParts, Chained
    <3>2. hdr.entry_array \in Nat
      BY DEF TypeOK, HeaderOK, Header
    <3>3. ChainHolds(array, G, before, hdr.entry_array, last, n, s)
      BY <3>1, <3>2, FiniteArrays DEF ChainHolds
    <3>4. /\ Flatten(hdr.entry_array, array) \in Seq(Nat)
          /\ n <= Len(Flatten(hdr.entry_array, array))
          /\ \A k \in 1..n : Flatten(hdr.entry_array, array)[k] = s[k]
      BY ONLY <3>3, ChainFlatten
    <3> QED BY <1>4, <3>4
  <2> QED BY <2>1, <2>2
<1>6. PICK log : log = SubSeq(all, 1, n)
  OBVIOUS
<1>7. Len(log) = n /\ DOMAIN log = 1..n /\ \A k \in 1..n : log[k] = s[k]
  <2>1. CASE n = 0
    <3>1. log = <<>>
      BY <1>6, <2>1
    <3> QED BY <2>1, <3>1
  <2>2. CASE n # 0
    <3>1. all \in Seq(Nat) /\ n <= Len(all) /\ n >= 1 /\ \A k \in 1..n : all[k] = s[k]
      BY <1>5, <2>2
    <3>2. SubSeq(all, 1, n) \in Seq(Nat) /\ Len(SubSeq(all, 1, n)) = n
          /\ \A k \in 1..n : SubSeq(all, 1, n)[k] = all[k]
      BY <3>1
    <3> QED BY <1>6, <3>1, <3>2
  <2> QED BY <2>1, <2>2
<1>8. Committed = log
  BY <1>2, <1>4, <1>6 DEF Committed
<1>9. {log[i] : i \in DOMAIN log} = CommittedByNumber
  BY <1>3, <1>7
<1>10. \A i \in 2..Len(log) : log[i - 1] < log[i]
  <2> TAKE i \in 2..Len(log)
  <2>1. i - 1 \in 1..n /\ i \in 1..n /\ i - 1 < i
    BY <1>7
  <2> QED BY <1>3, <1>7, <2>1
<1>11. \A i, j \in DOMAIN log : i < j => log[i] < log[j]
  BY <1>3, <1>7
<1>12. CommittedListed
  BY <1>2, <1>7, <1>8, <1>9, <1>10 DEF CommittedListed, ListedExactly
<1>13. n = 0 => log = <<>>
  BY <1>6
<1> QED BY <1>7, <1>8, <1>11, <1>12, <1>13

(***************************************************************************)
(* In a file below 4 GiB (the header keeps the tail array's offset in a    *)
(* u32), at every store of every append and after every failed one, the    *)
(* first n_entries slots of the global entry array chain are exactly the   *)
(* entries below the number that the writer gives next, in file order: the *)
(* chain is linked and its slot is filled before the count covers it, and  *)
(* no store to a postings array can reach it (append_to_entry_array,       *)
(* link_data_to_entry, entry_added).                                       *)
(***************************************************************************)
THEOREM GlobalListIsExact ==
  ASSUME MaxOffset < TailModulus
  PROVE  Spec => []CommittedListed
<1>1. Init => BaseInv /\ ListInv
  BY BaseInit, ListInit
<1>2. BaseInv /\ ListInv /\ [Next]_vars => (BaseInv /\ ListInv)'
  BY BaseNext, ListNext
<1>3. BaseInv /\ ListInv => CommittedListed
  BY ListRead DEF BaseInv
<1> QED BY <1>1, <1>2, <1>3, PTL DEF Spec
=============================================================================
