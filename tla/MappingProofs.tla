--------------------------- MODULE MappingProofs ---------------------------
(***************************************************************************)
(* The mapping windows of a writer and a reader of one file, for every     *)
(* layout of the file, every size and number of windows and every mode.    *)
(***************************************************************************)
EXTENDS RowView, FiniteSetTheorems, WellFoundedInduction, TLAPS

-----------------------------------------------------------------------------
(* Arithmetic and sequences. *)

(***************************************************************************)
(* Rounding down and up to a multiple.                                     *)
(***************************************************************************)
LEMMA DivBounds ==
  ASSUME NEW a \in Nat, NEW b \in Nat \ {0}
  PROVE  /\ (a \div b) * b \in Nat /\ (a \div b) * b <= a
         /\ ((a + b - 1) \div b) * b \in Nat /\ a <= ((a + b - 1) \div b) * b
<1>1. /\ a \div b \in Nat /\ (a \div b) * b <= a
  OBVIOUS
<1>2. PICK c \in Nat : c = a + b - 1
  OBVIOUS
<1>3. c \div b \in Nat /\ c < (c \div b) * b + b
  OBVIOUS
<1>4. (a \div b) * b \in Nat /\ (c \div b) * b \in Nat
  BY <1>1, <1>3
<1> QED BY <1>1, <1>2, <1>3, <1>4

LEMMA MaxFacts ==
  ASSUME NEW a \in Nat, NEW b \in Nat
  PROVE  Max({a, b}) = IF a >= b THEN a ELSE b
<1> DEFINE m == IF a >= b THEN a ELSE b
<1>1. m \in {a, b} /\ \A y \in {a, b} : m >= y
  OBVIOUS
<1>2. \A x \in {a, b} : (\A y \in {a, b} : x >= y) => x = m
  OBVIOUS
<1> HIDE DEF m
<1>3. Max({a, b}) = m
  BY <1>1, <1>2 DEF Max
<1> QED BY <1>3 DEF m

LEMMA MinFacts ==
  ASSUME NEW a \in Nat, NEW b \in Nat
  PROVE  Min({a, b}) = IF a <= b THEN a ELSE b
<1> DEFINE m == IF a <= b THEN a ELSE b
<1>1. m \in {a, b} /\ \A y \in {a, b} : m <= y
  OBVIOUS
<1>2. \A x \in {a, b} : (\A y \in {a, b} : x <= y) => x = m
  OBVIOUS
<1> HIDE DEF m
<1>3. Min({a, b}) = m
  BY <1>1, <1>2 DEF Min
<1> QED BY <1>3 DEF m

(***************************************************************************)
(* The smallest of some positions of a sequence is one of them.            *)
(***************************************************************************)
LEMMA MinPosition ==
  ASSUME NEW n \in Nat, NEW S \in SUBSET (1..n), S # {}
  PROVE  Min(S) \in S
<1> DEFINE Below == {p \in Nat \X Nat : p[1] < p[2]}
<1>1. IsWellFoundedOn(Below, Nat)
  BY NatLessThanWellFounded DEF OpToRel
<1>2. S \subseteq Nat
  OBVIOUS
<1>3. PICK x \in S : \A y \in S : ~ (<<y, x>> \in Below)
  <2> HIDE DEF Below
  <2> QED BY ONLY <1>1, <1>2, S # {}, WFMin
<1>4. ASSUME NEW y \in S PROVE x <= y
  <2>1. x \in Nat /\ y \in Nat
    BY <1>2
  <2>2. ~ (y < x)
    BY <1>3, <2>1
  <2> QED BY <2>1, <2>2
<1> QED BY <1>4 DEF Min

LEMMA ConcatRight ==
  ASSUME NEW S, NEW a \in Seq(S), NEW b \in Seq(S),
         NEW j \in (Len(a) + 1)..(Len(a) + Len(b))
  PROVE  (a \o b)[j] = b[j - Len(a)]
OBVIOUS

(***************************************************************************)
(* A sequence without its element at i.                                    *)
(***************************************************************************)
LEMMA RemoveAtFacts ==
  ASSUME NEW S, NEW s \in Seq(S), NEW i \in DOMAIN s
  PROVE  /\ RemoveAt(s, i) \in Seq(S) /\ Len(RemoveAt(s, i)) = Len(s) - 1
         /\ \A j \in 1..(Len(s) - 1) : RemoveAt(s, i)[j] = IF j < i THEN s[j] ELSE s[j + 1]
<1> DEFINE a == SubSeq(s, 1, i - 1)
           b == SubSeq(s, i + 1, Len(s))
<1>1. i \in 1..Len(s) /\ Len(s) \in Nat
  OBVIOUS
<1>2. a \in Seq(S) /\ Len(a) = i - 1
  BY <1>1
<1>3. b \in Seq(S) /\ Len(b) = Len(s) - i
  BY <1>1
<1>4. \A j \in 1..(i - 1) : a[j] = s[j]
  BY <1>1
<1>5. \A j \in 1..(Len(s) - i) : b[j] = s[i + j]
  BY <1>1
<1>6. RemoveAt(s, i) = a \o b
  BY DEF RemoveAt
<1> HIDE DEF a, b
<1>7. a \o b \in Seq(S) /\ Len(a \o b) = Len(s) - 1
  BY <1>1, <1>2, <1>3
<1>8. ASSUME NEW j \in 1..(Len(s) - 1)
      PROVE  (a \o b)[j] = IF j < i THEN s[j] ELSE s[j + 1]
  <2>1. CASE j < i
    <3>1. j \in 1..Len(a) /\ j \in 1..(i - 1)
      BY ONLY <1>1, <1>2, <2>1, j \in 1..(Len(s) - 1)
    <3>2. (a \o b)[j] = a[j]
      BY ONLY <1>2, <1>3, <3>1
    <3> QED BY <1>4, <2>1, <3>1, <3>2
  <2>2. CASE j >= i
    <3>1. (a \o b)[j] = b[j - (i - 1)]
      <4>1. j \in (Len(a) + 1)..(Len(a) + Len(b)) /\ j - (i - 1) = j - Len(a)
        BY ONLY <1>1, <1>2, <1>3, <2>2, j \in 1..(Len(s) - 1)
      <4>2. (a \o b)[j] = b[j - Len(a)]
        BY ONLY <1>2, <1>3, <4>1, ConcatRight
      <4> QED BY <4>1, <4>2
    <3>2. j - (i - 1) \in 1..(Len(s) - i) /\ i + (j - (i - 1)) = j + 1
      BY <1>1, <2>2
    <3>3. b[j - (i - 1)] = s[i + (j - (i - 1))]
      BY <1>5, <3>2
    <3>4. ~(j < i)
      BY ONLY <1>1, <2>2, j \in 1..(Len(s) - 1)
    <3>5. s[i + (j - (i - 1))] = s[j + 1]
      BY ONLY <3>2
    <3> QED BY ONLY <3>1, <3>3, <3>4, <3>5
  <2>3. j < i \/ j >= i
    BY <1>1
  <2> QED BY <2>1, <2>2, <2>3
<1> QED BY <1>6, <1>7, <1>8

-----------------------------------------------------------------------------
(* Window managers. *)

Window == [off : Nat, size : Nat, pinned : BOOLEAN, refs : SUBSET Nat]

Manager ==
  [mode : {"owned", "live", "snapshot"}, strategy : {"windowed", "whole"},
   chunk : Nat \ {0}, max : Nat \ {0}, cached : Nat, retained : Nat,
   windows : Seq(Window), active : Nat, pins : Nat, copies : SUBSET Nat]

Pinned(m) == {i \in DOMAIN m.windows : m.windows[i].pinned}

\* Two states of one manager.
Alike(m, n) ==
  /\ n.mode = m.mode /\ n.strategy = m.strategy /\ n.chunk = m.chunk /\ n.max = m.max
  /\ n.retained = m.retained

\* The bounds of the mapped memory.
Budget(m) ==
  /\ Len(m.windows) <= m.max + 1
  /\ m.pins = Cardinality(Pinned(m)) /\ m.pins <= m.max
  /\ m.strategy = "whole" => Len(m.windows) <= 1

\* The writer's windows lie within the file it knows.
Inside(m) == \A i \in DOMAIN m.windows : RangeEnd(m.windows[i]) <= m.cached

\* The row's pins and copies are as they were.
Kept(m, n) ==
  /\ n.pins = m.pins /\ n.copies = m.copies
  /\ Cardinality(Pinned(n)) = Cardinality(Pinned(m))
  /\ \A i \in Pinned(m) : \E j \in Pinned(n) : n.windows[j] = m.windows[i]

\* There is nothing of a row.
PinFree(m) == m.pins = 0 /\ m.copies = {} /\ Pinned(m) = {}

LEMMA PinnedFinite ==
  ASSUME NEW m \in Manager
  PROVE  IsFiniteSet(Pinned(m)) /\ Pinned(m) \subseteq 1..Len(m.windows)
<1>1. Pinned(m) \subseteq 1..Len(m.windows) /\ Len(m.windows) \in Nat
  BY DEF Pinned, Manager
<1>2. IsFiniteSet(1..Len(m.windows))
  BY <1>1, FS_Interval
<1> QED BY <1>1, <1>2, FS_Subset

LEMMA NoPins ==
  ASSUME NEW m \in Manager, Budget(m), m.pins = 0
  PROVE  Pinned(m) = {}
BY PinnedFinite, FS_EmptySet DEF Budget

(***************************************************************************)
(* Leaving out an unpinned window.                                         *)
(***************************************************************************)
LEMMA DropFacts ==
  ASSUME NEW m \in Manager, NEW i \in DOMAIN m.windows, i \notin Pinned(m)
  PROVE  LET n == DropWindow(m, i)
         IN  /\ n \in Manager /\ Alike(m, n) /\ n.cached = m.cached /\ Kept(m, n)
             /\ Len(n.windows) = Len(m.windows) - 1
             /\ Inside(m) => Inside(n)
<1> DEFINE n == DropWindow(m, i)
           ws == m.windows
           f == [j \in Pinned(n) |-> IF j < i THEN j ELSE j + 1]
<1>1. ws \in Seq(Window) /\ i \in 1..Len(ws) /\ Len(ws) \in Nat /\ DOMAIN ws = 1..Len(ws)
  BY DEF Manager
<1>2. /\ RemoveAt(ws, i) \in Seq(Window) /\ Len(RemoveAt(ws, i)) = Len(ws) - 1
      /\ \A j \in 1..(Len(ws) - 1) : RemoveAt(ws, i)[j] = IF j < i THEN ws[j] ELSE ws[j + 1]
  BY <1>1, RemoveAtFacts
<1>3. n = [m EXCEPT !.windows = RemoveAt(ws, i), !.active = 0]
  BY DEF DropWindow
<1>4. /\ n \in Manager /\ Alike(m, n) /\ n.cached = m.cached /\ n.pins = m.pins
      /\ n.copies = m.copies /\ n.windows = RemoveAt(ws, i)
  <2> HIDE DEF n
  <2>1. PICK r \in Seq(Window) : r = RemoveAt(ws, i)
    BY <1>2
  <2>2. n = [m EXCEPT !.windows = r, !.active = 0]
    BY <1>3, <2>1
  <2>3. n \in Manager
    BY ONLY m \in Manager, r \in Seq(Window), <2>2 DEF Manager
  <2>4. /\ Alike(m, n) /\ n.cached = m.cached /\ n.pins = m.pins
        /\ n.copies = m.copies /\ n.windows = r
    BY ONLY m \in Manager, <2>2 DEF Manager, Alike
  <2> QED BY <2>1, <2>3, <2>4
<1> HIDE DEF n
<1>5. /\ Len(n.windows) = Len(ws) - 1 /\ DOMAIN n.windows = 1..(Len(ws) - 1)
      /\ \A j \in 1..(Len(ws) - 1) : n.windows[j] = IF j < i THEN ws[j] ELSE ws[j + 1]
  BY <1>1, <1>2, <1>4
<1>6. ASSUME NEW j \in Pinned(n) PROVE f[j] \in Pinned(m) /\ j \in 1..(Len(ws) - 1)
  <2>1. j \in 1..(Len(ws) - 1) /\ n.windows[j].pinned
    BY <1>5 DEF Pinned
  <2>2. n.windows[j] = ws[f[j]] /\ f[j] \in 1..Len(ws)
    BY <1>1, <1>5, <2>1
  <2> QED BY <1>1, <2>1, <2>2 DEF Pinned
<1>7. ASSUME NEW k \in Pinned(m)
      PROVE  \E j \in Pinned(n) : f[j] = k /\ n.windows[j] = ws[k]
  <2>1. k \in 1..Len(ws) /\ k # i /\ ws[k].pinned
    BY <1>1 DEF Pinned
  <2> DEFINE j == IF k < i THEN k ELSE k - 1
  <2>2. j \in 1..(Len(ws) - 1) /\ (IF j < i THEN j ELSE j + 1) = k
    BY <1>1, <2>1
  <2>3. n.windows[j] = ws[k]
    BY <1>5, <2>2
  <2>4. j \in Pinned(n)
    BY <1>5, <2>1, <2>2, <2>3 DEF Pinned
  <2> QED BY <2>2, <2>3, <2>4
<1>8. \A a, b \in Pinned(n) : f[a] = f[b] => a = b
  BY <1>1, <1>6
<1>9. f \in Bijection(Pinned(n), Pinned(m))
  <2>1. f \in [Pinned(n) -> Pinned(m)]
    BY <1>6
  <2> HIDE DEF f
  <2> QED BY <1>7, <1>8, <2>1 DEF Bijection, Injection, Surjection, IsInjective
<1>10. Cardinality(Pinned(n)) = Cardinality(Pinned(m))
  <2>1. ExistsBijection(Pinned(n), Pinned(m))
    BY <1>9 DEF ExistsBijection
  <2> QED BY <1>4, <2>1, PinnedFinite, FS_Bijection
<1>11. ASSUME Inside(m) PROVE Inside(n)
  <2> SUFFICES ASSUME NEW j \in DOMAIN n.windows
               PROVE  RangeEnd(n.windows[j]) <= n.cached
    BY DEF Inside
  <2>1. j \in 1..(Len(ws) - 1)
    BY <1>5
  <2>2. PICK k \in 1..Len(ws) : n.windows[j] = ws[k]
    <3>1. n.windows[j] = IF j < i THEN ws[j] ELSE ws[j + 1]
      BY <1>5, <2>1
    <3>2. j \in 1..Len(ws) /\ j + 1 \in 1..Len(ws)
      BY ONLY <1>1, <2>1
    <3> QED BY <3>1, <3>2
  <2> QED BY <1>1, <1>4, <1>11, <2>2 DEF Inside
<1> HIDE DEF f
<1> QED BY <1>4, <1>5, <1>7, <1>10, <1>11 DEF Kept, n

(***************************************************************************)
(* Adding an unpinned window; another active window, another measure.      *)
(***************************************************************************)
LEMMA AddFacts ==
  ASSUME NEW m \in Manager, NEW c \in Nat, NEW x \in Window, ~x.pinned, x.refs = {}
  PROVE  LET n == [[m EXCEPT !.cached = c] EXCEPT !.windows = Append(@, x)]
         IN  /\ n \in Manager /\ Alike(m, n) /\ n.cached = c /\ Kept(m, n)
             /\ n.windows = Append(m.windows, x) /\ Len(n.windows) = Len(m.windows) + 1
             /\ Inside(m) /\ m.cached <= c /\ RangeEnd(x) <= c => Inside(n)
<1> DEFINE n == [[m EXCEPT !.cached = c] EXCEPT !.windows = Append(@, x)]
           ws == m.windows
<1>1. ws \in Seq(Window) /\ Len(ws) \in Nat /\ DOMAIN ws = 1..Len(ws)
  BY DEF Manager
<1>2. PICK r \in Seq(Window) : r = Append(ws, x)
  <2>1. \A s \in Seq(Window) : Append(s, x) \in Seq(Window)
    OBVIOUS
  <2> QED BY <1>1, <2>1
<1>3. /\ Len(r) = Len(ws) + 1 /\ DOMAIN r = 1..(Len(ws) + 1) /\ r[Len(ws) + 1] = x
      /\ \A j \in 1..Len(ws) : r[j] = ws[j]
  BY <1>1, <1>2
<1>4. n = [m EXCEPT !.cached = c, !.windows = r]
  BY <1>2 DEF Manager
<1> HIDE DEF n
<1>5. n \in Manager
  BY ONLY m \in Manager, c \in Nat, r \in Seq(Window), <1>4 DEF Manager
<1>6. /\ Alike(m, n) /\ n.cached = c /\ n.pins = m.pins
      /\ n.copies = m.copies /\ n.windows = r
  BY ONLY m \in Manager, <1>4 DEF Manager, Alike
<1>7. Pinned(n) = Pinned(m)
  <2>1. ASSUME NEW j PROVE j \in Pinned(n) <=> j \in Pinned(m)
    BY <1>1, <1>3, <1>6 DEF Pinned
  <2> QED BY <2>1
<1>8. \A i \in Pinned(m) : n.windows[i] = m.windows[i]
  BY <1>1, <1>3, <1>6 DEF Pinned
<1>9. ASSUME Inside(m), m.cached <= c, RangeEnd(x) <= c PROVE Inside(n)
  <2> SUFFICES ASSUME NEW j \in DOMAIN r PROVE RangeEnd(r[j]) <= c
    BY <1>6 DEF Inside
  <2>1. CASE j = Len(ws) + 1
    BY <1>3, <1>9, <2>1
  <2>2. CASE j \in 1..Len(ws)
    <3>1. r[j] = ws[j] /\ RangeEnd(ws[j]) <= m.cached /\ ws[j] \in Window
      BY <1>1, <1>3, <1>9, <2>2 DEF Inside
    <3>2. RangeEnd(ws[j]) \in Nat
      BY <3>1 DEF RangeEnd, Window
    <3>3. m.cached \in Nat
      BY DEF Manager
    <3> QED BY <1>9, <3>1, <3>2, <3>3
  <2> QED BY <1>1, <1>3, <2>1, <2>2
<1> QED BY <1>2, <1>3, <1>5, <1>6, <1>7, <1>8, <1>9 DEF Kept, n

LEMMA ActiveFacts ==
  ASSUME NEW m \in Manager, NEW a \in Nat, NEW c \in Nat
  PROVE  LET n == [m EXCEPT !.active = a]
             k == [m EXCEPT !.cached = c]
         IN  /\ n \in Manager /\ Alike(m, n) /\ n.cached = m.cached /\ Kept(m, n)
             /\ n.windows = m.windows
             /\ k \in Manager /\ Alike(m, k) /\ k.cached = c /\ Kept(m, k)
             /\ k.windows = m.windows
<1> DEFINE n == [m EXCEPT !.active = a]
           k == [m EXCEPT !.cached = c]
<1>1. n \in Manager /\ k \in Manager
  BY DEF Manager
<1>2. /\ Alike(m, n) /\ n.cached = m.cached /\ n.pins = m.pins /\ n.copies = m.copies
      /\ n.windows = m.windows
      /\ Alike(m, k) /\ k.cached = c /\ k.pins = m.pins /\ k.copies = m.copies
      /\ k.windows = m.windows
  BY DEF Manager, Alike
<1> HIDE DEF n, k
<1>3. Pinned(n) = Pinned(m) /\ Pinned(k) = Pinned(m)
  BY <1>2 DEF Pinned
<1> QED BY <1>1, <1>2, <1>3 DEF Kept, n, k

LEMMA KeptTrans ==
  ASSUME NEW a, NEW b, NEW c, Kept(a, b), Kept(b, c)
  PROVE  Kept(a, c)
BY DEF Kept

LEMMA AlikeTrans ==
  ASSUME NEW a, NEW b, NEW c, Alike(a, b), Alike(b, c)
  PROVE  Alike(a, c)
BY DEF Alike

(***************************************************************************)
(* A manager that keeps the pins and has few windows stays in its budget.  *)
(***************************************************************************)
LEMMA KeptBudget ==
  ASSUME NEW m \in Manager, NEW n \in Manager, Budget(m), Alike(m, n), Kept(m, n),
         Len(n.windows) <= n.max + 1, n.strategy = "whole" => Len(n.windows) <= 1
  PROVE  Budget(n)
BY DEF Budget, Alike, Kept

LEMMA ForgetFacts ==
  ASSUME NEW m \in Manager
  PROVE  LET n == ClearWindows(m)
         IN  /\ n \in Manager /\ Alike(m, n) /\ n.cached = m.cached
             /\ n.windows = <<>> /\ PinFree(n) /\ Budget(n) /\ Inside(n)
<1> DEFINE n == ClearWindows(m)
<1>1. /\ n \in Manager /\ Alike(m, n) /\ n.cached = m.cached
      /\ n.windows = <<>> /\ n.pins = 0 /\ n.copies = {}
  <2>0. <<>> \in Seq(Window)
    OBVIOUS
  <2>1. PICK e \in Seq(Window) : e = <<>>
    BY <2>0
  <2>2. n = [m EXCEPT !.windows = e, !.active = 0, !.pins = 0, !.copies = {}]
    BY <2>1 DEF ClearWindows
  <2> HIDE DEF n
  <2>3. n \in Manager
    BY ONLY m \in Manager, e \in Seq(Window), <2>2 DEF Manager
  <2>4. /\ Alike(m, n) /\ n.cached = m.cached
        /\ n.windows = e /\ n.pins = 0 /\ n.copies = {}
    BY ONLY m \in Manager, <2>2 DEF Manager, Alike
  <2> QED BY <2>1, <2>3, <2>4
<1> HIDE DEF n
<1>2. Pinned(n) = {}
  BY <1>1 DEF Pinned
<1>3. Len(n.windows) = 0 /\ n.max \in Nat
  BY <1>1 DEF Manager
<1> QED BY <1>1, <1>2, <1>3, FS_EmptySet DEF PinFree, Budget, Inside, n

-----------------------------------------------------------------------------
(* Mapping a window. *)

\* A fresh window from start that ends with end, or with the known file.
Mapped(start, end, bound, owned) ==
  [off |-> start, size |-> IF owned \/ end - start <= bound - start THEN end - start ELSE bound - start,
   pinned |-> FALSE, refs |-> {}]

\* The file as the manager knows it while it maps a window.
Measured(m, len, start, end) ==
  CASE m.mode = "owned" -> IF end > m.cached THEN end ELSE m.cached
    [] m.mode = "live" -> IF start >= m.cached THEN len ELSE m.cached
    [] OTHER -> m.cached

(***************************************************************************)
(* PushWindow in terms of the file as it is then known.                    *)
(***************************************************************************)
LEMMA PushIs ==
  ASSUME NEW m \in Manager, NEW len \in Nat, NEW start \in Nat, NEW end \in Nat, start < end
  PROVE  LET c == Measured(m, len, start, end)
             g == [m EXCEPT !.cached = c]
             x == Mapped(start, end, c, m.mode = "owned")
         IN  /\ c \in Nat
             /\ PushWindow(m, len, start, end) =
                  IF m.mode # "owned" /\ start >= c THEN Failed(g, len)
                  ELSE Done([g EXCEPT !.windows = Append(@, x)],
                            IF c # m.cached /\ m.mode = "owned" THEN end ELSE len,
                            Len(m.windows) + 1)
<1> DEFINE c == Measured(m, len, start, end)
           g == [m EXCEPT !.cached = c]
           x == Mapped(start, end, c, m.mode = "owned")
           grown == IF m.mode = "live" /\ start >= m.cached THEN [m EXCEPT !.cached = len]
                    ELSE IF m.mode = "owned" /\ end > m.cached THEN [m EXCEPT !.cached = end]
                    ELSE m
           size == IF m.mode = "owned" THEN end - start ELSE Min({end - start, grown.cached - start})
           window == [off |-> start, size |-> size, pinned |-> FALSE, refs |-> {}]
<1>1. c \in Nat /\ m.cached \in Nat /\ m.mode \in {"owned", "live", "snapshot"}
  BY DEF Measured, Manager
<1>2. [m EXCEPT !.cached = m.cached] = m
  BY DEF Manager
<1>3. grown = g
  <2>1. CASE m.mode = "owned"
    BY <1>2, <2>1 DEF Measured
  <2>2. CASE m.mode = "live"
    BY <1>2, <2>2 DEF Measured
  <2>3. CASE m.mode = "snapshot"
    BY <1>2, <2>3 DEF Measured
  <2> QED BY <1>1, <2>1, <2>2, <2>3
<1>4. grown.cached = c
  BY <1>3 DEF Manager
<1>5. PushWindow(m, len, start, end) =
        IF m.mode # "owned" /\ start >= grown.cached THEN Failed(grown, len)
        ELSE Done([grown EXCEPT !.windows = Append(@, window)],
                  IF grown.cached # m.cached /\ m.mode = "owned" THEN end ELSE len,
                  Len(m.windows) + 1)
  BY DEF PushWindow, Using
<1> HIDE DEF c
<1>6. (m.mode = "owned" \/ start < c) => window = x
  <2>1. CASE m.mode = "owned"
    BY <2>1 DEF Mapped
  <2>2. CASE m.mode # "owned" /\ start < c
    <3>1. end - start \in Nat /\ c - start \in Nat
      BY <1>1, <2>2
    <3>2. size = IF end - start <= c - start THEN end - start ELSE c - start
      <4> HIDE DEF grown
      <4> QED BY <1>4, <2>2, <3>1, MinFacts
    <3> HIDE DEF size
    <3> QED BY <2>2, <3>2 DEF Mapped
  <2> QED BY <2>1, <2>2
<1> HIDE DEF grown, window
<1>7. PushWindow(m, len, start, end) =
        IF m.mode # "owned" /\ start >= c THEN Failed(g, len)
        ELSE Done([g EXCEPT !.windows = Append(@, x)],
                  IF c # m.cached /\ m.mode = "owned" THEN end ELSE len,
                  Len(m.windows) + 1)
  <2>1. CASE m.mode # "owned" /\ start >= c
    BY <1>3, <1>4, <1>5, <2>1
  <2>2. CASE ~(m.mode # "owned" /\ start >= c)
    <3>1. window = x
      BY <1>1, <1>6, <2>2
    <3> QED BY <1>3, <1>4, <1>5, <2>2, <3>1
  <2> QED BY <2>1, <2>2
<1> QED BY <1>1, <1>7 DEF c

Result == [ok : BOOLEAN, m : Manager, len : Nat, idx : Nat]

\* The window of a successful operation.
Found(r) == r.m.windows[r.idx]

\* What an operation may do to the file and to what the manager knows of it.
Measures(m, len, r) ==
  /\ m.mode = "owned" =>
       /\ m.cached <= r.m.cached
       /\ len = m.cached => r.len = r.m.cached
       /\ Inside(m) => Inside(r.m)
  /\ m.mode # "owned" => r.len = len /\ r.m.cached \in {m.cached, len}
  /\ m.mode = "snapshot" => r.m.cached = m.cached

LEMMA PushFacts ==
  ASSUME NEW m \in Manager, NEW len \in Nat, NEW start \in Nat, NEW end \in Nat, start < end,
         NEW r, r = PushWindow(m, len, start, end)
  PROVE  /\ r \in Result /\ Alike(m, r.m) /\ Kept(m, r.m) /\ Measures(m, len, r)
         /\ r.ok => /\ Len(r.m.windows) = Len(m.windows) + 1
                    /\ r.idx \in DOMAIN r.m.windows
                    /\ Found(r) = Mapped(start, end, r.m.cached, m.mode = "owned")
         /\ ~r.ok => r.m.windows = m.windows
         /\ m.mode = "owned" => r.ok
         /\ m.mode # "owned" /\ start < m.cached => r.ok /\ r.m.cached = m.cached
<1> DEFINE c == Measured(m, len, start, end)
           g == [m EXCEPT !.cached = c]
           x == Mapped(start, end, c, m.mode = "owned")
           n == [g EXCEPT !.windows = Append(@, x)]
           l == IF c # m.cached /\ m.mode = "owned" THEN end ELSE len
<1>0. m.mode \in {"owned", "live", "snapshot"} /\ m.cached \in Nat /\ m.windows \in Seq(Window)
  BY DEF Manager
<1>1. /\ c \in Nat
      /\ r = IF m.mode # "owned" /\ start >= c THEN Failed(g, len)
             ELSE Done(n, l, Len(m.windows) + 1)
  BY PushIs
<1>2. /\ m.mode = "owned" => c >= m.cached /\ c >= end /\ (c = end \/ c = m.cached)
      /\ m.mode # "owned" => c \in {m.cached, len}
      /\ m.mode # "owned" /\ start < m.cached => c = m.cached
      /\ m.mode = "snapshot" => c = m.cached
  BY <1>0 DEF Measured
<1> HIDE DEF c
<1>3. /\ g \in Manager /\ Alike(m, g) /\ g.cached = c /\ Kept(m, g) /\ g.windows = m.windows
  BY <1>1, ActiveFacts
<1>4. CASE m.mode # "owned" /\ start >= c
  <2>1. r = Failed(g, len)
    BY <1>1, <1>4
  <2> HIDE DEF g
  <2>2. r \in Result /\ r.m = g /\ r.len = len /\ ~r.ok
    BY <1>3, <2>1 DEF Failed, Result
  <2> QED BY <1>0, <1>1, <1>2, <1>3, <1>4, <2>2 DEF Measures
<1>5. CASE m.mode = "owned" \/ start < c
  <2>1. r = Done(n, l, Len(m.windows) + 1)
    BY <1>1, <1>5
  <2>2. x \in Window /\ ~x.pinned /\ x.refs = {}
    BY <1>1, <1>5 DEF Mapped, Window
  <2>3. m.mode = "owned" => RangeEnd(x) <= c
    BY <1>1, <1>2 DEF Mapped, RangeEnd
  <2>4. /\ n \in Manager /\ Alike(m, n) /\ n.cached = c /\ Kept(m, n)
        /\ n.windows = Append(m.windows, x) /\ Len(n.windows) = Len(m.windows) + 1
        /\ Inside(m) /\ m.cached <= c /\ RangeEnd(x) <= c => Inside(n)
    <3> HIDE DEF x
    <3> QED BY <1>1, <2>2, AddFacts
  <2>5. l \in Nat /\ (m.mode # "owned" => l = len) /\ (m.mode = "owned" /\ len = m.cached => l = c)
    BY <1>1, <1>2
  <2> HIDE DEF n, x, l
  <2>6. r \in Result /\ r.m = n /\ r.len = l /\ r.ok /\ r.idx = Len(m.windows) + 1
    BY <1>0, <2>1, <2>4, <2>5 DEF Done, Result
  <2>7. r.idx \in DOMAIN n.windows /\ n.windows[r.idx] = x
    BY <1>0, <2>2, <2>4, <2>6
  <2>8. Measures(m, len, r)
    <3>1. r.len = l /\ r.m = n /\ n.cached = c
      BY <2>4, <2>6
    <3>2. m.mode = "owned" => (Inside(m) => Inside(n))
      BY ONLY <1>2, <2>3, <2>4
    <3>3. m.mode # "owned" => l = len /\ c \in {m.cached, len}
      BY <1>2, <2>5
    <3>4. m.mode = "owned" => m.cached <= c /\ (len = m.cached => l = c)
      BY <1>0, <1>1, <1>2, <2>5
    <3> QED BY ONLY <1>2, <3>1, <3>2, <3>3, <3>4 DEF Measures
  <2> QED BY <1>1, <1>2, <2>4, <2>6, <2>7, <2>8 DEF Found, x
<1> QED BY <1>0, <1>1, <1>4, <1>5

\* The manager may be asked for the range.
Known(m, pos, size) == m.mode = "owned" \/ pos + size <= m.cached

(***************************************************************************)
(* A window over the chunks that a known range touches covers the range.   *)
(***************************************************************************)
LEMMA RangePush ==
  ASSUME NEW m \in Manager, NEW len \in Nat, NEW pos \in Nat, NEW size \in Nat \ {0},
         Known(m, pos, size), NEW r, r = PushForRange(m, len, pos, size)
  PROVE  /\ r \in Result /\ r.ok /\ Alike(m, r.m) /\ Kept(m, r.m) /\ Measures(m, len, r)
         /\ Len(r.m.windows) = Len(m.windows) + 1
         /\ r.idx \in DOMAIN r.m.windows /\ Covers(Found(r), pos, size)
         /\ m.mode # "owned" => r.m.cached = m.cached
<1>1. m.chunk \in Nat \ {0} /\ m.cached \in Nat /\ pos + size \in Nat
  BY DEF Manager
<1>2. PICK start \in Nat : start = AlignedStart(m, pos) /\ start <= pos
  BY <1>1, DivBounds DEF AlignedStart
<1>3. PICK end \in Nat : end = AlignedEnd(m, pos + size) /\ pos + size <= end
  BY <1>1, DivBounds DEF AlignedEnd
<1>4. start < end
  BY <1>2, <1>3
<1>5. r = PushWindow(m, len, start, end)
  BY <1>2, <1>3 DEF PushForRange
<1>6. /\ r \in Result /\ Alike(m, r.m) /\ Kept(m, r.m) /\ Measures(m, len, r)
      /\ r.ok => /\ Len(r.m.windows) = Len(m.windows) + 1
                 /\ r.idx \in DOMAIN r.m.windows
                 /\ Found(r) = Mapped(start, end, r.m.cached, m.mode = "owned")
      /\ m.mode = "owned" => r.ok
      /\ m.mode # "owned" /\ start < m.cached => r.ok /\ r.m.cached = m.cached
  BY <1>4, <1>5, PushFacts
<1>7. m.mode # "owned" => start < m.cached
  BY <1>1, <1>2 DEF Known
<1>8. r.ok
  BY <1>6, <1>7
<1>9. PICK f : f = Found(r) /\ f = Mapped(start, end, r.m.cached, m.mode = "owned")
  BY <1>6, <1>8
<1>10. CASE m.mode = "owned"
  <2>1. f.off = start /\ f.size = end - start
    BY <1>9, <1>10 DEF Mapped
  <2>2. Covers(f, pos, size)
    BY <1>1, <1>2, <1>3, <2>1 DEF Covers, RangeEnd
  <2> QED BY <1>6, <1>8, <1>9, <1>10, <2>2
<1>11. CASE m.mode # "owned"
  <2>1. r.m.cached = m.cached /\ pos + size <= m.cached
    BY <1>6, <1>7, <1>11 DEF Known
  <2>2. /\ f.off = start
        /\ f.size = IF end - start <= m.cached - start THEN end - start ELSE m.cached - start
    BY <1>9, <1>11, <2>1 DEF Mapped
  <2>3. Covers(f, pos, size)
    BY <1>1, <1>2, <1>3, <2>1, <2>2 DEF Covers, RangeEnd
  <2> QED BY <1>6, <1>8, <1>9, <2>1, <2>3
<1> QED BY <1>10, <1>11

-----------------------------------------------------------------------------
(* Finding a window. *)

\* A reader's one window shows all that the reader knows of the file.
Steady(m, len) ==
  /\ m.mode # "owned" /\ m.strategy = "whole" /\ len <= m.cached
  /\ \A i \in DOMAIN m.windows : m.windows[i].off = 0 /\ m.cached <= RangeEnd(m.windows[i])

\* What every operation on windows leaves.
Access(m, len, r) ==
  /\ r \in Result /\ Alike(m, r.m) /\ Budget(r.m) /\ Measures(m, len, r)
  /\ Kept(m, r.m) \/ (m.strategy = "whole" /\ PinFree(r.m))
  /\ Steady(m, len) => Kept(m, r.m) /\ Steady(r.m, len)

\* A window was found that covers the range.
Covered(r, pos, size) ==
  r.ok /\ r.idx \in DOMAIN r.m.windows /\ Covers(Found(r), pos, size)

LEMMA FirstFacts ==
  ASSUME NEW m \in Manager, NEW S \in SUBSET (DOMAIN m.windows)
  PROVE  \/ FirstWindow(m, S) = 0 /\ S = {}
         \/ FirstWindow(m, S) \in S
<1>1. S \subseteq 1..Len(m.windows) /\ Len(m.windows) \in Nat
  BY DEF Manager
<1>2. S # {} => Min(S) \in S
  BY <1>1, MinPosition
<1>3. m.active \notin S => FirstWindow(m, S) = IF S = {} THEN 0 ELSE Min(S)
  BY DEF FirstWindow
<1>4. m.active \in S => FirstWindow(m, S) = m.active
  BY DEF FirstWindow
<1> QED BY <1>2, <1>3, <1>4

LEMMA LookupFacts ==
  ASSUME NEW m \in Manager, NEW pos, NEW size
  PROVE  /\ LookupByRange(m, pos, size) # 0 =>
              /\ LookupByRange(m, pos, size) \in DOMAIN m.windows
              /\ Covers(m.windows[LookupByRange(m, pos, size)], pos, size)
         /\ LookupByRange(m, pos, size) = 0 =>
              \A i \in DOMAIN m.windows : ~Covers(m.windows[i], pos, size)
         /\ LookupByPosition(m, pos) # 0 => LookupByPosition(m, pos) \in DOMAIN m.windows
<1>1. 0 \notin DOMAIN m.windows
  BY DEF Manager
<1> DEFINE S == {i \in DOMAIN m.windows : Covers(m.windows[i], pos, size)}
           T == {i \in DOMAIN m.windows : Includes(m.windows[i], pos)}
<1>2. S \subseteq DOMAIN m.windows /\ T \subseteq DOMAIN m.windows
  OBVIOUS
<1>3. /\ (FirstWindow(m, S) = 0 /\ S = {}) \/ FirstWindow(m, S) \in S
      /\ (FirstWindow(m, T) = 0 /\ T = {}) \/ FirstWindow(m, T) \in T
  <2> HIDE DEF S, T
  <2> QED BY <1>2, FirstFacts
<1>4. LookupByRange(m, pos, size) = FirstWindow(m, S)
  BY DEF LookupByRange
<1>5. LookupByPosition(m, pos) = FirstWindow(m, T)
  BY DEF LookupByPosition
<1> QED BY <1>1, <1>3, <1>4, <1>5

LEMMA AllPinned ==
  ASSUME NEW m \in Manager, Budget(m), Unpinned(m) = {}
  PROVE  Len(m.windows) <= m.max
<1>1. DOMAIN m.windows = 1..Len(m.windows) /\ Len(m.windows) \in Nat
  BY DEF Manager
<1>2. Pinned(m) = 1..Len(m.windows)
  BY <1>1 DEF Unpinned, Pinned, Manager
<1>3. Cardinality(1..Len(m.windows)) = Len(m.windows)
  BY <1>1, FS_Interval
<1> QED BY <1>2, <1>3 DEF Budget

LEMMA UnpinnedFacts ==
  ASSUME NEW m \in Manager, Unpinned(m) # {}
  PROVE  Min(Unpinned(m)) \in DOMAIN m.windows /\ Min(Unpinned(m)) \notin Pinned(m)
<1>1. DOMAIN m.windows = 1..Len(m.windows) /\ Len(m.windows) \in Nat
  BY DEF Manager
<1>2. Unpinned(m) \subseteq 1..Len(m.windows)
  BY <1>1 DEF Unpinned
<1>3. Min(Unpinned(m)) \in Unpinned(m)
  BY <1>1, <1>2, MinPosition
<1> QED BY <1>3 DEF Unpinned, Pinned

\* n is m with a window less, or as it was.
Roomier(m, n) ==
  /\ n \in Manager /\ Alike(m, n) /\ n.cached = m.cached /\ Kept(m, n)
  /\ Len(n.windows) <= Len(m.windows)
  /\ Inside(m) => Inside(n)

LEMMA RoomierSelf ==
  ASSUME NEW m \in Manager
  PROVE  Roomier(m, m)
BY DEF Roomier, Alike, Kept, Manager

LEMMA RoomierDrop ==
  ASSUME NEW m \in Manager, NEW i \in DOMAIN m.windows, i \notin Pinned(m)
  PROVE  Roomier(m, DropWindow(m, i)) /\ Len(DropWindow(m, i).windows) = Len(m.windows) - 1
<1>1. Len(m.windows) \in Nat
  BY DEF Manager
<1> QED BY <1>1, DropFacts DEF Roomier

(***************************************************************************)
(* Before a window is added, room is made without touching a pinned one;   *)
(* when all are pinned there are no more than the limit.                   *)
(***************************************************************************)
LEMMA EvictFacts ==
  ASSUME NEW m \in Manager, Budget(m)
  PROVE  LET e == EvictUnpinnedIfFull(m)
         IN  Roomier(m, e.m) /\ Len(e.m.windows) <= m.max
<1>0. Len(m.windows) \in Nat /\ m.max \in Nat \ {0} /\ Len(m.windows) <= m.max + 1
  BY DEF Manager, Budget
<1>1. CASE Len(m.windows) < m.max
  BY <1>0, <1>1, RoomierSelf DEF EvictUnpinnedIfFull
<1>2. CASE ~(Len(m.windows) < m.max) /\ Unpinned(m) = {}
  BY <1>2, RoomierSelf, AllPinned DEF EvictUnpinnedIfFull
<1>3. CASE ~(Len(m.windows) < m.max) /\ Unpinned(m) # {}
  <2>1. EvictUnpinnedIfFull(m).m = DropWindow(m, Min(Unpinned(m)))
    BY <1>3 DEF EvictUnpinnedIfFull
  <2> QED BY <1>0, <1>3, <2>1, UnpinnedFacts, RoomierDrop
<1> QED BY <1>1, <1>2, <1>3

LEMMA MakeRoomFacts ==
  ASSUME NEW m \in Manager, Budget(m)
  PROVE  Roomier(m, MakeRoom(m)) /\ Len(MakeRoom(m).windows) <= m.max
<1>0. Len(m.windows) \in Nat /\ m.max \in Nat \ {0} /\ Len(m.windows) <= m.max + 1
  BY DEF Manager, Budget
<1>1. CASE Len(m.windows) < m.max
  BY <1>0, <1>1, RoomierSelf DEF MakeRoom
<1>2. CASE ~(Len(m.windows) < m.max) /\ m.pins = 0
  <2> DEFINE i == IF m.active = 1 /\ Len(m.windows) > 1 THEN 2 ELSE 1
  <2>1. MakeRoom(m) = DropWindow(m, i)
    BY <1>2 DEF MakeRoom
  <2>2. i \in DOMAIN m.windows
    BY <1>0, <1>2 DEF Manager
  <2> HIDE DEF i
  <2> QED BY <1>0, <1>2, <2>1, <2>2, NoPins, RoomierDrop
<1>3. CASE ~(Len(m.windows) < m.max) /\ m.pins # 0 /\ Unpinned(m) = {}
  BY <1>3, RoomierSelf, AllPinned DEF MakeRoom
<1>4. CASE ~(Len(m.windows) < m.max) /\ m.pins # 0 /\ Unpinned(m) # {}
  <2>1. MakeRoom(m) = DropWindow(m, Min(Unpinned(m)))
    BY <1>4 DEF MakeRoom
  <2> QED BY <1>0, <1>4, <2>1, UnpinnedFacts, RoomierDrop
<1> QED BY <1>1, <1>2, <1>3, <1>4

\* A windowed manager found or mapped the range and kept its pins.
Windowed(m, len, pos, size, r) ==
  /\ r \in Result /\ Alike(m, r.m) /\ Kept(m, r.m) /\ Measures(m, len, r)
  /\ Len(r.m.windows) <= m.max + 1
  /\ Covered(r, pos, size)
  /\ m.mode # "owned" => r.m.cached = m.cached

LEMMA PushInRoom ==
  ASSUME NEW m \in Manager, NEW n, Roomier(m, n), Len(n.windows) <= m.max,
         NEW len \in Nat, NEW pos \in Nat, NEW size \in Nat \ {0}, Known(m, pos, size)
  PROVE  Windowed(m, len, pos, size, PushForRange(n, len, pos, size))
<1> DEFINE r == PushForRange(n, len, pos, size)
<1>1. n \in Manager /\ Alike(m, n) /\ n.cached = m.cached /\ Kept(m, n) /\ (Inside(m) => Inside(n))
  BY DEF Roomier
<1>2. Known(n, pos, size)
  BY <1>1 DEF Known, Alike
<1>3. /\ r \in Result /\ r.ok /\ Alike(n, r.m) /\ Kept(n, r.m) /\ Measures(n, len, r)
      /\ Len(r.m.windows) = Len(n.windows) + 1
      /\ r.idx \in DOMAIN r.m.windows /\ Covers(Found(r), pos, size)
      /\ n.mode # "owned" => r.m.cached = n.cached
  BY <1>1, <1>2, RangePush
<1> HIDE DEF r
<1>4. Measures(m, len, r)
  BY <1>1, <1>3 DEF Measures, Alike
<1>5. Len(r.m.windows) <= m.max + 1
  <2>1. Len(n.windows) \in Nat /\ m.max \in Nat
    BY <1>1 DEF Manager
  <2> QED BY <1>3, <2>1
<1>6. Alike(m, r.m) /\ Kept(m, r.m) /\ n.mode = m.mode
  BY <1>1, <1>3, AlikeTrans, KeptTrans DEF Alike
<1> QED BY <1>1, <1>3, <1>4, <1>5, <1>6 DEF Windowed, Covered, r

LEMMA HitWindow ==
  ASSUME NEW m \in Manager, Budget(m), NEW len \in Nat, NEW pos, NEW size,
         LookupByRange(m, pos, size) # 0
  PROVE  Windowed(m, len, pos, size, Done(m, len, LookupByRange(m, pos, size)))
<1> DEFINE i == LookupByRange(m, pos, size)
           r == Done(m, len, i)
<1>1. i \in DOMAIN m.windows /\ Covers(m.windows[i], pos, size)
  BY LookupFacts
<1>2. i \in Nat /\ m.cached \in Nat
  BY <1>1 DEF Manager
<1> HIDE DEF i
<1>3. r \in Result /\ r.ok /\ r.m = m /\ r.len = len /\ r.idx = i
  BY <1>2 DEF Done, Result
<1> HIDE DEF r
<1>4. Alike(m, m) /\ Kept(m, m)
  BY DEF Alike, Kept
<1>5. Measures(m, len, r)
  BY <1>2, <1>3 DEF Measures
<1>6. Covered(r, pos, size)
  BY <1>1, <1>3 DEF Covered, Found
<1>7. Len(m.windows) <= m.max + 1
  BY DEF Budget
<1> QED BY <1>3, <1>4, <1>5, <1>6, <1>7 DEF Windowed, r, i

\* In place of window i, which is not pinned.
LEMMA ReplaceWindow ==
  ASSUME NEW m \in Manager, Budget(m), NEW i \in DOMAIN m.windows, i \notin Pinned(m),
         NEW len \in Nat, NEW pos \in Nat, NEW size \in Nat \ {0}, Known(m, pos, size)
  PROVE  Windowed(m, len, pos, size, ReplaceForRange(m, len, i, pos, size))
<1>1. Roomier(m, DropWindow(m, i)) /\ Len(DropWindow(m, i).windows) = Len(m.windows) - 1
  BY RoomierDrop
<1>2. Len(m.windows) \in Nat /\ m.max \in Nat /\ Len(m.windows) <= m.max + 1
  BY DEF Manager, Budget
<1>3. Len(DropWindow(m, i).windows) <= m.max
  BY <1>1, <1>2
<1> QED BY <1>1, <1>3, PushInRoom DEF ReplaceForRange

LEMMA ActivatedWindow ==
  ASSUME NEW m \in Manager, Budget(m), m.strategy # "whole", NEW len, NEW pos, NEW size,
         NEW f, Windowed(m, len, pos, size, f)
  PROVE  /\ Access(m, len, Activated(f)) /\ Covered(Activated(f), pos, size)
         /\ Kept(m, Activated(f).m)
         /\ m.mode # "owned" => Activated(f).m.cached = m.cached
<1> DEFINE n == [f.m EXCEPT !.active = f.idx]
           r == Activated(f)
<1>1. f \in Result /\ f.ok /\ f.m \in Manager /\ f.idx \in Nat
  BY DEF Windowed, Covered, Result
<1>2. /\ n \in Manager /\ Alike(f.m, n) /\ n.cached = f.m.cached /\ Kept(f.m, n)
      /\ n.windows = f.m.windows
  BY <1>1, ActiveFacts
<1>3. r = [f EXCEPT !.m = n]
  BY <1>1 DEF Activated, Result
<1> HIDE DEF n, r
<1>4. r \in Result /\ r.ok /\ r.m = n /\ r.len = f.len /\ r.idx = f.idx
  BY <1>1, <1>2, <1>3 DEF Result
<1>5. Alike(m, n) /\ Kept(m, n)
  BY <1>2, AlikeTrans, KeptTrans DEF Windowed
<1>6. Measures(m, len, r)
  BY <1>2, <1>4 DEF Windowed, Measures, Inside
<1>7. Covered(r, pos, size)
  BY <1>2, <1>4 DEF Windowed, Covered, Found
<1>8. Budget(n)
  BY <1>2, <1>5, KeptBudget DEF Windowed, Alike
<1>9. ~Steady(m, len)
  BY DEF Steady
<1>10. m.mode # "owned" => n.cached = m.cached
  BY <1>2 DEF Windowed
<1> QED BY <1>4, <1>5, <1>6, <1>7, <1>8, <1>9, <1>10 DEF Access, r

LEMMA WindowedIndex ==
  ASSUME NEW m \in Manager, Budget(m), m.strategy # "whole",
         NEW len \in Nat, NEW pos \in Nat, NEW size \in Nat \ {0}, Known(m, pos, size),
         NEW r, r = WindowIndex(m, len, pos, size)
  PROVE  /\ Access(m, len, r) /\ Covered(r, pos, size)
         /\ m.mode # "owned" => r.m.cached = m.cached
<1> DEFINE hit == LookupByRange(m, pos, size)
           near == LookupByPosition(m, pos)
           replace == near # 0 /\ ~(m.pins > 0 /\ m.windows[near].pinned)
           f == IF hit # 0 THEN Done(m, len, hit)
                ELSE IF replace THEN ReplaceForRange(m, len, near, pos, size)
                ELSE PushForRange(IF near = 0 THEN MakeRoom(m) ELSE EvictUnpinnedIfFull(m).m,
                                  len, pos, size)
<1>1. r = Activated(f)
  BY DEF WindowIndex, Using
<1>2. m.pins \in Nat
  BY DEF Manager
<1>3. replace => near \in DOMAIN m.windows /\ near \notin Pinned(m)
  <2>1. near # 0 => near \in DOMAIN m.windows
    BY LookupFacts
  <2>2. m.pins = 0 => near \notin Pinned(m)
    BY NoPins
  <2> QED BY <1>2, <2>1, <2>2 DEF Pinned
<1>4. CASE hit # 0
  <2>1. f = Done(m, len, hit)
    BY <1>4
  <2>2. Windowed(m, len, pos, size, f)
    BY <1>4, <2>1, HitWindow
  <2> HIDE DEF f
  <2> QED BY <1>1, <2>2, ActivatedWindow
<1>5. CASE hit = 0 /\ replace
  <2>1. f = ReplaceForRange(m, len, near, pos, size)
    BY <1>5
  <2>2. Windowed(m, len, pos, size, f)
    BY <1>3, <1>5, <2>1, ReplaceWindow
  <2> HIDE DEF f
  <2> QED BY <1>1, <2>2, ActivatedWindow
<1>6. CASE hit = 0 /\ ~replace
  <2> DEFINE n == IF near = 0 THEN MakeRoom(m) ELSE EvictUnpinnedIfFull(m).m
  <2>1. f = PushForRange(n, len, pos, size)
    BY <1>6
  <2>2. Roomier(m, n) /\ Len(n.windows) <= m.max
    BY MakeRoomFacts, EvictFacts
  <2> HIDE DEF n, f
  <2>3. Windowed(m, len, pos, size, f)
    BY <2>1, <2>2, PushInRoom
  <2> QED BY <1>1, <2>3, ActivatedWindow
<1> QED BY <1>4, <1>5, <1>6

(***************************************************************************)
(* Mapping the whole file into a manager without windows.                  *)
(***************************************************************************)
LEMMA WholePush ==
  ASSUME NEW n \in Manager, Budget(n), n.windows = <<>>,
         NEW len \in Nat, NEW pos \in Nat, NEW size \in Nat \ {0}, Known(n, pos, size),
         NEW end \in Nat, pos + size <= end, n.cached <= end,
         NEW r, r = Activated(PushWindow(n, len, 0, end))
  PROVE  /\ r \in Result /\ Alike(n, r.m) /\ Kept(n, r.m) /\ Measures(n, len, r) /\ Budget(r.m)
         /\ Covered(r, pos, size)
         /\ n.mode # "owned" => r.m.cached = n.cached
         /\ Steady(n, len) => Steady(r.m, len)
<1> DEFINE f == PushWindow(n, len, 0, end)
           k == [f.m EXCEPT !.active = f.idx]
<1>0. n.cached \in Nat /\ n.max \in Nat \ {0} /\ Len(n.windows) = 0
  BY DEF Manager
<1>1. n.mode # "owned" => 0 < n.cached
  BY <1>0 DEF Known
<1>2. /\ f \in Result /\ Alike(n, f.m) /\ Kept(n, f.m) /\ Measures(n, len, f)
      /\ f.ok
      /\ Len(f.m.windows) = Len(n.windows) + 1 /\ f.idx \in DOMAIN f.m.windows
      /\ Found(f) = Mapped(0, end, f.m.cached, n.mode = "owned")
      /\ n.mode # "owned" => f.m.cached = n.cached
  <2>1. PICK s \in Nat : s = 0 /\ s < end
    OBVIOUS
  <2> HIDE DEF f
  <2>2. f = PushWindow(n, len, s, end)
    BY <2>1 DEF f
  <2>3. /\ f \in Result /\ Alike(n, f.m) /\ Kept(n, f.m) /\ Measures(n, len, f)
        /\ f.ok => /\ Len(f.m.windows) = Len(n.windows) + 1
                   /\ f.idx \in DOMAIN f.m.windows
                   /\ Found(f) = Mapped(s, end, f.m.cached, n.mode = "owned")
        /\ n.mode = "owned" => f.ok
        /\ n.mode # "owned" /\ s < n.cached => f.ok /\ f.m.cached = n.cached
    <3>1. s < end
      BY <2>1
    <3> QED BY ONLY n \in Manager, len \in Nat, s \in Nat, end \in Nat, <3>1, <2>2, PushFacts
  <2> QED BY <1>1, <2>1, <2>3
<1>3. r = [f EXCEPT !.m = k]
  BY <1>2 DEF Activated, Result
<1> HIDE DEF f
<1>4. f.m \in Manager /\ f.idx \in Nat
  BY <1>2 DEF Result
<1>5. /\ k \in Manager /\ Alike(f.m, k) /\ k.cached = f.m.cached /\ Kept(f.m, k)
      /\ k.windows = f.m.windows
  BY <1>4, ActiveFacts
<1> HIDE DEF k
<1>6. r \in Result /\ r.ok /\ r.m = k /\ r.len = f.len /\ r.idx = f.idx
  BY <1>2, <1>3, <1>5 DEF Result
<1>7. Alike(n, k) /\ Kept(n, k)
  BY <1>2, <1>5, AlikeTrans, KeptTrans
<1>8. Measures(n, len, r)
  BY <1>2, <1>5, <1>6 DEF Measures, Inside
<1>9. Len(k.windows) = 1 /\ DOMAIN k.windows = 1..1 /\ r.idx = 1
  <2>1. k.windows \in Seq(Window)
    BY <1>5 DEF Manager
  <2>2. Len(k.windows) = 1
    BY <1>0, <1>2, <1>5
  <2>3. DOMAIN k.windows = 1..1
    BY <2>1, <2>2
  <2> QED BY <1>2, <1>5, <1>6, <2>2, <2>3
<1>10. Budget(k)
  <2>1. k.max = n.max
    BY <1>7 DEF Alike
  <2>2. Len(k.windows) <= k.max + 1 /\ Len(k.windows) <= 1
    BY <1>0, <1>9, <2>1
  <2> QED BY <1>5, <1>7, <2>2, KeptBudget
<1>11. PICK x : x = k.windows[1] /\ x = Mapped(0, end, f.m.cached, n.mode = "owned")
  BY <1>2, <1>5, <1>6, <1>9 DEF Found
<1>12. x.off = 0 /\ (n.mode = "owned" => x.size = end) /\ (n.mode # "owned" => x.size = n.cached)
  BY <1>0, <1>2, <1>11 DEF Mapped
<1>13. Covers(x, pos, size)
  BY <1>0, <1>12 DEF Covers, RangeEnd, Known
<1>14. Steady(n, len) => Steady(k, len)
  <2> SUFFICES ASSUME Steady(n, len), NEW i \in DOMAIN k.windows
               PROVE  k.windows[i].off = 0 /\ k.cached <= RangeEnd(k.windows[i])
    BY <1>2, <1>5, <1>7 DEF Steady, Alike
  <2>1. i = 1 /\ n.mode # "owned" /\ k.cached = n.cached
    BY <1>2, <1>5, <1>9 DEF Steady
  <2>2. k.windows[i] = x
    BY <1>11, <2>1
  <2>3. RangeEnd(x) = n.cached
    BY <1>0, <1>12, <2>1 DEF RangeEnd
  <2> QED BY <1>0, <1>12, <2>1, <2>2, <2>3
<1>15. Covered(r, pos, size)
  <2>1. Found(r) = x /\ r.idx \in DOMAIN r.m.windows
    <3>1. r.m.windows = k.windows /\ 1 \in 1..1
      BY <1>6
    <3>2. r.idx \in DOMAIN r.m.windows
      BY <1>9, <3>1
    <3>3. Found(r) = r.m.windows[r.idx]
      BY DEF Found
    <3> QED BY <1>9, <1>11, <3>1, <3>2, <3>3
  <2> QED BY <1>6, <1>13, <2>1 DEF Covered
<1> QED BY <1>2, <1>5, <1>6, <1>7, <1>8, <1>10, <1>14, <1>15

LEMMA WholeIndex ==
  ASSUME NEW m \in Manager, Budget(m), m.strategy = "whole",
         NEW len \in Nat, NEW pos \in Nat, NEW size \in Nat \ {0}, Known(m, pos, size),
         NEW r, r = WholeFileIndex(m, len, pos, size)
  PROVE  /\ Access(m, len, r) /\ Covered(r, pos, size)
         /\ m.mode # "owned" => r.m.cached = m.cached
<1> DEFINE hit == LookupByRange(m, pos, size)
           fits == IF m.mode = "owned" THEN Done(m, len, 0) ELSE Ensure(m, len, pos + size)
           target == Max({pos + size, fits.m.cached})
           cleared == IF m.windows = <<>> THEN fits.m ELSE ClearWindows(fits.m)
           end == Max({AlignedEnd(m, target), m.chunk})
<1>0. m.cached \in Nat /\ m.chunk \in Nat \ {0} /\ pos + size \in Nat
  BY DEF Manager
<1>1. fits.m = m /\ fits.ok
  BY DEF Known, Ensure, Done
<1>2. r = IF hit # 0 THEN Done([m EXCEPT !.active = hit], len, hit)
          ELSE IF ~fits.ok THEN Failed(fits.m, len)
          ELSE Activated(PushWindow(cleared, len, 0, end))
  BY DEF WholeFileIndex, Using
<1>3. CASE hit # 0
  <2> DEFINE n == [m EXCEPT !.active = hit]
  <2>1. hit \in DOMAIN m.windows /\ hit \in Nat /\ Covers(m.windows[hit], pos, size)
    <3>1. hit \in DOMAIN m.windows /\ Covers(m.windows[hit], pos, size)
      BY <1>3, LookupFacts
    <3> HIDE DEF hit
    <3> QED BY <3>1 DEF Manager
  <2>2. /\ n \in Manager /\ Alike(m, n) /\ n.cached = m.cached /\ Kept(m, n)
        /\ n.windows = m.windows
    BY <2>1, ActiveFacts
  <2>3. r = Done(n, len, hit)
    BY <1>2, <1>3
  <2> HIDE DEF n, hit
  <2>4. r \in Result /\ r.ok /\ r.m = n /\ r.len = len /\ r.idx = hit
    BY <2>1, <2>2, <2>3 DEF Done, Result
  <2>5. Measures(m, len, r)
    BY <1>0, <2>2, <2>4 DEF Measures, Inside
  <2>6. Budget(n)
    BY <2>2, KeptBudget DEF Budget, Alike
  <2>7. Steady(m, len) => Steady(n, len)
    BY <2>2 DEF Steady, Alike
  <2> QED BY <2>1, <2>2, <2>4, <2>5, <2>6, <2>7 DEF Access, Covered, Found
<1>4. CASE hit = 0
  <2>1. r = Activated(PushWindow(cleared, len, 0, end))
    BY <1>1, <1>2, <1>4
  <2>2. target \in Nat /\ pos + size <= target /\ m.cached <= target
    <3>1. target = IF pos + size >= m.cached THEN pos + size ELSE m.cached
      BY <1>0, <1>1, MaxFacts
    <3> HIDE DEF target
    <3> QED BY <1>0, <3>1
  <2> HIDE DEF target
  <2>3. AlignedEnd(m, target) \in Nat /\ target <= AlignedEnd(m, target)
    BY <1>0, <2>2, DivBounds DEF AlignedEnd
  <2>4. end \in Nat /\ pos + size <= end /\ m.cached <= end
    <3>1. end = IF AlignedEnd(m, target) >= m.chunk THEN AlignedEnd(m, target) ELSE m.chunk
      BY <1>0, <2>3, MaxFacts
    <3> HIDE DEF end
    <3> QED BY <1>0, <2>2, <2>3, <3>1
  <2>5. /\ cleared \in Manager /\ Alike(m, cleared) /\ cleared.cached = m.cached
        /\ cleared.windows = <<>> /\ Budget(cleared) /\ (Inside(m) => Inside(cleared))
        /\ cleared = m \/ (PinFree(cleared) /\ m.windows # <<>>)
    <3>1. Alike(m, m)
      BY DEF Alike
    <3>2. CASE m.windows = <<>>
      BY <1>1, <3>1, <3>2
    <3>3. CASE m.windows # <<>>
      <4>1. cleared = ClearWindows(m)
        BY <1>1, <3>3
      <4> HIDE DEF cleared
      <4> QED BY <3>3, <4>1, ForgetFacts
    <3> QED BY <3>2, <3>3
  <2> HIDE DEF cleared, end, fits
  <2>6. Known(cleared, pos, size)
    BY <2>5 DEF Known, Alike
  <2>7. /\ r \in Result /\ Alike(cleared, r.m) /\ Kept(cleared, r.m)
        /\ Measures(cleared, len, r) /\ Budget(r.m) /\ Covered(r, pos, size)
        /\ cleared.mode # "owned" => r.m.cached = cleared.cached
        /\ Steady(cleared, len) => Steady(r.m, len)
    BY <2>1, <2>4, <2>5, <2>6, WholePush
  <2>8. Measures(m, len, r)
    BY <2>5, <2>7 DEF Measures, Alike
  <2>9. PinFree(cleared) => PinFree(r.m)
    <3>1. r.m \in Manager
      BY <2>7 DEF Result
    <3> QED BY <2>7, <3>1, NoPins DEF PinFree, Kept
  <2>10. ASSUME Steady(m, len) PROVE cleared = m
    <3> SUFFICES ASSUME m.windows # <<>> PROVE FALSE
      BY <2>5
    <3>1. 1 \in DOMAIN m.windows /\ m.windows[1] \in Window
      BY DEF Manager
    <3>2. m.windows[1].off = 0 /\ m.cached <= RangeEnd(m.windows[1]) /\ m.mode # "owned"
      BY <2>10, <3>1 DEF Steady
    <3>3. Covers(m.windows[1], pos, size)
      <4>1. RangeEnd(m.windows[1]) \in Nat
        BY <3>1 DEF RangeEnd, Window
      <4> QED BY <1>0, <3>2, <4>1 DEF Covers, Known
    <3> QED BY <1>4, <3>1, <3>3, LookupFacts
  <2> QED BY <2>5, <2>7, <2>8, <2>9, <2>10, AlikeTrans DEF Access, Alike
<1> QED BY <1>3, <1>4

-----------------------------------------------------------------------------
(* Ranges of the file. *)

LEMMA IndexFacts ==
  ASSUME NEW m \in Manager, Budget(m), NEW len \in Nat, NEW pos \in Nat,
         NEW size \in Nat \ {0}, Known(m, pos, size),
         NEW r, r = WindowIndex(m, len, pos, size)
  PROVE  Access(m, len, r) /\ Covered(r, pos, size)
<1>1. CASE m.strategy = "whole"
  <2>1. r = WholeFileIndex(m, len, pos, size)
    BY <1>1 DEF WindowIndex, Using
  <2> QED BY <1>1, <2>1, WholeIndex
<1>2. CASE m.strategy # "whole"
  BY <1>2, WindowedIndex
<1> QED BY <1>1, <1>2

LEMMA AccessTrans ==
  ASSUME NEW m \in Manager, NEW len \in Nat, NEW a, NEW b,
         Access(m, len, a), Access(a.m, a.len, b)
  PROVE  Access(m, len, b)
<1>1. /\ a \in Result /\ a.m \in Manager /\ a.len \in Nat /\ Alike(m, a.m)
      /\ b \in Result /\ b.m \in Manager /\ b.len \in Nat /\ Alike(a.m, b.m)
      /\ Budget(a.m) /\ Budget(b.m)
  BY DEF Access, Result
<1>2. Alike(m, b.m) /\ a.m.mode = m.mode /\ a.m.strategy = m.strategy
  BY <1>1, AlikeTrans DEF Alike
<1>3. Measures(m, len, b)
  <2>1. m.cached \in Nat /\ a.m.cached \in Nat /\ b.m.cached \in Nat
    BY <1>1 DEF Manager
  <2> QED BY <1>2, <2>1 DEF Access, Measures
<1>4. PinFree(a.m) => PinFree(b.m)
  <2>1. Kept(a.m, b.m) \/ PinFree(b.m)
    BY DEF Access
  <2> QED BY <1>1, <2>1, NoPins DEF PinFree, Kept
<1>5. Kept(m, b.m) \/ (m.strategy = "whole" /\ PinFree(b.m))
  <2>1. Kept(m, a.m) \/ (m.strategy = "whole" /\ PinFree(a.m))
    BY DEF Access
  <2>2. Kept(a.m, b.m) \/ (m.strategy = "whole" /\ PinFree(b.m))
    BY <1>2 DEF Access
  <2> QED BY <1>4, <2>1, <2>2, KeptTrans
<1>6. Steady(m, len) => Kept(m, b.m) /\ Steady(b.m, len)
  <2> SUFFICES ASSUME Steady(m, len) PROVE Kept(m, b.m) /\ Steady(b.m, len)
    OBVIOUS
  <2>1. Kept(m, a.m) /\ Steady(a.m, len) /\ m.mode # "owned"
    BY DEF Access, Steady
  <2>2. a.len = len
    BY <2>1 DEF Access, Measures
  <2>3. Kept(a.m, b.m) /\ Steady(b.m, len)
    BY <2>1, <2>2 DEF Access
  <2> QED BY <2>1, <2>3, KeptTrans
<1> QED BY <1>1, <1>2, <1>3, <1>5, <1>6 DEF Access

LEMMA DoneFacts ==
  ASSUME NEW m \in Manager, NEW len \in Nat, NEW i \in Nat
  PROVE  /\ Done(m, len, i) \in Result /\ Done(m, len, i).m = m /\ Done(m, len, i).len = len
         /\ Done(m, len, i).ok /\ Done(m, len, i).idx = i
         /\ Failed(m, len) \in Result /\ Failed(m, len).m = m /\ Failed(m, len).len = len
         /\ ~Failed(m, len).ok
<1>1. Done(m, len, i) \in Result
  BY DEF Done, Result
<1>2. Failed(m, len) \in Result
  BY DEF Failed, Result
<1> QED BY <1>1, <1>2 DEF Done, Failed

\* Nothing was done.
LEMMA AccessSelf ==
  ASSUME NEW m \in Manager, Budget(m), NEW len \in Nat, NEW r \in Result, r.m = m, r.len = len
  PROVE  Access(m, len, r)
<1>1. Alike(m, m) /\ Kept(m, m)
  BY DEF Alike, Kept
<1>2. m.cached \in Nat
  BY DEF Manager
<1> QED BY <1>1, <1>2 DEF Access, Measures

(***************************************************************************)
(* A live file is measured again before a range is refused.                *)
(***************************************************************************)
LEMMA EnsureFacts ==
  ASSUME NEW m \in Manager, Budget(m), NEW len \in Nat, NEW pos \in Nat, NEW size \in Nat \ {0},
         NEW f, f = Ensure(m, len, pos + size)
  PROVE  /\ Access(m, len, f)
         /\ f.ok => Known(f.m, pos, size)
         /\ pos + size <= m.cached \/ (m.mode = "live" /\ pos + size <= len) => f.ok
<1>0. m.cached \in Nat /\ pos + size \in Nat
  BY DEF Manager
<1>1. CASE pos + size <= m.cached
  <2>1. f = Done(m, len, 0)
    BY <1>1 DEF Ensure
  <2>2. f \in Result /\ f.m = m /\ f.len = len /\ f.ok
    BY <2>1, DoneFacts
  <2> QED BY <1>1, <2>2, AccessSelf DEF Known
<1>2. CASE ~(pos + size <= m.cached) /\ m.mode # "live"
  <2>1. f = Failed(m, len)
    BY <1>2 DEF Ensure
  <2>2. f \in Result /\ f.m = m /\ f.len = len /\ ~f.ok
    BY <2>1, DoneFacts
  <2> QED BY <1>2, <2>2, AccessSelf
<1>3. CASE ~(pos + size <= m.cached) /\ m.mode = "live"
  <2> DEFINE n == [m EXCEPT !.cached = len]
  <2>1. /\ n \in Manager /\ Alike(m, n) /\ n.cached = len /\ Kept(m, n)
        /\ n.windows = m.windows
    BY ActiveFacts
  <2>2. f = [Done(n, len, 0) EXCEPT !.ok = pos + size <= len]
    BY <1>3 DEF Ensure
  <2> HIDE DEF n
  <2>3. f \in Result /\ f.m = n /\ f.len = len /\ f.ok = (pos + size <= len)
    <3>1. PICK d \in Result : d = Done(n, len, 0) /\ d.m = n /\ d.len = len
      BY <2>1, DoneFacts
    <3>2. (pos + size <= len) \in BOOLEAN
      BY <1>0
    <3>3. f = [d EXCEPT !.ok = pos + size <= len]
      BY <2>2, <3>1
    <3> QED BY ONLY d \in Result, <3>1, <3>2, <3>3 DEF Result
  <2>4. Budget(n)
    BY <2>1, KeptBudget DEF Budget, Alike
  <2>5. Measures(m, len, f)
    BY <1>3, <2>1, <2>3 DEF Measures
  <2>6. Steady(m, len) => Steady(n, len)
    <3> SUFFICES ASSUME Steady(m, len), NEW i \in DOMAIN m.windows
                 PROVE  len <= RangeEnd(m.windows[i])
      BY <2>1 DEF Steady, Alike
    <3>1. m.windows[i] \in Window
      BY DEF Manager
    <3>2. RangeEnd(m.windows[i]) \in Nat
      BY <3>1 DEF RangeEnd, Window
    <3> QED BY <1>0, <3>2 DEF Steady
  <2> QED BY <1>3, <2>1, <2>3, <2>4, <2>5, <2>6 DEF Access, Known
<1> QED BY <1>1, <1>2, <1>3

(***************************************************************************)
(* get_slice finds every range that the file has.                          *)
(***************************************************************************)
LEMMA SliceFacts ==
  ASSUME NEW m \in Manager, Budget(m), NEW len \in Nat, NEW pos \in Nat, NEW size \in Nat \ {0},
         NEW r, r = GetSlice(m, len, pos, size)
  PROVE  /\ Access(m, len, r)
         /\ r.ok => Covered(r, pos, size)
         /\ pos + size <= m.cached \/ (m.mode = "live" /\ pos + size <= len) => r.ok
<1> DEFINE f == Ensure(m, len, pos + size)
<1>1. /\ Access(m, len, f)
      /\ f.ok => Known(f.m, pos, size)
      /\ pos + size <= m.cached \/ (m.mode = "live" /\ pos + size <= len) => f.ok
  BY EnsureFacts
<1>2. r = IF f.ok THEN WindowIndex(f.m, len, pos, size) ELSE f
  BY DEF GetSlice, Using
<1>a. f.len = len
  BY DEF Ensure, Done, Failed
<1> HIDE DEF f
<1>3. CASE ~f.ok
  BY <1>1, <1>2, <1>3
<1>4. CASE f.ok
  <2>1. f.m \in Manager /\ Budget(f.m) /\ f.len \in Nat /\ Known(f.m, pos, size)
    BY <1>1, <1>4 DEF Access, Result
  <2>3. Access(f.m, f.len, r) /\ Covered(r, pos, size)
    BY <1>2, <1>4, <1>a, <2>1, IndexFacts
  <2> QED BY <1>1, <2>3, AccessTrans DEF Covered
<1> QED BY <1>3, <1>4

-----------------------------------------------------------------------------
(* Pinning for a row. *)

\* All that the row was handed is still there.
Grows(m, n) ==
  /\ m.copies \subseteq n.copies
  /\ \A i \in Pinned(m) : \E j \in Pinned(n) :
        /\ n.windows[j].off = m.windows[i].off /\ n.windows[j].size = m.windows[i].size
        /\ m.windows[i].refs \subseteq n.windows[j].refs

LEMMA KeptGrows ==
  ASSUME NEW m, NEW n, Kept(m, n)
  PROVE  Grows(m, n)
BY DEF Kept, Grows

LEMMA GrowsTrans ==
  ASSUME NEW a, NEW b, NEW c, Grows(a, b), Grows(b, c)
  PROVE  Grows(a, c)
<1>1. a.copies \subseteq c.copies
  BY DEF Grows
<1>2. ASSUME NEW i \in Pinned(a)
      PROVE  \E k \in Pinned(c) :
                /\ c.windows[k].off = a.windows[i].off /\ c.windows[k].size = a.windows[i].size
                /\ a.windows[i].refs \subseteq c.windows[k].refs
  <2>1. PICK j \in Pinned(b) :
                /\ b.windows[j].off = a.windows[i].off /\ b.windows[j].size = a.windows[i].size
                /\ a.windows[i].refs \subseteq b.windows[j].refs
    BY DEF Grows
  <2>2. PICK k \in Pinned(c) :
                /\ c.windows[k].off = b.windows[j].off /\ c.windows[k].size = b.windows[j].size
                /\ b.windows[j].refs \subseteq c.windows[k].refs
    BY DEF Grows
  <2> QED BY <2>1, <2>2
<1> QED BY <1>1, <1>2 DEF Grows

\* n is m with other windows, all at the same places.
Placed(m, n) ==
  /\ n \in Manager /\ Alike(m, n) /\ n.cached = m.cached
  /\ Len(n.windows) = Len(m.windows)
  /\ \A i \in DOMAIN m.windows :
        n.windows[i].off = m.windows[i].off /\ n.windows[i].size = m.windows[i].size

LEMMA PlacedSteady ==
  ASSUME NEW m \in Manager, NEW n, Placed(m, n), NEW len, Steady(m, len)
  PROVE  Steady(n, len)
<1>1. DOMAIN n.windows = DOMAIN m.windows
  BY DEF Placed, Manager
<1> QED BY <1>1 DEF Placed, Steady, Alike, RangeEnd

(***************************************************************************)
(* A window is pinned if the number of pins allows another.                *)
(***************************************************************************)
LEMMA PinFacts ==
  ASSUME NEW m \in Manager, Budget(m), NEW i \in DOMAIN m.windows,
         i \notin Pinned(m) => m.pins < m.max
  PROVE  LET n == Pin(m, i)
         IN  Placed(m, n) /\ Budget(n) /\ Grows(m, n) /\ i \in Pinned(n)
<1>0. /\ m.windows \in Seq(Window) /\ DOMAIN m.windows = 1..Len(m.windows)
      /\ Len(m.windows) \in Nat /\ m.pins \in Nat /\ m.windows[i] \in Window
  BY DEF Manager
<1>1. CASE i \in Pinned(m)
  <2>1. Pin(m, i) = m
    BY <1>1 DEF Pin, Pinned
  <2> QED BY <1>1, <2>1 DEF Placed, Alike, Grows
<1>2. CASE i \notin Pinned(m)
  <2> DEFINE w == [m.windows[i] EXCEPT !.pinned = TRUE]
             ws == [m.windows EXCEPT ![i] = w]
             n == [m EXCEPT !.windows = ws, !.pins = m.pins + 1]
  <2>1. Pin(m, i) = n
    <3>1. ~m.windows[i].pinned
      BY <1>2 DEF Pinned
    <3> QED BY <3>1 DEF Pin
  <2>2. /\ w \in Window /\ w.off = m.windows[i].off /\ w.size = m.windows[i].size
        /\ w.refs = m.windows[i].refs /\ w.pinned
    BY <1>0 DEF Window
  <2> HIDE DEF w
  <2>3. /\ ws \in Seq(Window) /\ DOMAIN ws = DOMAIN m.windows /\ Len(ws) = Len(m.windows)
        /\ ws[i] = w /\ \A j \in DOMAIN m.windows : j # i => ws[j] = m.windows[j]
    BY <1>0, <2>2
  <2> HIDE DEF ws
  <2>4. n \in Manager /\ Alike(m, n) /\ n.cached = m.cached /\ n.windows = ws
        /\ n.copies = m.copies /\ n.pins = m.pins + 1
    <3>1. n \in Manager
      <4>1. PICK s \in Seq(Window) : s = ws
        BY <2>3
      <4>2. PICK c \in Nat : c = m.pins + 1
        BY <1>0
      <4>3. n = [m EXCEPT !.windows = s, !.pins = c]
        BY <4>1, <4>2
      <4> HIDE DEF n
      <4> QED BY ONLY m \in Manager, s \in Seq(Window), c \in Nat, <4>3 DEF Manager
    <3>2. /\ Alike(m, n) /\ n.cached = m.cached /\ n.windows = ws
          /\ n.copies = m.copies /\ n.pins = m.pins + 1
      BY DEF Manager, Alike
    <3> QED BY <3>1, <3>2
  <2> HIDE DEF n
  <2>5. Pinned(n) = Pinned(m) \cup {i}
    <3>1. ASSUME NEW j PROVE j \in Pinned(n) <=> j \in Pinned(m) \/ j = i
      BY <2>2, <2>3, <2>4 DEF Pinned
    <3> QED BY <3>1
  <2>6. Cardinality(Pinned(n)) = m.pins + 1
    BY <1>2, <2>5, PinnedFinite, FS_AddElement DEF Budget
  <2>7. Budget(n)
    <3>1. n.max = m.max /\ n.strategy = m.strategy /\ m.max \in Nat
      BY <2>4 DEF Alike, Manager
    <3> QED BY <1>0, <1>2, <2>3, <2>4, <2>6, <3>1 DEF Budget
  <2>8. Placed(m, n)
    BY <2>2, <2>3, <2>4 DEF Placed
  <2>9. Grows(m, n)
    BY <1>2, <2>3, <2>4, <2>5 DEF Grows, Pinned
  <2> QED BY <2>1, <2>5, <2>7, <2>8, <2>9
<1> QED BY <1>1, <1>2

(***************************************************************************)
(* A pinned window remembers what was handed out from it.                  *)
(***************************************************************************)
LEMMA RefFacts ==
  ASSUME NEW m \in Manager, Budget(m), NEW i \in Pinned(m), NEW pos \in Nat
  PROVE  LET n == [m EXCEPT !.windows[i].refs = @ \cup {pos}]
         IN  /\ Placed(m, n) /\ Budget(n) /\ Grows(m, n) /\ i \in Pinned(n)
             /\ pos \in n.windows[i].refs
<1>0. /\ m.windows \in Seq(Window) /\ DOMAIN m.windows = 1..Len(m.windows)
      /\ Len(m.windows) \in Nat /\ i \in DOMAIN m.windows /\ m.windows[i] \in Window
  BY DEF Manager, Pinned
<1> DEFINE w == [m.windows[i] EXCEPT !.refs = @ \cup {pos}]
           ws == [m.windows EXCEPT ![i] = w]
           n == [m EXCEPT !.windows = ws]
<1>1. [m EXCEPT !.windows[i].refs = @ \cup {pos}] = n
  OBVIOUS
<1>2. /\ w \in Window /\ w.off = m.windows[i].off /\ w.size = m.windows[i].size
      /\ w.refs = m.windows[i].refs \cup {pos} /\ w.pinned
  BY <1>0 DEF Window, Pinned
<1> HIDE DEF w
<1>3. /\ ws \in Seq(Window) /\ DOMAIN ws = DOMAIN m.windows /\ Len(ws) = Len(m.windows)
      /\ ws[i] = w /\ \A j \in DOMAIN m.windows : j # i => ws[j] = m.windows[j]
  BY <1>0, <1>2
<1> HIDE DEF ws
<1>4. n \in Manager /\ Alike(m, n) /\ n.cached = m.cached /\ n.windows = ws
      /\ n.copies = m.copies /\ n.pins = m.pins
  BY <1>0, <1>3 DEF Manager, Alike
<1> HIDE DEF n
<1>5. Pinned(n) = Pinned(m)
  <2>1. ASSUME NEW j PROVE j \in Pinned(n) <=> j \in Pinned(m)
    BY <1>2, <1>3, <1>4 DEF Pinned
  <2> QED BY <2>1
<1>6. Budget(n)
  BY <1>3, <1>4, <1>5 DEF Budget, Alike
<1>7. Placed(m, n)
  BY <1>2, <1>3, <1>4 DEF Placed
<1>8. Grows(m, n)
  <2> SUFFICES ASSUME NEW j \in Pinned(m)
               PROVE  /\ n.windows[j].off = m.windows[j].off
                      /\ n.windows[j].size = m.windows[j].size
                      /\ m.windows[j].refs \subseteq n.windows[j].refs
    BY <1>4, <1>5 DEF Grows
  <2>1. j \in DOMAIN m.windows
    BY DEF Pinned
  <2> QED BY <1>2, <1>3, <1>4, <2>1
<1> QED BY <1>1, <1>2, <1>3, <1>4, <1>5, <1>6, <1>7, <1>8

(***************************************************************************)
(* Releasing the row's pins and copies keeps the windows.                  *)
(***************************************************************************)
LEMMA ClearRowFacts ==
  ASSUME NEW m \in Manager, Budget(m)
  PROVE  LET n == ClearRowPins(m) IN Placed(m, n) /\ PinFree(n) /\ Budget(n)
<1> DEFINE ws == [i \in DOMAIN m.windows |-> [m.windows[i] EXCEPT !.pinned = FALSE, !.refs = {}]]
           n == [m EXCEPT !.windows = ws, !.pins = 0, !.copies = {}]
<1>0. /\ m.windows \in Seq(Window) /\ DOMAIN m.windows = 1..Len(m.windows)
      /\ Len(m.windows) \in Nat /\ \A i \in DOMAIN m.windows : m.windows[i] \in Window
  BY DEF Manager
<1>1. ClearRowPins(m) = n
  BY DEF ClearRowPins
<1>2. \A i \in DOMAIN m.windows :
        /\ ws[i] \in Window /\ ws[i].off = m.windows[i].off /\ ws[i].size = m.windows[i].size
        /\ ~ws[i].pinned
  BY <1>0 DEF Window
<1>3. ws \in Seq(Window) /\ DOMAIN ws = DOMAIN m.windows /\ Len(ws) = Len(m.windows)
  <2>1. DOMAIN ws = 1..Len(m.windows)
    BY <1>0
  <2>2. ws = [j \in 1..Len(m.windows) |-> ws[j]]
    BY <1>0
  <2> HIDE DEF ws
  <2>3. ws \in [1..Len(m.windows) -> Window]
    BY <1>0, <1>2, <2>1, <2>2
  <2>4. ws \in Seq(Window)
    BY <1>0, <2>3
  <2> QED BY <1>0, <2>1, <2>4
<1> HIDE DEF ws
<1>4. n \in Manager /\ Alike(m, n) /\ n.cached = m.cached /\ n.windows = ws
      /\ n.copies = {} /\ n.pins = 0
  BY <1>0, <1>3 DEF Manager, Alike
<1> HIDE DEF n
<1>5. Pinned(n) = {}
  BY <1>2, <1>3, <1>4 DEF Pinned
<1>6. Placed(m, n)
  BY <1>2, <1>3, <1>4 DEF Placed
<1>7. n.max \in Nat
  BY <1>4 DEF Manager
<1>8. Budget(n)
  BY <1>3, <1>4, <1>5, <1>7, FS_EmptySet DEF Budget, Alike
<1> QED BY <1>1, <1>4, <1>5, <1>6, <1>8 DEF PinFree

-----------------------------------------------------------------------------
(* A payload for a row. *)

\* A reader's manager after an operation: it has what it had handed out, unless
\* it maps the whole of a file that grew.
Serves(m, len, n) ==
  /\ n \in Manager /\ Alike(m, n) /\ Budget(n)
  /\ m.mode = "snapshot" => n.cached = m.cached
  /\ Grows(m, n) \/ m.strategy = "whole"
  /\ Steady(m, len) => Grows(m, n) /\ Steady(n, len)

LEMMA AccessServes ==
  ASSUME NEW m \in Manager, m.mode # "owned", NEW len \in Nat, NEW r, Access(m, len, r)
  PROVE  Serves(m, len, r.m) /\ r.len = len
BY KeptGrows DEF Access, Serves, Measures, Result

LEMMA PlacedServes ==
  ASSUME NEW m \in Manager, NEW n, Placed(m, n), Budget(n), Grows(m, n), NEW len
  PROVE  Serves(m, len, n)
BY PlacedSteady DEF Serves, Placed

LEMMA ServesTrans ==
  ASSUME NEW a \in Manager, NEW len, NEW b, NEW c, Serves(a, len, b), Serves(b, len, c)
  PROVE  Serves(a, len, c)
<1>1. Alike(a, c) /\ b.mode = a.mode /\ b.strategy = a.strategy
  BY AlikeTrans DEF Serves, Alike
<1>2. Grows(a, b) /\ Grows(b, c) => Grows(a, c)
  BY GrowsTrans
<1> QED BY <1>1, <1>2 DEF Serves

LEMMA ServesSelf ==
  ASSUME NEW m \in Manager, Budget(m), NEW len
  PROVE  Serves(m, len, m)
BY DEF Serves, Alike, Grows

LEMMA Shape ==
  ASSUME NEW m \in Manager
  PROVE  /\ DOMAIN m.windows = 1..Len(m.windows) /\ Len(m.windows) \in Nat
         /\ 0 \notin DOMAIN m.windows /\ m.max \in Nat \ {0} /\ m.pins \in Nat
BY DEF Manager

LEMMA KeptPinFree ==
  ASSUME NEW m, NEW n \in Manager, Budget(n), Kept(m, n), PinFree(m)
  PROVE  PinFree(n)
BY NoPins DEF Kept, PinFree

\* What get_window_index_preserving_row_pins finds; a window over the whole file
\* is pinned at once, in pieces the pins are as they were.
RowFound(m, len, pos, size, r) ==
  /\ r \in Result /\ r.ok /\ r.len = len /\ Serves(m, len, r.m)
  /\ \/ r.idx = 0 /\ r.m = m
     \/ Covered(r, pos, size) /\ r.idx # 0
  /\ m.strategy = "whole" => r.idx \in Pinned(r.m)
  /\ m.strategy # "whole" => Kept(m, r.m)

LEMMA WindowedServes ==
  ASSUME NEW m \in Manager, Budget(m), m.mode # "owned", m.strategy # "whole",
         NEW len \in Nat, NEW pos, NEW size, NEW r, Windowed(m, len, pos, size, r)
  PROVE  RowFound(m, len, pos, size, r)
<1>1. r.m \in Manager /\ Budget(r.m)
  <2>1. r.m \in Manager
    BY DEF Windowed, Result
  <2> QED BY <2>1, KeptBudget DEF Windowed, Alike
<1>2. r.idx # 0 /\ ~Steady(m, len)
  BY <1>1, Shape DEF Windowed, Covered, Steady
<1> QED BY <1>1, <1>2, KeptGrows DEF RowFound, Windowed, Serves, Measures, Covered

LEMMA WholeServes ==
  ASSUME NEW m \in Manager, Budget(m), m.mode # "owned", m.strategy = "whole",
         NEW len \in Nat, NEW pos \in Nat, NEW size \in Nat \ {0}, Known(m, pos, size),
         NEW all, all = WholeFileIndex(m, len, pos, size),
         NEW r, r = [all EXCEPT !.m = Pin(all.m, all.idx)]
  PROVE  RowFound(m, len, pos, size, r)
<1> DEFINE n == Pin(all.m, all.idx)
<1>1. Access(m, len, all) /\ Covered(all, pos, size)
  BY WholeIndex
<1>2. /\ all \in Result /\ all.ok /\ all.m \in Manager /\ Budget(all.m)
      /\ all.idx \in DOMAIN all.m.windows /\ Covers(all.m.windows[all.idx], pos, size)
      /\ all.m.strategy = "whole" /\ Serves(m, len, all.m) /\ all.len = len
  BY <1>1, AccessServes DEF Access, Covered, Result, Alike, Found
<1>3. all.idx \notin Pinned(all.m) => all.m.pins < all.m.max
  <2> SUFFICES ASSUME all.idx \notin Pinned(all.m) PROVE all.m.pins < all.m.max
    OBVIOUS
  <2>1. /\ DOMAIN all.m.windows = 1..Len(all.m.windows) /\ Len(all.m.windows) \in Nat
        /\ all.m.max \in Nat \ {0}
    BY <1>2, Shape
  <2>2. DOMAIN all.m.windows = {1} /\ all.idx = 1
    <3>1. Len(all.m.windows) <= 1
      BY <1>2 DEF Budget
    <3>2. all.idx \in 1..Len(all.m.windows)
      BY <1>2, <2>1
    <3>3. PICK l \in Nat : l = Len(all.m.windows)
      BY <2>1
    <3>4. PICK i : i = all.idx
      OBVIOUS
    <3>5. l <= 1 /\ i \in 1..l
      BY <3>1, <3>2, <3>3, <3>4
    <3>6. l = 1 /\ i = 1
      BY <3>5
    <3>7. 1..1 = {1}
      OBVIOUS
    <3> QED BY <2>1, <3>3, <3>4, <3>6, <3>7
  <2>3. Pinned(all.m) = {}
    BY <2>2 DEF Pinned
  <2>4. all.m.pins = 0
    BY <1>2, <2>3, FS_EmptySet DEF Budget
  <2> QED BY <2>1, <2>4
<1>4. Placed(all.m, n) /\ Budget(n) /\ Grows(all.m, n) /\ all.idx \in Pinned(n)
  BY <1>2, <1>3, PinFacts
<1> HIDE DEF n
<1>5. Serves(m, len, n)
  <2>1. Serves(all.m, len, n)
    BY <1>2, <1>4, PlacedServes
  <2> QED BY <1>2, <2>1, ServesTrans
<1>6. r = [all EXCEPT !.m = n]
  BY DEF n
<1>7. r \in Result /\ r.ok /\ r.m = n /\ r.len = len /\ r.idx = all.idx
  BY <1>2, <1>4, <1>6 DEF Result, Placed
<1>8. Covered(r, pos, size) /\ r.idx # 0
  <2>1. DOMAIN n.windows = DOMAIN all.m.windows /\ 0 \notin DOMAIN n.windows
    <3>1. n \in Manager /\ Len(n.windows) = Len(all.m.windows)
      BY <1>4 DEF Placed
    <3> QED BY <1>2, <3>1, Shape
  <2> DEFINE i == all.idx
             u == all.m.windows[i]
             v == n.windows[i]
  <2>2. i \in DOMAIN n.windows /\ i # 0
    BY <1>2, <2>1
  <2>3. v.off = u.off /\ v.size = u.size
    BY <1>2, <1>4, <2>2 DEF Placed
  <2>4. Covers(u, pos, size)
    BY <1>2
  <2>5. r.ok /\ r.idx = i /\ Found(r) = v /\ r.m = n
    BY <1>7 DEF Found
  <2> HIDE DEF i, u, v
  <2>6. Covers(v, pos, size)
    BY ONLY <2>3, <2>4 DEF Covers, RangeEnd
  <2> QED BY ONLY <2>2, <2>5, <2>6 DEF Covered
<1> QED BY <1>4, <1>5, <1>7, <1>8 DEF RowFound

LEMMA RowIndexFacts ==
  ASSUME NEW m \in Manager, Budget(m), m.mode # "owned",
         NEW len \in Nat, NEW pos \in Nat, NEW size \in Nat \ {0}, Known(m, pos, size),
         NEW r, r = RowWindowIndex(m, len, pos, size)
  PROVE  RowFound(m, len, pos, size, r)
<1> DEFINE hit == LookupByRange(m, pos, size)
           near == LookupByPosition(m, pos)
           room == EvictUnpinnedIfFull(m)
           all == WholeFileIndex(m, len, pos, size)
<1>1. r = IF m.strategy = "whole"
          THEN IF all.ok THEN [all EXCEPT !.m = Pin(all.m, all.idx)] ELSE all
          ELSE IF hit # 0 THEN Done(m, len, hit)
          ELSE IF near # 0 /\ ~m.windows[near].pinned
          THEN IF PinLimitReached(m) THEN Done(m, len, 0)
               ELSE ReplaceForRange(m, len, near, pos, size)
          ELSE IF ~room.ok THEN Done(m, len, 0)
          ELSE PushForRange(room.m, len, pos, size)
  BY DEF RowWindowIndex, Using
<1>2. ASSUME m.strategy # "whole", r = Done(m, len, 0)
      PROVE  RowFound(m, len, pos, size, r)
  <2>1. Kept(m, m)
    BY DEF Kept
  <2>2. PICK z \in Nat : z = 0
    OBVIOUS
  <2>3. Done(m, len, z) \in Result /\ Done(m, len, z).m = m /\ Done(m, len, z).len = len
        /\ Done(m, len, z).ok /\ Done(m, len, z).idx = z
    BY DoneFacts
  <2> QED BY <1>2, <2>1, <2>2, <2>3, ServesSelf DEF RowFound
<1>3. CASE m.strategy = "whole"
  <2>1. all.ok
    BY <1>3, WholeIndex DEF Covered
  <2>2. r = [all EXCEPT !.m = Pin(all.m, all.idx)]
    BY <1>1, <1>3, <2>1
  <2> QED BY <1>3, <2>2, WholeServes
<1>4. CASE m.strategy # "whole" /\ hit # 0
  <2>1. r = Done(m, len, hit)
    BY <1>1, <1>4
  <2>2. Windowed(m, len, pos, size, r)
    BY <1>4, <2>1, HitWindow
  <2> QED BY <1>4, <2>2, WindowedServes
<1>5. CASE m.strategy # "whole" /\ hit = 0 /\ near # 0 /\ ~m.windows[near].pinned
  <2>1. near \in DOMAIN m.windows
    BY <1>5, LookupFacts
  <2>2. near \notin Pinned(m)
    BY <1>5 DEF Pinned
  <2>3. CASE PinLimitReached(m)
    BY <1>1, <1>2, <1>5, <2>3
  <2>4. CASE ~PinLimitReached(m)
    <3>1. r = ReplaceForRange(m, len, near, pos, size)
      BY <1>1, <1>5, <2>4
    <3>2. Windowed(m, len, pos, size, r)
      BY <2>1, <2>2, <3>1, ReplaceWindow
    <3> QED BY <1>5, <3>2, WindowedServes
  <2> QED BY <2>3, <2>4
<1>6. CASE m.strategy # "whole" /\ hit = 0 /\ ~(near # 0 /\ ~m.windows[near].pinned)
  <2>1. CASE ~room.ok
    BY <1>1, <1>2, <1>6, <2>1
  <2>2. CASE room.ok
    <3>1. r = PushForRange(room.m, len, pos, size)
      BY <1>1, <1>6, <2>2
    <3>2. Roomier(m, room.m) /\ Len(room.m.windows) <= m.max
      BY EvictFacts
    <3> HIDE DEF room
    <3>3. Windowed(m, len, pos, size, r)
      BY <3>1, <3>2, PushInRoom
    <3> QED BY <1>6, <3>3, WindowedServes
  <2> QED BY <2>1, <2>2
<1> QED BY <1>3, <1>4, <1>5, <1>6

\* The payload is in a pinned window, or it was copied.
Handed(m, len, pos, size, r) ==
  /\ r \in Result /\ r.len = len /\ Serves(m, len, r.m)
  /\ r.ok /\ r.idx = 0 => pos \in r.m.copies
  /\ r.ok /\ r.idx # 0 => /\ r.idx \in Pinned(r.m) /\ pos \in r.m.windows[r.idx].refs
                          /\ Covers(r.m.windows[r.idx], pos, size)
  /\ ~r.ok => (PinFree(m) => PinFree(r.m))

LEMMA CopyFacts ==
  ASSUME NEW m \in Manager, NEW n \in Manager, NEW len \in Nat, NEW pos \in Nat,
         NEW size \in Nat, Serves(m, len, n), Kept(m, n),
         NEW r, r = IF pos + size > len THEN Failed(n, len)
                    ELSE Done([n EXCEPT !.copies = @ \cup {pos}], len, 0)
  PROVE  Handed(m, len, pos, size, r)
<1> DEFINE k == [n EXCEPT !.copies = @ \cup {pos}]
<1>1. CASE pos + size > len
  <2>1. r = Failed(n, len)
    BY <1>1
  <2>2. r \in Result /\ r.m = n /\ r.len = len /\ ~r.ok
    BY <2>1, DoneFacts
  <2> QED BY <2>2, KeptPinFree DEF Handed, Serves
<1>2. CASE ~(pos + size > len)
  <2>1. r = Done(k, len, 0)
    BY <1>2
  <2>2. /\ k \in Manager /\ Alike(n, k) /\ k.cached = n.cached /\ k.windows = n.windows
        /\ k.pins = n.pins /\ k.copies = n.copies \cup {pos}
    BY DEF Manager, Alike
  <2> HIDE DEF k
  <2>3. Placed(n, k)
    BY <2>2 DEF Placed
  <2>4. Pinned(k) = Pinned(n)
    BY <2>2 DEF Pinned
  <2>5. Budget(k)
    BY <2>2, <2>4 DEF Budget, Serves, Alike
  <2>6. Grows(n, k)
    BY <2>2, <2>4 DEF Grows
  <2>7. Serves(m, len, k)
    BY <2>3, <2>5, <2>6, PlacedServes, ServesTrans
  <2>8. PICK z \in Nat : z = 0
    OBVIOUS
  <2>9. Done(k, len, z) \in Result /\ Done(k, len, z).m = k /\ Done(k, len, z).len = len
        /\ Done(k, len, z).ok /\ Done(k, len, z).idx = z
    BY <2>2, DoneFacts
  <2> QED BY <2>1, <2>2, <2>7, <2>8, <2>9 DEF Handed
<1> QED BY <1>1, <1>2

\* A window is pinned for the payload.
LEMMA PinnedFacts ==
  ASSUME NEW m \in Manager, NEW a \in Manager, NEW len \in Nat, NEW pos \in Nat, NEW size \in Nat,
         Serves(m, len, a), NEW i \in DOMAIN a.windows, Covers(a.windows[i], pos, size),
         i \in Pinned(a) \/ a.pins < a.max,
         NEW r, r = Done([Pin(a, i) EXCEPT !.windows[i].refs = @ \cup {pos}], len, i)
  PROVE  Handed(m, len, pos, size, r)
<1> DEFINE n == Pin(a, i)
           k == [n EXCEPT !.windows[i].refs = @ \cup {pos}]
<1>1. Budget(a) /\ i # 0 /\ i \in Nat
  BY Shape DEF Serves
<1>2. Placed(a, n) /\ Budget(n) /\ Grows(a, n) /\ i \in Pinned(n)
  BY <1>1, PinFacts
<1>3. n \in Manager
  BY <1>2 DEF Placed
<1> HIDE DEF n
<1>4. /\ Placed(n, k) /\ Budget(k) /\ Grows(n, k) /\ i \in Pinned(k)
      /\ pos \in k.windows[i].refs
  BY <1>2, <1>3, RefFacts
<1>5. k \in Manager
  BY <1>4 DEF Placed
<1>6. r = Done(k, len, i)
  BY DEF n
<1> HIDE DEF k
<1>7. r \in Result /\ r.m = k /\ r.len = len /\ r.ok /\ r.idx = i
  BY <1>1, <1>5, <1>6, DoneFacts
<1>8. Serves(m, len, k)
  <2>1. Serves(a, len, n) /\ Serves(n, len, k)
    BY <1>2, <1>3, <1>4, PlacedServes
  <2> QED BY <2>1, ServesTrans
<1>9. Covers(k.windows[i], pos, size)
  <2>1. i \in DOMAIN n.windows
    BY <1>2 DEF Pinned
  <2> QED BY <1>2, <1>4, <2>1 DEF Placed, Covers, RangeEnd
<1> QED BY <1>1, <1>4, <1>7, <1>8, <1>9 DEF Handed

(***************************************************************************)
(* get_row_pinned_slice, once the range is known to exist.                 *)
(***************************************************************************)
LEMMA HandOut ==
  ASSUME NEW m \in Manager, Budget(m), m.mode # "owned",
         NEW len \in Nat, NEW pos \in Nat, NEW size \in Nat \ {0}, Known(m, pos, size),
         NEW found, found = RowWindowIndex(m, len, pos, size),
         NEW at, at = [found.m EXCEPT !.active = found.idx],
         NEW r,
         r = IF found.idx = 0
             THEN IF pos + size > len THEN Failed(found.m, len)
                  ELSE Done([found.m EXCEPT !.copies = @ \cup {pos}], len, 0)
             ELSE IF ~at.windows[found.idx].pinned /\ PinLimitReached(at)
             THEN IF pos + size > len THEN Failed(at, len)
                  ELSE Done([at EXCEPT !.copies = @ \cup {pos}], len, 0)
             ELSE Done([Pin(at, found.idx) EXCEPT !.windows[found.idx].refs = @ \cup {pos}],
                       len, found.idx)
  PROVE  Handed(m, len, pos, size, r)
<1>1. RowFound(m, len, pos, size, found)
  BY RowIndexFacts
<1>2. found \in Result /\ found.m \in Manager /\ found.idx \in Nat
      /\ Serves(m, len, found.m) /\ Budget(found.m) /\ Alike(m, found.m)
  BY <1>1 DEF RowFound, Result, Serves
<1>3. /\ at \in Manager /\ Alike(found.m, at) /\ at.cached = found.m.cached
      /\ Kept(found.m, at) /\ at.windows = found.m.windows
  BY <1>2, ActiveFacts
<1>4. Pinned(at) = Pinned(found.m)
  BY <1>3 DEF Pinned
<1>5. Budget(at)
  BY <1>2, <1>3, <1>4, KeptBudget DEF Budget, Alike
<1>6. Placed(found.m, at)
  BY <1>3 DEF Placed
<1>7. Serves(m, len, at)
  <2>1. Serves(found.m, len, at)
    <3>1. Grows(found.m, at)
      BY <1>3, KeptGrows
    <3> QED BY <1>2, <1>5, <1>6, <3>1, PlacedServes
  <2> QED BY <1>2, <2>1, ServesTrans
<1>8. CASE found.idx = 0
  <2>1. r = IF pos + size > len THEN Failed(found.m, len)
            ELSE Done([found.m EXCEPT !.copies = @ \cup {pos}], len, 0)
    BY <1>8
  <2>2. Kept(m, found.m)
    <3>1. found.m = m
      BY <1>1, <1>8 DEF RowFound
    <3> QED BY <3>1 DEF Kept
  <2> QED BY <1>2, <2>1, <2>2, CopyFacts
<1>9. CASE found.idx # 0
  <2>1. found.idx \in DOMAIN at.windows /\ Covers(at.windows[found.idx], pos, size)
    BY <1>1, <1>3, <1>9 DEF RowFound, Covered, Found
  <2>2. at.windows[found.idx].pinned <=> found.idx \in Pinned(at)
    BY <2>1 DEF Pinned
  <2>3. at.strategy = m.strategy
    BY <1>2, <1>3 DEF Alike
  <2>4. CASE ~at.windows[found.idx].pinned /\ PinLimitReached(at)
    <3>1. r = IF pos + size > len THEN Failed(at, len)
              ELSE Done([at EXCEPT !.copies = @ \cup {pos}], len, 0)
      BY <1>9, <2>4
    <3>2. m.strategy # "whole"
      BY <2>3, <2>4 DEF PinLimitReached
    <3>3. Kept(m, at)
      BY <1>1, <1>3, <3>2, KeptTrans DEF RowFound
    <3> QED BY <1>3, <1>7, <3>1, <3>3, CopyFacts
  <2>5. CASE ~(~at.windows[found.idx].pinned /\ PinLimitReached(at))
    <3>1. r = Done([Pin(at, found.idx) EXCEPT !.windows[found.idx].refs = @ \cup {pos}],
                   len, found.idx)
      BY <1>9, <2>5
    <3>2. found.idx \in Pinned(at) \/ at.pins < at.max
      <4>1. CASE m.strategy = "whole"
        BY <1>1, <1>4, <4>1 DEF RowFound
      <4>2. CASE m.strategy # "whole"
        <5>1. at.pins \in Nat /\ at.max \in Nat
          BY <1>3 DEF Manager
        <5>2. at.strategy # "whole"
          BY <2>3, <4>2
        <5>3. found.idx \in Pinned(at) \/ ~PinLimitReached(at)
          BY <2>2, <2>5
        <5>4. found.idx \in Pinned(at) \/ ~(at.pins >= at.max)
          BY ONLY <5>2, <5>3 DEF PinLimitReached
        <5> QED BY ONLY <5>1, <5>4
      <4> QED BY <4>1, <4>2
    <3>3. size \in Nat
      OBVIOUS
    <3> QED BY ONLY m \in Manager, len \in Nat, pos \in Nat, <1>3, <1>7, <2>1, <3>1, <3>2, <3>3, PinnedFacts
  <2> QED BY <2>4, <2>5
<1> QED BY <1>8, <1>9

LEMMA RowSliceFacts ==
  ASSUME NEW m \in Manager, Budget(m), m.mode # "owned",
         NEW len \in Nat, NEW pos \in Nat, NEW size \in Nat \ {0},
         NEW r, r = GetRowPinnedSlice(m, len, pos, size)
  PROVE  Handed(m, len, pos, size, r)
<1> DEFINE fits == Ensure(m, len, pos + size)
           found == RowWindowIndex(fits.m, len, pos, size)
           at == [found.m EXCEPT !.active = found.idx]
<1>1. Access(m, len, fits) /\ (fits.ok => Known(fits.m, pos, size))
  BY EnsureFacts
<1>2. /\ fits \in Result /\ fits.m \in Manager /\ Budget(fits.m) /\ fits.m.mode = m.mode
      /\ Serves(m, len, fits.m) /\ fits.len = len
  BY <1>1, AccessServes DEF Access, Result, Alike
<1>3. CASE ~fits.ok
  <2>1. r = fits
    BY <1>3 DEF GetRowPinnedSlice, Using
  <2>2. PinFree(m) => PinFree(fits.m)
    BY <1>1, <1>2, KeptPinFree DEF Access
  <2> HIDE DEF fits
  <2> QED BY <1>2, <1>3, <2>1, <2>2 DEF Handed
<1>4. CASE fits.ok
  <2>0. found.ok
    <3> HIDE DEF fits
    <3> QED BY <1>1, <1>2, <1>4, RowIndexFacts DEF RowFound
  <2>1. r = IF found.idx = 0
            THEN IF pos + size > len THEN Failed(found.m, len)
                 ELSE Done([found.m EXCEPT !.copies = @ \cup {pos}], len, 0)
            ELSE IF ~at.windows[found.idx].pinned /\ PinLimitReached(at)
            THEN IF pos + size > len THEN Failed(at, len)
                 ELSE Done([at EXCEPT !.copies = @ \cup {pos}], len, 0)
            ELSE Done([Pin(at, found.idx) EXCEPT !.windows[found.idx].refs = @ \cup {pos}],
                      len, found.idx)
    BY <1>4, <2>0 DEF GetRowPinnedSlice, Using
  <2>2. Handed(fits.m, len, pos, size, r)
    <3> HIDE DEF fits
    <3> QED BY <1>1, <1>2, <1>4, <2>1, HandOut
  <2> HIDE DEF fits
  <2>3. Serves(m, len, r.m)
    <3>1. Serves(fits.m, len, r.m)
      BY <2>2 DEF Handed
    <3> QED BY <1>2, <3>1, ServesTrans
  <2>4. PinFree(m) => PinFree(fits.m)
    BY <1>1, <1>2, KeptPinFree DEF Access
  <2> HIDE DEF fits
  <2> QED BY <2>2, <2>3, <2>4 DEF Handed
<1> QED BY <1>3, <1>4

-----------------------------------------------------------------------------
(* Objects. *)

\* The outcome of an operation may be changed when its windows are not.
LEMMA AccessAs ==
  ASSUME NEW m \in Manager, NEW len \in Nat, NEW a, Access(m, len, a),
         NEW b \in Result, b.m = a.m, b.len = a.len
  PROVE  Access(m, len, b)
BY DEF Access, Measures

LEMMA Denied ==
  ASSUME NEW m \in Manager, NEW len \in Nat, NEW a, Access(m, len, a),
         NEW b, b = [a EXCEPT !.ok = FALSE]
  PROVE  Access(m, len, b) /\ ~b.ok
<1>1. a \in Result
  BY DEF Access
<1>2. b \in Result /\ b.m = a.m /\ b.len = a.len /\ ~b.ok
  BY <1>1 DEF Result
<1> QED BY <1>2, AccessAs

LEMMA LayoutFacts ==
  /\ Prefix \in Nat \ {0} /\ Increase \in Nat \ {0} /\ HeaderSize \in Nat \ {0}
  /\ \A k \in DOMAIN Layout :
        /\ Layout[k].off \in Nat /\ Layout[k].size \in Nat \ {0} /\ EndOf(k) \in Nat
        /\ Layout[k].off + Layout[k].size = EndOf(k)
        /\ Layout[k].off + Prefix <= EndOf(k)
        /\ Layout[k].items \in Seq(Nat)
        /\ \A i \in DOMAIN Layout[k].items : Layout[k].items[i] \in 1..(k - 1)
  /\ \A j, k \in DOMAIN Layout : j <= k => EndOf(j) <= EndOf(k)
  /\ DOMAIN Layout = 1..Len(Layout) /\ Len(Layout) \in Nat
<1>1. /\ Prefix \in Nat \ {0} /\ Increase \in Nat \ {0} /\ HeaderSize \in Nat \ {0}
      /\ DOMAIN Layout = 1..Len(Layout) /\ Len(Layout) \in Nat
  BY MappingAssumption
<1>2. ASSUME NEW k \in DOMAIN Layout
      PROVE  /\ Layout[k].off \in Nat /\ Layout[k].size \in Nat /\ Layout[k].size > Prefix
             /\ Layout[k].items \in Seq(Nat)
             /\ \A i \in DOMAIN Layout[k].items : Layout[k].items[i] \in 1..(k - 1)
  <2> DEFINE Object == [off : Nat, size : Nat, kind : {"data", "entry", "other"},
                        compressed : BOOLEAN, items : Seq(Nat)]
  <2>1. Layout \in Seq(Object)
    BY MappingAssumption
  <2>2. Layout[k] \in Object
    <3> HIDE DEF Object
    <3> QED BY <2>1
  <2>3. Layout[k].size > Prefix
    BY MappingAssumption
  <2>4. \A i \in DOMAIN Layout[k].items : Layout[k].items[i] \in 1..(k - 1)
    BY MappingAssumption
  <2>5. Layout[k].off \in Nat /\ Layout[k].size \in Nat /\ Layout[k].items \in Seq(Nat)
    BY <2>2
  <2> QED BY <2>3, <2>4, <2>5
<1>3. ASSUME NEW k \in DOMAIN Layout
      PROVE  /\ Layout[k].size \in Nat \ {0} /\ EndOf(k) \in Nat
             /\ Layout[k].off + Layout[k].size = EndOf(k) /\ Layout[k].off + Prefix <= EndOf(k)
  BY <1>1, <1>2 DEF EndOf
<1>4. ASSUME NEW j \in DOMAIN Layout, NEW k \in DOMAIN Layout, j <= k
      PROVE  EndOf(j) <= EndOf(k)
  <2>1. j < k => EndOf(j) <= Layout[k].off
    BY MappingAssumption
  <2>2. j = k \/ j < k
    BY <1>1, <1>4
  <2> QED BY <1>2, <1>3, <2>1, <2>2
<1> QED BY <1>1, <1>2, <1>3, <1>4

(***************************************************************************)
(* journal_object_ref finds every object that the file has.                *)
(***************************************************************************)
LEMMA ObjectRefFacts ==
  ASSUME NEW m \in Manager, Budget(m), m.mode # "owned", NEW len \in Nat,
         NEW k \in DOMAIN Layout, mwArena \in Nat, NEW r, r = ObjectRef(m, len, k)
  PROVE  /\ Access(m, len, r)
         /\ r.ok => Covered(r, Layout[k].off, Layout[k].size)
         /\ /\ EndOf(k) <= mwArena
            /\ m.mode = "snapshot" => EndOf(k) <= m.cached
            /\ m.mode = "live" => EndOf(k) <= len
            => r.ok
<1> DEFINE head == GetSlice(m, len, Layout[k].off, Prefix)
           object == GetSlice(head.m, len, Layout[k].off, Layout[k].size)
           there == /\ EndOf(k) <= mwArena
                    /\ m.mode = "snapshot" => EndOf(k) <= m.cached
                    /\ m.mode = "live" => EndOf(k) <= len
<1>1. /\ Layout[k].off \in Nat /\ Layout[k].size \in Nat \ {0} /\ EndOf(k) \in Nat
      /\ Layout[k].off + Layout[k].size = EndOf(k) /\ Layout[k].off + Prefix <= EndOf(k)
      /\ Prefix \in Nat \ {0} /\ m.cached \in Nat
      /\ m.mode \in {"owned", "live", "snapshot"}
  BY LayoutFacts DEF Manager
<1>2. /\ Access(m, len, head)
      /\ \/ Layout[k].off + Prefix <= m.cached
         \/ m.mode = "live" /\ Layout[k].off + Prefix <= len
         => head.ok
  BY <1>1, SliceFacts
<1>3. there => head.ok
  <2>1. Layout[k].off + Prefix \in Nat
    BY <1>1
  <2> HIDE DEF head
  <2> QED BY <1>1, <1>2, <2>1
<1>4. r = IF ~head.ok \/ EndOf(k) > mwArena THEN [head EXCEPT !.ok = FALSE] ELSE object
  BY DEF ObjectRef, Using
<1>5. CASE ~head.ok \/ EndOf(k) > mwArena
  <2>1. r = [head EXCEPT !.ok = FALSE]
    BY <1>4, <1>5
  <2>2. Access(m, len, r) /\ ~r.ok
    <3> HIDE DEF head
    <3> QED BY <1>2, <2>1, Denied
  <2>3. ~there
    <3> HIDE DEF head
    <3>1. CASE ~head.ok
      BY <1>3, <3>1
    <3>2. CASE EndOf(k) > mwArena
      <4>1. ~(EndOf(k) <= mwArena)
        BY <1>1, <3>2
      <4> QED BY <4>1
    <3> QED BY <1>5, <3>1, <3>2
  <2> QED BY <2>2, <2>3
<1>6. CASE ~(~head.ok \/ EndOf(k) > mwArena)
  <2>1. r = object
    BY <1>4, <1>6
  <2>2. head \in Result /\ head.m \in Manager /\ Budget(head.m) /\ Alike(m, head.m)
        /\ Measures(m, len, head)
    BY <1>2 DEF Access, Result
  <2> HIDE DEF head
  <2>3. /\ Access(head.m, len, object)
        /\ object.ok => Covered(object, Layout[k].off, Layout[k].size)
        /\ \/ Layout[k].off + Layout[k].size <= head.m.cached
           \/ head.m.mode = "live" /\ Layout[k].off + Layout[k].size <= len
           => object.ok
    BY <1>1, <2>2, SliceFacts
  <2>4. head.len = len /\ head.m.mode = m.mode /\ (m.mode = "snapshot" => head.m.cached = m.cached)
    BY <2>2 DEF Measures, Alike
  <2> HIDE DEF object
  <2>5. Access(m, len, object)
    BY <1>2, <2>3, <2>4, AccessTrans
  <2>6. there => object.ok
    BY <1>1, <2>3, <2>4
  <2> QED BY <2>1, <2>3, <2>5, <2>6
<1> QED BY <1>5, <1>6

(***************************************************************************)
(* The writer's slices may extend the file.                                *)
(***************************************************************************)
LEMMA SliceMutFacts ==
  ASSUME NEW m \in Manager, Budget(m), m.mode = "owned", NEW len \in Nat, NEW pos \in Nat,
         NEW size \in Nat \ {0}, NEW r, r = GetSliceMut(m, len, pos, size)
  PROVE  Access(m, len, r) /\ Covered(r, pos, size)
BY IndexFacts DEF GetSliceMut, Known

LEMMA ExistingFacts ==
  ASSUME NEW m \in Manager, Budget(m), m.mode = "owned", NEW len \in Nat,
         NEW k \in DOMAIN Layout, mwArena \in Nat, NEW r, r = ExistingObject(m, len, k)
  PROVE  /\ Access(m, len, r)
         /\ r.ok => Covered(r, Layout[k].off, Layout[k].size)
         /\ EndOf(k) <= mwArena /\ EndOf(k) <= m.cached => r.ok
<1> DEFINE head == GetSlice(m, len, Layout[k].off, Prefix)
           object == GetSliceMut(head.m, head.len, Layout[k].off, Layout[k].size)
<1>1. /\ Layout[k].off \in Nat /\ Layout[k].size \in Nat \ {0} /\ EndOf(k) \in Nat
      /\ Layout[k].off + Prefix <= EndOf(k) /\ Layout[k].off + Prefix \in Nat
      /\ Prefix \in Nat \ {0} /\ m.cached \in Nat
  BY LayoutFacts DEF Manager
<1>2. Access(m, len, head) /\ (Layout[k].off + Prefix <= m.cached => head.ok)
  BY <1>1, SliceFacts
<1>3. r = IF ~head.ok \/ EndOf(k) > mwArena THEN [head EXCEPT !.ok = FALSE] ELSE object
  BY DEF ExistingObject, Using
<1> HIDE DEF head
<1>4. EndOf(k) <= m.cached => head.ok
  BY <1>1, <1>2
<1>5. CASE ~head.ok \/ EndOf(k) > mwArena
  <2>1. r = [head EXCEPT !.ok = FALSE]
    BY <1>3, <1>5
  <2>2. Access(m, len, r) /\ ~r.ok
    BY <1>2, <2>1, Denied
  <2>3. ~(EndOf(k) <= mwArena /\ EndOf(k) <= m.cached)
    BY <1>1, <1>4, <1>5
  <2> QED BY <2>2, <2>3
<1>6. CASE ~(~head.ok \/ EndOf(k) > mwArena)
  <2>1. r = object
    BY <1>3, <1>6
  <2>2. head.m \in Manager /\ Budget(head.m) /\ head.m.mode = "owned" /\ head.len \in Nat
    BY <1>2 DEF Access, Result, Alike
  <2>3. Access(head.m, head.len, object) /\ Covered(object, Layout[k].off, Layout[k].size)
    BY <1>1, <2>2, SliceMutFacts
  <2> HIDE DEF object
  <2> QED BY <1>2, <2>1, <2>3, AccessTrans DEF Covered
<1> QED BY <1>5, <1>6

LEMMA NewFacts ==
  ASSUME NEW m \in Manager, Budget(m), m.mode = "owned", NEW len \in Nat,
         NEW k \in DOMAIN Layout, NEW r, r = NewObject(m, len, k)
  PROVE  Access(m, len, r) /\ Covered(r, Layout[k].off, Layout[k].size)
<1> DEFINE head == GetSliceMut(m, len, Layout[k].off, Prefix)
           object == GetSliceMut(head.m, head.len, Layout[k].off, Layout[k].size)
<1>1. Layout[k].off \in Nat /\ Layout[k].size \in Nat \ {0} /\ Prefix \in Nat \ {0}
  BY LayoutFacts
<1>2. Access(m, len, head)
  BY <1>1, SliceMutFacts
<1>3. r = object
  BY DEF NewObject, Using
<1> HIDE DEF head
<1>4. head.m \in Manager /\ Budget(head.m) /\ head.m.mode = "owned" /\ head.len \in Nat
  BY <1>2 DEF Access, Result, Alike
<1>5. Access(head.m, head.len, object) /\ Covered(object, Layout[k].off, Layout[k].size)
  BY <1>1, <1>4, SliceMutFacts
<1> HIDE DEF object
<1> QED BY <1>2, <1>3, <1>5, AccessTrans

-----------------------------------------------------------------------------
(* The reader. *)

\* The payloads of a row are where their pointers say.
Valid(m, S) ==
  \A p \in S :
     IF p.copy THEN Layout[p.data].off \in m.copies
     ELSE \E i \in Pinned(m) : /\ Layout[p.data].off \in m.windows[i].refs
                               /\ Covers(m.windows[i], Layout[p.data].off, Layout[p.data].size)

\* A reader's manager and the payloads S handed out from it.  A snapshot knows
\* the file it opened; a window over a whole file that did not grow shows it all.
Reader(m, len, grown, S) ==
  /\ m \in Manager /\ m.mode # "owned" /\ Budget(m)
  /\ m.mode = "snapshot" => m.cached = m.retained
  /\ m.strategy = "whole" /\ ~grown => Steady(m, len)
  /\ (m.strategy = "whole" /\ grown) \/ Valid(m, S)

LEMMA GrowsValid ==
  ASSUME NEW m, NEW n, Grows(m, n), NEW S, Valid(m, S)
  PROVE  Valid(n, S)
<1> SUFFICES ASSUME NEW p \in S
             PROVE  IF p.copy THEN Layout[p.data].off \in n.copies
                    ELSE \E i \in Pinned(n) :
                            /\ Layout[p.data].off \in n.windows[i].refs
                            /\ Covers(n.windows[i], Layout[p.data].off, Layout[p.data].size)
  BY DEF Valid
<1>1. CASE p.copy
  BY <1>1 DEF Valid, Grows
<1>2. CASE ~p.copy
  <2>1. PICK i \in Pinned(m) :
                /\ Layout[p.data].off \in m.windows[i].refs
                /\ Covers(m.windows[i], Layout[p.data].off, Layout[p.data].size)
    BY <1>2 DEF Valid
  <2>2. PICK j \in Pinned(n) :
                /\ n.windows[j].off = m.windows[i].off /\ n.windows[j].size = m.windows[i].size
                /\ m.windows[i].refs \subseteq n.windows[j].refs
    BY DEF Grows
  <2>3. Covers(n.windows[j], Layout[p.data].off, Layout[p.data].size)
    BY <2>1, <2>2 DEF Covers, RangeEnd
  <2> QED BY <1>2, <2>1, <2>2, <2>3
<1> QED BY <1>1, <1>2

LEMMA ReaderServes ==
  ASSUME NEW m, NEW len, NEW grown \in BOOLEAN, NEW S, Reader(m, len, grown, S),
         NEW n, Serves(m, len, n)
  PROVE  Reader(n, len, grown, S)
<1>1. /\ n \in Manager /\ Budget(n) /\ n.mode = m.mode /\ n.strategy = m.strategy
      /\ n.retained = m.retained /\ (m.mode = "snapshot" => n.cached = m.cached)
  BY DEF Serves, Alike
<1>2. ~(m.strategy = "whole" /\ grown) => Grows(m, n) /\ (m.strategy = "whole" => Steady(n, len))
  BY DEF Serves, Reader
<1> QED BY <1>1, <1>2, GrowsValid DEF Reader

\* The file was grown or cut.
LEMMA ReaderFile ==
  ASSUME NEW m, NEW len \in Nat, NEW grown \in BOOLEAN, NEW S, Reader(m, len, grown, S),
         NEW len2 \in Nat, NEW grown2 \in BOOLEAN, grown2 <=> grown \/ len2 > len
  PROVE  Reader(m, len2, grown2, S)
<1>1. m.cached \in Nat
  BY DEF Reader, Manager
<1>2. ASSUME m.strategy = "whole", ~grown2 PROVE Steady(m, len2)
  <2>0. ~grown /\ len2 <= len
    BY <1>2
  <2>1. Steady(m, len) /\ len2 <= len
    BY <1>2, <2>0 DEF Reader
  <2>2. len2 <= m.cached
    BY <1>1, <2>1 DEF Steady
  <2> QED BY <2>1, <2>2 DEF Steady
<1> QED BY <1>2 DEF Reader

LEMMA ReaderClear ==
  ASSUME NEW m, NEW len, NEW grown \in BOOLEAN, NEW S, Reader(m, len, grown, S)
  PROVE  Reader(ClearRowPins(m), len, grown, {}) /\ PinFree(ClearRowPins(m))
<1> DEFINE n == ClearRowPins(m)
<1>1. Placed(m, n) /\ PinFree(n) /\ Budget(n)
  BY ClearRowFacts DEF Reader
<1> HIDE DEF n
<1>2. Steady(m, len) => Steady(n, len)
  BY <1>1, PlacedSteady DEF Reader
<1>3. Valid(n, {})
  BY DEF Valid
<1> QED BY <1>1, <1>2, <1>3 DEF Reader, Placed, Alike, n

LEMMA NewManagerFacts ==
  ASSUME NEW mode \in {"owned", "live", "snapshot"}, NEW strategy \in {"windowed", "whole"},
         NEW chunk \in Nat \ {0}, NEW max \in Nat \ {0}, NEW len \in Nat,
         NEW n, n = NewManager(mode, strategy, chunk, max, len)
  PROVE  /\ n \in Manager /\ n.mode = mode /\ n.strategy = strategy
         /\ n.cached = len /\ n.retained = len /\ n.windows = <<>>
         /\ PinFree(n) /\ Budget(n) /\ Inside(n)
<1>0. <<>> \in Seq(Window)
  OBVIOUS
<1>1. PICK e \in Seq(Window) : e = <<>>
  BY <1>0
<1>2. n = [mode |-> mode, strategy |-> strategy, chunk |-> chunk, max |-> max,
           cached |-> len, retained |-> len, windows |-> e, active |-> 0,
           pins |-> 0, copies |-> {}]
  BY <1>1 DEF NewManager
<1>3. n \in Manager
  BY ONLY mode \in {"owned", "live", "snapshot"}, strategy \in {"windowed", "whole"},
          chunk \in Nat \ {0}, max \in Nat \ {0}, len \in Nat, e \in Seq(Window), <1>2
  DEF Manager
<1>4. /\ n.mode = mode /\ n.strategy = strategy /\ n.cached = len /\ n.retained = len
      /\ n.windows = <<>> /\ n.max = max /\ n.pins = 0 /\ n.copies = {}
  BY <1>1, <1>2
<1>5. Pinned(n) = {}
  BY <1>4 DEF Pinned
<1>6. Budget(n)
  BY <1>4, <1>5, FS_EmptySet DEF Budget
<1>7. Inside(n) /\ PinFree(n)
  BY <1>4, <1>5 DEF Inside, PinFree
<1> QED BY <1>3, <1>4, <1>6, <1>7

LEMMA NewWriterFacts ==
  ASSUME NEW mode, mode = "owned", NEW strategy \in {"windowed", "whole"},
         NEW chunk \in Nat \ {0}, NEW max \in Nat \ {0}, NEW len \in Nat,
         NEW n, n = NewManager(mode, strategy, chunk, max, len)
  PROVE  /\ n \in Manager /\ n.mode = "owned" /\ Budget(n) /\ Inside(n)
         /\ n.cached = len /\ n.retained = len
<1>1. mode \in {"owned", "live", "snapshot"}
  OBVIOUS
<1> QED BY <1>1, NewManagerFacts

LEMMA NewReaderFacts ==
  ASSUME NEW mode \in {"live", "snapshot"}, NEW strategy \in {"windowed", "whole"},
         NEW chunk \in Nat \ {0}, NEW max \in Nat \ {0}, NEW len \in Nat,
         NEW n, n = NewManager(mode, strategy, chunk, max, len),
         NEW grown \in BOOLEAN, ~grown
  PROVE  Reader(n, len, grown, {}) /\ PinFree(n)
<1>1. mode \in {"owned", "live", "snapshot"}
  OBVIOUS
<1>2. /\ n \in Manager /\ n.mode = mode /\ n.strategy = strategy
      /\ n.cached = len /\ n.retained = len /\ n.windows = <<>>
      /\ PinFree(n) /\ Budget(n)
  BY <1>1, NewManagerFacts
<1>3. n.mode # "owned"
  BY <1>2
<1>4. strategy = "whole" => Steady(n, len)
  BY <1>2, <1>3 DEF Steady
<1> QED BY <1>2, <1>3, <1>4 DEF Reader, Valid

(***************************************************************************)
(* raw_data_payload_ptr_row_pinned_if_uncompressed.                        *)
(***************************************************************************)
LEMMA PtrFacts ==
  ASSUME NEW S, Reader(rd, mwLen, mwGrown, S), mwLen \in Nat, mwGrown \in BOOLEAN,
         row.arenaEnd \in Nat, NEW d \in DOMAIN Layout, NEW ptr, ptr = PayloadPtr(d)
  PROVE  /\ ptr \in Result /\ Reader(ptr.m, mwLen, mwGrown, S)
         /\ ~ptr.ok \/ Layout[d].compressed => (PinFree(rd) => PinFree(ptr.m))
         /\ ptr.ok /\ ~Layout[d].compressed =>
              Reader(ptr.m, mwLen, mwGrown, S \cup {[data |-> d, copy |-> ptr.idx = 0]})
<1> DEFINE head == GetSlice(rd, mwLen, Layout[d].off, Prefix)
           pinned == GetRowPinnedSlice(head.m, mwLen, Layout[d].off, Layout[d].size)
<1>1. /\ Layout[d].off \in Nat /\ Layout[d].size \in Nat \ {0} /\ Prefix \in Nat \ {0}
      /\ EndOf(d) \in Nat
  BY LayoutFacts
<1>2. rd \in Manager /\ Budget(rd) /\ rd.mode # "owned"
  BY DEF Reader
<1>3. Access(rd, mwLen, head)
  BY <1>1, <1>2, SliceFacts
<1>4. ptr = IF ~head.ok \/ EndOf(d) > row.arenaEnd THEN [head EXCEPT !.ok = FALSE]
            ELSE IF Layout[d].compressed THEN [head EXCEPT !.idx = 0]
            ELSE pinned
  BY DEF PayloadPtr, Using
<1> HIDE DEF head
<1>5. /\ head \in Result /\ head.m \in Manager /\ Budget(head.m) /\ head.m.mode # "owned"
      /\ Serves(rd, mwLen, head.m) /\ head.len = mwLen
  BY <1>2, <1>3, AccessServes DEF Access, Result, Alike
<1>6. Reader(head.m, mwLen, mwGrown, S)
  BY <1>5, ReaderServes
<1>7. PinFree(rd) => PinFree(head.m)
  BY <1>3, <1>5, KeptPinFree DEF Access
<1>8. CASE ~head.ok \/ EndOf(d) > row.arenaEnd
  <2>1. ptr = [head EXCEPT !.ok = FALSE]
    BY <1>4, <1>8
  <2>2. ptr \in Result /\ ptr.m = head.m /\ ~ptr.ok
    BY <1>5, <2>1 DEF Result
  <2> QED BY <1>6, <1>7, <2>2
<1>9. CASE ~(~head.ok \/ EndOf(d) > row.arenaEnd) /\ Layout[d].compressed
  <2>1. ptr = [head EXCEPT !.idx = 0]
    BY <1>4, <1>9
  <2>2. ptr \in Result /\ ptr.m = head.m
    BY <1>5, <2>1 DEF Result
  <2> QED BY <1>6, <1>7, <1>9, <2>2
<1>10. CASE ~(~head.ok \/ EndOf(d) > row.arenaEnd) /\ ~Layout[d].compressed
  <2>1. ptr = pinned
    BY <1>4, <1>10
  <2>2. Handed(head.m, mwLen, Layout[d].off, Layout[d].size, ptr)
    BY <1>1, <1>5, <2>1, RowSliceFacts
  <2>3. ptr \in Result /\ Serves(head.m, mwLen, ptr.m)
    BY <2>2 DEF Handed
  <2>4. Reader(ptr.m, mwLen, mwGrown, S)
    BY <1>6, <2>3, ReaderServes
  <2> HIDE DEF pinned
  <2>5. ~ptr.ok => (PinFree(rd) => PinFree(ptr.m))
    BY <1>7, <2>2 DEF Handed
  <2>6. ASSUME ptr.ok, Valid(ptr.m, S)
        PROVE  Valid(ptr.m, S \cup {[data |-> d, copy |-> ptr.idx = 0]})
    <3> SUFFICES ASSUME NEW p, p = [data |-> d, copy |-> ptr.idx = 0]
                 PROVE  IF p.copy THEN Layout[p.data].off \in ptr.m.copies
                        ELSE \E i \in Pinned(ptr.m) :
                                /\ Layout[p.data].off \in ptr.m.windows[i].refs
                                /\ Covers(ptr.m.windows[i], Layout[p.data].off, Layout[p.data].size)
      BY <2>6 DEF Valid
    <3>1. p.data = d /\ (p.copy <=> ptr.idx = 0)
      OBVIOUS
    <3>2. CASE ptr.idx = 0
      BY <2>2, <2>6, <3>1, <3>2 DEF Handed
    <3>3. CASE ptr.idx # 0
      BY <2>2, <2>6, <3>1, <3>3 DEF Handed
    <3> QED BY <3>2, <3>3
  <2> QED BY <1>10, <2>3, <2>4, <2>5, <2>6 DEF Reader
<1> QED BY <1>8, <1>9, <1>10

-----------------------------------------------------------------------------
(* The invariant. *)

Row == [entry : Nat, items : Seq(Nat), next : Nat \ {0}, arenaEnd : Nat,
        active : BOOLEAN, chunks : Nat, pinsActive : BOOLEAN]

\* Every object that was added lies in the announced arena and in the file.
FileInv ==
  /\ mwLen \in Nat /\ mwArena \in Nat /\ mwVisible \in DOMAIN Layout /\ mwGrown \in BOOLEAN
  /\ \A k \in 1..mwVisible : EndOf(k) <= mwArena /\ EndOf(k) <= mwLen

\* The writer knows the length of the file, and its windows lie within it.
WriterInv ==
  /\ wr \in Manager /\ wr.mode = "owned" /\ Budget(wr) /\ Inside(wr)
  /\ wr.cached = mwLen /\ wr.retained <= mwLen
  /\ wrGuard \in {0} \cup DOMAIN Layout
  /\ wrGuard # 0 => EndOf(wrGuard) <= mwLen

ReaderInv ==
  /\ Reader(rd, mwLen, mwGrown, held)
  /\ rdGuard \in 0..mwVisible

\* The row is made of objects that were added, and is told of every pin.
RowInv ==
  /\ row \in Row /\ \A i \in DOMAIN row.items : row.items[i] \in 1..mwVisible
  /\ held \subseteq [data : 1..mwVisible, copy : BOOLEAN]
  /\ ~row.pinsActive => PinFree(rd)

MappingInv == FileInv /\ WriterInv /\ ReaderInv /\ RowInv

LEMMA RoundUpFacts ==
  ASSUME NEW n \in Nat
  PROVE  RoundUp(n) \in Nat /\ n <= RoundUp(n)
BY LayoutFacts, DivBounds DEF RoundUp

LEMMA MappingInitOK ==
  ASSUME MappingInit
  PROVE  MappingInv
<1>1. Existing \in DOMAIN Layout /\ EndOf(Existing) \in Nat
  BY MappingAssumption, LayoutFacts
<1>2. /\ mwLen = RoundUp(EndOf(Existing)) /\ mwArena = mwLen /\ mwVisible = Existing
      /\ wrGuard = 0 /\ rdGuard = 0 /\ row = NoRow /\ held = {} /\ mwGrown = FALSE
  BY DEF MappingInit
<1>3. mwLen \in Nat /\ EndOf(Existing) <= mwLen
  BY <1>1, <1>2, RoundUpFacts
<1>4. \A k \in 1..mwVisible : EndOf(k) <= mwArena /\ EndOf(k) <= mwLen
  <2> SUFFICES ASSUME NEW k \in 1..Existing PROVE EndOf(k) <= mwLen
    BY <1>2
  <2>1. k \in DOMAIN Layout /\ k <= Existing
    BY <1>1, LayoutFacts
  <2>2. EndOf(k) <= EndOf(Existing) /\ EndOf(k) \in Nat
    BY <1>1, <2>1, LayoutFacts
  <2> QED BY <1>1, <1>3, <2>2
<1>5. FileInv
  BY <1>1, <1>2, <1>3, <1>4 DEF FileInv
<1>6. PICK s \in Managers :
          /\ wr = NewManager("owned", s.w[1], s.w[2], s.w[3], mwLen)
          /\ rd = NewManager(s.r[1], s.r[2], s.r[3], s.r[4], mwLen)
  BY DEF MappingInit
<1>7. /\ s.w[1] \in {"windowed", "whole"} /\ s.w[2] \in Nat \ {0} /\ s.w[3] \in Nat \ {0}
      /\ s.r[1] \in {"live", "snapshot"} /\ s.r[2] \in {"windowed", "whole"}
      /\ s.r[3] \in Nat \ {0} /\ s.r[4] \in Nat \ {0}
  <2>1. /\ s.w \in {"windowed", "whole"} \X (Nat \ {0}) \X (Nat \ {0})
        /\ s.r \in {"live", "snapshot"} \X {"windowed", "whole"} \X (Nat \ {0}) \X (Nat \ {0})
    BY MappingAssumption
  <2> QED BY <2>1
<1>8. /\ wr \in Manager /\ wr.mode = "owned" /\ Budget(wr) /\ Inside(wr)
      /\ wr.cached = mwLen /\ wr.retained = mwLen
  <2>1. PICK st \in {"windowed", "whole"} : st = s.w[1]
    BY <1>7
  <2>2. PICK ch \in Nat \ {0} : ch = s.w[2]
    BY <1>7
  <2>3. PICK mx \in Nat \ {0} : mx = s.w[3]
    BY <1>7
  <2>4. PICK md : md = "owned"
    OBVIOUS
  <2>5. wr = NewManager(md, st, ch, mx, mwLen)
    BY <1>6, <2>1, <2>2, <2>3, <2>4
  <2>6. mwLen \in Nat
    BY <1>3
  <2> QED BY ONLY <2>4, <2>5, <2>6, st \in {"windowed", "whole"}, ch \in Nat \ {0},
                  mx \in Nat \ {0}, NewWriterFacts
<1>9. Reader(rd, mwLen, mwGrown, held) /\ PinFree(rd)
  <2>1. Reader(rd, mwLen, mwGrown, {}) /\ PinFree(rd)
    BY <1>2, <1>3, <1>6, <1>7, NewReaderFacts
  <2> QED BY <1>2, <2>1
<1>10. WriterInv
  BY <1>2, <1>3, <1>8 DEF WriterInv
<1>11. ReaderInv
  <2>1. mwVisible \in Nat
    BY <1>1, <1>2, LayoutFacts
  <2> QED BY <1>2, <1>9, <2>1 DEF ReaderInv
<1>12. RowInv
  <2>1. NoRow \in Row /\ NoRow.items = <<>>
    BY DEF NoRow, Row
  <2> QED BY <1>2, <1>9, <2>1 DEF RowInv
<1> QED BY <1>5, <1>10, <1>11, <1>12 DEF MappingInv

-----------------------------------------------------------------------------
(* Steps of the writer. *)

LEMMA WriterKeeps ==
  ASSUME MappingInv, NEW o, WriterLeft(o),
         o.m \in Manager, o.m.mode = "owned", Budget(o.m), Inside(o.m), o.len \in Nat,
         o.m.cached = o.len, o.m.retained <= o.len,
         \A k \in 1..mwVisible : EndOf(k) <= o.len,
         wrGuard' \in {0} \cup DOMAIN Layout, wrGuard' # 0 => EndOf(wrGuard') <= o.len,
         UNCHANGED <<mwArena, mwVisible, rd, rdGuard, row, held>>
  PROVE  MappingInv'
<1>1. wr' = o.m /\ mwLen' = o.len /\ (mwGrown' <=> mwGrown \/ o.len > mwLen) /\ mwGrown' \in BOOLEAN
  BY DEF WriterLeft, MappingInv, FileInv
<1>2. FileInv'
  BY <1>1 DEF MappingInv, FileInv
<1>3. WriterInv'
  BY <1>1 DEF WriterInv
<1>4. Reader(rd, mwLen', mwGrown', held)
  BY <1>1, ReaderFile DEF MappingInv, FileInv, ReaderInv
<1>5. ReaderInv'
  BY <1>4 DEF MappingInv, ReaderInv
<1>6. RowInv'
  BY DEF MappingInv, RowInv
<1> QED BY <1>2, <1>3, <1>5, <1>6 DEF MappingInv

\* After an operation on windows the writer knows the file it left.
LEMMA WriterAccess ==
  ASSUME MappingInv, NEW o, Access(wr, mwLen, o)
  PROVE  /\ o.m \in Manager /\ o.m.mode = "owned" /\ Budget(o.m) /\ Inside(o.m)
         /\ o.len \in Nat /\ o.m.cached = o.len /\ o.m.retained <= o.len /\ mwLen <= o.len
         /\ \A k \in 1..mwVisible : EndOf(k) <= o.len
<1>1. /\ wr \in Manager /\ wr.mode = "owned" /\ Inside(wr) /\ wr.cached = mwLen
      /\ wr.retained <= mwLen /\ mwLen \in Nat
  BY DEF MappingInv, WriterInv, FileInv
<1>2. /\ o \in Result /\ o.m \in Manager /\ o.len \in Nat /\ Budget(o.m)
      /\ o.m.mode = "owned" /\ o.m.retained = wr.retained
  BY <1>1 DEF Access, Result, Alike
<1>3. wr.cached <= o.m.cached /\ o.len = o.m.cached /\ Inside(o.m)
  BY <1>1 DEF Access, Measures
<1>4. wr.retained \in Nat
  BY <1>1 DEF Manager
<1>5. ASSUME NEW k \in 1..mwVisible PROVE EndOf(k) <= o.len
  <2>1. mwVisible \in DOMAIN Layout
    BY DEF MappingInv, FileInv
  <2>2. k \in DOMAIN Layout
    BY <2>1, LayoutFacts
  <2>3. EndOf(k) \in Nat
    BY <2>2, LayoutFacts
  <2>4. EndOf(k) <= mwLen
    BY DEF MappingInv, FileInv
  <2> QED BY <1>1, <1>2, <1>3, <2>3, <2>4
<1> QED BY <1>1, <1>2, <1>3, <1>4, <1>5

LEMMA WriteObjectOK ==
  ASSUME MappingInv, WriteObject
  PROVE  MappingInv'
<1> DEFINE k == mwVisible + 1
           o == NewObject(wr, mwLen, k)
<1>1. k \in DOMAIN Layout /\ wr \in Manager /\ Budget(wr) /\ wr.mode = "owned" /\ mwLen \in Nat
  BY DEF WriteObject, MappingInv, WriterInv, FileInv
<1>2. WriterLeft(o) /\ wrGuard' = k
      /\ UNCHANGED <<mwArena, mwVisible, rd, rdGuard, row, held>>
  BY DEF WriteObject
<1> HIDE DEF k
<1>3. Access(wr, mwLen, o) /\ Covered(o, Layout[k].off, Layout[k].size)
  BY <1>1, NewFacts
<1> HIDE DEF o
<1>4. /\ o.m \in Manager /\ o.m.mode = "owned" /\ Budget(o.m) /\ Inside(o.m)
      /\ o.len \in Nat /\ o.m.cached = o.len /\ o.m.retained <= o.len
      /\ \A j \in 1..mwVisible : EndOf(j) <= o.len
  BY <1>3, WriterAccess
<1>5. EndOf(k) <= o.len
  <2>1. PICK w \in Window : w = Found(o) /\ RangeEnd(w) <= o.len
                           /\ Covers(w, Layout[k].off, Layout[k].size)
    <3>1. Found(o) \in Window
      BY <1>3, <1>4 DEF Covered, Found, Manager
    <3> QED BY <1>3, <1>4, <3>1 DEF Covered, Found, Inside
  <2>2. RangeEnd(w) \in Nat /\ EndOf(k) \in Nat /\ EndOf(k) <= RangeEnd(w)
    <3>1. RangeEnd(w) \in Nat
      BY DEF RangeEnd, Window
    <3> QED BY <1>1, <2>1, <3>1, LayoutFacts DEF Covers
  <2> QED BY <1>4, <2>1, <2>2
<1> QED BY <1>1, <1>2, <1>4, <1>5, WriterKeeps

LEMMA TouchObjectOK ==
  ASSUME MappingInv, NEW k \in TouchSet, TouchObject(k)
  PROVE  MappingInv'
<1>1. /\ k \in DOMAIN Layout /\ k <= mwVisible /\ mwVisible \in DOMAIN Layout
      /\ wr \in Manager /\ Budget(wr) /\ wr.mode = "owned" /\ mwLen \in Nat /\ mwArena \in Nat
  BY MappingAssumption DEF TouchObject, MappingInv, WriterInv, FileInv
<1>2. PICK o : /\ o = ExistingObject(wr, mwLen, k) /\ WriterLeft(o)
               /\ wrGuard' = (IF o.ok THEN k ELSE 0)
               /\ UNCHANGED <<mwArena, mwVisible, rd, rdGuard, row, held>>
  BY DEF TouchObject
<1>3. Access(wr, mwLen, o)
  BY <1>1, <1>2, ExistingFacts
<1>4. /\ o.m \in Manager /\ o.m.mode = "owned" /\ Budget(o.m) /\ Inside(o.m)
      /\ o.len \in Nat /\ o.m.cached = o.len /\ o.m.retained <= o.len
      /\ \A j \in 1..mwVisible : EndOf(j) <= o.len
  BY <1>3, WriterAccess
<1>5. k \in 1..mwVisible
  BY <1>1, LayoutFacts
<1>6. wrGuard' \in {0} \cup DOMAIN Layout /\ (wrGuard' # 0 => EndOf(wrGuard') <= o.len)
  BY <1>1, <1>2, <1>4, <1>5
<1> QED BY <1>2, <1>4, <1>6, WriterKeeps

LEMMA WriterReleaseOK ==
  ASSUME MappingInv, WriterRelease
  PROVE  MappingInv'
<1>1. /\ wrGuard \in DOMAIN Layout /\ EndOf(wrGuard) <= mwLen /\ mwVisible \in DOMAIN Layout
      /\ mwLen \in Nat /\ mwArena \in Nat
  BY DEF WriterRelease, MappingInv, WriterInv, FileInv
<1>2. /\ mwArena' = IF EndOf(wrGuard) > mwArena THEN RoundUp(EndOf(wrGuard)) ELSE mwArena
      /\ wrGuard' = 0 /\ mwVisible' = Max({mwVisible, wrGuard})
      /\ UNCHANGED <<mwLen, wr, rd, rdGuard, row, held, mwGrown>>
  BY DEF WriterRelease
<1>3. wrGuard \in Nat /\ mwVisible \in Nat /\ EndOf(wrGuard) \in Nat
  BY <1>1, LayoutFacts
<1>4. mwVisible' = (IF mwVisible >= wrGuard THEN mwVisible ELSE wrGuard)
  BY <1>2, <1>3, MaxFacts
<1>5. mwArena' \in Nat /\ mwArena <= mwArena' /\ EndOf(wrGuard) <= mwArena'
  BY <1>1, <1>2, <1>3, RoundUpFacts
<1>6. mwVisible' \in DOMAIN Layout /\ mwVisible <= mwVisible' /\ mwVisible' \in Nat
  BY <1>1, <1>3, <1>4
<1>7. ASSUME NEW k \in 1..mwVisible' PROVE EndOf(k) <= mwArena' /\ EndOf(k) <= mwLen
  <2>1. k \in DOMAIN Layout
    BY <1>6, LayoutFacts
  <2>2. EndOf(k) \in Nat
    BY <2>1, LayoutFacts
  <2>3. CASE k <= mwVisible
    <3>1. EndOf(k) <= mwArena /\ EndOf(k) <= mwLen
      BY <2>3, <1>6 DEF MappingInv, FileInv
    <3> QED BY <1>1, <1>5, <2>2, <3>1
  <2>4. CASE ~(k <= mwVisible)
    <3>1. k <= wrGuard
      BY <1>3, <1>4, <2>4
    <3>2. EndOf(k) <= EndOf(wrGuard)
      BY <1>1, <2>1, <3>1, LayoutFacts
    <3> QED BY <1>1, <1>3, <1>5, <2>2, <3>2
  <2> QED BY <2>3, <2>4
<1>8. FileInv'
  BY <1>1, <1>2, <1>5, <1>6, <1>7 DEF MappingInv, FileInv
<1>9. WriterInv'
  BY <1>2 DEF MappingInv, WriterInv
<1>10. ReaderInv'
  BY <1>2, <1>3, <1>6 DEF MappingInv, ReaderInv
<1>11. RowInv'
  <2>1. 1..mwVisible \subseteq 1..mwVisible'
    BY <1>3, <1>6
  <2> QED BY <1>2, <2>1 DEF MappingInv, RowInv
<1> QED BY <1>8, <1>9, <1>10, <1>11 DEF MappingInv

\* The file is set to the announced arena, or to what the reopened file had.
LEMMA PublishedOK ==
  ASSUME MappingInv, wrGuard = 0, NEW kept \in Manager, Alike(wr, kept), Budget(kept),
         Inside(kept), kept.windows = <<>> \/ kept.cached <= Max({mwArena, wr.retained}),
         NEW o, WriterLeft(o),
         NEW size, size = Max({mwArena, wr.retained}),
         o = Done([kept EXCEPT !.cached = size, !.retained = size], size, 0),
         UNCHANGED <<mwArena, mwVisible, wrGuard, rd, rdGuard, row, held>>
  PROVE  MappingInv'
<1>1. wr.retained \in Nat /\ mwArena \in Nat /\ wr.mode = "owned"
  BY DEF MappingInv, WriterInv, FileInv, Manager
<1>2. size \in Nat /\ mwArena <= size
  <2>1. size = IF mwArena >= wr.retained THEN mwArena ELSE wr.retained
    BY <1>1, MaxFacts
  <2> QED BY ONLY <1>1, <2>1
<1> DEFINE n == [kept EXCEPT !.cached = size, !.retained = size]
<1>3. /\ n \in Manager /\ n.cached = size /\ n.retained = size /\ n.windows = kept.windows
      /\ n.mode = "owned" /\ n.pins = kept.pins /\ n.max = kept.max /\ n.strategy = kept.strategy
  BY <1>1, <1>2 DEF Manager, Alike
<1>4. o.m = n /\ o.len = size
  BY DEF Done
<1> HIDE DEF n
<1>5. Pinned(n) = Pinned(kept)
  BY <1>3 DEF Pinned
<1>6. Budget(n)
  BY <1>3, <1>5 DEF Budget
<1>7. Inside(n)
  <2> SUFFICES ASSUME NEW i \in DOMAIN kept.windows PROVE RangeEnd(kept.windows[i]) <= size
    BY <1>3 DEF Inside
  <2>1. CASE kept.windows = <<>>
    BY <2>1
  <2>2. CASE kept.cached <= size
    <3>1. RangeEnd(kept.windows[i]) <= kept.cached /\ kept.windows[i] \in Window /\ kept.cached \in Nat
      BY DEF Inside, Manager
    <3>2. RangeEnd(kept.windows[i]) \in Nat
      BY <3>1 DEF RangeEnd, Window
    <3> QED BY <1>2, <2>2, <3>1, <3>2
  <2> QED BY <2>1, <2>2
<1>8. ASSUME NEW k \in 1..mwVisible PROVE EndOf(k) <= size
  <2>1. mwVisible \in DOMAIN Layout
    BY DEF MappingInv, FileInv
  <2>2. k \in DOMAIN Layout
    BY <2>1, LayoutFacts
  <2>3. EndOf(k) \in Nat /\ EndOf(k) <= mwArena
    BY <2>2, LayoutFacts DEF MappingInv, FileInv
  <2> QED BY <1>1, <1>2, <2>3
<1>9. wrGuard' \in {0} \cup DOMAIN Layout /\ (wrGuard' # 0 => EndOf(wrGuard') <= o.len)
  OBVIOUS
<1>10. o.m \in Manager /\ o.m.mode = "owned" /\ Budget(o.m) /\ Inside(o.m) /\ o.len \in Nat
       /\ o.m.cached = o.len /\ o.m.retained <= o.len
  BY <1>2, <1>3, <1>4, <1>6, <1>7
<1>11. \A k \in 1..mwVisible : EndOf(k) <= o.len
  BY <1>4, <1>8
<1>12. UNCHANGED <<mwArena, mwVisible, rd, rdGuard, row, held>>
  OBVIOUS
<1> QED BY ONLY MappingInv, WriterLeft(o), <1>9, <1>10, <1>11, <1>12, WriterKeeps

LEMMA SyncOK ==
  ASSUME MappingInv, Sync
  PROVE  MappingInv'
<1>1. wr \in Manager
  BY DEF MappingInv, WriterInv
<1> DEFINE kept == ClearWindows(wr)
           size == Max({mwArena, wr.retained})
           o == SyncManager(wr, mwArena)
<1>2. kept \in Manager /\ Alike(wr, kept) /\ Budget(kept) /\ Inside(kept) /\ kept.windows = <<>>
  BY <1>1, ForgetFacts
<1>3. /\ wrGuard = 0 /\ WriterLeft(o)
      /\ UNCHANGED <<mwArena, mwVisible, wrGuard, rd, rdGuard, row, held>>
  BY DEF Sync
<1>4. o = Done([kept EXCEPT !.cached = size, !.retained = size], size, 0)
  BY DEF SyncManager
<1> HIDE DEF kept, o
<1> QED BY <1>2, <1>3, <1>4, PublishedOK

LEMMA PostChangeOK ==
  ASSUME MappingInv, PostChange
  PROVE  MappingInv'
<1>1. wr \in Manager /\ wr.cached \in Nat /\ wr.retained \in Nat /\ mwArena \in Nat
      /\ Budget(wr) /\ Inside(wr)
  BY DEF MappingInv, WriterInv, FileInv, Manager
<1> DEFINE size == Max({mwArena, wr.retained})
           kept == IF size < wr.cached THEN ClearWindows(wr) ELSE wr
           o == PostChangeManager(wr, mwArena)
<1>2. size \in Nat
  BY <1>1, MaxFacts
<1>3. kept \in Manager /\ Alike(wr, kept) /\ Budget(kept) /\ Inside(kept)
      /\ (kept.windows = <<>> \/ kept.cached <= size)
  <2>1. CASE size < wr.cached
    <3>1. kept = ClearWindows(wr)
      BY <2>1
    <3> QED BY <1>1, <3>1, ForgetFacts
  <2>2. CASE ~(size < wr.cached)
    <3>1. kept = wr /\ Alike(wr, wr)
      BY <2>2 DEF Alike
    <3> HIDE DEF kept, size
    <3> QED BY <1>1, <1>2, <2>2, <3>1
  <2> QED BY <2>1, <2>2
<1>4. /\ wrGuard = 0 /\ WriterLeft(o)
      /\ UNCHANGED <<mwArena, mwVisible, wrGuard, rd, rdGuard, row, held>>
  BY DEF PostChange
<1>5. o = Done([kept EXCEPT !.cached = size, !.retained = size], size, 0)
  BY DEF PostChangeManager
<1> HIDE DEF kept, o
<1> QED BY <1>3, <1>4, <1>5, PublishedOK

-----------------------------------------------------------------------------
(* Steps of the reader. *)

LEMMA ReaderKeeps ==
  ASSUME MappingInv, UNCHANGED <<mwLen, mwArena, mwVisible, wr, wrGuard>>, mwGrown' \in BOOLEAN,
         Reader(rd', mwLen, mwGrown', held'), rdGuard' \in 0..mwVisible,
         row' \in Row, \A i \in DOMAIN row'.items : row'.items[i] \in 1..mwVisible,
         held' \subseteq [data : 1..mwVisible, copy : BOOLEAN],
         ~row'.pinsActive => PinFree(rd')
  PROVE  MappingInv'
<1>1. FileInv'
  BY DEF MappingInv, FileInv
<1>2. WriterInv'
  BY DEF MappingInv, WriterInv
<1>3. ReaderInv'
  BY DEF ReaderInv
<1>4. RowInv'
  BY DEF RowInv
<1> QED BY <1>1, <1>2, <1>3, <1>4 DEF MappingInv

LEMMA ReaderAccess ==
  ASSUME NEW m, NEW len \in Nat, NEW grown \in BOOLEAN, NEW S, Reader(m, len, grown, S),
         NEW r, Access(m, len, r)
  PROVE  /\ Reader(r.m, len, grown, S) /\ r.m \in Manager /\ Budget(r.m)
         /\ r.m.mode # "owned" /\ (PinFree(m) => PinFree(r.m))
<1>1. m \in Manager /\ m.mode # "owned"
  BY DEF Reader
<1>2. Serves(m, len, r.m) /\ r.m \in Manager /\ Budget(r.m)
  BY <1>1, AccessServes DEF Access, Result
<1>3. Reader(r.m, len, grown, S)
  BY <1>2, ReaderServes
<1>4. PinFree(m) => PinFree(r.m)
  BY <1>2, KeptPinFree DEF Access
<1> QED BY <1>2, <1>3, <1>4 DEF Reader

LEMMA ReaderFewer ==
  ASSUME NEW m, NEW len, NEW grown, NEW S, Reader(m, len, grown, S)
  PROVE  Reader(m, len, grown, {})
BY DEF Reader, Valid

\* What the steps of the reader start from.
LEMMA ReaderState ==
  ASSUME MappingInv
  PROVE  /\ mwLen \in Nat /\ mwArena \in Nat /\ mwGrown \in BOOLEAN
         /\ mwVisible \in DOMAIN Layout /\ mwVisible \in Nat
         /\ \A k \in 1..mwVisible : k \in DOMAIN Layout
         /\ Reader(rd, mwLen, mwGrown, held) /\ rd \in Manager /\ Budget(rd) /\ rd.mode # "owned"
         /\ rdGuard \in 0..mwVisible
         /\ row \in Row /\ \A i \in DOMAIN row.items : row.items[i] \in 1..mwVisible
         /\ held \subseteq [data : 1..mwVisible, copy : BOOLEAN]
         /\ ~row.pinsActive => PinFree(rd)
<1>1. mwVisible \in DOMAIN Layout
  BY DEF MappingInv, FileInv
<1>2. mwVisible \in Nat /\ \A k \in 1..mwVisible : k \in DOMAIN Layout
  BY <1>1, LayoutFacts
<1> QED BY <1>1, <1>2 DEF MappingInv, FileInv, ReaderInv, RowInv, Reader

LEMMA OpenReaderOK ==
  ASSUME MappingInv, OpenReader
  PROVE  MappingInv'
<1>1. /\ rd.mode \in {"live", "snapshot"} /\ rd.strategy \in {"windowed", "whole"}
      /\ rd.chunk \in Nat \ {0} /\ rd.max \in Nat \ {0} /\ mwLen \in Nat
      /\ mwVisible \in Nat
  BY ReaderState DEF Manager
<1>2. /\ rd' = NewManager(rd.mode, rd.strategy, rd.chunk, rd.max, mwLen)
      /\ rdGuard' = 0 /\ row' = NoRow /\ held' = {} /\ mwGrown' = FALSE
      /\ UNCHANGED <<mwLen, mwArena, mwVisible, wr, wrGuard>>
  BY DEF OpenReader
<1>3. Reader(rd', mwLen, mwGrown', held') /\ PinFree(rd')
  <2>1. Reader(rd', mwLen, mwGrown', {}) /\ PinFree(rd')
    BY <1>1, <1>2, NewReaderFacts
  <2> QED BY <1>2, <2>1
<1>4. row' \in Row /\ row'.items = <<>>
  BY <1>2 DEF NoRow, Row
<1>5. mwGrown' \in BOOLEAN
  BY <1>2
<1>6. rdGuard' \in 0..mwVisible
  BY <1>1, <1>2
<1> QED BY <1>2, <1>3, <1>4, <1>5, <1>6, ReaderKeeps

LEMMA ReaderReleaseOK ==
  ASSUME MappingInv, ReaderRelease
  PROVE  MappingInv'
<1>1. /\ rdGuard' = 0 /\ rd' = rd /\ row' = row /\ held' = held /\ mwGrown' = mwGrown
      /\ UNCHANGED <<mwLen, mwArena, mwVisible, wr, wrGuard>>
  BY DEF ReaderRelease
<1>2. rdGuard' \in 0..mwVisible
  BY <1>1, ReaderState
<1> QED BY <1>1, <1>2, ReaderState, ReaderKeeps

LEMMA RestartDataOK ==
  ASSUME MappingInv, RestartData
  PROVE  MappingInv'
<1>1. /\ row' = [row EXCEPT !.next = 1, !.active = TRUE, !.chunks = 0]
      /\ rdGuard' = rdGuard /\ rd' = rd /\ held' = held /\ mwGrown' = mwGrown
      /\ UNCHANGED <<mwLen, mwArena, mwVisible, wr, wrGuard>>
  BY DEF RestartData
<1>2. row \in Row
  BY ReaderState
<1>3. row' \in Row /\ row'.items = row.items /\ (row'.pinsActive <=> row.pinsActive)
  <2>1. PICK one \in Nat \ {0} : one = 1
    OBVIOUS
  <2>2. row' = [row EXCEPT !.next = one, !.active = TRUE, !.chunks = 0]
    BY <1>1, <2>1
  <2>3. row' \in Row
    BY ONLY <1>2, <2>2, one \in Nat \ {0} DEF Row
  <2>4. row'.items = row.items /\ (row'.pinsActive <=> row.pinsActive)
    BY ONLY <1>2, <2>2 DEF Row
  <2> QED BY <2>3, <2>4
<1> QED BY <1>1, <1>3, ReaderState, ReaderKeeps

\* The reader reads something and holds it or not.
LEMMA ReadOK ==
  ASSUME MappingInv, NEW o, Access(rd, mwLen, o), rd' = o.m, rdGuard' \in 0..mwVisible,
         UNCHANGED <<mwLen, mwArena, mwVisible, wr, wrGuard, row, held, mwGrown>>
  PROVE  MappingInv'
<1>1. Reader(o.m, mwLen, mwGrown, held) /\ (PinFree(rd) => PinFree(o.m))
  BY ReaderState, ReaderAccess
<1> QED BY <1>1, ReaderState, ReaderKeeps

LEMMA ReadObjectOK ==
  ASSUME MappingInv, NEW k \in ReadSet, ReadObject(k)
  PROVE  MappingInv'
<1>1. PICK o : /\ o = ObjectRef(rd, mwLen, k) /\ rd' = o.m
               /\ rdGuard' = (IF o.ok THEN k ELSE 0)
               /\ UNCHANGED <<mwLen, mwArena, mwVisible, wr, wrGuard, row, held, mwGrown>>
  BY DEF ReadObject
<1>2. k \in DOMAIN Layout /\ k <= mwVisible
  BY MappingAssumption DEF ReadObject
<1>3. Access(rd, mwLen, o)
  BY <1>1, <1>2, ReaderState, ObjectRefFacts
<1>4. rdGuard' \in 0..mwVisible
  BY <1>1, <1>2, ReaderState, LayoutFacts
<1> QED BY <1>1, <1>3, <1>4, ReadOK

LEMMA VisitPayloadOK ==
  ASSUME MappingInv, NEW k \in ReadSet, VisitPayload(k)
  PROVE  MappingInv'
<1>1. PICK o : /\ o = ObjectRef(rd, mwLen, k) /\ rd' = o.m
               /\ UNCHANGED <<mwLen, mwArena, mwVisible, wr, wrGuard, rdGuard, row, held, mwGrown>>
  BY DEF VisitPayload
<1>2. k \in DOMAIN Layout
  BY MappingAssumption
<1>3. Access(rd, mwLen, o)
  BY <1>1, <1>2, ReaderState, ObjectRefFacts
<1>4. rdGuard' \in 0..mwVisible
  BY <1>1, ReaderState
<1> QED BY <1>1, <1>3, <1>4, ReadOK

LEMMA ReadBytesOK ==
  ASSUME MappingInv, NEW k \in ReadSet, ReadBytes(k)
  PROVE  MappingInv'
<1>1. PICK o : /\ o = GetSlice(rd, mwLen, Layout[k].off, Layout[k].size) /\ rd' = o.m
               /\ UNCHANGED <<mwLen, mwArena, mwVisible, wr, wrGuard, rdGuard, row, held, mwGrown>>
  BY DEF ReadBytes
<1>2. k \in DOMAIN Layout
  BY MappingAssumption
<1>3. Access(rd, mwLen, o)
  BY <1>1, <1>2, ReaderState, LayoutFacts, SliceFacts
<1>4. rdGuard' \in 0..mwVisible
  BY <1>1, ReaderState
<1> QED BY <1>1, <1>3, <1>4, ReadOK

(***************************************************************************)
(* clear_pins leaves no pins, or leaves all as it was.                     *)
(***************************************************************************)
LEMMA ClearPinsFacts ==
  ASSUME MappingInv, NEW c, c = ClearPins
  PROVE  /\ Reader(c.m, mwLen, mwGrown, c.held)
         /\ c.held \subseteq held /\ c.pins \in BOOLEAN
         /\ ~c.pins => PinFree(c.m)
         /\ c.ok => ~c.pins /\ c.held = {}
<1>0. /\ mwLen \in Nat /\ mwGrown \in BOOLEAN /\ Reader(rd, mwLen, mwGrown, held)
      /\ row.pinsActive \in BOOLEAN /\ (~row.pinsActive => PinFree(rd))
  BY ReaderState DEF Row
<1>1. CASE row.pinsActive /\ rdGuard = 0
  <2>1. c.m = ClearRowPins(rd) /\ c.held = {} /\ c.pins = FALSE
    BY <1>1 DEF ClearPins
  <2>2. Reader(ClearRowPins(rd), mwLen, mwGrown, {}) /\ PinFree(ClearRowPins(rd))
    BY <1>0, ReaderClear
  <2> QED BY <2>1, <2>2
<1>2. CASE row.pinsActive /\ rdGuard # 0
  <2>1. c.m = rd /\ c.held = held /\ c.pins = TRUE /\ ~c.ok
    BY <1>2 DEF ClearPins
  <2> QED BY <1>0, <2>1
<1>3. CASE ~row.pinsActive
  <2>1. c.m = rd /\ c.held = {} /\ c.pins = FALSE
    BY <1>3 DEF ClearPins
  <2>2. Reader(rd, mwLen, mwGrown, {})
    BY <1>0, ReaderFewer
  <2> QED BY <1>0, <1>3, <2>1, <2>2
<1> QED BY <1>1, <1>2, <1>3

LEMMA ResetDataStateOK ==
  ASSUME MappingInv, ResetDataState
  PROVE  MappingInv'
<1>1. PICK c : /\ c = ClearPins /\ c.ok /\ rd' = c.m /\ held' = c.held
               /\ row' = [Cleared(row) EXCEPT !.pinsActive = FALSE]
               /\ UNCHANGED <<mwLen, mwArena, mwVisible, wr, wrGuard, rdGuard, mwGrown>>
  BY DEF ResetDataState
<1>2. Reader(c.m, mwLen, mwGrown, c.held) /\ c.held = {} /\ PinFree(c.m)
  BY <1>1, ClearPinsFacts
<1>3. row \in Row
  BY ReaderState
<1>4. row' \in Row /\ row'.items = row.items
  <2>1. PICK one \in Nat \ {0} : one = 1
    OBVIOUS
  <2>2. row' = [row EXCEPT !.active = FALSE, !.next = one, !.chunks = 0, !.pinsActive = FALSE]
    BY <1>1, <2>1 DEF Cleared
  <2>3. row' \in Row
    BY ONLY <1>3, <2>2, one \in Nat \ {0} DEF Row
  <2>4. row'.items = row.items
    BY ONLY <1>3, <2>2 DEF Row
  <2> QED BY <2>3, <2>4
<1> QED BY <1>1, <1>2, <1>4, ReaderState, ReaderKeeps

LEMMA ClearCurrentOK ==
  ASSUME MappingInv, ClearCurrentBestEffort
  PROVE  MappingInv'
<1>1. PICK c : /\ c = ClearPins /\ rd' = c.m /\ held' = c.held
               /\ row' = [NoRow EXCEPT !.pinsActive = c.pins]
               /\ UNCHANGED <<mwLen, mwArena, mwVisible, wr, wrGuard, rdGuard, mwGrown>>
  BY DEF ClearCurrentBestEffort
<1>2. /\ Reader(c.m, mwLen, mwGrown, c.held) /\ c.held \subseteq held
      /\ c.pins \in BOOLEAN /\ (~c.pins => PinFree(c.m))
  BY <1>1, ClearPinsFacts
<1>3. row' \in Row /\ row'.items = <<>> /\ (row'.pinsActive <=> c.pins)
  <2>1. PICK pins \in BOOLEAN : pins = c.pins
    BY <1>2
  <2>2. NoRow \in Row /\ NoRow.items = <<>>
    BY DEF Row, NoRow
  <2>3. row' = [NoRow EXCEPT !.pinsActive = pins]
    BY <1>1, <2>1
  <2>4. row' \in Row /\ row'.items = <<>>
    BY ONLY <2>2, <2>3, pins \in BOOLEAN DEF Row
  <2>5. row'.pinsActive <=> pins
    BY ONLY <2>2, <2>3, pins \in BOOLEAN DEF Row
  <2> QED BY <2>1, <2>4, <2>5
<1> QED BY <1>1, <1>2, <1>3, ReaderState, ReaderKeeps

LEMMA LoadEntryOK ==
  ASSUME MappingInv, NEW k \in DOMAIN Layout, LoadEntry(k)
  PROVE  MappingInv'
<1> DEFINE empty == [row EXCEPT !.pinsActive = FALSE, !.chunks = 0, !.items = <<>>]
           full == [NoRow EXCEPT !.entry = k, !.items = Layout[k].items, !.arenaEnd = mwArena]
<1>1. PICK c : /\ c = ClearPins /\ c.ok /\ held' = c.held /\ k <= mwVisible
               /\ \/ row' = empty /\ rd' = c.m
                  \/ \E o \in {ObjectRef(c.m, mwLen, k)} :
                        rd' = o.m /\ row' = IF ~o.ok THEN empty ELSE full
               /\ UNCHANGED <<mwLen, mwArena, mwVisible, wr, wrGuard, rdGuard, mwGrown>>
  BY DEF LoadEntry
<1>2. Reader(c.m, mwLen, mwGrown, c.held) /\ c.held = {} /\ PinFree(c.m)
  BY <1>1, ClearPinsFacts
<1>3. row \in Row /\ mwArena \in Nat /\ mwVisible \in Nat /\ mwLen \in Nat /\ mwGrown \in BOOLEAN
  BY ReaderState
<1>4. empty \in Row /\ empty.items = <<>>
  <2>1. <<>> \in Seq(Nat)
    OBVIOUS
  <2> QED BY <1>3, <2>1 DEF Row
<1>5. full \in Row /\ \A i \in DOMAIN full.items : full.items[i] \in 1..mwVisible
  <2>1. /\ k \in Nat /\ Layout[k].items \in Seq(Nat)
        /\ \A i \in DOMAIN Layout[k].items : Layout[k].items[i] \in 1..(k - 1)
    BY LayoutFacts
  <2>2. full \in Row /\ full.items = Layout[k].items
    <3>1. NoRow \in Row
      BY DEF Row, NoRow
    <3>2. PICK n \in Row : n = NoRow
      BY <3>1
    <3>3. PICK arena \in Nat : arena = mwArena
      BY <1>3
    <3>4. PICK items \in Seq(Nat) : items = Layout[k].items
      BY <2>1
    <3>5. full = [n EXCEPT !.entry = k, !.items = items, !.arenaEnd = arena]
      BY <3>2, <3>3, <3>4
    <3> HIDE DEF full
    <3>6. full \in Row
      BY ONLY <2>1, <3>5, n \in Row, arena \in Nat, items \in Seq(Nat) DEF Row
    <3>7. full.items = items
      BY ONLY <3>5, n \in Row DEF Row
    <3> QED BY <3>4, <3>6, <3>7
  <2>3. 1..(k - 1) \subseteq 1..mwVisible
    BY <1>1, <1>3, <2>1
  <2> QED BY <2>1, <2>2, <2>3
<1> HIDE DEF empty, full
<1>6. row' \in Row /\ \A i \in DOMAIN row'.items : row'.items[i] \in 1..mwVisible
  <2>1. row' = empty \/ row' = full
    BY <1>1
  <2> QED BY <1>4, <1>5, <2>1
<1>7. Reader(rd', mwLen, mwGrown', held') /\ PinFree(rd')
  <2>1. CASE rd' = c.m
    BY <1>1, <1>2, <2>1
  <2>2. CASE rd' # c.m
    <3>1. PICK o : o = ObjectRef(c.m, mwLen, k) /\ rd' = o.m
      BY <1>1, <2>2
    <3>2. c.m \in Manager /\ Budget(c.m) /\ c.m.mode # "owned"
      BY <1>2 DEF Reader
    <3>3. Access(c.m, mwLen, o)
      BY <1>3, <3>1, <3>2, ObjectRefFacts
    <3>4. Reader(o.m, mwLen, mwGrown, c.held) /\ PinFree(o.m)
      BY <1>2, <1>3, <3>3, ReaderAccess
    <3> QED BY <1>1, <3>1, <3>4
  <2> QED BY <2>1, <2>2
<1> QED BY <1>1, <1>2, <1>6, <1>7, ReaderState, ReaderKeeps

(***************************************************************************)
(* A payload that a row is given joins those that stay.                    *)
(***************************************************************************)
LEMMA ReadPayloadOK ==
  ASSUME MappingInv, NEW d \in 1..mwVisible, NEW r \in Row, r.items = row.items,
         r.pinsActive <=> row.pinsActive, ReadPayload(d, r)
  PROVE  MappingInv'
<1>1. /\ d \in DOMAIN Layout /\ mwLen \in Nat /\ mwArena \in Nat /\ mwGrown \in BOOLEAN
      /\ row.arenaEnd \in Nat
      /\ Reader(rd, mwLen, mwGrown, held)
  BY ReaderState DEF Row
<1> DEFINE payload(ptr) == [data |-> d, copy |-> ptr.idx = 0]
<1>2. PICK ptr :
         /\ ptr = PayloadPtr(d)
         /\ \/ /\ ptr.ok /\ Layout[d].compressed
               /\ \E data \in {ObjectRef(ptr.m, mwLen, d)} :
                    /\ rd' = data.m
                    /\ row' = IF data.ok THEN [r EXCEPT !.chunks = @ + 1] ELSE r
               /\ UNCHANGED held
            \/ /\ ~(ptr.ok /\ Layout[d].compressed)
               /\ rd' = ptr.m
               /\ row' = IF ptr.ok THEN [r EXCEPT !.pinsActive = TRUE] ELSE r
               /\ held' = IF ptr.ok THEN held \cup {payload(ptr)} ELSE held
         /\ UNCHANGED <<mwLen, mwArena, mwVisible, wr, wrGuard, rdGuard, mwGrown>>
  BY DEF ReadPayload
<1>3. /\ ptr \in Result /\ Reader(ptr.m, mwLen, mwGrown, held)
      /\ ~ptr.ok \/ Layout[d].compressed => (PinFree(rd) => PinFree(ptr.m))
      /\ ptr.ok /\ ~Layout[d].compressed =>
           Reader(ptr.m, mwLen, mwGrown, held \cup {payload(ptr)})
  BY <1>1, <1>2, PtrFacts
<1>4. payload(ptr) \in [data : 1..mwVisible, copy : BOOLEAN]
  OBVIOUS
<1> HIDE DEF payload
<1>5. CASE ptr.ok /\ Layout[d].compressed
  <2>1. PICK data : /\ data = ObjectRef(ptr.m, mwLen, d) /\ rd' = data.m /\ held' = held
                    /\ row' = IF data.ok THEN [r EXCEPT !.chunks = @ + 1] ELSE r
    BY <1>2, <1>5
  <2>2. Access(ptr.m, mwLen, data)
    BY <1>1, <1>3, <2>1, ObjectRefFacts DEF Reader
  <2>3. Reader(data.m, mwLen, mwGrown, held) /\ (PinFree(ptr.m) => PinFree(data.m))
    BY <1>1, <1>3, <2>2, ReaderAccess
  <2>4. row' \in Row /\ row'.items = row.items /\ (row'.pinsActive <=> row.pinsActive)
    <3>1. [r EXCEPT !.chunks = @ + 1] \in Row
      BY DEF Row
    <3>2. /\ [r EXCEPT !.chunks = @ + 1].items = r.items
          /\ [r EXCEPT !.chunks = @ + 1].pinsActive <=> r.pinsActive
      BY DEF Row
    <3> QED BY <2>1, <3>1, <3>2
  <2>5. ~row'.pinsActive => PinFree(rd')
    BY <1>3, <1>5, <2>1, <2>3, <2>4, ReaderState
  <2> QED BY <1>2, <2>1, <2>3, <2>4, <2>5, ReaderState, ReaderKeeps
<1>6. CASE ptr.ok /\ ~Layout[d].compressed
  <2>1. /\ rd' = ptr.m /\ row' = [r EXCEPT !.pinsActive = TRUE]
        /\ held' = held \cup {payload(ptr)}
    BY <1>2, <1>6
  <2>2. row' \in Row /\ row'.items = row.items /\ row'.pinsActive = TRUE
    BY <2>1 DEF Row
  <2>3. Reader(rd', mwLen, mwGrown', held')
    BY <1>2, <1>3, <1>6, <2>1
  <2>4. held' \subseteq [data : 1..mwVisible, copy : BOOLEAN]
    BY <1>4, <2>1, ReaderState
  <2> QED BY <1>2, <2>2, <2>3, <2>4, ReaderState, ReaderKeeps
<1>7. CASE ~ptr.ok
  <2>1. rd' = ptr.m /\ row' = r /\ held' = held
    BY <1>2, <1>7
  <2>2. ~row'.pinsActive => PinFree(rd')
    BY <1>3, <1>7, <2>1, ReaderState
  <2> QED BY <1>2, <1>3, <2>1, <2>2, ReaderState, ReaderKeeps
<1> QED BY <1>5, <1>6, <1>7

LEMMA ReadNextPayloadOK ==
  ASSUME MappingInv, ReadNextPayload
  PROVE  MappingInv'
<1>1. row \in Row /\ \A i \in DOMAIN row.items : row.items[i] \in 1..mwVisible
  BY ReaderState
<1>2. row.next \in DOMAIN row.items
  BY <1>1 DEF ReadNextPayload, Row
<1> DEFINE r == [row EXCEPT !.next = @ + 1, !.active = TRUE]
<1>3. r \in Row /\ r.items = row.items /\ (r.pinsActive <=> row.pinsActive)
  <2>1. PICK next \in Nat \ {0} : next = row.next + 1
    BY <1>1 DEF Row
  <2>2. r = [row EXCEPT !.next = next, !.active = TRUE]
    BY <2>1
  <2> HIDE DEF r
  <2>3. r \in Row
    BY ONLY <1>1, <2>2, next \in Nat \ {0} DEF Row
  <2>4. r.items = row.items /\ (r.pinsActive <=> row.pinsActive)
    BY ONLY <1>1, <2>2 DEF Row
  <2> QED BY <2>3, <2>4
<1>4. ReadPayload(row.items[row.next], r)
  BY DEF ReadNextPayload
<1> HIDE DEF r
<1> QED BY <1>1, <1>2, <1>3, <1>4, ReadPayloadOK

LEMMA ReadPayloadAtOK ==
  ASSUME MappingInv, ReadPayloadAt
  PROVE  MappingInv'
<1>1. PICK i \in DOMAIN row.items : ReadPayload(row.items[i], row)
  BY DEF ReadPayloadAt
<1>2. row \in Row /\ row.items[i] \in 1..mwVisible
  BY ReaderState
<1> QED BY <1>1, <1>2, ReadPayloadOK

-----------------------------------------------------------------------------
(* The theorem. *)

LEMMA MappingStep ==
  ASSUME MappingInv, [MappingNext]_mwVars
  PROVE  MappingInv'
<1>1. CASE WriterStep
  BY <1>1, WriteObjectOK, WriterReleaseOK, PostChangeOK, SyncOK, TouchObjectOK DEF WriterStep
<1>2. CASE ReaderStep
  BY <1>2, OpenReaderOK, ReaderReleaseOK, RestartDataOK, ReadNextPayloadOK, ReadPayloadAtOK,
     ResetDataStateOK, ClearCurrentOK, ReadObjectOK, VisitPayloadOK, ReadBytesOK, LoadEntryOK
  DEF ReaderStep
<1>3. CASE UNCHANGED mwVars
  <2>1. /\ mwLen' = mwLen /\ mwArena' = mwArena /\ mwVisible' = mwVisible /\ wr' = wr
        /\ wrGuard' = wrGuard /\ rd' = rd /\ rdGuard' = rdGuard /\ row' = row /\ held' = held
        /\ mwGrown' = mwGrown
    BY <1>3 DEF mwVars
  <2>2. FileInv' /\ WriterInv'
    BY <2>1 DEF MappingInv, FileInv, WriterInv
  <2>3. ReaderInv' /\ RowInv'
    BY <2>1 DEF MappingInv, ReaderInv, RowInv
  <2> QED BY <2>2, <2>3 DEF MappingInv
<1> QED BY <1>1, <1>2, <1>3 DEF MappingNext

LEMMA ReadableFacts ==
  ASSUME MappingInv
  PROVE  ObjectsReadable
<1> SUFFICES ASSUME NEW k \in 1..mwVisible
             PROVE  /\ CoveredBy(ExistingObject(wr, mwLen, k), k)
                    /\ \/ rd.mode = "snapshot" /\ EndOf(k) > rd.retained
                       \/ CoveredBy(ObjectRef(rd, mwLen, k), k)
  BY DEF ObjectsReadable
<1>1. /\ k \in DOMAIN Layout /\ EndOf(k) <= mwArena /\ EndOf(k) <= mwLen /\ mwArena \in Nat
      /\ mwLen \in Nat
  BY ReaderState DEF MappingInv, FileInv
<1>2. EndOf(k) \in Nat
  BY <1>1, LayoutFacts
<1>3. CoveredBy(ExistingObject(wr, mwLen, k), k)
  <2>1. wr \in Manager /\ Budget(wr) /\ wr.mode = "owned" /\ wr.cached = mwLen
    BY DEF MappingInv, WriterInv
  <2>2. PICK o : o = ExistingObject(wr, mwLen, k)
    OBVIOUS
  <2>3. Covered(o, Layout[k].off, Layout[k].size)
    BY <1>1, <2>1, <2>2, ExistingFacts
  <2> QED BY <2>2, <2>3 DEF Covered, CoveredBy, Found
<1>4. ASSUME ~(rd.mode = "snapshot" /\ EndOf(k) > rd.retained)
      PROVE  CoveredBy(ObjectRef(rd, mwLen, k), k)
  <2>1. rd \in Manager /\ Budget(rd) /\ rd.mode # "owned" /\ rd.retained \in Nat
        /\ (rd.mode = "snapshot" => rd.cached = rd.retained)
    BY DEF MappingInv, ReaderInv, Reader, Manager
  <2>2. rd.mode = "snapshot" => EndOf(k) <= rd.cached
    BY <1>2, <1>4, <2>1
  <2>3. PICK o : o = ObjectRef(rd, mwLen, k)
    OBVIOUS
  <2>4. Covered(o, Layout[k].off, Layout[k].size)
    BY <1>1, <2>1, <2>2, <2>3, ObjectRefFacts
  <2> QED BY <2>3, <2>4 DEF Covered, CoveredBy, Found
<1> QED BY <1>3, <1>4

LEMMA InvariantSound ==
  ASSUME MappingInv
  PROVE  MappingSound
<1>1. ObjectsReadable
  BY ReadableFacts
<1>2. RowDataValid
  <2>1. CASE rd.strategy = "whole" /\ mwGrown
    BY <2>1 DEF RowDataValid
  <2>2. CASE Valid(rd, held)
    <3> SUFFICES ASSUME NEW p \in held
                 PROVE  IF p.copy THEN Layout[p.data].off \in rd.copies
                        ELSE \E i \in DOMAIN rd.windows :
                                /\ Layout[p.data].off \in rd.windows[i].refs
                                /\ rd.windows[i].pinned
                                /\ Covers(rd.windows[i], Layout[p.data].off, Layout[p.data].size)
      BY DEF RowDataValid
    <3> QED BY <2>2 DEF Valid, Pinned
  <2> QED BY <2>1, <2>2 DEF MappingInv, ReaderInv, Reader
<1>3. PinsReleased
  BY DEF MappingInv, RowInv, PinFree, Pinned, PinsReleased
<1>4. WindowBudget
  <2> SUFFICES ASSUME NEW m \in {rd, wr}
               PROVE  /\ Len(m.windows) <= m.max + 1
                      /\ m.pins = Cardinality({i \in DOMAIN m.windows : m.windows[i].pinned})
                      /\ m.pins <= m.max
    BY DEF WindowBudget
  <2>1. Budget(m)
    BY DEF MappingInv, ReaderInv, Reader, WriterInv
  <2> QED BY <2>1 DEF Budget, Pinned
<1>5. MappedBacked
  <2>1. /\ \A k \in 1..mwVisible : EndOf(k) <= mwLen
        /\ mwVisible \in Nat /\ rdGuard \in 0..mwVisible
        /\ held \subseteq [data : 1..mwVisible, copy : BOOLEAN]
    BY ReaderState DEF MappingInv, FileInv
  <2>2. rdGuard # 0 => EndOf(rdGuard) <= mwLen
    BY <2>1
  <2>3. \A p \in held : EndOf(p.data) <= mwLen
    BY <2>1
  <2>4. /\ \A i \in DOMAIN wr.windows : RangeEnd(wr.windows[i]) <= mwLen
        /\ wr.retained <= mwLen /\ (wrGuard # 0 => EndOf(wrGuard) <= mwLen)
    BY DEF MappingInv, WriterInv, Inside
  <2> QED BY <2>2, <2>3, <2>4 DEF MappedBacked
<1> QED BY <1>1, <1>2, <1>3, <1>4, <1>5 DEF MappingSound

(***************************************************************************)
(* For every layout of the file and every size, number and kind of windows *)
(* of the two sides (WindowManager, mmap.rs; JournalReader's current row,  *)
(* row_view.rs): each object that the writer added can be read, by the     *)
(* writer and by the reader, through a window that covers it; a payload    *)
(* pointer stays good until its row is left, and then its pin or copy is   *)
(* gone; never more windows or pins than the limit; no access outside the  *)
(* file, however the windows are mapped, replaced and evicted and the file *)
(* grown and cut in between.                                               *)
(***************************************************************************)
THEOREM WindowsAreSound == MappingSpec => []MappingSound
<1>1. MappingInit => MappingInv
  BY MappingInitOK
<1>2. MappingInv /\ [MappingNext]_mwVars => MappingInv'
  BY MappingStep
<1>3. MappingInv => MappingSound
  BY InvariantSound
<1> QED BY <1>1, <1>2, <1>3, PTL DEF MappingSpec
=============================================================================
