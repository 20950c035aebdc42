------------------------------- MODULE Chains -------------------------------
(***************************************************************************)
(* The linked structures of a journal file, as pure operators.             *)
(*                                                                         *)
(* An offset is the ordinal of an object in the arena; 0 stands for the    *)
(* absent offset (Option<NonZeroU64> in the code).  A chain is given by    *)
(* its head and by a function from an offset to the offset it links to.    *)
(* The walks are recursive functions over an initial segment of Nat, so    *)
(* that modules with proofs can use them.                                  *)
(***************************************************************************)
EXTENDS Integers, Sequences, FiniteSets

\* f with o bound to v.
Put(f, o, v) == [x \in DOMAIN f \cup {o} |-> IF x = o THEN v ELSE f[x]]

\* The i-th offset met from head; a walk stays where it met a missing object.
Visit(head, next) ==
  LET n == Cardinality(DOMAIN next)
      at[i \in 0..n] ==
        IF i = 0 THEN head
        ELSE LET p == at[i - 1] IN IF p \in DOMAIN next THEN next[p] ELSE p
  IN  at

\* The offsets a walk from head meets.
Met(head, next) == LET at == Visit(head, next) IN {at[i] : i \in DOMAIN at} \ {0}

\* The walk ends: every object it meets exists and no object is met twice.
Ends(head, next) == Visit(head, next)[Cardinality(DOMAIN next)] = 0

\* All slots of the array chain that starts at head, in chain order.  (The choice
\* from a singleton has TLC evaluate f[i - 1] once.)
Flatten(head, array) ==
  LET n == Cardinality(DOMAIN array)
      Extend(p) ==
        IF p.at \in DOMAIN array
        THEN [at |-> array[p.at].next, slots |-> p.slots \o array[p.at].slots]
        ELSE p
      f[i \in 0..n] ==
        IF i = 0 THEN [at |-> head, slots |-> <<>>]
        ELSE CHOOSE q \in {Extend(p) : p \in {f[i - 1]}} : TRUE
  IN  f[n].slots

(***************************************************************************)
(* The array of a chain that holds slot number limit, with the number of   *)
(* slots in the arrays before it.  With orLast the last array of a chain   *)
(* that is too short is the answer, otherwise at is 0.                     *)
(***************************************************************************)
TailArray(head, array, limit, orLast) ==
  LET n == Cardinality(DOMAIN array)
      f[i \in 0..n] ==
        IF i = 0 THEN [at |-> head, before |-> 0]
        ELSE LET p == f[i - 1]
             IN  IF \/ p.at \notin DOMAIN array
                    \/ p.before + Len(array[p.at].slots) >= limit
                    \/ orLast /\ array[p.at].next = 0
                 THEN p
                 ELSE [at |-> array[p.at].next,
                       before |-> p.before + Len(array[p.at].slots)]
  IN  f[n]
=============================================================================
