----------------------------- MODULE ChainGuard -----------------------------
(***************************************************************************)
(* The two cycle detectors of journal-core.                                *)
(*                                                                         *)
(* ChainGuard (file/chain_guard.rs) walks hash chains and field lists with *)
(* two words of state: nothing while the links go in the expected          *)
(* direction, from the first link that does not on a checkpoint that moves *)
(* to the current object at every power of two.                            *)
(*                                                                         *)
(* The array walks (find_entry_array_tail and its siblings, with           *)
(* file/array_chain.rs) remember the highest offset met and go back to the *)
(* head of the chain only for a link that does not exceed it.              *)
(*                                                                         *)
(* Both walk the same chain here, side by side and at their own pace, over *)
(* every link graph on the offsets 1..N.                                   *)
(***************************************************************************)
EXTENDS Integers, FiniteSets

CONSTANT N   \* objects in the file

ASSUME NAssumption == N \in Nat \ {0}

Offset == 1..N

VARIABLES
  links,     \* the chain: offset -> next offset, 0 at the end
  head,      \* where the walks begin
  backward,  \* the "descending" argument of advance
  guard,     \* [checkpoint, steps] of ChainGuard
  at,        \* where the guarded walk is, 0 when it ended
  verdict,   \* "walking", "end" or "cycle" for the guarded walk
  array_at,  \* where the array walk is, 0 when it ended
  highest,   \* the highest offset of the array walk
  seen,      \* the offsets the array walk has been at
  array_verdict

gvars == <<guard, at, verdict>>
avars == <<array_at, highest, seen, array_verdict>>
graph == <<links, head, backward>>
cvars == <<graph, gvars, avars>>

\* What a walk from the head meets.
OnChain ==
  LET way[i \in 0..N] ==
        IF i = 0 THEN head ELSE IF way[i - 1] = 0 THEN 0 ELSE links[way[i - 1]]
  IN  {way[i] : i \in 0..N}

\* reset() only clears the step count: the checkpoint is whatever it was.  The
\* walks never look at the links of an object that is not on the chain.
GuardInit ==
  /\ head \in Offset /\ backward \in BOOLEAN
  /\ links \in [Offset -> 0..N] /\ \A o \in Offset \ OnChain : links[o] = 0
  /\ guard \in [checkpoint : 0..N, steps : {0}]
  /\ at = head /\ verdict = "walking"
  /\ array_at = head /\ highest = head /\ seen = {} /\ array_verdict = "walking"

IsPowerOfTwo(n) == \E k \in 0..n : n = 2^k

Ordered(current, next) == IF backward THEN next < current ELSE next > current

\* Mutant: the checkpoint never moves (the step count wraps at a small power).
UnorderedFixed(current, next) ==
  LET g == IF guard.steps = 0 THEN [checkpoint |-> current, steps |-> 1] ELSE guard
  IN  [error |-> next = g.checkpoint, guard |-> g]

\* advance_unordered: the verdict and the new guard.
Unordered(current, next) ==
  LET g == IF guard.steps = 0 THEN [checkpoint |-> current, steps |-> 1] ELSE guard
      s == g.steps + 1
  IN  IF next = g.checkpoint THEN [error |-> TRUE, guard |-> g]
      ELSE [error |-> FALSE,
            guard |-> [checkpoint |-> IF IsPowerOfTwo(s) THEN next ELSE g.checkpoint,
                       steps |-> s]]

\* advance; the fast path leaves the guard alone.
Guarded(current, next) ==
  IF (guard.steps = 0 /\ Ordered(current, next)) \/ next = 0
  THEN [error |-> FALSE, guard |-> guard]
  ELSE Unordered(current, next)

\* One turn of the loop of a chain walk.
Advance ==
  /\ verdict = "walking"
  /\ LET next == links[at]
         res == Guarded(at, next)
     IN  /\ guard' = res.guard
         /\ IF res.error THEN verdict' = "cycle" /\ at' = at
            ELSE at' = next /\ verdict' = IF next = 0 THEN "end" ELSE "walking"
  /\ UNCHANGED <<graph, avars>>

\* reject_array_revisit: the way from the head to current, walked again, meets target.
Revisits(current, target) ==
  LET way[i \in 0..N] ==
        IF i = 0 THEN head
        ELSE IF way[i - 1] = current THEN current ELSE links[way[i - 1]]
  IN  \E i \in 0..N : way[i] = target

AdvanceArray ==
  /\ array_verdict = "walking"
  /\ LET next == links[array_at]
     IN  IF next = 0
         THEN /\ array_at' = 0 /\ array_verdict' = "end"
              /\ seen' = seen \cup {array_at} /\ UNCHANGED highest
         ELSE IF next <= highest /\ Revisits(array_at, next)
              THEN array_verdict' = "cycle" /\ UNCHANGED <<array_at, highest, seen>>
              ELSE /\ array_at' = next /\ array_verdict' = "walking"
                   /\ seen' = seen \cup {array_at}
                   /\ highest' = IF next > highest THEN next ELSE highest
  /\ UNCHANGED <<graph, gvars>>

GuardNext == Advance \/ AdvanceArray

GuardSpec == GuardInit /\ [][GuardNext]_cvars /\ WF_cvars(Advance) /\ WF_cvars(AdvanceArray)

-----------------------------------------------------------------------------

\* The chain from head ends.
RECURSIVE EndsFrom(_, _)
EndsFrom(o, met) == o = 0 \/ (o \notin met /\ EndsFrom(links[o], met \cup {o}))

(***************************************************************************)
(* Both detectors agree with a set of visited offsets: a chain is rejected *)
(* if and only if it runs in a circle, whatever the direction of its links *)
(* and whatever the checkpoint was before a reset.                         *)
(***************************************************************************)
VerdictExact ==
  /\ verdict # "walking" => (verdict = "end") = EndsFrom(head, {})
  /\ array_verdict # "walking" => (array_verdict = "end") = EndsFrom(head, {})

(***************************************************************************)
(* The array walk never goes to an array a second time: the shortcut over  *)
(* the highest offset hides no revisit.                                    *)
(***************************************************************************)
ArrayWalkFresh == array_verdict = "walking" => array_at \notin seen

(***************************************************************************)
(* Both walks end on every graph.                                          *)
(***************************************************************************)
WalksEnd == <>(verdict # "walking") /\ <>(array_verdict # "walking")

(***************************************************************************)
(* Both cycle detectors, on every link graph: a chain that ends is walked  *)
(* to its end, one that does not is reported, and the array walk meets     *)
(* nothing twice.                                                          *)
(***************************************************************************)
GuardExact ==
  /\ VerdictExact
  /\ ArrayWalkFresh

(***************************************************************************)
(* A walk of the file ends on every chain, with the verdict that a set of  *)
(* visited offsets would give (ChainGuard::advance, array_chain.rs).       *)
(***************************************************************************)
ChainWalksSound == []GuardExact /\ WalksEnd
=============================================================================
