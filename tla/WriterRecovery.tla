--------------------------- MODULE WriterRecovery ---------------------------
(***************************************************************************)
(* A writer process that dies between any two stores, and the documented   *)
(* way back: exclude writers, run verify_index, open the file for append   *)
(* again (open_for_append and JournalWriter::new).  The file survives the  *)
(* process; the arena behind the header's tail object is not cleared, and  *)
(* the next writer starts there.                                           *)
(***************************************************************************)
EXTENDS WriterProperties

CONSTANT MaxCrashes   \* bound on the number of crashes

VARIABLE crashes      \* crashes so far

\* The words of an object of the regular format, from its third on, as the next
\* owner of its place finds them.
Words(o) ==
  CASE o \in DOMAIN data ->
         [k \in 2..9 |-> CASE k = 3 -> data[o].next_hash [] k = 4 -> data[o].next_field
                            [] k = 5 -> data[o].entry [] k = 6 -> data[o].array
                            [] k = 7 -> data[o].n [] OTHER -> Junk]
    [] o \in DOMAIN field ->
         [k \in 2..6 |-> CASE k = 3 -> field[o].next_hash [] k = 4 -> field[o].head
                            [] OTHER -> Junk]
    [] o \in DOMAIN entry ->
         [k \in 2..9 |-> Junk]
    [] o \in DOMAIN array ->
         [k \in 2..(Len(array[o].slots) + 2) |->
            IF k = 2 THEN array[o].next ELSE array[o].slots[k - 2]]
    [] OTHER -> residue[o]

Beyond == {o \in DOMAIN data \cup DOMAIN field \cup DOMAIN entry \cup DOMAIN array
                   \cup DOMAIN residue : o > hdr.tail_object}

Kept(f) == [o \in {x \in DOMAIN f : x <= hdr.tail_object} |-> f[o]]

\* The process dies, or its caller drops a poisoned writer.
Crash ==
  /\ crashes < MaxCrashes
  /\ pc # "closed"
  /\ pc' = "closed" /\ op' = NoOp /\ result' = "none" /\ crashes' = crashes + 1
  /\ cache' = [n \in {} |-> 0]
  /\ UNCHANGED <<objects, hdr, tables, residue, w, notified, acked>>

\* What is left behind the tail object.  A place is an object, not a byte range: the
\* object that follows a reused place may begin inside what was left at that place.
Leftovers ==
  LET exact == [o \in Beyond |-> Words(o)]
      spilled == Put(exact, LastOf(Beyond) + 1, [k \in 2..9 |-> Junk])
  IN  IF Beyond = {} THEN {exact} ELSE {exact, spilled}

\* Mutant: the reopened writer starts at the last sequence number.
ReopenSameSeqnum ==
  /\ pc = "closed"
  /\ VerifyIndexOk /\ ArenaValid
  /\ residue' \in Leftovers
  /\ data' = Kept(data) /\ field' = Kept(field)
  /\ entry' = Kept(entry) /\ array' = Kept(array)
  /\ w' = [poisoned |-> FALSE, append_offset |-> hdr.tail_object + 1,
           tail_object |-> hdr.tail_object, next_seqnum |-> Max2(hdr.tail_seqnum, 1),
           num_written |-> 0, since |-> 0]
  /\ pc' = "idle"
  /\ UNCHANGED <<hdr, tables, cache, op, result, notified, acked, crashes>>

\* Mutant: the file is opened for append without verify_index.
ReopenUnverified ==
  /\ pc = "closed"
  /\ ArenaValid
  /\ residue' \in Leftovers
  /\ data' = Kept(data) /\ field' = Kept(field)
  /\ entry' = Kept(entry) /\ array' = Kept(array)
  /\ w' = [poisoned |-> FALSE, append_offset |-> hdr.tail_object + 1,
           tail_object |-> hdr.tail_object, next_seqnum |-> hdr.tail_seqnum + 1,
           num_written |-> 0, since |-> 0]
  /\ pc' = "idle"
  /\ UNCHANGED <<hdr, tables, cache, op, result, notified, acked, crashes>>

\* verify_index accepts, then open_for_append and new_with_compression.
Reopen ==
  /\ pc = "closed"
  /\ VerifyIndexOk /\ ArenaValid
  /\ residue' \in Leftovers
  /\ data' = Kept(data) /\ field' = Kept(field)
  /\ entry' = Kept(entry) /\ array' = Kept(array)
  /\ w' = [poisoned |-> FALSE, append_offset |-> hdr.tail_object + 1,
           tail_object |-> hdr.tail_object, next_seqnum |-> hdr.tail_seqnum + 1,
           num_written |-> 0, since |-> 0]
  /\ pc' = "idle"
  /\ UNCHANGED <<hdr, tables, cache, op, result, notified, acked, crashes>>

RecoveryInit == Init /\ crashes = 0

RecoveryNext ==
  \/ pc # "closed" /\ Next /\ UNCHANGED crashes
  \/ MeetDamage /\ UNCHANGED crashes
  \/ Crash
  \/ Reopen

RecoverySpec == RecoveryInit /\ [][RecoveryNext]_<<vars, crashes>>

-----------------------------------------------------------------------------

CommittedLog == LET c == Committed IN [i \in DOMAIN c |-> Content(c[i])]

(***************************************************************************)
(* No crash, reopening or append changes or removes a committed entry, and *)
(* an appended entry has a sequence number above those before it, whatever *)
(* the reused arena holds.                                                 *)
(***************************************************************************)
CommittedGrow ==
  LET old == CommittedLog
      new == CommittedLog'
  IN  /\ Len(old) <= Len(new)
      /\ \A i \in 1..Len(old) : new[i] = old[i]
      /\ \A i \in (Len(old) + 1)..Len(new) : i > 1 => new[i - 1].seqnum < new[i].seqnum

CommittedOnlyGrows == [][CommittedGrow]_<<vars, crashes>>

(***************************************************************************)
(* Over crashes between any two stores and reopenings the writer is still  *)
(* the append-only log: a crash commits nothing and loses nothing, and the *)
(* writer that takes over after verify_index and open_for_append finds the *)
(* same log and goes on above its last number and stamp.                   *)
(***************************************************************************)
DurableLog == Log!DurableSpec

(***************************************************************************)
(* An append that returned Ok is in the file after any crash and           *)
(* reopening; a crash adds at most one entry that nobody was told of.      *)
(***************************************************************************)
AckedSurvive == acked <= hdr.n_entries /\ hdr.n_entries <= acked + crashes + 1

(***************************************************************************)
(* "Before a Writer or Log can reuse uncertain files, exclude writers and  *)
(* run strict VerifyIndex/verify_index" (docs/Writer-APIs.md): a file that *)
(* was verified and reopened still verifies after further successful       *)
(* appends.                                                                *)
(***************************************************************************)
ReopenedFileVerifies == (pc = "idle" /\ ~w.poisoned /\ result = "ok") => VerifyIndexOk
=============================================================================
