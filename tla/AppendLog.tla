----------------------------- MODULE AppendLog -----------------------------
(***************************************************************************)
(* What a writer promises to the callers of add_entry and to the readers   *)
(* of its file: one call at a time is pending, it adds exactly the entry   *)
(* it was asked for or nothing, entries are never changed or removed,      *)
(* sequence numbers grow, monotonic stamps grow between neighbours of one  *)
(* boot, and a writer that failed in the middle of a call adds nothing     *)
(* more.                                                                   *)
(***************************************************************************)
EXTENDS Integers

CONSTANTS Values,   \* payloads
          BootIds   \* boot ids

VARIABLES log,      \* the committed entries; their sequence numbers order them
          pending,  \* the payloads of the running call, {} when there is none
          failed    \* the writer refuses every further call

logVars == <<log, pending, failed>>

Entries == [seqnum : Nat, boot : BootIds, mono : Nat, payloads : SUBSET Values]

LogInit == log = {} /\ pending = {} /\ failed = FALSE

Submit ==
  /\ ~failed /\ pending = {}
  /\ pending' \in SUBSET Values
  /\ UNCHANGED <<log, failed>>

\* The entry with the highest sequence number.
Last(e) == e \in log /\ \A f \in log : f.seqnum <= e.seqnum

\* The entry may follow the log.
Follows(e) ==
  /\ \A f \in log : f.seqnum < e.seqnum
  /\ \A f \in log : Last(f) /\ f.boot = e.boot => f.mono < e.mono

Commit ==
  /\ ~failed /\ pending # {}
  /\ \E e \in log' \ log :
       /\ log' = log \cup {e}
       /\ e \in Entries
       /\ e.payloads = pending
       /\ Follows(e)
  /\ pending' = {}
  /\ UNCHANGED failed

\* The call ends without an entry; the writer may be unusable afterwards.
Abort ==
  /\ ~failed /\ pending' = {}
  /\ failed' \in BOOLEAN
  /\ UNCHANGED log

LogNext == Submit \/ Commit \/ Abort

LogSpec == LogInit /\ [][LogNext]_logVars

\* Another writer takes over the log that a failed one has left.
Restart ==
  /\ failed /\ failed' = FALSE
  /\ UNCHANGED <<log, pending>>

DurableSpec == LogInit /\ [][LogNext \/ Restart]_logVars
=============================================================================
