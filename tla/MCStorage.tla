----------------------------- MODULE MCStorage -----------------------------
(***************************************************************************)
(* The storage layer of journal-core on small instances: a writer that     *)
(* crashes and is reopened, the cycle detectors of its walks, and the      *)
(* mapping windows under both.  A behaviour exercises one part and leaves  *)
(* the others in an initial state.                                         *)
(***************************************************************************)
EXTENDS WriterRecovery, RowView, ChainGuard

\* Two payloads of one field.
CONSTANTS p1, p2, n1, b1, boot1

MCPayloads == {p1, p2}
MCFieldOf == [p \in MCPayloads |-> n1]
MCDataBucket == [p \in MCPayloads |-> b1]
MCFieldBucket == [n \in {n1} |-> b1]
MCRequests == {<<p1>>, <<p2, p1>>}
OnlyDefault == {NoSeqnum}

MCData(off, size, c) == [off |-> off, size |-> size, kind |-> "data", compressed |-> c, items |-> <<>>]
MCEntry(off, size, items) ==
    [off |-> off, size |-> size, kind |-> "entry", compressed |-> FALSE, items |-> items]

\* Two rows; the data crosses chunks, one object is wider than a chunk, one is
\* compressed, and the second row arrives while the first is read.
MCLayout == << MCData(2, 2, FALSE), MCData(4, 5, FALSE), MCData(9, 2, TRUE),
               MCEntry(11, 2, <<1, 2, 3>>), MCData(13, 3, FALSE), MCEntry(16, 2, <<5, 2>>) >>

MCManagers ==
    {[w |-> <<"windowed", 8, 1>>, r |-> <<"live", "windowed", 4, 2>>],
     [w |-> <<"windowed", 2, 1>>, r |-> <<"live", "windowed", 8, 1>>],
     [w |-> <<"whole", 4, 1>>, r |-> <<"live", "whole", 4, 1>>],
     [w |-> <<"windowed", 8, 1>>, r |-> <<"snapshot", "windowed", 8, 1>>]}

VARIABLE part  \* the part this behaviour exercises

MappingIdle ==
  /\ \E s \in {CHOOSE s \in Managers : TRUE} :
       /\ wr = NewManager("owned", s.w[1], s.w[2], s.w[3], RoundUp(EndOf(Existing)))
       /\ rd = NewManager(s.r[1], s.r[2], s.r[3], s.r[4], RoundUp(EndOf(Existing)))
  /\ MappingInit

\* A chain of one object, walked to its end.
GuardIdle ==
  /\ links = [o \in Offset |-> 0] /\ head = 1 /\ backward = FALSE
  /\ guard = [checkpoint |-> 0, steps |-> 0] /\ at = 0 /\ verdict = "end"
  /\ array_at = 0 /\ highest = 1 /\ seen = {1} /\ array_verdict = "end"

StorageInit ==
  /\ RecoveryInit
  /\ \/ part = "recovery" /\ MappingIdle /\ GuardIdle
     \/ part = "chains" /\ MappingIdle /\ GuardInit
     \/ part = "mapping" /\ GuardIdle /\ MappingInit

StorageNext ==
  /\ \/ part = "recovery" /\ RecoveryNext /\ UNCHANGED <<mwVars, cvars>>
     \/ part = "chains" /\ GuardNext /\ UNCHANGED <<vars, crashes, mwVars>>
     \/ part = "mapping" /\ MappingNext /\ UNCHANGED <<vars, crashes, cvars>>
  /\ UNCHANGED part

\* A walk is a loop of one thread that nothing stops.
StorageSpec ==
  /\ StorageInit /\ [][StorageNext]_<<part, vars, crashes, mwVars, cvars>>
  /\ WF_cvars(Advance) /\ WF_cvars(AdvanceArray)

\* The behaviours of the writer alone.
ReopenSpec == part = "recovery" /\ StorageInit /\ [][StorageNext]_<<part, vars, crashes, mwVars, cvars>>
=============================================================================
