------------------------------ MODULE MCWriter ------------------------------
(***************************************************************************)
(* Instances of the writer for TLC: three payloads of two fields, with     *)
(* hash collisions in both tables.                                         *)
(***************************************************************************)
EXTENDS WriterProperties

CONSTANTS p1, p2, p3, n1, n2, b1, b2, boot1, boot2

MCPayloads == {p1, p2, p3}
MCNames == {n1, n2}
MCFieldOf == [p \in MCPayloads |-> IF p = p3 THEN n2 ELSE n1]
MCBuckets == {b1, b2}
MCDataBucket == [p \in MCPayloads |-> IF p = p2 THEN b2 ELSE b1]
MCFieldBucket == [n \in MCNames |-> b1]

\* Growth of the index: shared, new, repeated, refused and skipped fields.
IndexRequests == {<<p1>>, <<p2, p1>>, <<p3, p1, p3>>, <<p2, Rejected>>, <<Dropped, p1>>, <<Dropped>>}
RepeatRequests == {<<p1>>, <<p2, p1, p1>>, <<p3>>, <<p3, Rejected>>, <<Dropped>>}
OnlyDefault == {NoSeqnum}
SeqnumChoices == {NoSeqnum, 0, 5, 6}
=============================================================================
