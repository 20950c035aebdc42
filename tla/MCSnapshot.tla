----------------------------- MODULE MCSnapshot -----------------------------
(***************************************************************************)
(* A snapshot reader and a writer that goes on appending: two values of    *)
(* one field and one of another.                                           *)
(***************************************************************************)
EXTENDS IndexedSnapshot

CONSTANTS p1, p2, p3, n1, n2, b1, boot1

MCPayloads == {p1, p2, p3}
MCNames == {n1, n2}
MCFieldOf == [p \in MCPayloads |-> IF p = p3 THEN n2 ELSE n1]
MCDataBucket == [p \in MCPayloads |-> b1]
MCFieldBucket == [n \in MCNames |-> b1]
MCRequests == {<<p1, p2>>, <<p3, p1>>}
OnlyDefault == {NoSeqnum}
=============================================================================
