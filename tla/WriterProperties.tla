-------------------------- MODULE WriterProperties --------------------------
(***************************************************************************)
(* What makes the low-level writer correct, over the file it builds.       *)
(***************************************************************************)
EXTENDS VerifyIndex

-----------------------------------------------------------------------------
(* How a reader sees the file: counts first, links up to the counts. *)

\* The committed entries: the first n_entries slots of the global array chain.
Committed == SubSeq(Flatten(hdr.entry_array, array), 1, hdr.n_entries)

CommittedSet == LET c == Committed IN {c[i] : i \in DOMAIN c}

\* The entries below the number that the writer gives next.
CommittedByNumber == {e \in DOMAIN entry : entry[e].seqnum < w.next_seqnum}

Holds(e, d) == \E it \in entry[e].items : it[1] = d

\* The postings of a DATA object, up to its count.
PostingsOf(d) ==
  IF data[d].n = 0 THEN <<>>
  ELSE <<data[d].entry>> \o SubSeq(Flatten(data[d].array, array), 1, data[d].n - 1)

\* A log as long as the header says, of the entries below the next number, in file order.
ListedExactly(log) ==
  /\ Len(log) = hdr.n_entries
  /\ {log[i] : i \in DOMAIN log} = CommittedByNumber
  /\ \A i \in 2..Len(log) : log[i - 1] < log[i]

\* The part of CommittedIndexExact that is about the list of all entries.
CommittedListed == ListedExactly(Committed)

(***************************************************************************)
(* At every moment of every append, failed appends included, the committed *)
(* part of the index is exact: the global array lists exactly the entries  *)
(* below the number that the writer gives next, and lists them in file     *)
(* order, each item is a DATA object that the hash chain of its payload    *)
(* finds, and the postings a reader accepts (those up to the last          *)
(* committed entry) are the committed entries that hold the payload, each  *)
(* one once and in file order.  This is the promise of "links before       *)
(* counts" in writer_entry_arrays.rs and entry_added.                      *)
(***************************************************************************)
CommittedIndexExact ==
  LET log == Committed
      upTo == IF log = <<>> THEN 0 ELSE log[Len(log)]
  IN  /\ ListedExactly(log)
      /\ \A i \in DOMAIN log : \A it \in entry[log[i]].items : it[1] \in DOMAIN data
      /\ \A d \in DOMAIN data :
           LET seen == PostingsOf(d)
               accepted == {i \in DOMAIN seen : seen[i] <= upTo}
               holders == {e \in {log[i] : i \in DOMAIN log} : Holds(e, d)}
           IN  /\ \A i \in DOMAIN seen : seen[i] \in DOMAIN entry
               /\ {seen[i] : i \in accepted} = holders
               /\ \A i, j \in accepted : i < j => seen[i] < seen[j]
               /\ holders # {} => FindData(data[d].payload) = {d}

(***************************************************************************)
(* The FIELD index loses nothing: every payload of a committed entry is on *)
(* the DATA list of the FIELD object that the hash chain of its name       *)
(* finds (link_data_to_field pushes a DATA object before it is posted).    *)
(***************************************************************************)
FieldNextOf == [d \in DOMAIN data |-> data[d].next_field]
CommittedFieldsListed ==
  \A e \in CommittedSet : \A it \in entry[e].items :
    \E f \in FindField(FieldOf[data[it[1]].payload]) :
      it[1] \in Met(field[f].head, FieldNextOf)

(***************************************************************************)
(* A writer that is still willing to append has a file that the strict     *)
(* verifier accepts: every error behind the first store poisons            *)
(* ("Set before any potentially partial I/O; only a fully published append *)
(* clears it", writer.rs).                                                 *)
(***************************************************************************)
HealthyFileVerifies == (pc = "idle" /\ ~w.poisoned) => VerifyIndexOk

(***************************************************************************)
(* A cut of the file at any moment that the verifier accepts has nothing   *)
(* of the running append in it: no object up to the tail object, no bucket *)
(* and no array slot refers behind the tail object, and the index of the   *)
(* committed entries is exact without the reader's clipping.               *)
(***************************************************************************)
AcceptedCutIsExact ==
  VerifyIndexOk =>
    LET log == Committed
    IN  /\ {log[i] : i \in DOMAIN log} = EntryW
        /\ \A p \in Payloads :
             IF \E e \in EntryW : \E it \in entry[e].items : data[it[1]].payload = p
             THEN \E d \in FindData(p) :
                    d \in DataW /\ PostingsOf(d) = SelectSeq(log, LAMBDA e : Holds(e, d))
             ELSE FindData(p) = {}

(***************************************************************************)
(* The strict verifier shares only the walk with the object graph verifier *)
(* and replaces its index checks by others (GraphVerifier::verify returns  *)
(* validate_strict_indexes instead); still every file that the strict one  *)
(* accepts, at any moment of an append, passes the other one too.          *)
(***************************************************************************)
StrictImpliesGraph == VerifyIndexOk => VerifyGraphOk

(***************************************************************************)
(* The link state that a lookup remembers for an item is still the state   *)
(* on disk when the item is linked, although other items of the entry have *)
(* been created and linked in between (ResolvedDataLinkState); a repeated  *)
(* item is linked from the state its first copy left.                      *)
(***************************************************************************)
LinkStateFresh ==
  pc = "link" =>
    \A it \in op.left : NextItem(it) =>
      LET v == LinkState(it)
          d == data[it.offset]
      IN  /\ v.n = d.n
          /\ v.n >= 2 => /\ v.array = d.array
                         /\ Compact => v.tail = d.tail /\ v.tail_n = d.tail_n

(***************************************************************************)
(* The field cache never sends a DATA object to a wrong or unlisted FIELD, *)
(* also after the cache was cleared because it was full.                   *)
(***************************************************************************)
CacheCoherent == \A n \in DOMAIN cache : FindField(n) = {cache[n]}

(***************************************************************************)
(* The caller's count of successful appends is the file's count, except    *)
(* for one entry whose post_change failed, and then the writer is poisoned.*)
(***************************************************************************)
AckedAccounting ==
  pc = "idle" => \/ hdr.n_entries = acked
                 \/ hdr.n_entries = acked + 1 /\ w.poisoned /\ result \in {"io", "poisoned"}

(***************************************************************************)
(* Live readers are told of an entry after at most PublishEvery - 1 more   *)
(* (publish_after_entry with live_publish_every_entries).                  *)
(***************************************************************************)
PublicationLag ==
  (pc = "idle" /\ ~w.poisoned /\ PublishEvery > 0) => hdr.n_entries - notified < PublishEvery

(***************************************************************************)
(* The writer never meets damage in a file it built by itself: at every    *)
(* step the chain it is about to walk ends, and the tail object, array or  *)
(* FIELD it is about to change exists, also in the compact format with its *)
(* remembered tails and when a payload is repeated.                        *)
(***************************************************************************)
NoDamageMet == ~Damaged

(***************************************************************************)
(* Every call returns.                                                     *)
(***************************************************************************)
AppendReturns == (pc # "idle") ~> (pc = "idle")

-----------------------------------------------------------------------------
(* The writer implements the append-only log. *)

Content(e) == [seqnum |-> entry[e].seqnum, boot |-> entry[e].boot, mono |-> entry[e].mono,
               payloads |-> {data[it[1]].payload : it \in entry[e].items}]

Log == INSTANCE AppendLog WITH
         Values <- Payloads, BootIds <- Boots,
         log <- {Content(e) : e \in CommittedByNumber},
         pending <- IF pc \in {"idle", "publish"} THEN {} ELSE op.want,
         failed <- pc \in {"idle", "closed"} /\ w.poisoned

(***************************************************************************)
(* The committed entries, which readers find in this order by              *)
(* CommittedIndexExact, are an append-only log of what the callers asked   *)
(* for, and a call adds its whole entry in one step (the store of          *)
(* n_entries in entry_added) or nothing.                                   *)
(***************************************************************************)
ImplementsAppendLog == Log!LogSpec

(***************************************************************************)
(* Whatever step an append is at, or failed at, a reader that bounds       *)
(* itself by the counts sees exactly the committed entries, by the global  *)
(* array, by the postings and by the FIELD lists, and the writer's field   *)
(* cache names the FIELD objects that the file's own hash chains find.     *)
(***************************************************************************)
CommittedLinked ==
  /\ CommittedIndexExact
  /\ CommittedFieldsListed
  /\ CacheCoherent

(***************************************************************************)
(* The strict verifier (verify_index) accepts every file of a healthy      *)
(* writer, and what it accepts, at any cut of an append, is exact.         *)
(***************************************************************************)
VerifierExact ==
  /\ HealthyFileVerifies
  /\ AcceptedCutIsExact
=============================================================================
