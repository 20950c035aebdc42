---------------------------- MODULE RootRetention ----------------------------
(***************************************************************************)
(* Dedicated-root retention (journal-log-writer/src/log/root_retention.rs):*)
(* one Log maintains the files of every machine directory below its root.  *)
(* A maintenance inspects the inventory, finalizes active files (an        *)
(* expired or reshaped live one, and those of retired machines), inspects  *)
(* again, prunes by tail time and inspects a last time.                    *)
(***************************************************************************)
EXTENDS LogFiles, SequencesExt

Reset(s) == [s EXCEPT !.size = 0, !.count = 0]

\* sync_archive_journal_file.
SyncFails(s, f) == s.cfg.sync /\ Fails(f, "sync")

SetState(s, n, fid, st) ==
    IF n \in DOMAIN s.disk /\ s.disk[n].fid = fid
    THEN [s EXCEPT !.disk[n].st = st] ELSE s

-----------------------------------------------------------------------------
(* Inspection.                                                             *)

\* inspect_root_file, with read_retention_header.
RootFileOk(n, file) ==
    /\ file.supported
    /\ n.kind = "active" \/ (n = Archive(n.m, file) /\ file.st = "archived" /\ file.ents # <<>>)

\* inspect_root_retention: one bad or ambiguous candidate refuses the root.
InventoryOk(s) ==
    /\ \A n \in DOMAIN s.disk : RootFileOk(n, s.disk[n])
    /\ \A a, b \in DOMAIN s.disk : a # b =>
          /\ Archive(a.m, s.disk[a]) # Archive(b.m, s.disk[b])
          /\ s.disk[a].fid # s.disk[b].fid

\* names_same_file and the identities of the opening header.
LivePathOk(s) ==
    s.name # NoName => s.name \in DOMAIN s.disk /\ s.disk[s.name].fid = s.fid

\* Log::inspect_root_retention.
InspectRoot(s) == IF LivePathOk(s) /\ InventoryOk(s) THEN Ok(s) ELSE Err(s)

\* expired: by the tail, with an age of at least one microsecond.
Expired(file, pol, now) ==
    pol.age # 0 /\ now >= pol.age /\ TailRealtime(file) <= now - pol.age

-----------------------------------------------------------------------------
(* Finalizing active files.                                                *)

\* preflight_root_active: nothing may be detached before these hold.
PreflightRootActive(s) ==
    \/ s.name = NoName
    \/ /\ LivePathOk(s)
       /\ s.disk[s.name].supported
       /\ s.disk[s.name].ents # <<>> => Archive(Own, s.disk[s.name]) \notin DOMAIN s.disk

\* preflight_root_rotation: a lazy successor never adopts a foreign active.
PreflightRootRotation(s) ==
    IF s.name # NoName THEN PreflightRootActive(s) ELSE ActiveName(Own) \notin DOMAIN s.disk

Detached(s) == Reset([s EXCEPT !.name = NoName, !.wp = FALSE, !.onOpen = FALSE])

\* archive_root_active: an empty file is unlinked, any other archived with the
\* Log poisoned from the first mutation to the last.
ArchiveRootActive(s, f) ==
    LET n == s.name
        gone == RemoveTracked(Detached([s EXCEPT !.disk = Drop(@, {n}), !.unlinked = @ + 1]), n)
        marked == SetState([Detached(s) EXCEPT !.poisoned = TRUE], n, s.fid, "archived")
        archived == ArchiveFile(marked, n, s.disk[n], f)
    IN IF ~PreflightRootActive(s) THEN Err(s)
       ELSE IF n = NoName THEN Ok(s)
       ELSE IF s.disk[n].ents = <<>>
            THEN IF UnlinkFails(f, n) THEN Err(s)
                 ELSE IF Fails(f, "dirsync") THEN Err(gone) ELSE Ok(gone)
       ELSE IF SyncFails(s, f) THEN Err(marked)
       ELSE Then(archived, LAMBDA t : Ok([t EXCEPT !.poisoned = FALSE]))

\* finalize_retired_root_active: another machine's active file, opened for
\* append and archived (or unlinked when empty).
FinalizeRetired(s, n, f) ==
    LET file == s.disk[n]
        opened == SetState([s EXCEPT !.poisoned = TRUE], n, file.fid, "online")
        gone == [opened EXCEPT !.poisoned = FALSE, !.disk = Drop(@, {n}), !.unlinked = @ + 1]
        marked == SetState(opened, n, file.fid, "archived")
        target == Archive(n.m, file)
        moved == [marked EXCEPT !.disk = Drop((target :> marked.disk[n]) @@ @, {n})]
    IN IF Fails(f, "open") THEN Err(s)
       ELSE IF file.ents = <<>>
            THEN IF Fails(f, "sync") THEN Err(opened)
                 ELSE IF UnlinkFails(f, n) THEN Err([opened EXCEPT !.poisoned = FALSE])
                 ELSE IF Fails(f, "dirsync") THEN Err(gone) ELSE Ok(gone)
       ELSE IF SyncFails(s, f) THEN Err(marked)
       ELSE IF Fails(f, "rename") THEN Err(marked)
       ELSE IF Fails(f, "dirsync") THEN Err(moved)
       ELSE Ok([moved EXCEPT !.poisoned = FALSE])

\* Only an expired live file (when asked) or one whose hash table geometry is
\* not the configured one is archived.
LiveMustEnd(s, expire_live) ==
    LET file == s.disk[s.name]
    IN \/ expire_live /\ file.ents # <<>> /\ Expired(file, s.cfg.pol, s.now)
       \/ file.geo # s.cfg.pol.geo

\* finalize_root_actives, over the active files of the inventory by path.
FinalizeOne(s, n, expire_live, f) ==
    IF n # s.name THEN FinalizeRetired(s, n, f)
    ELSE IF LiveMustEnd(s, expire_live) THEN ArchiveRootActive(s, f) ELSE Ok(s)

RootActives(s) ==
    SetToSortSeq({n \in DOMAIN s.disk : n.kind = "active"}, LAMBDA a, b : a.m < b.m)

FinalizeRootActives(s, expire_live, f) ==
    FoldLeft(LAMBDA o, n : Then(o, LAMBDA t : FinalizeOne(t, n, expire_live, f)),
             Ok(s), RootActives(s))

-----------------------------------------------------------------------------
(* Pruning.                                                                *)

\* Oldest tail first, then path.
TailOrder(s, a, b) ==
    LET ra == TailRealtime(s.disk[a])
        rb == TailRealtime(s.disk[b])
    IN ra < rb \/ (ra = rb /\ (a.m < b.m \/ (a.m = b.m /\ Before(a, b))))

InventoryBytes(s) == FoldSet(LAMBDA n, t : CommittedSize(s.disk[n]) + t, 0, DOMAIN s.disk)

\* Mutant: only age prunes once the count fits.
MustPruneCount(s, n) ==
    \/ s.cfg.pol.files # 0 /\ Cardinality(DOMAIN s.disk) > s.cfg.pol.files
    \/ Expired(s.disk[n], s.cfg.pol, s.now)

\* Bytes and count are the running ones: each removal may end the need.
MustPrune(s, n) ==
    LET pol == s.cfg.pol
    IN \/ pol.bytes # 0 /\ InventoryBytes(s) > pol.bytes
       \/ pol.files # 0 /\ Cardinality(DOMAIN s.disk) > pol.files
       \/ Expired(s.disk[n], pol, s.now)

RemoveRootFile(s, n) ==
    LET gone == [s EXCEPT !.disk = Drop(@, {n}), !.unlinked = @ + 1, !.deleted = @ \cup {Identity(s, n)}]
    IN IF n.m = Own THEN RemoveTracked(gone, n) ELSE gone

\* prune_root: the first unlink that fails ends the loop; directories with
\* deletions are synced even then, and the first error is the one reported.
PruneOne(o, n, f) ==
    IF ~o.ok \/ n.kind = "active" \/ ~MustPrune(o.s, n) THEN o
    ELSE IF UnlinkFails(f, n) THEN Err(o.s)
    ELSE Ok(RemoveRootFile(o.s, n))

PruneRoot(s, f) ==
    LET order == SetToSortSeq(DOMAIN s.disk, LAMBDA a, b : TailOrder(s, a, b))
    IN With(FoldLeft(LAMBDA acc, n : PruneOne(acc, n, f), Ok(s), order), LAMBDA o :
            IF o.s.disk # s.disk /\ Fails(f, "dirsync") THEN Err(o.s) ELSE o)

-----------------------------------------------------------------------------
(* Maintenance.                                                            *)

\* valid: the closing inspection was.
Maintained(o, valid) ==
    [s |-> [o.s EXCEPT !.res = [tried |-> TRUE, valid |-> valid, ok |-> o.ok /\ valid, unlinked |-> o.s.unlinked]],
     ok |-> o.ok /\ valid]

\* maintain_root_retention_inner.  The result is stored whatever happens:
\* the inventory is valid when the closing inspection was, and an error of the
\* pruning goes before one of that inspection.
MaintainRoot(s0, expire_live, f) ==
    With(Then(Then(InspectRoot([s0 EXCEPT !.unlinked = 0]), LAMBDA t : FinalizeRootActives(t, expire_live, f)),
              LAMBDA t : InspectRoot(t)), LAMBDA ready :
         IF ~ready.ok THEN Maintained(ready, FALSE)
         ELSE With(PruneRoot(ready.s, f), LAMBDA pruned : Maintained(pruned, InspectRoot(pruned.s).ok)))

\* automatic_root_retention: an error counts only if it poisoned the Log.
AutomaticRoot(s, expire_live, f) ==
    With(MaintainRoot(s, expire_live, f), LAMBDA o : IF o.s.poisoned \/ o.s.wp THEN o ELSE Ok(o.s))
=============================================================================
