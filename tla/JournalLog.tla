----------------------------- MODULE JournalLog -----------------------------
(***************************************************************************)
(* The life of a Log (journal-log-writer/src/log/mod.rs and startup.rs):   *)
(* opening a directory after any earlier end, appending with rotation,     *)
(* retention, sync, close, drop, crash.  Every call is one action that     *)
(* runs to its end or to the I/O step that fails; a crash between two      *)
(* steps is such a failure followed by Crash.                              *)
(***************************************************************************)
EXTENDS RootRetention

CONSTANTS
    Configs,      \* what a caller may configure: [mode, sync, eager, pol]
    Policies,     \* the rotation and retention limits among them
    InitialDisks, \* the directories a first Log may find
    RootGaps,     \* distances of caller-chosen sequence numbers in root mode
    MaxEntries, MaxMade, MaxOpens, MaxTroubles, MaxNow, \* bounds
    Jump          \* how far the wall clock goes between two calls

VARIABLES
    s,         \* the directory and the Log
    acked,     \* entries whose append returned Ok
    lost,      \* those of them in files that were reported or taken away
    faults, removals, opens  \* failed I/O steps, files taken away, Logs opened

vars == <<s, acked, lost, faults, removals, opens>>

NoResult == [tried |-> FALSE, valid |-> FALSE, ok |-> FALSE, unlinked |-> 0]
NoCfg == [mode |-> "none", sync |-> FALSE, eager |-> FALSE, boot |-> 0,
          pol |-> CHOOSE p \in Policies : TRUE]

\* A state without a Log: only the directory and the clock are left.
Gone(t) ==
    [t EXCEPT !.pc = "closed", !.cfg = NoCfg, !.poisoned = FALSE, !.wp = FALSE,
              !.name = NoName, !.fid = 0, !.next = 0, !.cur = 0, !.id = 0, !.boot = 0,
              !.clock = 0, !.mono = 0, !.inner = {}, !.sizes = <<>>, !.total = 0,
              !.stale = FALSE, !.size = 0, !.count = 0, !.onOpen = FALSE, !.deleted = {},
              !.unlinked = 0, !.res = NoResult]

Strict(t) == t.cfg.mode # "chain"
Root(t)   == t.cfg.mode = "root"
Poisoned(t) == t.poisoned \/ t.wp

\* The writer's file, unless its path was taken away.
Live(t) == t.name # NoName /\ t.name \in DOMAIN t.disk /\ t.disk[t.name].fid = t.fid
LiveEnts(t) == IF Live(t) THEN t.disk[t.name].ents ELSE <<>>

UpdateActiveFileSize(t) ==
    IF t.name = NoName THEN t ELSE UpdateFileSize(t, t.name, 1 + Len(LiveEnts(t)))

-----------------------------------------------------------------------------
(* Retention as a Log applies it.                                          *)

\* apply_retention.
ApplyRetention(t, protected, f) ==
    IF Root(t) THEN AutomaticRoot(t, FALSE, f)
    ELSE LET sized == IF t.cfg.pol.artifact > 0 THEN RefreshSizes(t, t.cfg.pol.artifact, f) ELSE Ok(t)
         IN Then(sized, LAMBDA u : Retain(u, u.cfg.pol, protected, f))

\* enforce_retention: the active file counts and is protected.
EnforceRetention(t, f) ==
    IF Poisoned(t) THEN Err(t)
    ELSE IF Root(t) THEN MaintainRoot(t, TRUE, f)
    ELSE ApplyRetention(UpdateActiveFileSize(t), t.name, f)

\* apply_retention_on_open: once per Log with an active file.
RetentionOnOpen(t, f) ==
    IF t.onOpen \/ t.name = NoName THEN Ok(t)
    ELSE Then(IF Root(t) THEN AutomaticRoot(t, FALSE, f) ELSE EnforceRetention(t, f),
              LAMBDA u : Ok([u EXCEPT !.onOpen = TRUE]))

-----------------------------------------------------------------------------
(* Rotation.                                                               *)

\* RotationState::should_rotate and should_rotate_for_realtime.
ShouldRotate(t, realtime) ==
    LET pol == t.cfg.pol
        ents == LiveEnts(t)
    IN \/ t.name = NoName
       \/ /\ ~(Root(t) /\ ents = <<>>)
          /\ \/ pol.rsize # 0 /\ t.size >= pol.rsize
             \/ pol.rcount # 0 /\ t.count >= pol.rcount
             \/ pol.rspan # 0 /\ ents # <<>> /\ Monus(realtime, Head(ents).r) >= pol.rspan

\* ActiveFile::create and ActiveFile::rotate: the name enters the chain before
\* the file exists; creation truncates whatever has the name.
CreateActive(t, seqnum, realtime, f) ==
    LET n == IF Strict(t) THEN ActiveName(Own) ELSE ArchiveName(Own, t.id, seqnum, realtime)
        named == [t EXCEPT !.inner = @ \cup {n}]
    IN IF Fails(f, "create") THEN Err(named)
       ELSE Ok([named EXCEPT
                  !.disk = (n :> NewFile(t.made, t.id, t.boot, t.cfg.pol.geo)) @@ @,
                  !.made = @ + 1, !.name = n, !.fid = t.made, !.next = seqnum, !.wp = FALSE])

\* Mutant: the successor continues the Log's counter instead of the writer's.
RotateExistingCounted(t, realtime, f) ==
    LET marked == SetState([t EXCEPT !.name = NoName], t.name, t.fid, "archived")
        header == IF Live(t) THEN t.disk[t.name] ELSE NewFile(t.fid, t.id, t.boot, 0)
        archived == IF Strict(t) THEN ArchiveFile(marked, t.name, header, f) ELSE Ok(marked)
    IN IF SyncFails(t, f) THEN Err(marked)
       ELSE Then(archived, LAMBDA u : CreateActive(u, t.cur + 1, realtime, f))

\* rotate_existing_active_file: mark, sync, rename (strict), then the successor
\* continues the writer's numbering.
RotateExisting(t, realtime, f) ==
    LET marked == SetState([t EXCEPT !.name = NoName], t.name, t.fid, "archived")
        header == IF Live(t) THEN t.disk[t.name] ELSE NewFile(t.fid, t.id, t.boot, 0)
        archived == IF Strict(t) THEN ArchiveFile(marked, t.name, header, f) ELSE Ok(marked)
    IN IF SyncFails(t, f) THEN Err(marked)
       ELSE Then(archived, LAMBDA u : CreateActive(u, t.next, realtime, f))

\* prepare_initial_rotation and create_initial_active_file: numbering continues
\* from the Log's own counter.
RotateInitial(t, realtime, f) ==
    Then(IF Strict(t) THEN ArchiveExistingActive(t, t.cfg.sync, f) ELSE Ok(t),
         LAMBDA u : CreateActive(u, u.cur + 1, realtime, f))

\* rotate: poisoned from the first mutation until the successor is in place.
Rotate(t, realtime, f) ==
    LET begun == UpdateActiveFileSize([t EXCEPT !.poisoned = TRUE])
        created == IF t.name # NoName THEN RotateExisting(begun, realtime, f)
                   ELSE RotateInitial(begun, realtime, f)
        settled(u) == UpdateActiveFileSize(Reset([u EXCEPT !.poisoned = FALSE,
                          !.onOpen = IF Root(u) THEN FALSE ELSE @]))
        retained(u) == Then(ApplyRetention(u, u.name, f),
                            LAMBDA v : Ok([v EXCEPT !.onOpen = TRUE]))
    IN IF Poisoned(t) \/ (Root(t) /\ ~PreflightRootRotation(t)) THEN Err(t)
       ELSE Then(created, LAMBDA u : retained(settled(u)))

-----------------------------------------------------------------------------
(* Startup.                                                                *)

\* open_existing_active_file: opening marks the file online; an empty one is
\* removed, an unsupported one disposed of where that is allowed.
OpenExisting(t, n, disposal, f) ==
    LET file == t.disk[n]
        online == SetState(t, n, file.fid, "online")
    IN IF Fails(f, "open") THEN Err(t)
       ELSE IF ~file.supported THEN IF disposal THEN DisposeFile(t, n, f) ELSE Err(t)
       ELSE IF file.ents # <<>>
            THEN Ok([online EXCEPT !.name = n, !.fid = file.fid, !.next = TailSeqnum(file) + 1])
       ELSE IF UnlinkFails(f, n) THEN Err(online)
       ELSE Ok(RemoveTracked([online EXCEPT !.disk = Drop(@, {n})], n))

\* Mutant: the file is opened (marked online) and left so.
ReplaceOnlineChainLeft(t, n, f) ==
    Then(OpenExisting(t, n, TRUE, f), LAMBDA u : Ok([u EXCEPT !.name = NoName]))

\* replace_strict_online_chain_file: a strict Log archives a chain file that an
\* earlier Log left online.
ReplaceOnlineChain(t, n, f) ==
    With(OpenExisting(t, n, TRUE, f), LAMBDA opened :
    With([UpdateFileSize(opened.s, n, CommittedSize(opened.s.disk[n])) EXCEPT !.name = NoName], LAMBDA sized :
         LET marked == SetState(sized, n, opened.s.fid, "archived")
         IN IF ~opened.ok \/ opened.s.name = NoName THEN opened
            ELSE IF SyncFails(t, f) THEN Err(marked) ELSE Ok(marked)))

\* initial_sequence_identity, before any file is opened.
TailIdentity(t, tail) ==
    IF tail = NoName
    THEN [t EXCEPT !.id = t.made, !.made = @ + 1, !.cur = 0]
    ELSE [t EXCEPT !.id = t.disk[tail].id, !.cur = TailSeqnum(t.disk[tail])]

\* existing_active_file_for_config.
ExistingActives(t) ==
    IF Strict(t) THEN {ActiveName(Own)} \cap DOMAIN t.disk ELSE OnlineChainFiles(t)

\* adopt_active_file_identity and rotation_state_for_active.
AdoptActive(t) ==
    IF t.name = NoName THEN t
    ELSE LET file == t.disk[t.name]
         IN [t EXCEPT !.boot = TailBoot(file), !.id = file.id, !.cur = TailSeqnum(file),
                      !.size = CommittedSize(file), !.count = Len(file.ents)]

\* initial_last_monotonic and initial_log_clock, from the tail as it is now.
Clocks(t, tail) ==
    LET file == t.disk[tail]
    IN IF tail = NoName THEN [t EXCEPT !.clock = t.now, !.mono = 0]
       ELSE [t EXCEPT !.clock = IF TailRealtime(file) = 0 THEN t.now ELSE TailRealtime(file),
                      !.mono = IF TailBoot(file) = t.boot THEN TailMonotonic(file) ELSE 0]

Pick(names) == IF names = {} THEN {NoName} ELSE names
Tails(t) == Pick(TailCandidates(t, TailFiles(t, Strict(t))))

\* open_startup_active_file; online and existing are the files found.
StartupActive(t, tail, online, f) ==
    LET named == TailIdentity([t EXCEPT !.boot = t.cfg.boot], tail)
        replaced == IF Strict(t) /\ online # NoName THEN ReplaceOnlineChain(named, online, f)
                    ELSE Ok(named)
        opened(u) == IF ExistingActives(u) = {} THEN Ok(u)
                     ELSE OpenExisting(u, CHOOSE n \in ExistingActives(u) : TRUE, ~Root(u), f)
    IN Then(Then(replaced, opened), LAMBDA u : Ok(AdoptActive(u)))

\* Drop for Log.
DropLog(t, f) ==
    IF Poisoned(t) THEN Gone(t)
    ELSE IF Root(t) THEN Gone(ArchiveRootActive(t, f).s)
    ELSE Gone(SetState(t, t.name, t.fid, "archived"))

\* What a call that ends the Log reported.
Keep(before, t) == [t EXCEPT !.deleted = before.deleted]

\* new_inner after the startup state: eager creation, then retention.
OpenRest(t, f) ==
    LET realtime == IF t.now > t.clock THEN t.now ELSE t.clock + 1
        eager == IF t.cfg.eager /\ t.name = NoName
                 THEN Then(Rotate(t, realtime, f), LAMBDA u : Ok([u EXCEPT !.onOpen = TRUE]))
                 ELSE Ok(t)
        retained(u) == IF Root(u)
                       THEN Then(AutomaticRoot(u, TRUE, f),
                                 LAMBDA v : Ok([v EXCEPT !.onOpen = v.name # NoName]))
                       ELSE RetentionOnOpen(u, f)
    IN Then(eager, retained)

-----------------------------------------------------------------------------
(* Actions.                                                                *)

Faults == {NoFault}
    \cup {[step |-> st, n |-> NoName] : st \in
            {"open", "sync", "rename", "dirsync", "create"}}
    \cup {[step |-> "sizer", n |-> NoName, done |-> d] :
             d \in {d \in SUBSET (1..Cardinality(DOMAIN s.sizes)) : ~Root(s) /\ s.cfg.pol.artifact > 0}}
    \cup {[step |-> "unlink", n |-> n] : n \in DOMAIN s.disk}

Budget(trouble) ==
    /\ trouble => faults + removals < MaxTroubles
    /\ faults' = IF trouble THEN faults + 1 ELSE faults

FaultBudget(f) == Budget(f # NoFault)

Ready == s.pc = "open"

EntriesOf(disk, fids) == UNION {Range(disk[n].ents) : n \in {k \in DOMAIN disk : disk[k].fid \in fids}}

\* The call ends in t; what it reported deleted is lost on purpose.
Settle(t) == \E u \in {t} :
    /\ s' = [u EXCEPT !.deleted = {}, !.unlinked = 0]
    /\ lost' = lost \cup EntriesOf(s.disk, u.deleted)

\* build_startup_state up to the chain: the root is inspected, the directory
\* scanned.  Stamps run ahead of the wall clock by less than a microsecond per
\* entry: a later Log starts after all of them.  Callers are assumed not to go
\* back to chain naming over a strict active file, which a chain Log ignores.
OpenScan(cfg) ==
    /\ s.pc = "closed" /\ opens < MaxOpens
    /\ opens' = opens + 1
    /\ cfg.mode = "chain" => ActiveName(Own) \notin DOMAIN s.disk
    /\ cfg.mode = "root" => InventoryOk(s)
    /\ s' = [ScanChain(Gone(s)) EXCEPT !.pc = "scanned", !.cfg = [boot |-> opens + 1] @@ cfg,
                                        !.now = @ + MaxEntries + 1]
    /\ UNCHANGED <<acked, lost, faults, removals>>

\* The rest of Log::new.  An error before the Log exists only releases the
\* files; one after it runs Drop.
Opened(o) == IF o.ok THEN o.s ELSE Keep(o.s, DropLog(o.s, NoFault))
OpenFinish(f) ==
    /\ s.pc = "scanned"
    /\ FaultBudget(f)
    /\ \E tail \in Tails(s), online \in Pick(OnlineChainFiles(s)) :
       \E started \in {StartupActive(s, tail, online, f)} :
       \E now_tail \in Tails(started.s) :
         Settle(IF started.ok THEN Opened(OpenRest([Clocks(started.s, now_tail) EXCEPT !.pc = "open"], f))
                ELSE Gone(started.s))
    /\ UNCHANGED <<acked, removals, opens>>

\* prepare_append_for_realtime.
PrepareAppend(t, realtime, f) ==
    LET first == t.name = NoName
        rotated(u) == IF ShouldRotate(u, realtime)
                      THEN Then(Rotate(u, realtime, f), LAMBDA v :
                                Ok([v EXCEPT !.onOpen = IF first THEN TRUE ELSE @]))
                      ELSE Ok(u)
    IN IF Poisoned(t) THEN Err(t)
       ELSE Then(Then(RetentionOnOpen(t, f), rotated), LAMBDA v : RetentionOnOpen(v, f))

\* capture_dual_timestamp.
Captured(t, realtime) ==
    [t EXCEPT !.clock = realtime, !.mono = IF 1 > @ THEN 1 ELSE @ + 1]

NewEntry(t, gap) == [id |-> t.id, s |-> t.next + gap, r |-> t.clock, m |-> t.mono, b |-> t.boot]
\* The entry is in the file and counted.
Landed(t, e) ==
    [t EXCEPT !.disk = IF Live(t) THEN [@ EXCEPT ![t.name].ents = Append(@, e)] ELSE @,
              !.next = e.s + 1, !.cur = @ + 1, !.count = @ + 1,
              !.size = 1 + (IF Live(t) THEN Len(t.disk[t.name].ents) + 1 ELSE 0)]

\* write_entry_with_timestamps and write_fields_with_options: candidate is the
\* caller's realtime, gap the distance of a caller-chosen sequence number, and
\* outcome what the low-level writer does with the entry.
Write(candidate, gap, outcome, f) ==
    /\ Ready /\ ~Poisoned(s)
    /\ Cardinality(acked) < MaxEntries /\ s.made < MaxMade
    /\ Budget(f # NoFault \/ outcome # "written")
    /\ \E realtime \in {IF candidate > s.clock THEN candidate ELSE s.clock + 1} :
       \E o \in {PrepareAppend(s, realtime, f)} :
       \E t \in {IF o.ok THEN Captured(o.s, realtime) ELSE o.s} :
         \/ ~o.ok /\ Settle(t) /\ UNCHANGED acked
         \/ /\ o.ok /\ outcome = "written"
            /\ s' = [Landed(t, NewEntry(t, gap)) EXCEPT !.deleted = {}, !.unlinked = 0]
            /\ acked' = acked \cup {NewEntry(t, gap)}
            /\ lost' = lost \cup EntriesOf(s.disk, t.deleted) \cup (IF Live(t) THEN {} ELSE {NewEntry(t, gap)})
         \/ o.ok /\ outcome = "rejected" /\ Settle(t) /\ UNCHANGED acked
         \/ o.ok /\ outcome = "torn" /\ Settle([t EXCEPT !.wp = TRUE]) /\ UNCHANGED acked
    /\ UNCHANGED <<removals, opens>>

\* sync: poisoned unless the sync returns.
Sync(f) ==
    /\ Ready /\ ~Poisoned(s) /\ s.name # NoName
    /\ Fails(f, "sync")
    /\ FaultBudget(f)
    /\ Settle([s EXCEPT !.poisoned = TRUE])
    /\ UNCHANGED <<acked, removals, opens>>

\* close and close_without_retention consume the Log, so what an error leaves
\* still runs Drop; only the default mode has taken the active file by then.
CloseDefault(t, retention, f) ==
    LET released == [t EXCEPT !.name = NoName]
        empty == Strict(t) /\ LiveEnts(t) = <<>>
        removed == RemoveTracked([released EXCEPT !.disk = Drop(@, IF Live(t) THEN {t.name} ELSE {})], t.name)
        marked == SetState([UpdateActiveFileSize(t) EXCEPT !.name = NoName], t.name, t.fid, "archived")
        header == IF Live(t) THEN t.disk[t.name] ELSE NewFile(t.fid, t.id, t.boot, 0)
        target == IF Strict(t) THEN Archive(Own, header) ELSE t.name
    IN IF Poisoned(t) \/ t.name = NoName THEN released
       ELSE IF empty THEN IF UnlinkFails(f, t.name) THEN released ELSE removed
       ELSE IF SyncFails(t, f) THEN marked
       ELSE Then(IF Strict(t) THEN ArchiveFile(marked, t.name, header, f) ELSE Ok(marked), LAMBDA u :
                 IF retention THEN ApplyRetention(u, target, f) ELSE Ok(u)).s

CloseRoot(t, retention, f) ==
    IF Poisoned(t) \/ t.name = NoName THEN t
    ELSE Then(ArchiveRootActive([t EXCEPT !.unlinked = 0], f), LAMBDA u :
              IF retention /\ u.unlinked = 0 THEN AutomaticRoot(u, FALSE, f) ELSE Ok(u)).s

Close(retention, f) ==
    /\ Ready
    /\ FaultBudget(f)
    /\ Settle(With(IF Root(s) THEN CloseRoot(s, retention, f) ELSE CloseDefault(s, retention, f),
                   LAMBDA closed : Keep(closed, DropLog(closed, f))))
    /\ UNCHANGED <<acked, removals, opens>>

DropCall(f) ==
    /\ Ready
    /\ FaultBudget(f)
    /\ Settle(DropLog(s, f))
    /\ UNCHANGED <<acked, removals, opens>>

\* The process ends without a word.
Crash ==
    /\ s.pc # "closed"
    /\ s' = Gone(s)
    /\ UNCHANGED <<acked, lost, faults, removals, opens>>

\* enforce_retention and, in root mode, maintain_root_retention.
Enforce(f) ==
    /\ Ready /\ ~Poisoned(s)
    /\ FaultBudget(f)
    /\ Settle(EnforceRetention(s, f).s)
    /\ UNCHANGED <<acked, removals, opens>>

\* set_root_retention_policy.
SetRootPolicy(pol) ==
    /\ Ready /\ ~Poisoned(s) /\ Root(s) /\ pol # s.cfg.pol
    /\ s' = [s EXCEPT !.cfg.pol = pol,
                      !.size = IF s.name = NoName THEN 0 ELSE 1 + Len(LiveEnts(s)),
                      !.count = Len(LiveEnts(s))]
    /\ UNCHANGED <<acked, lost, faults, removals, opens>>

\* Another program removes a file; of a live one only where that is detected.
ExternalRemove(n) ==
    /\ faults + removals < MaxTroubles
    /\ n = s.name => Root(s)
    /\ Settle([s EXCEPT !.disk = Drop(@, {n}), !.deleted = {s.disk[n].fid}])
    /\ removals' = removals + 1
    /\ UNCHANGED <<acked, faults, opens>>

Tick ==
    /\ Ready /\ s.now < MaxNow
    /\ s' = [s EXCEPT !.now = @ + Jump]
    /\ UNCHANGED <<acked, lost, faults, removals, opens>>

Init ==
    /\ \E disk \in InitialDisks :
         s = [disk |-> disk, made |-> 1 + Cardinality(DOMAIN disk), now |-> 1,
              pc |-> "closed", cfg |-> NoCfg, poisoned |-> FALSE, wp |-> FALSE,
              name |-> NoName, fid |-> 0, next |-> 0, cur |-> 0, id |-> 0, boot |-> 0,
              clock |-> 0, mono |-> 0, inner |-> {}, sizes |-> <<>>, total |-> 0,
              stale |-> FALSE, size |-> 0, count |-> 0, onOpen |-> FALSE, deleted |-> {},
              unlinked |-> 0, res |-> NoResult]
    /\ acked = {} /\ lost = {} /\ faults = 0 /\ removals = 0 /\ opens = 0

Next ==
    \/ \E cfg \in Configs : OpenScan(cfg)
    \/ Crash \/ Tick
    \/ \E pol \in Policies : SetRootPolicy(pol)
    \/ \E n \in DOMAIN s.disk : ExternalRemove(n)
    \/ \E f \in Faults :
         \/ OpenFinish(f) \/ Sync(f) \/ DropCall(f) \/ Enforce(f)
         \/ \E retention \in BOOLEAN : Close(retention, f)
         \/ \E candidate \in {s.now}, gap \in IF Root(s) THEN RootGaps ELSE {0, 1},
              outcome \in {"written", "rejected", "torn"} :
              Write(candidate, gap, outcome, f)

Spec == Init /\ [][Next]_vars

-----------------------------------------------------------------------------
(***************************************************************************)
(* What the life of a Log promises about the entries it acknowledged, the  *)
(* directory it keeps and the deletions it reports.                        *)
(***************************************************************************)
Healthy == s.pc = "open" /\ ~Poisoned(s)
OnDisk == UNION {Range(s.disk[n].ents) : n \in DOMAIN s.disk}
OwnFiles == {n \in DOMAIN s.disk : n.m = Own}

\* The bytes of the files a Log keeps, each with its sidecars.
RetainedBytes(t) ==
    Total([n \in t.inner |-> t.cfg.pol.artifact + (IF n \in DOMAIN t.disk THEN CommittedSize(t.disk[n]) ELSE 0)])

\* An acknowledged entry is in some file of the directory until a file with it
\* is reported deleted by retention or taken away by another program: no
\* archiving, rename, reopening, creation or failed step loses one.
AckedKept == acked \subseteq OnDisk \cup lost

\* No two entries of the directory have the same sequence number under the
\* same seqnum id, and a file that comes later in the chain holds later ones
\* (rotation, restart and retirement continue the numbering).
NumberingOrdered ==
    \A a, b \in OwnFiles :
        LET fa == s.disk[a]
            fb == s.disk[b]
        IN a # b /\ fa.id = fb.id /\ fa.ents # <<>> /\ fb.ents # <<>> /\ Before(a, b)
              => TailSeqnum(fa) < HeadSeqnum(fb)

\* Retention, archiving and close never unlink or rename the file a healthy
\* Log is writing to.
LiveFileKept == s.name # NoName /\ removals = 0 => Live(s)

\* The only online file of a healthy Log's machine is the one it writes: what
\* an earlier Log left online, under either naming, was adopted or archived.
OneOnline ==
    Healthy =>
        \A n \in OwnFiles : s.disk[n].st = "online" /\ s.disk[n].supported => n = s.name

\* The total of OwnedChain is the sum of the tracked sizes and never below it,
\* but for the time from a refresh that failed half way to the next one: that
\* left some sizes measured again under the old total.
AccountingKept ==
    s.pc = "open" /\ ~s.stale =>
        /\ s.total >= Total(s.sizes)
        /\ removals = 0 => s.total = Total(s.sizes)

\* With no failing unlink, a Log that has applied retention holds no more
\* files than its policy keeps.
CountBounded ==
    LET pol == s.cfg.pol
    IN Healthy /\ ~Root(s) /\ s.onOpen /\ s.name # NoName /\ faults = 0 /\ pol.files # 0
         => Cardinality(s.inner) <= pol.files

\* maintain_root_retention: one that reports success leaves a root within its
\* policy (or only active files), and reports exactly the files it unlinked.
\* enforce_retention of the other modes: when no step fails, the files left are
\* within the byte limit, sidecars included, or only the live one is left,
\* however wrong an earlier refresh that failed half way made the total.
MaintenanceExact ==
    [][Healthy /\ acked' = acked =>
         LET archived == {n \in DOMAIN s'.disk : n.kind = "archived"}
             pol == s.cfg.pol
         IN /\ (Root(s) /\ s'.res.tried /\ \E f \in Faults : Enforce(f)) =>
                 /\ s'.res.unlinked = Cardinality(DOMAIN s.disk) - Cardinality(DOMAIN s'.disk)
                 /\ s'.res.ok /\ archived # {} =>
                      /\ pol.files # 0 => Cardinality(DOMAIN s'.disk) <= pol.files
                      /\ pol.bytes # 0 => InventoryBytes(s') <= pol.bytes
                      /\ \A n \in archived : ~Expired(s'.disk[n], pol, s.now)
            /\ (~Root(s) /\ pol.bytes # 0 /\ faults' = faults /\ Enforce(NoFault)) =>
                 RetainedBytes(s') <= pol.bytes \/ s'.inner \subseteq {s.name}]_vars

(***************************************************************************)
(* The directory of a Log and what the Log believes about it agree through *)
(* rotation, retention, failed steps and restarts.                         *)
(***************************************************************************)
DirectoryKept ==
  /\ LiveFileKept
  /\ OneOnline
  /\ AccountingKept
  /\ CountBounded
=============================================================================
