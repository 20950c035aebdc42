---------------------------- MODULE FileRegistry ----------------------------
(***************************************************************************)
(* The registry of journal files (crate journal-registry): what a path     *)
(* says about a file, the chains a repository keeps per directory and      *)
(* origin, the lookup by time range, and the registry that follows a       *)
(* directory through a scan and the file system's events.                  *)
(*                                                                         *)
(* A path is [dir, base, form, id, seq, time]: dir the sequence of its     *)
(* directory names, base the name before the suffix, form what the suffix  *)
(* looks like.                                                             *)
(***************************************************************************)
EXTENDS Integers, FiniteSets, FiniteSetsExt, SequencesExt

CONSTANTS JournalPaths,  \* the paths that may exist
          MachineIds,    \* directory names that are a machine id ...
          Namespaces,    \* ... or [name -> <<machine id, namespace>>]
          Extents,       \* [path -> <<first, last>>]: realtimes in the archived files
          SecondUsec,
          RegistrySetups \* [disk, left]: the files at first and what may happen

VARIABLES rgDisk,     \* the files there are
          rgExtent,   \* [path -> <<first, last>>] of the names that were used so far
          rgWatched,  \* watched_directories
          rgScan,     \* the scan of a watch_directory call: <<>> or <<root, files>>
          rgQueue,    \* events sent and not yet processed
          rgChains,   \* directories: [<<dir, origin>> -> chain]
          rgMeta,     \* file_metadata: [path -> time range]
          rgIndexed,  \* an index on its way to the metadata: <<>> or <<[file, extent, online]>>
          rgMissed,   \* ghost: paths whose change no event reported
          rgLeft      \* what may still happen: [changes, calls, indexed, repeats], to which
                      \* [paths] and [roots], the directories clients watch

rgDiskVars == <<rgDisk, rgExtent>>
rgVars == <<rgDiskVars, rgWatched, rgScan, rgQueue, rgChains, rgMeta, rgIndexed, rgMissed, rgLeft>>
-----------------------------------------------------------------------------
(* What a path says: File::from_path.                                      *)

\* Status::parse: an @ in front of .journal must start an archive's suffix.
StatusOf(p) == CASE p.form = "plain" -> "active"
                 [] p.form = "archive" -> "archived"
                 [] p.form = "tilde" -> "disposed"
                 [] OTHER -> "none"

\* Source::parse: system, user-<uid>, remote-<host>, or the name itself.
SourceOf(p) == CASE p.base = "system" -> <<"system">>
                 [] p.base = "user-1" -> <<"user", 1>>
                 [] p.base = "remote-h" -> <<"remote", "h">>
                 [] OTHER -> <<"unknown", p.base>>

\* parse_machine_id_namespace of the directory's own name.
MachineOf(p) ==
  LET name == Last(p.dir) IN
  CASE name \in MachineIds -> <<name, "">>
    [] name \in DOMAIN Namespaces -> Namespaces[name]
    [] OTHER -> <<"", "">>

Origin(p) == <<MachineOf(p), SourceOf(p)>>
FromPath(p) == StatusOf(p) # "none"

\* File::dir: the parent of a machine directory, the directory otherwise.
DirOf(p) == IF MachineOf(p)[1] # "" THEN Front(p.dir) ELSE p.dir

Rank(p) == CASE StatusOf(p) = "disposed" -> 0 [] StatusOf(p) = "archived" -> 1 [] OTHER -> 2

\* Ord of Status and, for files in one directory, of File.
ChainBefore(a, b) ==
  \/ Rank(a) < Rank(b)
  \/ Rank(a) = Rank(b) /\ (\/ a.time < b.time
                           \/ a.time = b.time /\ a.id < b.id
                           \/ a.time = b.time /\ a.id = b.id /\ a.seq < b.seq)
-----------------------------------------------------------------------------
(* Chain and the base Repository.                                          *)

PartitionPoint(chain, P(_)) == Cardinality({k \in DOMAIN chain : P(chain[k])}) + 1

\* insert_file and remove_file.
InsertFile(chain, f) ==
  LET pos == PartitionPoint(chain, LAMBDA g : ChainBefore(g, f))
  IN IF pos <= Len(chain) /\ chain[pos] = f THEN chain ELSE InsertAt(chain, pos, f)
RemoveFile(chain, f) ==
  LET pos == PartitionPoint(chain, LAMBDA g : ChainBefore(g, f))
  IN IF pos <= Len(chain) /\ chain[pos] = f THEN RemoveAt(chain, pos) ELSE chain

ChainAt(chains, k) == IF k \in DOMAIN chains THEN chains[k] ELSE <<>>
KeyOf(f) == <<DirOf(f), Origin(f)>>
WithChain(chains, k, c) == [x \in DOMAIN chains \cup {k} |-> IF x = k THEN c ELSE chains[x]]

\* Repository::insert and ::remove; an empty chain goes, and its directory.
InsertInto(chains, f) == WithChain(chains, KeyOf(f), InsertFile(ChainAt(chains, KeyOf(f)), f))
RemoveFrom(chains, f) ==
  IF KeyOf(f) \notin DOMAIN chains THEN chains
  ELSE LET c == RemoveFile(chains[KeyOf(f)], f)
       IN IF c = <<>> THEN [x \in DOMAIN chains \ {KeyOf(f)} |-> chains[x]]
          ELSE WithChain(chains, KeyOf(f), c)
RemoveDirectory(chains, root) == [x \in {x \in DOMAIN chains : x[1] # root} |-> chains[x]]

Huge == 1000000
\* first_range_candidate_position: the last file that begins before the range.
FirstCandidate(chain, start) ==
  LET pos == PartitionPoint(chain, LAMBDA f : StatusOf(f) = "disposed" \/ (StatusOf(f) = "archived" /\ f.time < start))
  IN IF pos > 1 THEN pos - 1 ELSE 1

\* next_file_tail_realtime: a file ends where the next one begins.
TailOf(chain, k) == IF k < Len(chain) /\ StatusOf(chain[k + 1]) = "archived" THEN chain[k + 1].time ELSE Huge

\* Chain::find_files_in_range, in seconds.  The heads ascend, so the break at
\* the first head behind the range leaves out what would not overlap.
ChainInRange(chain, from, to) ==
  LET start == from * SecondUsec
      end   == to * SecondUsec
      pos   == FirstCandidate(chain, start)
      heads == {chain[j].time : j \in {j \in pos..Len(chain) : StatusOf(chain[j]) = "archived"}}
      stop  == {k \in pos..Len(chain) : \E j \in pos..k : StatusOf(chain[j]) = "archived" /\ chain[j].time >= end}
      hit(k) == CASE StatusOf(chain[k]) = "archived" -> chain[k].time < end /\ TailOf(chain, k) > start
                  [] StatusOf(chain[k]) = "active" ->
                       /\ \A j \in pos..(k - 1) : StatusOf(chain[j]) # "active"
                       /\ (\A h \in heads : h < end)
                  [] OTHER -> FALSE
  IN IF from >= to THEN {} ELSE {chain[k] : k \in {k \in pos..Len(chain) : k \notin stop /\ hit(k)}}

\* find_files_in_range of the repository with metadata.
MeetsRange(range, from, to) ==
  range.kind \in {"unknown", "active"} \/ (range.from < to /\ range.to > from)
RangeOf(f) == IF f \in DOMAIN rgMeta THEN rgMeta[f] ELSE [kind |-> "unknown", from |-> 0, to |-> 0]
FindInRange(from, to) ==
  {f \in UNION {ChainInRange(rgChains[k], from, to) : k \in DOMAIN rgChains} : MeetsRange(RangeOf(f), from, to)}
-----------------------------------------------------------------------------
(* The registry.                                                           *)

Registered == UNION {ToSet(rgChains[k]) : k \in DOMAIN rgChains}
Under(p, root) == IsPrefix(root, p.dir)
Covered(p) == \E r \in rgWatched : Under(p, r)
Forget(meta, files) == [f \in DOMAIN meta \ files |-> meta[f]]
Learn(meta, f) == [g \in DOMAIN meta \cup {f} |-> IF g = f THEN [kind |-> "unknown", from |-> 0, to |-> 0] ELSE meta[g]]

Spend(what) == rgLeft[what] > 0 /\ rgLeft' = [rgLeft EXCEPT ![what] = @ - 1]
\* The watcher sends the event of a change below a watched directory.
Send(event, paths) ==
  IF \E p \in paths : Covered(p)
  THEN rgQueue' = Append(rgQueue, event) /\ UNCHANGED rgMissed
  ELSE rgMissed' = rgMissed \cup paths /\ UNCHANGED rgQueue

\* The entries of a new active file come after all those of its chain; an
\* archived file that comes back has the entries it had.
Born(p, extents) ==
  LET earlier == {extents[q][2] : q \in {q \in DOMAIN extents : KeyOf(q) = KeyOf(p)}}
      first   == 1 + Max({0} \cup earlier)
  IN <<first, first + 1>>
WithExtent(p, extent) == [q \in DOMAIN rgExtent \cup {p} |-> IF q = p THEN extent ELSE rgExtent[q]]

CreateFile(p) ==
  /\ p \notin rgDisk /\ (StatusOf(p) = "archived" => p \in DOMAIN rgExtent) /\ Spend("changes")
  /\ rgDisk' = rgDisk \cup {p}
  /\ rgExtent' = IF StatusOf(p) = "archived" THEN rgExtent ELSE WithExtent(p, Born(p, rgExtent))
  /\ Send([kind |-> "create", paths |-> <<p>>], {p})
  /\ UNCHANGED <<rgWatched, rgScan, rgChains, rgMeta, rgIndexed>>
DeleteFile(p) ==
  /\ p \in rgDisk /\ Spend("changes")
  /\ rgDisk' = rgDisk \ {p}
  /\ Send([kind |-> "remove", paths |-> <<p>>], {p})
  /\ UNCHANGED <<rgExtent, rgWatched, rgScan, rgChains, rgMeta, rgIndexed>>

\* An active file gets an entry; the event of a change of contents is of a
\* kind that process_event ignores.
GrowFile(p) ==
  /\ p \in rgDisk /\ StatusOf(p) = "active" /\ Spend("changes")
  /\ rgExtent' = [rgExtent EXCEPT ![p][2] = @ + SecondUsec]
  /\ rgQueue' = IF Covered(p) THEN Append(rgQueue, [kind |-> "data", paths |-> <<p>>]) ELSE rgQueue
  /\ UNCHANGED <<rgDisk, rgWatched, rgScan, rgChains, rgMeta, rgIndexed, rgMissed>>

\* An active file is archived under the time of its first entry or disposed
\* of, or an archived one moves to a directory where it precedes the active one.
MayBecome(p, q) ==
  \/ /\ StatusOf(p) = "active" /\ KeyOf(p) = KeyOf(q) /\ q \notin DOMAIN rgExtent
     /\ StatusOf(q) = "disposed" \/ (StatusOf(q) = "archived" /\ q.time = rgExtent[p][1])
  \/ /\ StatusOf(p) = "archived" /\ p # q /\ q = [p EXCEPT !.dir = q.dir]
     /\ \A r \in DOMAIN rgExtent : (KeyOf(r) = KeyOf(q) /\ StatusOf(r) = "active") => rgExtent[p][2] < rgExtent[r][1]

\* A rename is reported with both names when both are below watched
\* directories, with one of them otherwise.
RenameFile(p, q) ==
  /\ p \in rgDisk /\ q \notin rgDisk /\ MayBecome(p, q) /\ Spend("changes")
  /\ rgDisk' = (rgDisk \ {p}) \cup {q}
  /\ rgExtent' = WithExtent(q, rgExtent[p])
  /\ IF Covered(p) = Covered(q) THEN Send([kind |-> "both", paths |-> <<p, q>>], {p, q})
     ELSE /\ rgQueue' = Append(rgQueue, [kind |-> IF Covered(p) THEN "from" ELSE "to", paths |-> <<IF Covered(p) THEN p ELSE q>>])
          /\ rgMissed' = rgMissed \cup {p, q}
  /\ UNCHANGED <<rgWatched, rgScan, rgChains, rgMeta, rgIndexed>>

\* The last event is delivered a second time.
RepeatEvent ==
  /\ rgQueue # <<>> /\ Spend("repeats")
  /\ rgQueue' = Append(rgQueue, Last(rgQueue))
  /\ UNCHANGED <<rgDiskVars, rgWatched, rgScan, rgChains, rgMeta, rgIndexed, rgMissed>>

\* watch_directory: scan_journal_files first, then the watcher and the inserts,
\* all under the registry's lock.
WatchScan(root) ==
  /\ rgScan = <<>> /\ root \notin rgWatched /\ Spend("calls")
  /\ rgScan' = <<root, {p \in rgDisk : Under(p, root) /\ FromPath(p)}>>
  /\ rgMissed' = {p \in rgMissed : ~Under(p, root) \/ p \in Registered
                                    \/ \E i \in DOMAIN rgQueue : p \in ToSet(rgQueue[i].paths)}
  /\ UNCHANGED <<rgDiskVars, rgWatched, rgQueue, rgChains, rgMeta, rgIndexed>>
WatchInsert ==
  /\ rgScan # <<>>
  /\ rgWatched' = rgWatched \cup {rgScan[1]}
  /\ LET files == SetToSeq(rgScan[2])
     IN /\ rgChains' = FoldLeft(InsertInto, rgChains, files)
        /\ rgMeta' = FoldLeft(Learn, rgMeta, files)
  /\ rgScan' = <<>>
  /\ UNCHANGED <<rgDiskVars, rgQueue, rgIndexed, rgMissed, rgLeft>>

\* unwatch_directory: only the directory of that very name is forgotten, and
\* the events already sent stay in the channel.
UnwatchDirectory(root) ==
  /\ rgScan = <<>> /\ root \in rgWatched /\ Spend("calls")
  /\ rgWatched' = rgWatched \ {root}
  /\ rgChains' = RemoveDirectory(rgChains, root)
  /\ rgMeta' = Forget(rgMeta, {f \in DOMAIN rgMeta : DirOf(f) = root})
  /\ UNCHANGED <<rgDiskVars, rgScan, rgQueue, rgIndexed, rgMissed>>

\* process_event and the helpers it dispatches to.
Inserted(s, p) == IF FromPath(p) THEN [chains |-> InsertInto(s.chains, p), meta |-> Learn(s.meta, p)] ELSE s
Removed(s, p) == IF FromPath(p) THEN [chains |-> RemoveFrom(s.chains, p), meta |-> Forget(s.meta, {p})] ELSE s
RenamedKeepOld(s, old, new) == Inserted(s, new)
Renamed(s, old, new) == Inserted(Removed(s, old), new)
ProcessEvent ==
  /\ rgScan = <<>> /\ rgQueue # <<>>
  /\ LET e == Head(rgQueue)
         s == [chains |-> rgChains, meta |-> rgMeta]
         t == CASE e.kind = "create" -> Inserted(s, e.paths[1])
                [] e.kind = "remove" -> Removed(s, e.paths[1])
                [] e.kind = "both" -> Renamed(s, e.paths[1], e.paths[2])
                [] OTHER -> s
     IN rgChains' = t.chains /\ rgMeta' = t.meta
  /\ rgQueue' = Tail(rgQueue)
  /\ UNCHANGED <<rgDiskVars, rgWatched, rgScan, rgIndexed, rgMissed, rgLeft>>

\* The indexer of a known file looks at its header and its entries: a writer
\* may have an active file offline for a flush, or an archived one still open.
WasOnline(f, header) == header \/ StatusOf(f) = "active"
IndexFile(f) ==
  /\ f \in Registered \cap rgDisk /\ rgIndexed = <<>> /\ Spend("indexed")
  /\ \E header \in BOOLEAN :
       rgIndexed' = <<[file |-> f, extent |-> rgExtent[f], online |-> WasOnline(f, header)]>>
  /\ UNCHANGED <<rgDiskVars, rgWatched, rgScan, rgQueue, rgChains, rgMeta, rgMissed>>

\* update_time_range: meanwhile the file may have grown, got another name, gone
\* or been replaced.
UpdateTimeRange ==
  /\ rgScan = <<>> /\ rgIndexed # <<>>
  /\ LET ix == rgIndexed[1] IN
     rgMeta' = [g \in DOMAIN rgMeta \cup {ix.file} |->
       IF g # ix.file THEN rgMeta[g]
       ELSE [kind |-> IF ix.online THEN "active" ELSE "bounded",
             from |-> ix.extent[1] \div SecondUsec, to |-> ix.extent[2] \div SecondUsec + 1]]
  /\ rgIndexed' = <<>>
  /\ UNCHANGED <<rgDiskVars, rgWatched, rgScan, rgQueue, rgChains, rgMissed, rgLeft>>

RegistryInit ==
  /\ \E s \in RegistrySetups : rgDisk = s.disk /\ rgLeft = s.left
  /\ LET archives == [p \in {p \in rgDisk : StatusOf(p) = "archived"} |-> Extents[p]]
     IN rgExtent = [p \in rgDisk |-> IF p \in DOMAIN archives THEN archives[p] ELSE Born(p, archives)]
  /\ rgWatched = {} /\ rgScan = <<>> /\ rgQueue = <<>>
  /\ rgChains = <<>> /\ rgMeta = <<>> /\ rgIndexed = <<>> /\ rgMissed = rgDisk
RegistryNext ==
  \/ \E p \in rgLeft.paths : CreateFile(p) \/ DeleteFile(p) \/ GrowFile(p) \/ IndexFile(p)
  \/ \E p, q \in rgLeft.paths : RenameFile(p, q)
  \/ \E r \in rgLeft.roots : WatchScan(r) \/ UnwatchDirectory(r)
  \/ WatchInsert \/ ProcessEvent \/ RepeatEvent \/ UpdateTimeRange

RegistrySpec == RegistryInit /\ [][RegistryNext]_rgVars

-----------------------------------------------------------------------------
(* Properties.                                                             *)

\* Chain: every chain is in strict order and holds files of its own directory
\* and origin, whatever order scans, duplicate events and renames came in; the
\* binary searches of insert_file, remove_file and the lookup rest on it.
ChainsSorted ==
  \A k \in DOMAIN rgChains :
    /\ rgChains[k] # <<>>
    /\ \A i \in DOMAIN rgChains[k] : KeyOf(rgChains[k][i]) = k
    /\ \A i \in 2..Len(rgChains[k]) : ChainBefore(rgChains[k][i - 1], rgChains[k][i])

\* watch_directory and process_event: once the events are processed, late ones
\* and repeated ones among them, the registry knows exactly the journal files
\* below the watched directories, except where a change fell between the scan
\* and the watch, was reported in a form process_event ignores, or met a file
\* that an earlier unwatch left behind or left events of in the channel.
RegistryFollows ==
  (rgQueue = <<>> /\ rgScan = <<>>) =>
    \A p \in JournalPaths \ rgMissed : Covered(p) => (p \in Registered <=> (p \in rgDisk /\ FromPath(p)))

\* find_files_in_range: while the files of an origin follow one another in
\* time, no lookup leaves out a known file with an entry in the range, whether
\* its time range is guessed from its neighbours or was learnt from an index
\* before the file grew, was archived or came back.
RangeComplete ==
  \A f \in Registered : (f \in rgDisk /\ StatusOf(f) # "disposed") =>
    \A t \in ToSet(rgExtent[f]) : \A n \in 0..1 :
      LET s == t \div SecondUsec - n IN
      s >= 0 => f \in FindInRange(s, s + 1 + n)

(***************************************************************************)
(* Once its events are handled the registry has the files of the watched   *)
(* directories, in order, and a lookup by time leaves out no file that     *)
(* could hold an entry of the range.                                       *)
(***************************************************************************)
RegistryExact ==
  /\ ChainsSorted
  /\ RegistryFollows
  /\ RangeComplete
=============================================================================
