--------------------------- MODULE ReaderProperties ---------------------------
(***************************************************************************)
(* A client of one FileReader or one DirectoryReader, files that grow and  *)
(* whose missing tail arrives, and what the reader promises.               *)
(*   rdMode  "file" (rd is used) or "dir" (dr is used)                     *)
(*   asked   the filter being built, wanted the one built: sequences of    *)
(*           alternatives of sets of data (NoFilter when there is none)    *)
(*   floor   per file, the intact entries the reader owes its client: those*)
(*           at the last repositioning and at the building of the filter   *)
(*   last    the last call: [op, dir, from, err, v, fresh], fresh until a  *)
(*           file grows                                                  *)
(***************************************************************************)
EXTENDS DirectoryReader

CONSTANTS
    FileSetups,   \* {[j, n, extent]} : files opened alone
    DirSetups,    \* {sequences of the same} : directories
    Scripts,      \* sequences of matches asked for before the first call
    Data,         \* data a client matches
    Times,        \* realtimes it seeks
    Anchors,      \* cursors it seeks
    MaxCalls,     \* calls of the client
    MaxGrowth,    \* steps of the writer
    Arrival,      \* units of a torn file that arrive at once
    Replace       \* whether a built filter is replaced without flushing it

VARIABLES rdMode, rd, dr, asked, wanted, floor, last, calls, growth

rvars == <<rdMode, rd, dr, asked, wanted, floor, last, calls, growth>>

NoFilter == <<>>
NothingAsked == [set |-> FALSE, cur |-> {}, l1 |-> <<>>, l0 |-> <<>>]
NoCall == [op |-> "none", dir |-> "none", from |-> Head0, err |-> "", v |-> FALSE, fresh |-> FALSE]
NoReader == [f |-> [j |-> "none"]]
NoDir == [files |-> <<>>]

\* Entries whose slots and objects exist, up to the first that does not.
Readable(f) ==
    {i \in 1..f.n : Image(f).ents[i] <= f.extent /\ UnitOf(ArrayOf(f, All, i), i) <= f.extent}
Intact(f) == CHOOSE k \in 0..f.n : 1..k \subseteq Readable(f) /\ k + 1 \notin Readable(f)

Files == IF rdMode = "file" THEN <<rd.f>> ELSE [i \in DOMAIN dr.files |-> dr.files[i].f]
FloorNow == [i \in DOMAIN Files |-> Intact(Files[i])]
Lowered == [i \in DOMAIN Files |-> IF floor[i] < Intact(Files[i]) THEN floor[i] ELSE Intact(Files[i])]

\* The groups a client has formed.
Grouping(a, conj) ==
    LET l1 == IF a.cur = {} THEN a.l1 ELSE Append(a.l1, a.cur)
    IN [set |-> TRUE, cur |-> {}, l1 |-> IF conj THEN <<>> ELSE l1,
        l0 |-> IF conj /\ l1 # <<>> THEN Append(a.l0, l1) ELSE a.l0]
BuiltFilter(a) == Grouping(a, TRUE).l0

Satisfies(e, filter) ==
    \A i \in DOMAIN filter : \E k \in DOMAIN filter[i] :
        \A x \in filter[i][k] : \E y \in filter[i][k] : y[1] = x[1] /\ y \in ToSet(e.d)
Matching(f, filter) == {i \in 1..f.n : Satisfies(Journals[f.j][i], filter)}

-----------------------------------------------------------------------------
RECURSIVE Ask(_, _)
Ask(r, xs) == IF xs = <<>> THEN r ELSE Ask(ReaderAddMatch(r, Head(xs)), Tail(xs))
RECURSIVE DirAsk(_, _)
DirAsk(d, xs) == IF xs = <<>> THEN d ELSE DirAsk(DirAddMatch(d, Head(xs)), Tail(xs))
OpenedFile(s) == Opened(s.j, s.n, s.extent)

ReaderInit ==
    /\ last = NoCall /\ calls = 0 /\ growth = 0 /\ wanted = NoFilter
    /\ \E xs \in Scripts :
        /\ asked = [NothingAsked EXCEPT !.set = xs # <<>>, !.cur = ToSet(xs)]
        /\ \/ /\ rdMode = "file" /\ dr = NoDir
              /\ \E s \in FileSetups : rd = Ask(OpenedFile(s), xs)
           \/ /\ rdMode = "dir" /\ rd = NoReader
              /\ \E s \in DirSetups : dr = DirAsk(OpenDirectory([i \in DOMAIN s |-> OpenedFile(s[i])]), xs)
    /\ floor = FloorNow

Called(op, dir, from, got) ==
    /\ calls' = calls + 1
    /\ last' = [op |-> op, dir |-> dir, from |-> from, err |-> got.err, v |-> got.v, fresh |-> TRUE]
    /\ UNCHANGED <<rdMode, growth>>

\* No part of a filter has been resolved yet.
Unbuilt == wanted = NoFilter /\ asked.l1 = <<>> /\ asked.l0 = <<>>

\* A filter that was asked for is built by the first movement that succeeds in building it.
Settles(built) ==
    /\ wanted' = IF asked.set /\ built THEN BuiltFilter(asked) ELSE wanted
    /\ asked' = IF asked.set /\ built THEN NothingAsked ELSE asked

Moved(op, dir, from, got) ==
    /\ rdMode = "file" /\ calls < MaxCalls
    /\ rd' = got.rd
    /\ Called(op, dir, from, got)
    /\ Settles(rd.pend.set /\ ~got.rd.pend.set)
    /\ UNCHANGED dr

StepFile(dir) == Moved("step", dir, rd.loc, StepValid(rd, dir)) /\ floor' = IF asked.set THEN Lowered ELSE floor
SeekFile ==
    /\ \E r \in {SeekHead(rd), SeekTail(rd)} \cup {SeekRealtime(rd, t) : t \in Times} : Moved("seek", "none", rd.loc, Ret("", TRUE, r))
    /\ floor' = IF Unbuilt THEN FloorNow ELSE floor
AnchorReader == \E a \in Anchors, dir \in {"fwd", "back"} :
    /\ Moved("anchor", dir, [k |-> "cursor", v |-> a], SeekCursorAnchor(rd, a, dir))
    /\ floor' = IF wanted = NoFilter /\ ~asked.set THEN FloorNow ELSE Lowered

MatchFile == \E x \in Data :
    /\ rdMode = "file" /\ calls < MaxCalls /\ rd' = ReaderAddMatch(rd, x)
    /\ asked' = [asked EXCEPT !.set = TRUE, !.cur = @ \cup {x}]
    /\ Called("match", "none", rd.loc, Fine(TRUE)) /\ UNCHANGED <<dr, wanted, floor>>
GroupFile == \E conj \in BOOLEAN :
    LET got == ReaderSetOperation(rd, conj)
    IN /\ rdMode = "file" /\ calls < MaxCalls /\ rd' = got.rd
       /\ asked' = IF got.err = "" THEN Grouping(asked, conj) ELSE [asked EXCEPT !.set = TRUE]
       /\ floor' = Lowered
       /\ Called("group", "none", rd.loc, got) /\ UNCHANGED <<dr, wanted>>
FlushFile ==
    /\ rdMode = "file" /\ calls < MaxCalls /\ rd' = FlushMatches(rd)
    /\ asked' = NothingAsked /\ wanted' = NoFilter /\ floor' = FloorNow
    /\ Called("flush", "none", rd.loc, Fine(TRUE)) /\ UNCHANGED dr

-----------------------------------------------------------------------------
\* A cursor seek that failed leaves the files where they were when it failed.
DirFrom ==
    IF last.from.k = "failed" \/ (last.op = "anchor" /\ last.err # "") THEN [k |-> "failed", v |-> NoKey]
    ELSE IF dr.key # NoKey THEN [k |-> "key", v |-> dr.key]
    ELSE IF last.op \in {"none", "seek", "match", "group", "flush"} THEN last.from ELSE [k |-> "lost", v |-> NoKey]

DirMoved(op, dir, from, got) ==
    /\ rdMode = "dir" /\ calls < MaxCalls /\ dr' = got.dr
    /\ Called(op, dir, from, got)
    /\ UNCHANGED rd

StepDir(dir) ==
    /\ DirMoved("step", dir, DirFrom, DirStep(dr, dir))
    /\ Settles(TRUE)
    /\ floor' = IF asked.set THEN Lowered ELSE floor
SeekDir ==
    /\ \/ DirMoved("seek", "none", Head0, DirRet("", TRUE, DirSeekHead(dr)))
       \/ DirMoved("seek", "none", Tail0, DirRet("", TRUE, DirSeekTail(dr)))
       \/ \E t \in Times : DirMoved("seek", "none", [k |-> "time", v |-> t], DirRet("", TRUE, DirSeekRealtime(dr, t)))
    /\ floor' = IF Unbuilt THEN FloorNow ELSE floor
    /\ UNCHANGED <<asked, wanted>>
AnchorDir == \E a \in Anchors, dir \in {"fwd", "back"} :
    /\ DirMoved("anchor", dir, [k |-> "cursor", v |-> a], DirSeekAnchor(dr, a, dir))
    /\ Settles(TRUE)
    /\ floor' = IF wanted = NoFilter /\ ~asked.set THEN FloorNow ELSE Lowered
MatchDir == \E x \in Data :
    /\ wanted = NoFilter \/ Replace
    /\ DirMoved("match", "none", DirFrom, DirRet("", TRUE, DirAddMatch(dr, x)))
    /\ asked' = [asked EXCEPT !.set = TRUE, !.cur = @ \cup {x}]
    /\ UNCHANGED <<wanted, floor>>
GroupDir == \E conj \in BOOLEAN :
    LET got == DirSetOperation(dr, conj)
    IN /\ rdMode = "dir" /\ calls < MaxCalls /\ wanted = NoFilter /\ asked.cur # {} /\ got.err = ""
       /\ DirMoved("group", "none", DirFrom, got)
       /\ asked' = Grouping(asked, conj)
       /\ floor' = Lowered /\ UNCHANGED wanted
FlushDir ==
    /\ DirMoved("flush", "none", Head0, DirRet("", TRUE, DirFlush(dr)))
    /\ asked' = NothingAsked /\ wanted' = NoFilter /\ floor' = FloorNow

-----------------------------------------------------------------------------
\* The writer publishes an entry of a complete file, or more of a torn one arrives.
Grown(f) ==
    {[f EXCEPT !.n = @ + 1, !.im = ImageOf(f.j, f.n + 1), !.extent = Complete(f.j, f.n + 1)] :
        z \in {y \in {0} : f.extent = Complete(f.j, f.n) /\ f.n < Len(Journals[f.j])}}
    \cup {[f EXCEPT !.extent = e] : e \in {x \in {f.extent + Arrival, Complete(f.j, f.n)} : f.extent < x /\ x <= Complete(f.j, f.n)}}
Grow ==
    /\ growth < MaxGrowth /\ growth' = growth + 1
    /\ \/ rdMode = "file" /\ (\E f \in Grown(rd.f) : rd' = [rd EXCEPT !.f = f]) /\ UNCHANGED dr
       \/ rdMode = "dir" /\ UNCHANGED rd
          /\ \E i \in DOMAIN dr.files : \E f \in Grown(dr.files[i].f) : dr' = [dr EXCEPT !.files[i].f = f]
    /\ last' = [last EXCEPT !.fresh = FALSE]
    /\ UNCHANGED <<rdMode, asked, wanted, floor, calls>>

Movement == \E dir \in {"fwd", "back"} : StepFile(dir) \/ StepDir(dir)
ReaderNext ==
    \/ Movement
    \/ SeekFile \/ AnchorReader \/ MatchFile \/ GroupFile \/ FlushFile
    \/ SeekDir \/ AnchorDir \/ MatchDir \/ GroupDir \/ FlushDir
    \/ Grow

-----------------------------------------------------------------------------
(* Properties.                                                              *)

\* Whether entry i lies past a position in a direction.
Past(f, i, from, dir) ==
    CASE from.k = "head" -> dir = "fwd"
      [] from.k = "tail" -> dir = "back"
      [] from.k = "time" -> IF dir = "fwd" THEN Journals[f.j][i].t >= from.v ELSE Journals[f.j][i].t <= from.v
      [] from.k = "at"   -> IF dir = "fwd" THEN Image(f).ents[i] > from.v ELSE Image(f).ents[i] < from.v
Closer(dir, i, k) == IF dir = "fwd" THEN i < k ELSE i > k
Owed(i) == {k \in Matching(Files[i], wanted) : k <= floor[i]}

\* A movement of a file reader that succeeds stands on a matching entry past the
\* position it started from and skips none of the entries owed; one that reports the
\* end leaves none.  Torn tails, recovery, reversal, late growth and filters built in
\* several groups included (cursor.rs, filter.rs, reader_recovery.rs).
StepNearest ==
    rdMode = "file" /\ last.op = "step" /\ last.fresh /\ last.err = "" =>
        LET here == {i \in 1..rd.f.n : last.v /\ Image(rd.f).ents[i] = rd.row}
            past == {i \in Owed(1) : Past(rd.f, i, last.from, last.dir)}
        IN IF last.v
           THEN \E i \in here : /\ i \in Matching(rd.f, wanted) /\ Past(rd.f, i, last.from, last.dir)
                                /\ \A k \in past : k <= EntryCount(rd.f) => ~Closer(last.dir, k, i)
           ELSE past = {}

\* The object of x, or one of its arrays, lies behind the end of the file.
Incomplete(f, x) ==
    /\ Declares(f, x)
    /\ \/ Image(f).data[x].at > f.extent
       \/ \E a \in ToSet(Image(f).data[x].arrs) : LastUnit(a) > f.extent
DataOf(a) == a.cur \cup UNION {a.l1[i] : i \in DOMAIN a.l1} \cup UNION {UNION {a.l0[i][k] : k \in DOMAIN a.l0[i]} : i \in DOMAIN a.l0}
FilterData == DataOf(asked) \cup DataOf([NothingAsked EXCEPT !.l0 = wanted])
\* An anchor by boot reads the postings of boots as well.
Consulted == FilterData \cup (IF last.op = "anchor" THEN {x \in UNION {DOMAIN Image(Files[i]).data : i \in DOMAIN Files} : x[1] = BootField} ELSE {})
\* Reading without a filter never fails because of a torn tail: it ends after the
\* intact prefix.  With a filter it fails only when the object or the postings of one
\* of its data are missing from the file, or when the filter has no match in it.
ErrorsJustified ==
    last.fresh /\ last.err # "" =>
        IF last.err = "malformed" THEN asked.set /\ DataOf(asked) = {}
        ELSE \E i \in DOMAIN Files : \E x \in Consulted : Incomplete(Files[i], x)

\* A movement that fails keeps the last successful position, in a file and in a
\* directory (StepInner, RecoverAfterError, step_merged), so a retry does not skip.
PositionKept ==
    [][(calls' # calls /\ last'.op = "step" /\ last'.err # "") =>
         IF rdMode = "file" THEN rd'.loc = rd.loc
         ELSE /\ dr'.index = dr.index /\ dr'.key = dr.key
              /\ dr.key # NoKey /\ dr.index # 0 => dr'.files[dr.index].loc = dr.files[dr.index].loc]_rvars

RECURSIVE Leaves(_)
Leaves(s) == FoldLeft(LAMBDA n, e : n + (IF e.k \in {"conj", "disj"} THEN Leaves(e.s) ELSE 1), 0, s)
PendingMatches(p) == Len(p.cur) + Leaves(p.level1) + Leaves(p.level0)
\* A group or build that fails keeps every pending match and installs nothing, whichever
\* of its matches failed (convert_current_matches, build), so a retry filters the same.
BuildAllOrNothing ==
    [][(rdMode = "file" /\ calls' # calls /\ last'.err # "" /\ rd.pend.set) =>
         \/ rd'.pend.set /\ PendingMatches(rd'.pend) = PendingMatches(rd.pend) /\ Leaves(<<rd'.expr>>) = Leaves(<<rd.expr>>)
         \/ ~rd'.pend.set /\ Leaves(<<rd'.expr>>) = PendingMatches(rd.pend)]_rvars

\* Whenever recovery is found again, the prefix it bounds the reader to is the intact
\* one, and a loss is reported exactly when the declared list is not wholly there.
RecoveryExact ==
    [][\A i \in DOMAIN Files : Files'[i].rec # Files[i].rec =>
         LET f == Files'[i]
             whole == /\ Intact(f) = f.n
                      /\ \A a \in ToSet(Image(f).arrs) : LastUnit(a) <= f.extent
         IN IF whole THEN f.rec = NoRec
            ELSE /\ f.rec # NoRec /\ f.rec.count = Intact(f) /\ f.rec.declared = f.n
                 /\ f.rec.last = IF f.rec.count = 0 THEN 0 ELSE Image(f).ents[f.rec.count]]_rvars

\* The entry a cursor's parts stand for among the matches of a file: by sequence number
\* in its own sequence, else by boot and monotonic clock, else by wall clock, else the
\* nearest entry of the boots next to it.
AnchorTargets(f, a, dir) ==
    LET J == Journals[f.j]
        M == Matching(f, wanted) \cap 1..Intact(f)
        AtOrPast(v, w) == IF dir = "fwd" THEN v >= w ELSE v <= w
        seq == {i \in M : AtOrPast(J[i].q, a.seq[2])}
        mono == {i \in M : J[i].b = a.mono[1] /\ AtOrPast(J[i].m, a.mono[2])}
        time == {i \in M : AtOrPast(J[i].t, a.t)}
        boot == {i \in 1..Intact(f) : J[i].b = a.mono[1]}
        beside == {i \in M : boot # {} /\ \A k \in boot : Closer(dir, k, i)}
        S == IF a.seq # NoPair /\ a.seq[1] = SeqIds[f.j] THEN seq
             ELSE IF a.mono # NoPair /\ mono # {} THEN mono
             ELSE IF a.t # NoTime THEN time ELSE IF a.mono # NoPair THEN beside ELSE M
    IN {i \in S : \A k \in S : ~Closer(dir, k, i)}

FileAnchored ==
    rdMode = "file" /\ last.op = "anchor" /\ last.fresh /\ last.err = "" /\ growth = 0 =>
        {i \in 1..rd.f.n : last.v /\ Image(rd.f).ents[i] = rd.row} = AnchorTargets(rd.f, last.from.v, last.dir)

-----------------------------------------------------------------------------
KeyAt(f, i) == LET e == Journals[f.j][i] IN [sid |-> SeqIds[f.j], q |-> e.q, b |-> e.b, m |-> e.m, t |-> e.t, h |-> e.h]
\* Keys of the matching entries up to a bound per file.
DirKeys(bound) == UNION {{KeyAt(Files[i], k) : k \in Matching(Files[i], wanted) \cap 1..bound[i]} : i \in DOMAIN Files}
PastKey(key, from, dir) ==
    CASE from.k = "head" -> dir = "fwd"
      [] from.k = "tail" -> dir = "back"
      [] from.k = "time" -> IF dir = "fwd" THEN key.t >= from.v ELSE key.t <= from.v
      [] from.k = "key"  -> Beyond(dr.newest, key, from.v, dir)

\* A directory is read as one journal: every step stands on the next matching entry of
\* all its files in their common order (an entry copied into two files may be met once
\* more, from the other file), and the end is reported when none is left; whether the files are read in sequence or
\* merged, after reversals, seeks, filter changes and the recovery of a file's tail.
DirNearest ==
    (rdMode = "dir" /\ last.op = "step" /\ last.fresh /\ last.err = ""
        /\ (last.from.k = "head" => last.dir = "fwd") /\ (last.from.k = "tail" => last.dir = "back") /\ last.from.k \notin {"lost", "failed"}) =>
        LET owed == {k \in DirKeys(floor) : PastKey(k, last.from, last.dir)}
            seen == {k \in DirKeys([i \in DOMAIN Files |-> IF floor[i] < EntryCount(Files[i]) THEN floor[i] ELSE EntryCount(Files[i])]) :
                        PastKey(k, last.from, last.dir)}
        IN IF last.v
           THEN /\ dr.key \in DirKeys([i \in DOMAIN Files |-> Files[i].n]) 
                /\ PastKey(dr.key, last.from, last.dir) \/ last.from = [k |-> "key", v |-> dr.key]
                /\ \A k \in seen : ~Beyond(dr.newest, dr.key, k, last.dir)
           ELSE owed = {}

DirAnchored ==
    rdMode = "dir" /\ last.op = "anchor" /\ last.fresh /\ last.err = "" /\ growth = 0 =>
        LET targets == UNION {{KeyAt(Files[i], k) : k \in AnchorTargets(Files[i], last.from.v, last.dir)} : i \in DOMAIN Files}
            exact == {k \in targets : last.from.v.seq = <<k.sid, k.q>>}
            best == IF exact # {} THEN exact ELSE targets
        IN IF dr.index = 0 THEN targets = {}
           ELSE dr.key \in best /\ \A k \in best : ~Beyond(dr.newest, dr.key, k, last.dir)

\* Seeking a cursor stands on the entry it denotes, or on the nearest match past it, in
\* whichever of its parts the file can resolve and under every filter; in a directory on
\* the first, in the common order, of those entries of the files (cursor_direction.rs,
\* directory.rs).
AnchorExact == FileAnchored /\ DirAnchored

(***************************************************************************)
(* Every answer of a FileReader or DirectoryReader, a step, a seek or an   *)
(* error, is the one that a scan of all entries would give.                *)
(***************************************************************************)
AnswerExact ==
  /\ StepNearest
  /\ DirNearest
  /\ AnchorExact
  /\ ErrorsJustified
ReadsExact == [][AnswerExact']_rvars

(***************************************************************************)
(* A call that fails leaves the reader where it was, with the matches it   *)
(* had, and a torn tail that was healed is left exactly when it is whole   *)
(* again.                                                                  *)
(***************************************************************************)
FailuresKept ==
  /\ PositionKept
  /\ RecoveryExact
  /\ BuildAllOrNothing
=============================================================================
