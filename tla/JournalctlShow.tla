--------------------------- MODULE JournalctlShow ---------------------------
(***************************************************************************)
(* The show action of journalctl: which entries an invocation prints, the  *)
(* cursor it leaves behind, and --follow.  The journal it reads is a       *)
(* sequence of entries in time order that a writer extends and a vacuum    *)
(* shortens; the reader steps through it as JournalReader promises, and a  *)
(* cursor is the place of an entry in it.                                  *)
(***************************************************************************)
EXTENDS Integers, FiniteSets, SequencesExt

CONSTANTS Sessions,      \* sets of command lines used together: [menu, calls, first, rows], with the
                         \* journal at the start and its greatest length; a command line is
                         \* [lines, reverse, follow, since, until, cursor, pager_end]
          Greps,         \* whether --grep is given, the same in all of them
          NewRows,       \* what a writer may append: [dt, msg, ex]
          MaxRows,       \* at least every session's rows
          MaxVacuums

VARIABLES jcLog,     \* the entries ever written: [rt, msg, ex]
          jcGone,    \* how many of them, the oldest, were vacuumed
          jcGrep,    \* whether --grep is given
          jcMenu,    \* the session
          jcFile,    \* the cursor file: absent, empty, or a cursor
          jcPc,      \* what the process does
          jcArgs, jcSeek, jcVisited, jcSeen, jcAt, jcToWrite,
          jcOut,     \* what this invocation printed
          jcCount,   \* invocations so far
          jcTrail    \* ghost: [base, printed, pure, smooth] of the cursor file's runs

jcVars == <<jcLog, jcGone, jcGrep, jcMenu, jcFile, jcPc, jcArgs, jcSeek, jcVisited, jcSeen, jcAt, jcToWrite, jcOut, jcCount, jcTrail>>
jcEnv == <<jcLog, jcGone, jcGrep, jcMenu>>
jcRun == <<jcArgs, jcSeek, jcVisited, jcSeen, jcAt, jcToWrite, jcOut, jcCount>>

None == 0          \* no cursor, no bound
NoFile == -1
Many == 1000       \* --pager-end
NoSeek == [cursor |-> None, after |-> FALSE]
Rows == (jcGone + 1)..Len(jcLog)
\* Op of a value that an earlier step has computed.
With(v, Op(_)) == Op(v)
LowestOf(S) == IF S = {} THEN None ELSE CHOOSE i \in S : \A j \in S : i <= j
HighestOf(S) == IF S = {} THEN None ELSE CHOOSE i \in S : \A j \in S : j <= i
-----------------------------------------------------------------------------
(* Filters and bounds.                                                     *)

\* CliPostFilters::matches and ::excludes_entry: an excluded entry counts as
\* shown and is not printed.
Matches(i) == ~jcGrep \/ jcLog[i].msg
Matching == {i \in Rows : Matches(i)}
Excluded(i) == jcLog[i].ex
Printed(ids) == SelectSeq(ids, LAMBDA i : Matches(i) /\ ~Excluded(i))
InBounds(a, i) == (a.since = None \/ jcLog[i].rt >= a.since) /\ (a.until = None \/ jcLog[i].rt <= a.until)

\* CursorControl::from_args: the first line of the cursor file, if any.
SeekOf(a) == CASE a.cursor.kind = "at" -> [cursor |-> a.cursor.id, after |-> FALSE]
               [] a.cursor.kind = "after" -> [cursor |-> a.cursor.id, after |-> TRUE]
               [] a.cursor.kind = "file" /\ jcFile > 0 -> [cursor |-> jcFile, after |-> TRUE]
               [] OTHER -> NoSeek
UpdatesFile(a) == a.cursor.kind = "file"

\* The row a step leads to, as the reader gives it.
StepFrom(i, back) == IF back THEN HighestOf({j \in Rows : j < i}) ELSE LowestOf({j \in Rows : j > i})
SeekTime(t, back) == IF back THEN HighestOf({j \in Rows : jcLog[j].rt <= t}) ELSE LowestOf({j \in Rows : jcLog[j].rt >= t})

\* seek_cursor_start_tracked: the row to start with and the checkpoint.
CursorStartAlways(seek, back) ==
  LET found == IF back THEN HighestOf({j \in Rows : j <= seek.cursor}) ELSE LowestOf({j \in Rows : j >= seek.cursor})
  IN [row |-> IF seek.after /\ found # None THEN StepFrom(found, back) ELSE found, mark |-> found]
CursorStartExact(seek, back) ==
  LET found == IF seek.cursor \in Rows THEN seek.cursor ELSE None
  IN [row |-> IF seek.after /\ found # None THEN StepFrom(found, back) ELSE found, mark |-> found]
CursorStart(seek, back) ==
  LET found == IF back THEN HighestOf({j \in Rows : j <= seek.cursor}) ELSE LowestOf({j \in Rows : j >= seek.cursor})
  IN [row |-> IF seek.after /\ found = seek.cursor THEN StepFrom(found, back) ELSE found, mark |-> found]

\* The seeks in front of the loops, for a walk in one direction.
StartRow(a, seek, back) ==
  IF seek # NoSeek THEN CursorStart(seek, back)
  ELSE [row  |-> IF back THEN (IF a.until # None THEN SeekTime(a.until, TRUE) ELSE HighestOf(Rows))
                 ELSE IF a.since # None THEN SeekTime(a.since, FALSE) ELSE LowestOf(Rows),
        mark |-> None]
-----------------------------------------------------------------------------
(* Walks: for_each_entry_with_checkpoint and previous_output_events.  A    *)
(* walk visits rows until the visitor has enough of them or a row crosses  *)
(* the bound; the row a cursor seek lands on is not a crossing.            *)

Crosses(a, i, back) == IF back THEN a.since # None /\ jcLog[i].rt < a.since ELSE a.until # None /\ jcLog[i].rt > a.until

\* The rows from one on, in one direction.
PathFrom(row, back) ==
  CASE row = None -> <<>>
    [] row # None /\ back -> [k \in 1..(row - jcGone) |-> row - k + 1]
    [] OTHER -> [k \in 1..(Len(jcLog) - row + 1) |-> row + k - 1]

\* limit = 0: no limit.  counted: the rows that count towards it.
\* The checkpoint is the last row the walk came to, the crossing one included.
Walk(a, seek, back, limit, counted) ==
  LET cross(path, k) == (seek = NoSeek \/ k > 1) /\ Crosses(a, path[k], back)
      full(path, k) == /\ limit > 0
                       /\ Cardinality({j \in 1..k : InBounds(a, path[j]) /\ path[j] \in counted}) >= limit
  IN With(StartRow(a, seek, back), LAMBDA start :
     With(PathFrom(start.row, back), LAMBDA path :
     With(LowestOf({k \in DOMAIN path : cross(path, k) \/ full(path, k)}), LAMBDA end :
     With(IF end = None THEN Len(path) ELSE end, LAMBDA last :
       [rows |-> SelectSeq(SubSeq(path, 1, last), LAMBDA i : InBounds(a, i)),
        mark |-> IF last = 0 THEN start.mark ELSE path[last]]))))

\* previous_output_events and stream_previous_output_events: in reverse even
\* the row a cursor lands on ends the walk when it is before --since.
WalkBack(a, seek, limit) ==
  With(StartRow(a, seek, TRUE).row, LAMBDA row :
    IF row # None /\ seek # NoSeek /\ Crosses(a, row, TRUE) THEN [rows |-> <<>>, mark |-> row]
    ELSE Walk(a, seek, TRUE, limit, Matching))

\* initial_cursor of a zero limit.
InitialCursor(a, seek, from_tail) ==
  IF seek # NoSeek
  THEN LET s == CursorStart(seek, from_tail) IN IF s.row # None THEN s.row ELSE s.mark
  ELSE StartRow(a, NoSeek, from_tail).row

\* show_head_or_all_with_reverse: what is printed and the final cursor.
ShowHead(a, seek, limit, reverse) ==
  LET n == IF limit = Many THEN 0 ELSE limit
  IN IF limit = 0 THEN [out |-> <<>>, cursor |-> InitialCursor(a, seek, reverse)]
     ELSE With(IF reverse THEN WalkBack(a, seek, n) ELSE Walk(a, seek, FALSE, n, Matching), LAMBDA w :
            [out |-> Printed(w.rows), cursor |-> w.mark])

LastOf(rows, n) == IF Len(rows) > n THEN SubSeq(rows, Len(rows) - n + 1, Len(rows)) ELSE rows

\* show_tail_with_reverse: without a cursor the last rows are collected
\* backwards, and a bound in front of the end moves the cursor one row on.
ShowTail(a, seek, limit, reverse) ==
  LET last(sel) == IF sel = <<>> THEN None ELSE Last(sel)
      next(sel) == IF sel # <<>> THEN StepFrom(Last(sel), FALSE) ELSE SeekTime(a.until, FALSE)
  IN CASE limit = 0 -> [out |-> <<>>, cursor |-> InitialCursor(a, seek, TRUE)]
       [] limit > 0 /\ reverse ->
            With(WalkBack(a, seek, limit), LAMBDA w : [out |-> Printed(w.rows), cursor |-> w.mark])
       [] limit > 0 /\ ~reverse /\ seek # NoSeek ->
            With(Walk(a, seek, FALSE, 0, Rows), LAMBDA w : [out |-> Printed(LastOf(w.rows, limit)), cursor |-> w.mark])
       [] OTHER ->
            With(Reverse(Walk(a, NoSeek, TRUE, limit, Rows).rows), LAMBDA sel :
              [out |-> Printed(sel),
               cursor |-> IF a.until # None /\ Len(sel) < limit /\ next(sel) # None THEN next(sel) ELSE last(sel)])

\* The dispatch of run(): --grep with --lines=N or --pager-end reads backwards.
GrepReverse(a) == jcGrep /\ ~a.follow /\ (IF a.lines.kind = "none" THEN a.pager_end ELSE a.lines.kind = "tail")
Show(a, seek) ==
  LET backwards == a.reverse \/ GrepReverse(a)
      first == a.lines.kind = "head" \/ (a.lines.kind = "tail" /\ seek # NoSeek /\ ~backwards)
      last  == (a.lines.kind = "tail" /\ ~first) \/ (a.lines.kind = "none" /\ a.pager_end)
      limit == IF a.lines.kind \in {"head", "tail"} THEN a.lines.n ELSE Many
  IN IF last THEN ShowTail(a, seek, limit, backwards) ELSE ShowHead(a, seek, limit, ~first /\ a.reverse)

\* The enforce_* rules that reject a combination.
Rejected(a) ==
  \/ a.since # None /\ a.until # None /\ a.since > a.until
  \/ a.since # None /\ a.cursor.kind # "none"
  \/ a.follow /\ a.reverse
  \/ a.lines.kind = "head" /\ (a.reverse \/ a.follow)
-----------------------------------------------------------------------------
(* One invocation, step by step.                                           *)

NoTrail == [base |-> None, on |-> FALSE, printed |-> {}, pure |-> TRUE, smooth |-> TRUE, twice |-> FALSE]

\* The trail of the runs with a cursor file: the first of them sets the base.
Trailed(base, ids) ==
  IF ~UpdatesFile(jcArgs) THEN jcTrail
  ELSE [jcTrail EXCEPT !.base = IF jcSeek = NoSeek THEN base ELSE @,
                       !.on = TRUE,
                       !.twice = @ \/ jcTrail.printed \cap ToSet(ids) # {},
                       !.printed = @ \cup ToSet(ids),
                       !.pure = @ /\ jcArgs.until = None /\ ~jcArgs.reverse /\ ~GrepReverse(jcArgs)
                                    /\ (~jcArgs.follow /\ jcArgs.lines.kind \in {"head", "tail"} /\ jcArgs.lines.n = 0 => jcSeek = NoSeek)]

Start(a) ==
  /\ jcPc = "idle" /\ jcCount < jcMenu.calls /\ ~Rejected(a)
  /\ a.cursor.kind \in {"at", "after"} => a.cursor.id <= Len(jcLog)
  /\ jcArgs' = a /\ jcSeek' = SeekOf(a)
  /\ jcOut' = <<>> /\ jcVisited' = None /\ jcSeen' = None /\ jcAt' = None /\ jcToWrite' = None
  /\ jcPc' = IF a.follow THEN "follow" ELSE "show"
  /\ jcCount' = jcCount + 1
  /\ UNCHANGED <<jcEnv, jcFile, jcTrail>>

ShowEntries ==
  /\ jcPc = "show"
  /\ \E r \in {Show(jcArgs, jcSeek)} :
        /\ jcOut' = r.out
        /\ jcToWrite' = IF UpdatesFile(jcArgs) THEN r.cursor ELSE None
        /\ jcPc' = IF jcToWrite' = None THEN "idle" ELSE "write"
        /\ jcTrail' = Trailed(IF r.out # <<>> THEN r.out[1] - 1 ELSE r.cursor, r.out)
  /\ UNCHANGED <<jcEnv, jcFile, jcArgs, jcSeek, jcVisited, jcSeen, jcAt, jcCount>>

\* write_cursor_file_atomic: a temporary file and a rename; a failure leaves
\* the old file and ends the program.
WriteCursorFile ==
  /\ jcPc = "write"
  /\ \/ jcFile' = jcToWrite /\ UNCHANGED jcTrail
     \/ UNCHANGED jcFile /\ jcTrail' = [jcTrail EXCEPT !.smooth = FALSE]
  /\ jcPc' = "idle" /\ jcToWrite' = None
  /\ UNCHANGED <<jcEnv, jcArgs, jcSeek, jcVisited, jcSeen, jcAt, jcOut, jcCount>>

\* The process is killed; after a power failure the renamed file, never
\* synced, may be found empty.
Kill ==
  /\ jcPc # "idle"
  /\ jcFile' \in {jcFile} \cup (IF jcFile > 0 THEN {0} ELSE {})
  /\ jcPc' = "idle" /\ jcToWrite' = None /\ jcAt' = None
  /\ jcTrail' = [jcTrail EXCEPT !.smooth = FALSE]
  /\ UNCHANGED <<jcEnv, jcArgs, jcSeek, jcVisited, jcSeen, jcOut, jcCount>>
-----------------------------------------------------------------------------
(* run_follow.                                                             *)

\* How many rows the first pass shows: the default is 10 without --since.
FollowTail(a) == CASE a.lines.kind = "all" -> Many
                   [] a.lines.kind \in {"head", "tail"} -> a.lines.n
                   [] OTHER -> IF a.since = None THEN 10 ELSE Many
FollowAll(a) == a.lines.kind = "all" \/ (a.lines.kind = "none" /\ a.since # None)

\* The first pass without a cursor: the last rows of the journal as it is.
FollowFirst ==
  /\ jcPc = "follow" /\ jcSeek = NoSeek /\ ~FollowAll(jcArgs)
  /\ \E rows \in {Walk(jcArgs, NoSeek, FALSE, 0, Rows).rows} :
     LET sel  == LastOf(rows, FollowTail(jcArgs))
         hits == SelectSeq(sel, Matches)
     IN /\ jcVisited' = IF rows = <<>> THEN None ELSE Last(rows)
        /\ jcSeen' = IF hits = <<>> THEN None ELSE Last(hits)
        /\ jcOut' = Printed(sel)
        /\ jcToWrite' = IF UpdatesFile(jcArgs) /\ jcSeen' # None THEN jcSeen' ELSE None
        /\ jcTrail' = Trailed(IF sel # <<>> THEN sel[1] - 1 ELSE jcVisited', jcOut')
        /\ jcPc' = IF jcToWrite' = None THEN "passed" ELSE "update_passed"
  /\ UNCHANGED <<jcEnv, jcFile, jcArgs, jcSeek, jcAt, jcCount>>

\* A pass from the last visited row, or from where the invocation started.
FollowPass ==
  /\ \/ jcPc = "follow" /\ (jcSeek # NoSeek \/ FollowAll(jcArgs))
     \/ jcPc = "sleep"
  /\ LET seek  == IF jcVisited # None THEN [cursor |-> jcVisited, after |-> TRUE] ELSE jcSeek
         start == StartRow(jcArgs, seek, FALSE).row
         lands == seek # NoSeek
         cross == start # None /\ ~lands /\ Crosses(jcArgs, start, FALSE)
     IN /\ jcAt' = IF cross THEN None ELSE start
        /\ jcPc' = IF jcAt' = None THEN "passed" ELSE "visit"
        /\ jcTrail' = IF jcPc = "follow" THEN Trailed(IF start = None THEN Len(jcLog) ELSE start - 1, <<>>) ELSE jcTrail
  /\ UNCHANGED <<jcEnv, jcFile, jcArgs, jcSeek, jcVisited, jcSeen, jcToWrite, jcOut, jcCount>>

\* The visitor: print, then the cursor file, then the next row.
FollowVisit ==
  /\ jcPc = "visit"
  /\ LET i == jcAt
         take == InBounds(jcArgs, i)
         hit  == take /\ Matches(i)
     IN /\ jcOut' = IF take THEN jcOut \o Printed(<<i>>) ELSE jcOut
        /\ jcSeen' = IF hit THEN i ELSE jcSeen
        /\ jcVisited' = IF take THEN i ELSE jcVisited
        /\ jcTrail' = IF take THEN Trailed(jcTrail.base, Printed(<<i>>)) ELSE jcTrail
        /\ jcToWrite' = IF hit /\ UpdatesFile(jcArgs) THEN i ELSE None
        /\ jcPc' = IF jcToWrite' = None THEN "next" ELSE "update_next"
  /\ UNCHANGED <<jcEnv, jcFile, jcArgs, jcSeek, jcAt, jcCount>>
FollowNext ==
  /\ jcPc = "next"
  /\ LET i == StepFrom(jcAt, FALSE)
         stop == i = None \/ Crosses(jcArgs, i, FALSE)
     IN jcAt' = (IF stop THEN None ELSE i) /\ jcPc' = IF stop THEN "passed" ELSE "visit"
  /\ UNCHANGED <<jcEnv, jcFile, jcArgs, jcSeek, jcVisited, jcSeen, jcToWrite, jcOut, jcCount, jcTrail>>

\* Rows that did not match are checkpointed at the end of a pass.
FollowPassed ==
  /\ jcPc = "passed"
  /\ IF UpdatesFile(jcArgs) /\ jcVisited # jcSeen
     THEN jcToWrite' = jcVisited /\ jcSeen' = jcVisited /\ jcPc' = IF jcVisited = None THEN "sleep" ELSE "update_sleep"
     ELSE UNCHANGED <<jcToWrite, jcSeen>> /\ jcPc' = "sleep"
  /\ UNCHANGED <<jcEnv, jcFile, jcArgs, jcSeek, jcVisited, jcAt, jcOut, jcCount, jcTrail>>

FollowUpdate ==
  /\ jcPc \in {"update_passed", "update_next", "update_sleep"}
  /\ jcFile' = jcToWrite /\ jcToWrite' = None
  /\ jcPc' = CASE jcPc = "update_passed" -> "passed" [] jcPc = "update_next" -> "next" [] OTHER -> "sleep"
  /\ UNCHANGED <<jcEnv, jcArgs, jcSeek, jcVisited, jcSeen, jcAt, jcOut, jcCount, jcTrail>>

FollowStep == FollowFirst \/ FollowPass \/ FollowVisit \/ FollowNext \/ FollowPassed \/ FollowUpdate
-----------------------------------------------------------------------------
AppendRow ==
  /\ Len(jcLog) < jcMenu.rows
  /\ \E r \in NewRows :
       jcLog' = Append(jcLog, [rt |-> r.dt + (IF jcLog = <<>> THEN 1 ELSE Last(jcLog).rt), msg |-> r.msg, ex |-> r.ex])
  /\ UNCHANGED <<jcGone, jcGrep, jcMenu, jcFile, jcPc, jcRun, jcTrail>>
VacuumRow ==
  /\ jcGone < MaxVacuums /\ jcGone < Len(jcLog) /\ jcAt # jcGone + 1
  /\ jcGone' = jcGone + 1
  /\ UNCHANGED <<jcLog, jcGrep, jcMenu, jcFile, jcPc, jcRun, jcTrail>>

JournalctlInit ==
  /\ jcMenu \in Sessions /\ jcLog = jcMenu.first /\ jcGone = 0 /\ jcGrep \in Greps
  /\ jcFile = NoFile /\ jcPc = "idle" /\ jcArgs = (CHOOSE a \in jcMenu.menu : TRUE)
  /\ jcSeek = NoSeek /\ jcVisited = None /\ jcSeen = None /\ jcAt = None /\ jcToWrite = None
  /\ jcOut = <<>> /\ jcCount = 0 /\ jcTrail = NoTrail
JournalctlNext ==
  \/ \E a \in jcMenu.menu : Start(a)
  \/ ShowEntries \/ WriteCursorFile \/ Kill
  \/ FollowStep
  \/ AppendRow \/ VacuumRow

\* journalctl --follow keeps polling until it is stopped.
JournalctlSpec == JournalctlInit /\ [][JournalctlNext]_jcVars /\ WF_jcVars(FollowStep)

-----------------------------------------------------------------------------
(* Properties.                                                             *)

\* run() without a cursor prints exactly what the options ask for: the
\* entries within --since and --until that match, all of them, the first N, or
\* the last N, in the order asked for.
ShowExact ==
  (jcPc = "show" /\ jcSeek = NoSeek) =>
    LET a == jcArgs
        in  == SelectSeq([k \in 1..(Len(jcLog) - jcGone) |-> jcGone + k], LAMBDA i : InBounds(a, i))
        hit == SelectSeq(in, Matches)
        n   == IF a.lines.kind \in {"head", "tail"} THEN a.lines.n ELSE Many
        firstN(s) == SubSeq(s, 1, IF n < Len(s) THEN n ELSE Len(s))
        lastN(s) == SubSeq(s, IF n < Len(s) THEN Len(s) - n + 1 ELSE 1, Len(s))
        want == CASE a.lines.kind = "head" -> firstN(hit)
                  [] a.lines.kind = "tail" -> lastN(hit)
                  [] OTHER -> hit
    IN Show(a, NoSeek).out = Printed(IF a.reverse \/ GrepReverse(a) THEN Reverse(want) ELSE want)

\* The cursor file never runs ahead of the output: every entry behind the
\* start of the first run and up to the cursor in the file was printed, unless
\* it does not match or was vacuumed, through kills, failed writes, lost file
\* contents and entries that are vacuumed under the cursor (runs forward
\* without --until and --lines=0, which checkpoint the row they stop at).
CursorFileNoSkip ==
  (jcTrail.on /\ jcTrail.pure /\ jcFile > 0) =>
    \A i \in 1..jcFile : i > jcTrail.base =>
      i \in jcTrail.printed \/ ~Matches(i) \/ Excluded(i) \/ i <= jcGone

\* ... and while nothing is killed or fails, no entry is printed twice.
CursorFileNoRepeat == (jcTrail.pure /\ jcTrail.smooth) => ~jcTrail.twice

Following == jcPc \notin {"idle", "show", "write"}
\* run_follow: an entry that matches and is appended while journalctl follows
\* is printed in the end, whatever was visited, vacuumed or skipped meanwhile.
FollowPrints ==
  \A i \in 1..MaxRows :
    (Following /\ i = Len(jcLog) /\ jcArgs.until = None /\ Matches(i) /\ ~Excluded(i)
       /\ jcVisited # None /\ jcVisited < i)
      ~> (~Following \/ i \in ToSet(jcOut) \/ i <= jcGone)

(***************************************************************************)
(* journalctl prints the rows its options name, and a chain of runs over   *)
(* one cursor file, killed and failed ones among them, skips no row and    *)
(* repeats none needlessly.                                                *)
(***************************************************************************)
ShowSound ==
  /\ ShowExact
  /\ CursorFileNoSkip
  /\ CursorFileNoRepeat
=============================================================================
