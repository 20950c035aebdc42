------------------------------ MODULE MCTools ------------------------------
(***************************************************************************)
(* What journalctl selects and shows, and the engine that answers queries  *)
(* from cached file indexes, on small instances.  A behaviour exercises    *)
(* one part and leaves the others in an initial state.                     *)
(***************************************************************************)
EXTENDS JournalctlShow, JournalctlSelect, QueryEngine, TLC

-----------------------------------------------------------------------------
\* Showing.
NoLines == [kind |-> "none", n |-> 0]
All == [kind |-> "all", n |-> 0]
HeadOf(n) == [kind |-> "head", n |-> n]
TailOf(n) == [kind |-> "tail", n |-> n]
NoCursor == [kind |-> "none", id |-> 0]
AtCursor(i) == [kind |-> "at", id |-> i]
AfterCursor(i) == [kind |-> "after", id |-> i]
CursorFile == [kind |-> "file", id |-> 0]
Inv(lines, reverse, follow, since, until, cursor, pager_end) ==
  [lines |-> lines, reverse |-> reverse, follow |-> follow, since |-> since, until |-> until,
   cursor |-> cursor, pager_end |-> pager_end]
Shows ==
  {Inv(lines, reverse, FALSE, since, until, NoCursor, FALSE) :
     lines \in {All, HeadOf(2), TailOf(2)}, reverse \in BOOLEAN, since \in {0, 2}, until \in {0, 3}}
  \cup {Inv(NoLines, r, FALSE, 0, 0, NoCursor, TRUE) : r \in BOOLEAN}
  \cup {Inv(TailOf(1), TRUE, FALSE, 0, 0, AfterCursor(2), FALSE), Inv(NoLines, FALSE, FALSE, 0, 2, AtCursor(2), TRUE)}
Checkpoints ==
  {Inv(lines, FALSE, FALSE, 0, 0, CursorFile, FALSE) : lines \in {NoLines, HeadOf(1), TailOf(2), TailOf(0)}}
  \cup {Inv(TailOf(1), TRUE, FALSE, 0, 0, CursorFile, FALSE), Inv(TailOf(1), FALSE, FALSE, 0, 2, CursorFile, FALSE),
        Inv(NoLines, FALSE, FALSE, 0, 0, CursorFile, TRUE), Inv(TailOf(1), FALSE, TRUE, 0, 0, CursorFile, FALSE)}
Follows ==
  {Inv(TailOf(n), FALSE, TRUE, 0, 0, CursorFile, FALSE) : n \in {0, 1}}
  \cup {Inv(All, FALSE, TRUE, 0, 0, CursorFile, FALSE), Inv(NoLines, FALSE, TRUE, 2, 0, NoCursor, FALSE),
        Inv(NoLines, FALSE, TRUE, 0, 2, NoCursor, FALSE)}
Row(t, m, x) == [rt |-> t, msg |-> m, ex |-> x]
Short == <<Row(1, TRUE, FALSE), Row(2, FALSE, FALSE)>>
Even == <<Row(1, TRUE, FALSE), Row(2, FALSE, FALSE), Row(3, TRUE, FALSE)>>
Ties == <<Row(2, TRUE, FALSE), Row(2, TRUE, TRUE), Row(4, TRUE, FALSE)>>
Session(menu, calls, first, grows) == [menu |-> menu, calls |-> calls, first |-> first, rows |-> Len(first) + grows]
MCSessions == {Session(Shows, 1, <<>>, 1), Session(Shows, 1, Even, 1), Session(Shows, 1, Ties, 1),
               Session(Checkpoints, 2, <<>>, 1), Session(Checkpoints, 2, Even, 1), Session(Checkpoints, 3, Short, 0),
               Session(Follows, 2, <<>>, 2), Session(Follows, 2, Short, 1), Session(Follows, 1, Ties, 1)}
MCNewRows == {[dt |-> 1, msg |-> TRUE, ex |-> FALSE], [dt |-> 0, msg |-> FALSE, ex |-> FALSE]}

-----------------------------------------------------------------------------
\* Selecting.
MCSelArgs ==
  [boot |-> <<>>, dmesg |-> FALSE, follow |-> FALSE, units |-> {}, userUnits |-> {},
   user |-> FALSE, priority |-> <<>>, idents |-> {}, facilities |-> {}, matches |-> <<>>,
   invocation |-> <<>>, invUnit |-> "u", lines |-> [k |-> "all", n |-> 0]]

MCSelRow(b, pairs, ids) ==
  [boot |-> b, ids |-> ids,
   pairs |-> pairs \cup (IF b = 0 THEN {} ELSE {<<"_BOOT_ID", b>>})
             \cup {<<InvocationFields[i], ids[i].id>> :
                     i \in {j \in DOMAIN ids : ids[j].plain}}]

\* rows of the invocation tasks: unit u or v, one or two invocation ids, odd
\* spelling, boots 1 and 2
MCPlain(i) == [id |-> i, plain |-> TRUE]
MCInvRows(b) ==
  {MCSelRow(b, {<<"_SYSTEMD_UNIT", "u">>}, <<MCPlain(i)>>) : i \in 1..3}
  \cup {MCSelRow(b, {<<"_SYSTEMD_UNIT", "v">>}, <<MCPlain(1)>>),
        MCSelRow(b, {<<"_UID", 0>>, <<"OBJECT_SYSTEMD_UNIT", "u">>}, <<MCPlain(4), MCPlain(2)>>),
        MCSelRow(b, {<<"_SYSTEMD_UNIT", "u">>}, <<>>),
        MCSelRow(b, {<<"_SYSTEMD_UNIT", "u">>}, <<[id |-> 3, plain |-> FALSE]>>)}

\* journals of one boot, and journals that go on into a second boot
MCInvJournals ==
  {<<a, b, c, d>> : a \in MCInvRows(1), b \in MCInvRows(1), c \in MCInvRows(1),
                    d \in {MCSelRow(1, {<<"_SYSTEMD_UNIT", "u">>}, <<MCPlain(i)>>) : i \in 1..2}}
  \cup {<<a, b, c>> : a \in MCInvRows(1), b \in MCInvRows(2), c \in MCInvRows(2)}

MCLines == {[k |-> "all", n |-> 0], [k |-> "head", n |-> 2], [k |-> "tail", n |-> 2]}

MCInvSetups ==
  {[task |-> "invocations", journals |-> MCInvJournals,
    later |-> {<<>>, <<MCSelRow(2, {<<"_SYSTEMD_UNIT", "u">>}, <<MCPlain(2)>>)>>},
    args |-> {[MCSelArgs EXCEPT !.lines = n] : n \in MCLines}],
   [task |-> "invocations", journals |-> MCInvJournals, later |-> {<<>>},
    args |-> {[MCSelArgs EXCEPT !.boot = <<[id |-> 0, off |-> 0]>>]}],
   [task |-> "show", journals |-> MCInvJournals, later |-> {<<>>},
    args |-> {[MCSelArgs EXCEPT !.invocation = <<[id |-> i, off |-> o]>>] :
                i \in {0, 2}, o \in {-1, 0, 1}}]}

MCBootSetups ==
  {[task |-> t, later |-> {<<MCSelRow(3, {}, <<>>)>>},
    journals |-> [1..4 -> {MCSelRow(b, {}, <<>>) : b \in 0..2}
                          \cup {[boot |-> 3, ids |-> <<>>, pairs |-> {}]}],
    args |-> {[MCSelArgs EXCEPT !.lines = n, !.boot = d] : n \in MCLines,
                d \in {<<[id |-> i, off |-> o]>> : i \in {0, 2}, o \in {-1, 1}}}] :
     t \in {"boots", "show"}}

MCUnitPairs == <<{<<"_SYSTEMD_UNIT", "u">>}, {<<"_SYSTEMD_UNIT", "v">>, <<"_UID", 0>>},
     {<<"_SYSTEMD_SLICE", "s">>}, {<<"UNIT", "u">>},
     {<<"_SYSTEMD_CGROUP", "/init.scope">>, <<"UNIT", "u">>},
     {<<"_UID", 0>>, <<"OBJECT_SYSTEMD_UNIT", "v">>},
     {<<"_UID", 0>>, <<"OBJECT_SYSTEMD_USER_UNIT", "v">>},
     {<<"_UID", 0>>, <<"USER_UNIT", "u">>},
     {<<"_UID", 7>>, <<"USER_UNIT", "u">>, <<"PRIORITY", 2>>},
     {<<"_UID", 7>>, <<"_SYSTEMD_USER_SLICE", "s">>, <<"PRIORITY", 4>>},
     {<<"MESSAGE_ID", "coredump">>, <<"COREDUMP_UNIT", "u">>, <<"PRIORITY", 2>>},
     {<<"_TRANSPORT", "kernel">>, <<"SYSLOG_FACILITY", 3>>},
     {<<"SYSLOG_IDENTIFIER", "i">>, <<"PRIORITY", 4>>, <<"_SYSTEMD_UNIT", "u">>},
     {<<"SYSLOG_IDENTIFIER", "j">>, <<"SYSLOG_FACILITY", 3>>}>>
MCUnitRows == [i \in 1..(2 * Len(MCUnitPairs)) |->
                 MCSelRow(1 + (i % 2), MCUnitPairs[(i + 1) \div 2], <<>>)]

MCName(u) == [glob |-> FALSE, names |-> {u}]
MCGlob == [glob |-> TRUE, names |-> {"v", "s", "w"}]
MCTerms == {<<>>, <<<<"_UID", 0>>>>, <<<<"_UID", 0>>, <<"PRIORITY", 2>>, <<"_UID", 7>>>>,
            <<<<"_UID", 0>>, <<"+">>, <<"PRIORITY", 4>>, <<"SYSLOG_IDENTIFIER", "i">>>>,
            <<<<"+">>, <<"_UID", 0>>>>}

MCShowArgs ==
  {[MCSelArgs EXCEPT !.units = u, !.userUnits = x, !.user = s, !.matches = m, !.follow = f] :
     u \in {{}, {MCName("u")}, {MCName("s"), MCGlob}}, x \in {{}, {MCName("s")}, {MCGlob}},
     s \in BOOLEAN, m \in MCTerms, f \in BOOLEAN}
  \cup
  {[MCSelArgs EXCEPT !.dmesg = d, !.idents = i, !.priority = p, !.facilities = f, !.matches = m] :
     d \in BOOLEAN, i \in {{}, {"i", "j"}}, p \in {<<>>, <<3>>, <<4, 2>>}, f \in {{}, {3}},
     m \in MCTerms}

MCShowSetups ==
  {[task |-> "show", journals |-> {MCUnitRows}, args |-> MCShowArgs,
    later |-> {<<MCSelRow(3, {<<"_SYSTEMD_UNIT", "w">>, <<"_UID", 0>>}, <<>>)>>}]}

MCSelectSetups == MCInvSetups \cup MCBootSetups \cup MCShowSetups

-----------------------------------------------------------------------------
\* Indexing and querying.
Ent(rt, s, vals) == [rt |-> rt, src |-> s, vals |-> vals]
File(n, online, entries) ==
  [exists |-> TRUE, online |-> online, entries |-> entries, linked |-> Len(entries), open |-> {},
   tail |-> Len(entries), sdk |-> FALSE, gen |-> n]
x1 == <<1, 1>>
x2 == <<1, 2>>
y1 == <<2, 1>>
Overlapping ==
  1 :> File(1, FALSE, <<Ent(2, 0, {x1}), Ent(7, 0, {x1, y1}), Ent(8, 0, {x2})>>) @@
  2 :> File(2, FALSE, <<Ent(4, 0, {x2, y1}), Ent(5, 0, {x1})>>) @@
  3 :> File(3, TRUE, <<Ent(3, 0, {x1, y1}), Ent(9, 0, {x2})>>)
\* one after the other, source timestamps out of order, one missing
Successive ==
  1 :> File(1, FALSE, <<Ent(4, 3, {x1}), Ent(4, 2, {y1}), Ent(5, 0, {x1, y1})>>) @@
  2 :> File(2, FALSE, <<Ent(8, 7, {x1}), Ent(8, 6, {x2})>>) @@
  3 :> File(3, TRUE, <<Ent(11, 9, {x2}), Ent(11, 8, {x1, y1})>>)
\* a source timestamp that is no number
Unreadable ==
  1 :> File(1, FALSE, <<Ent(3, -1, {x1}), Ent(4, 2, {y1})>>) @@
  3 :> File(3, TRUE, <<Ent(6, 5, {x1})>>)
\* the active file of journald, and of the Writer of this repository
Growing == 3 :> File(3, TRUE, <<Ent(4, 4, {x1}), Ent(6, 0, {y1})>>)
OwnGrowing == 3 :> [Growing[3] EXCEPT !.sdk = TRUE]
\* active, found offline: a flush is going on
Flushed == 3 :> File(3, FALSE, <<Ent(4, 0, {x1})>>)
Archived == 1 :> File(1, FALSE, <<Ent(1, 0, {x1})>>)
MCSetups ==
  {[src |-> FALSE, growth |-> 0, asks |-> "pages", files |-> Overlapping],
   [src |-> TRUE, growth |-> 0, asks |-> "pages", files |-> Successive],
   [src |-> TRUE, growth |-> 0, asks |-> "pages", files |-> Unreadable],
   [src |-> TRUE, growth |-> 0, asks |-> "buckets", files |-> Successive],
   [src |-> TRUE, growth |-> 1, asks |-> "few", files |-> Growing],
   [src |-> TRUE, growth |-> 1, asks |-> "few", files |-> OwnGrowing],
   [src |-> FALSE, growth |-> 1, asks |-> "few", files |-> Growing @@ Archived],
   [src |-> FALSE, growth |-> 1, asks |-> "few", files |-> Flushed]}
MCNewEntries == {Ent(6, 0, {x2}), Ent(7, 3, {x1, y1})}
MCDurations == <<1, 2>>
MCRanges == {<<0, 5>>, <<0, 6>>}
MCFacetLists == {<<2, 1, 2>>, <<>>}
Q(anchor, forward, limit, filter, after, before, regex) ==
  [anchor |-> anchor, forward |-> forward, limit |-> limit, filter |-> filter, after |-> after, before |-> before,
   regex |-> regex, src |-> TRUE, resume |-> 0]
MCQueries == {
  Q(HeadAnchor, TRUE, 3, Unfiltered, -1, -1, <<>>), Q(TailAnchor, FALSE, 2, Unfiltered, -1, -1, <<>>),
  Q(HeadAnchor, TRUE, -1, Unfiltered, 3, 8, <<>>), Q(4, TRUE, 1, MatchPair(x1), -1, -1, <<>>),
  Q(8, FALSE, 2, FilterOr(<<MatchPair(x2), FilterNone, MatchField(2)>>), -1, 9, <<>>),
  Q(TailAnchor, FALSE, 1, FilterAnd(<<MatchPair(x1), FilterAnd(<<MatchPair(y1), MatchField(1)>>)>>), 3, -1, <<>>),
  Q(5, TRUE, 2, Unfiltered, -1, 9, <<{y1, x2}>>), Q(HeadAnchor, TRUE, 0, Unfiltered, -1, -1, <<>>),
  Q(HeadAnchor, TRUE, 2, Unfiltered, 5, 5, <<>>), Q(3, FALSE, 2, FilterNone, -1, -1, <<>>)}
MCHistFilters == {FilterNone, MatchPair(x1), FilterOr(<<MatchPair(x2), MatchPair(y1)>>)}
MCAsks == [
  pages |-> [ranges |-> {<<0, 5>>}, lists |-> MCFacetLists, queries |-> MCQueries, filters |-> {}, batches |-> 1],
  buckets |-> [ranges |-> MCRanges, lists |-> {<<2, 1, 2>>}, queries |-> {}, filters |-> MCHistFilters, batches |-> 2],
  few |-> [ranges |-> {<<0, 5>>}, lists |-> {<<1, 2>>},
           queries |-> {Q(HeadAnchor, TRUE, 2, Unfiltered, -1, -1, <<>>)},
           filters |-> {MatchPair(x1)}, batches |-> 2]]

-----------------------------------------------------------------------------
VARIABLE tool  \* the part this behaviour exercises

ShowIdle == jcMenu = Session(Shows, 1, Even, 1) /\ jcGrep = FALSE /\ JournalctlInit
SelectIdle ==
  /\ seTask = "boots" /\ seRows = [i \in 1..4 |-> MCSelRow(1, {}, <<>>)]
  /\ seArgs = [MCSelArgs EXCEPT !.boot = <<[id |-> 0, off |-> 1]>>]
  /\ SelectInit
EngineIdle == asks = "pages" /\ src = FALSE /\ EngineInit

ToolsInit ==
  \/ tool = "show" /\ SelectIdle /\ EngineIdle /\ JournalctlInit
  \/ tool = "select" /\ ShowIdle /\ EngineIdle /\ SelectInit
  \/ tool = "engine" /\ ShowIdle /\ SelectIdle /\ EngineInit

ToolsNext ==
  /\ \/ tool = "show" /\ JournalctlNext /\ UNCHANGED <<selectVars, evars>>
     \/ tool = "select" /\ SelectNext /\ UNCHANGED <<jcVars, evars>>
     \/ tool = "engine" /\ EngineNext /\ UNCHANGED <<jcVars, selectVars>>
  /\ UNCHANGED tool

toolVars == <<tool, jcVars, selectVars, evars>>

\* journalctl --follow keeps polling until it is stopped.
ToolsSpec == ToolsInit /\ [][ToolsNext]_toolVars /\ WF_jcVars(FollowStep)

\* The engine alone.
EngineSpec ==
  /\ tool = "engine" /\ ShowIdle /\ SelectIdle /\ EngineInit
  /\ [][ToolsNext]_toolVars
=============================================================================
