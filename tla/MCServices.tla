----------------------------- MODULE MCServices -----------------------------
(***************************************************************************)
(* Parts that do not act on each other, on small instances in one run: the *)
(* queries, the sealed writer, the file registry, and the timestamps,      *)
(* arguments and vacuuming of journalctl.  A behaviour exercises one part  *)
(* and leaves the others in an initial state.                              *)
(***************************************************************************)
EXTENDS Netdata, SealedWriter, FileRegistry, TimestampParse, CommandLine,
        JournalctlVacuum, TLC

-----------------------------------------------------------------------------
\* Queries.
Auto == [kind |-> "auto", at |-> 0]
At(t) == [kind |-> "realtime", at |-> t]
NoSampling == [budget |-> 0, files |-> 0, head |-> 0, tail |-> 0, headSeq |-> 0, tailSeq |-> 0, entries |-> 0]
OfRows(rows, budget) ==
    [budget |-> budget, files |-> 1, head |-> HeadTime(rows), tail |-> TailTime(rows),
     headSeq |-> 1, tailSeq |-> Len(rows), entries |-> Len(rows)]

E(t, q, d) == [t |-> t, q |-> q, d |-> d]

\* Two fields, a repeated field, a late source time, an unreadable one.
Mixed == <<E(10, 1, <<<<"a", 1>>, <<"b", 1>>>>), E(11, 2, <<<<"a", 2>>, <<"a", 1>>, <<Source, 10>>>>),
           E(12, 3, <<<<"b", 2>>, <<Source, Unparsed>>>>), E(13, 4, <<<<"a", 1>>, <<"b", 2>>, <<Source, 12>>>>)>>
Plain == [i \in 1..7 |-> E(9 + i, i, <<<<"a", 1 + (i % 2)>>>>)]

Base == [after |-> NoTime, before |-> NoTime, anchor |-> Auto, forward |-> TRUE, limit |-> 2,
         filters |-> <<>>, facets |-> <<>>, hist |-> NoField, histAfter |-> NoTime, histBefore |-> NoTime,
         buckets |-> 2, fts |-> <<>>, first |-> TRUE, exclude |-> FALSE, useSource |-> TRUE, slack |-> 1,
         stopFull |-> FALSE, every |-> 1, sampling |-> NoSampling]

Ranges == {<<NoTime, NoTime>>, <<11, NoTime>>, <<10, 12>>}
Filters == {<<>>, ("a" :> {1}), ("a" :> {1} @@ "b" :> {2})}
Term(vals, neg) == [values |-> vals, neg |-> neg]

TraversalQueries ==
    {[Base EXCEPT !.after = r[1], !.before = r[2], !.forward = fw, !.filters = fl, !.facets = fc,
                  !.hist = h, !.exclude = ex, !.fts = ft, !.first = fv] :
       r \in Ranges, fw \in BOOLEAN, fl \in Filters, fc \in {<<>>, <<"a", "b">>}, h \in {NoField, "a"},
       ex \in BOOLEAN, ft \in {<<>>, <<Term({2}, TRUE), Term({1}, FALSE)>>}, fv \in BOOLEAN}
AnchoredQueries ==
    {[Base EXCEPT !.anchor = a, !.forward = fw, !.stopFull = full, !.limit = n, !.after = af] :
       a \in {Auto, At(11), [kind |-> "head", at |-> 0], [kind |-> "tail", at |-> 0]},
       fw \in {TRUE}, full \in BOOLEAN, n \in {0, 1, 2}, af \in {NoTime, 11}}
IndexQueries ==
    {[Base EXCEPT !.after = r[1], !.before = r[2], !.forward = fw, !.filters = fl, !.facets = <<"a", "b">>,
                  !.hist = h, !.exclude = ex, !.first = FALSE, !.useSource = FALSE, !.limit = 1] :
       r \in Ranges, fw \in BOOLEAN, fl \in Filters, h \in {NoField, "a"}, ex \in BOOLEAN}
SampledQueries ==
    {[Base EXCEPT !.after = 10, !.before = 17, !.forward = fw, !.hist = h, !.facets = <<"a">>,
                  !.limit = n, !.sampling = OfRows(Plain, b)] :
       fw \in BOOLEAN, h \in {NoField, "a"}, n \in {1, 2}, b \in {1, 4}}

MCExplorations ==
    {Exploration(Mixed, q, "traversal", <<>>, <<>>) : q \in TraversalQueries \cup AnchoredQueries}
    \cup {Exploration(Mixed, q, "index", <<>>, <<>>) : q \in IndexQueries}
    \cup {Exploration(Plain, q, "traversal", <<>>, <<>>) : q \in SampledQueries}

-----------------------------------------------------------------------------
JFile(rows) == [rows |-> rows, open |-> TRUE, mtime |-> 17, src |-> 1]
Rows(times, v) == [i \in DOMAIN times |-> E(times[i], i, <<<<"a", v>>, <<"b", i>>>>)]

\* Files one after the other, files that share a time, one inside the other, and
\* a row whose source time is further away than the default slack.
Apart == <<JFile(Rows(<<10, 11, 12>>, 1)), JFile(Rows(<<14, 16>>, 2))>>
Shared == <<JFile(Rows(<<10, 13>>, 1)), [JFile(Rows(<<13, 15>>, 1)) EXCEPT !.src = 2],
            [JFile(<<>>) EXCEPT !.open = FALSE, !.mtime = 14]>>
Nested == <<JFile(Rows(<<10, 15>>, 1)), JFile(<<E(14, 1, <<<<"a", 1>>, <<Source, 13>>>>)>>)>>
Late == <<JFile(<<E(11, 1, <<<<"a", 1>>>>), E(14, 2, <<<<"a", 1>>, <<Source, 12>>>>)>>)>>

Raw == [after |-> 0, before |-> 0, anchor |-> 0, forward |-> FALSE, last |-> 2, dataOnly |-> TRUE,
        delta |-> FALSE, tail |-> FALSE, since |-> 0, sampling |-> 0, sources |-> {}, filters |-> <<>>,
        facets |-> <<>>, hist |-> NoField, fts |-> <<>>]
Full == [Raw EXCEPT !.dataOnly = FALSE, !.facets = <<"a", "b">>, !.hist = "a"]

MCRequests ==
    {Raw, [Raw EXCEPT !.forward = TRUE], [Raw EXCEPT !.last = 1, !.after = -3, !.before = -1],
     Full, [Full EXCEPT !.forward = TRUE, !.hist = NoField, !.fts = <<Term({2}, TRUE)>>],
     [Full EXCEPT !.hist = NoField, !.filters = ("a" :> {1}), !.sources = {1}],
     [Raw EXCEPT !.delta = TRUE, !.facets = <<"a">>],
     [Raw EXCEPT !.tail = TRUE, !.since = 14, !.anchor = 12],
     [Raw EXCEPT !.since = 17]}
MCDirectories == {Apart, Shared, Nested, Late}
MCDurations == <<1, 2, 4>>

-----------------------------------------------------------------------------
\* Sealing.
MCDetRandomize == <<12, 25, 19>>
MCBases == <<2, 3, 5, 7>>
MCFields == {"a1", "a2", "b1"}
MCNameOf == [a1 |-> "a", a2 |-> "a", b1 |-> "b"]
MCEntryFields == {<<"a1", "b1">>, <<"a2">>}

-----------------------------------------------------------------------------
\* The registry.
J == <<"j">>
M == <<"j", "m">>
N == <<"j", "m.n">>
P(dir, base, form, time) == [dir |-> dir, base |-> base, form |-> form, id |-> 1, seq |-> time, time |-> time]
A1 == P(M, "system", "archive", 10)
A2 == P(M, "system", "archive", 20)
A0 == P(M, "system", "plain", 0)
D1 == P(M, "system", "tilde", 5)
U0 == P(N, "user-1", "plain", 0)
BAD == P(M, "system", "other", 0)
\* the other root, with a file in a subdirectory that is no machine's
K == <<"k">>
K1 == [A1 EXCEPT !.dir = <<"k", "s">>]
MCPaths == {A1, A2, A0, D1, U0, BAD, K1}
MCExtents == A1 :> <<10, 19>> @@ A2 :> <<20, 28>> @@ K1 :> <<10, 19>>
MCNamespaces == "m.n" :> <<"m", "n">>
\* files that are archived, disposed of and indexed; other kinds of names; files
\* that move between two roots; and one root watched, unwatched and watched
May(changes, calls, indexed, repeats, paths, roots) ==
  [changes |-> changes, calls |-> calls, indexed |-> indexed, repeats |-> repeats, paths |-> paths, roots |-> roots]
MCRegistrySetups ==
  {[disk |-> d, left |-> May(3, 1, 1, 1, {A1, A2, A0, D1}, {J})] : d \in {{A1, A0}, {A1, A2}}}
  \cup {[disk |-> {A1, A2, A0, D1}, left |-> May(3, 1, 2, 0, {A2, A0}, {J})]}
  \cup {[disk |-> {U0, A0}, left |-> May(2, 2, 0, 1, {U0, BAD}, {J})]}
  \cup {[disk |-> d, left |-> May(2, 3, 1, 0, {A1, K1}, {J, K})] : d \in {{A1}, {K1}}}
  \cup {[disk |-> d, left |-> May(3, 3, 0, 1, {A0}, {J})] : d \in {{}, {A0}}}

-----------------------------------------------------------------------------
\* Timestamps.
Kind(off, dst, name) == [off |-> off, dst |-> dst, name |-> name]
Shift(at, kind) == [at |-> at, kind |-> kind]
Zone(from, kinds, trans, leaps, footer, names) ==
    [file |-> from, kinds |-> kinds, trans |-> trans, leaps |-> leaps, footer |-> footer,
     footerNames |-> [d \in 0..1 |-> names[d + 1]]]

\* A summer time in two years, with and without a footer.
Summer == Zone("summer", <<Kind(-6, 0, "STD"), Kind(0, 1, "DST")>>,
               <<Shift(15, 2), Shift(36, 1), Shift(52, 2), Shift(66, 1)>>, <<>>, 0, <<"", "">>)
Footed == Zone("footed", <<Kind(6, 0, "STD"), Kind(12, 1, "DST")>>,
               <<Shift(15, 2), Shift(36, 1)>>, <<>>, 1, <<"STD", "XST">>)
\* A new standard offset under a new name, and a zone of leap seconds.
Moved  == Zone("moved", <<Kind(4, 0, "OLD"), Kind(9, 0, "NEW"), Kind(12, 1, "DST")>>,
               <<Shift(20, 2), Shift(40, 3), Shift(55, 2)>>, <<>>, 0, <<"", "">>)
Leaped == Zone("leaped", <<Kind(3, 0, "LEAP")>>, <<>>,
               <<[at |-> 18, correction |-> 1], [at |-> 40, correction |-> 2],
                 [at |-> 56, correction |-> 1]>>, 0, <<"", "">>)

\* A zone of one kind.
Fixed  == Zone("fixed", <<Kind(0, 0, "STD")>>, <<>>, <<>>, 0, <<"", "">>)

MCZones == {Fixed, Summer, Footed, Moved, Leaped}

Amount(whole, digits, unit) == [whole |-> whole, digits |-> digits, unit |-> unit]
Value(body, arg, zone) ==
    [zone |-> zone, body |-> body, arg |-> arg, terms |-> <<>>, extra |-> 0, offset |-> 0,
     abbr |-> "", named |-> Leaped, wrongDay |-> FALSE]
Relative(body, terms) == [Value(body, 0, "none") EXCEPT !.terms = terms]

MCValues ==
    {Value("full", c, zone) : c \in {5, 17, 31, 39, 54}, zone \in {"none", "utc"}}
        \cup {[Value("full", c, "abbr") EXCEPT !.abbr = a] :
                 c \in {17, 39, 54}, a \in {"STD", "DST", "OLD", "NEW"}}
        \cup {[Value("full", c, "named") EXCEPT !.named = z] : c \in {17}, z \in MCZones}
        \cup {[Value("full", 30, "offset") EXCEPT !.offset = o] : o \in {-6, 6}}
        \cup {Value(body, 0, "none") : body \in {"now", "today", "yesterday", "tomorrow"}}
        \cup {Value("clock", 7, "none"), Value("date", 4, "none"), Value("clock", 7, "z"),
              Value("now", 0, "z"), Value("now", 0, "other"),
              [Value("full", 17, "none") EXCEPT !.wrongDay = TRUE],
              [Value("full", 20, "none") EXCEPT !.extra = 1]}
        \cup {Relative(body, <<Amount(w, d, 10), Amount(2, <<>>, 1)>>) :
                 body \in {"epoch"}, w \in {5, 25, 26}, d \in {<<>>, <<3, 7>>}}
        \cup {Relative(body, <<Amount(w, <<>>, 1)>>) : body \in {"ago", "left"}, w \in {7, 60}}

-----------------------------------------------------------------------------
\* Arguments.
Arg(name, inline, value) == [name |-> name, inline |-> inline, value |-> value]

MCTokens ==
    {Arg(o, FALSE, 0) : o \in {"rotate", "header", "fields", "merge", "follow",
                               "boot", "lines", "since", "--", "help"}}
        \cup {Arg(o, TRUE, 1) : o \in {"directory", "verify-key", "vacuum-size",
                                       "vacuum-time", "until", "header"}}
        \cup {Arg("since", TRUE, 2), Arg("until", TRUE, Bad), Arg("", FALSE, 1)}

-----------------------------------------------------------------------------
\* Vacuuming.
NoStamps == [modified |-> 9, accessed |-> 9, created |-> 1, changed |-> 9]

MCVacFile(k, h, id, seq, rt, crt) ==
  [kind |-> k, holds |-> h, seqid |-> id, seqnum |-> seq, realtime |-> rt,
   crtime |-> crt, usage |-> 2, stamps |-> NoStamps]

MCVaries ==
  {MCVacFile("archived", "entries", id, seq, rt, 0) :
     id \in {1, 2}, seq \in {1, 3}, rt \in {5}}
  \cup {MCVacFile("disposed", "entries", 0, 0, rt, crt) : rt \in {4}, crt \in {0, 2}}
  \cup {[MCVacFile("archived", "entries", 1, 3, 5, 3) EXCEPT !.usage = 1],
        [MCVacFile("archived", "entries", 2, 1, 6, 0) EXCEPT
           !.stamps = [NoStamps EXCEPT !["accessed"] = 3, !["created"] = 2]]}

MCVacLast == {MCVacFile("archived", "entries", 2, 3, 3, 0),
              [MCVacFile("archived", "entries", 1, 3, 5, 3) EXCEPT !.usage = 1],
              MCVacFile("disposed", "entries", 0, 0, 4, 2)}

MCVacOpts ==
  {[use |-> 7, files |-> 0, retention |-> 0],
   [use |-> 0, files |-> 4, retention |-> 0],
   [use |-> 0, files |-> 0, retention |-> 6],
   [use |-> 10, files |-> 5, retention |-> 7]}

MCVacOdd == 2 :> MCVacFile("odd", "entries", 0, 0, 0, 0)
            @@ 3 :> MCVacFile("archived", "nothing", 1, 1, 2, 0)
            @@ 4 :> MCVacFile("disposed", "unreadable", 0, 0, 2, 0)
            @@ 10 :> MCVacFile("other", "entries", 0, 0, 0, 0)

MCVacFixed(a, b, c) ==
  1 :> MCVacFile("active", "entries", 0, 0, 0, 0)
  @@ 7 :> MCVacFile("archived", "entries", 1, 4, 6, 0)
  @@ 5 :> MCVacFile("archived", "entries", 1, 2, 3, 0)
  @@ 6 :> a @@ 8 :> b @@ 9 :> c

MCEmptyDirectory ==
  [files |-> <<>>, listing |-> <<>>, rotated |-> <<>>, now |-> 10,
   opts |-> [use |-> 7, files |-> 0, retention |-> 0]]

MCVacuumSetups ==
  {MCEmptyDirectory}
  \cup
  {[files |-> MCVacFixed(a, b, c), listing |-> <<1, 5, 6, 8, 9>>,
    rotated |-> 1 :> 7, opts |-> o, now |-> 10] :
     a \in MCVaries, b \in MCVaries, c \in MCVacLast, o \in MCVacOpts}
  \cup
  {[files |-> MCVacFixed(a, a, b) @@ MCVacOdd, listing |-> l,
    rotated |-> 1 :> 7, opts |-> o, now |-> 10] :
     a \in MCVaries, b \in MCVaries, o \in MCVacOpts,
     l \in {<<5, 2, 3, 8, 4, 6, 9, 10, 1>>}}

-----------------------------------------------------------------------------
VARIABLE part  \* the part this behaviour exercises

QueryIdle == nd = Idle(Late) /\ x = NoExploration
RegistryIdle == rgDisk = {} /\ RegistryInit
TimesIdle == tsZone = ReadZone(Fixed) /\ TsInit
VacuumIdle == vcFile = MCEmptyDirectory.files /\ VacuumInit

ServicesInit ==
  /\ SealInit /\ ClInit
  /\ \/ part = "query" /\ RegistryIdle /\ TimesIdle /\ VacuumIdle /\ QueryInit
     \/ part \in {"seal", "arguments"} /\ QueryIdle /\ RegistryIdle /\ TimesIdle /\ VacuumIdle
     \/ part = "registry" /\ QueryIdle /\ TimesIdle /\ VacuumIdle /\ RegistryInit
     \/ part = "times" /\ QueryIdle /\ RegistryIdle /\ VacuumIdle /\ TsInit
     \/ part = "vacuum" /\ QueryIdle /\ RegistryIdle /\ TimesIdle /\ VacuumInit

ServicesNext ==
  /\ \/ part = "query" /\ QueryNext /\ UNCHANGED <<svars, rgVars, tsVars, clVars, vacuumVars>>
     \/ part = "seal" /\ SealNext /\ UNCHANGED <<nd, x, rgVars, tsVars, clVars, vacuumVars>>
     \/ part = "registry" /\ RegistryNext /\ UNCHANGED <<nd, x, svars, tsVars, clVars, vacuumVars>>
     \/ part = "times" /\ Parse /\ UNCHANGED <<nd, x, svars, rgVars, clVars, vacuumVars>>
     \/ part = "arguments" /\ ClNext /\ UNCHANGED <<nd, x, svars, rgVars, tsVars, vacuumVars>>
     \/ part = "vacuum" /\ VacuumNext /\ UNCHANGED <<nd, x, svars, rgVars, tsVars, clVars>>
  /\ UNCHANGED part

ServicesSpec ==
  ServicesInit /\ [][ServicesNext]_<<part, nd, x, svars, rgVars, tsVars, clVars, vacuumVars>>

(***************************************************************************)
(* What journalctl makes of its arguments: times and durations denote what *)
(* they say in the zone in force, also when a value parsed before left its *)
(* guess, and of options that exclude each other the last one counts.      *)
(***************************************************************************)
ArgumentsExact ==
  /\ DurationExact
  /\ InverseExact
  /\ AbbreviationExact
  /\ DisplayReparsed
  /\ DispatchLastAction
  /\ BoundsLast
=============================================================================
