------------------------- MODULE JournalctlSelect -------------------------
(***************************************************************************)
(* What a journalctl command selects (cmd/journalctl/main.rs,              *)
(* invocation.rs): the boots and invocations it lists, the descriptors     *)
(* that name one of them by offset, and the matches it hands to the reader *)
(* for boots, units, identifiers, priorities, facilities and FIELD=VALUE   *)
(* terms.  The journal is a sequence of entries in time order, and a       *)
(* writer may append to it while the command runs.                         *)
(*                                                                         *)
(*   entry : [boot, pairs, ids]                                            *)
(*     boot   the boot id of the entry object                              *)
(*     pairs  its fields, as a set of <<field, value>>                     *)
(*     ids    its invocation fields in order of preference, each           *)
(*            [id, plain]: plain when written as the 32 lower case digits  *)
(*            a match looks for                                            *)
(***************************************************************************)
EXTENDS Integers, FiniteSets, FiniteSetsExt, SequencesExt

CONSTANTS
  SelectSetups,  \* families of commands: [task, journals, later, args]
  Slices,        \* unit names that end in ".slice"
  OwnUid         \* the user journalctl runs as

VARIABLES
  seRows, seLater,   \* the journal, and what its writer will still append
  seTask, seArgs,    \* "show" | "boots" | "invocations", and the options
  sePhase,           \* "start" | "ready" | "walk" | "done" | "failed"
  seOpened,          \* length of the journal when the command resolved its names
  seBoot, seInvoc, seUnits, \* what the names of the command were resolved to
  seShown,           \* entries the last pass selected
  seWalk, seSeen, seList    \* the invocation walker, and what it listed

selectVars == <<seRows, seLater, seTask, seArgs, sePhase, seOpened, seBoot,
                seInvoc, seUnits, seShown, seWalk, seSeen, seList>>

\* Op of a value that an earlier step has computed.
Using(v, Op(_)) == Op(v)

NoName == 0
NoWalk == [older |-> FALSE, done |-> TRUE, anchor |-> 0, prev |-> NoName, pos |-> 0,
           unrestricted |-> FALSE, eligible |-> {}, boot |-> NoName, unit |-> "", err |-> FALSE]

SelectInit ==
  /\ \E s \in SelectSetups :
       seRows \in s.journals /\ seLater \in s.later /\ seTask = s.task /\ seArgs \in s.args
  /\ sePhase = "start" /\ seOpened = 0
  /\ seBoot = NoName /\ seInvoc = NoName /\ seUnits = <<{}, {}>>
  /\ seShown = {} /\ seWalk = NoWalk /\ seSeen = {} /\ seList = <<>>

----------------------------------------------------------------------------
\* The matches of a reader: FilterBuilder as add_match and set_operation use
\* it.  `cur' is the term being built, `alts' the terms of the current
\* disjunction, `groups' the disjunctions that must all hold.

NoQuery == [cur |-> {}, alts |-> <<>>, groups |-> <<>>]
AddPair(q, f, v) == [q EXCEPT !.cur = @ \cup {<<f, v>>}]

Disjunction(q) ==
  IF q.cur = {} THEN q ELSE [q EXCEPT !.alts = Append(@, q.cur), !.cur = {}]

Conjunction(q) ==
  Using(Disjunction(q), LAMBDA c :
    IF c.alts = <<>> THEN c ELSE [c EXCEPT !.groups = Append(@, c.alts), !.alts = <<>>])

TermHolds(term, row) ==
  \A p \in term : \E r \in term : r[1] = p[1] /\ r \in row.pairs

Selects(q, row) ==
  LET built == Conjunction(q).groups
  IN  \A g \in Range(built) : \E t \in Range(g) : TermHolds(t, row)

\* add_field_matches: one group for the values of a field
AddField(q, f, values) ==
  IF values = {} THEN q
  ELSE Conjunction([q EXCEPT !.cur = @ \cup {<<f, v>> : v \in values}])

----------------------------------------------------------------------------
\* Boots.

BootField(r) == {p[2] : p \in {x \in r.pairs : x[1] = "_BOOT_ID"}}

BootSpan(b, where) == [boot |-> b, first |-> Min(where), last |-> Max(where)]

BootBefore(a, b) == IF a.last # b.last THEN a.last < b.last
                    ELSE IF a.first # b.first THEN a.first < b.first
                    ELSE a.boot < b.boot

\* collect_boots_indexed: by the values of the _BOOT_ID field
BootsIndexed(rows) ==
  LET ids     == UNION {BootField(rows[i]) : i \in DOMAIN rows} \ {NoName}
      rowsOf(b) == {i \in DOMAIN rows : b \in BootField(rows[i])}
  IN  SetToSortSeq({BootSpan(b, rowsOf(b)) : b \in ids}, BootBefore)

\* collect_boots_by_scan: by the boot id of every entry object
BootsByScan(rows) ==
  LET ids == {rows[i].boot : i \in DOMAIN rows} \ {NoName}
  IN  SetToSortSeq({BootSpan(b, {i \in DOMAIN rows : rows[i].boot = b}) : b \in ids},
                   BootBefore)

CollectBoots(rows) ==
  Using(BootsIndexed(rows), LAMBDA boots : IF boots # <<>> THEN boots ELSE BootsByScan(rows))

\* resolve_boot_id: NoName when there is no such boot
ResolveBoot(rows, desc) ==
  Using(CollectBoots(rows), LAMBDA boots :
  LET named  == {i \in DOMAIN boots : boots[i].boot = desc.id}
      target == IF desc.id # NoName
                THEN IF named = {} THEN 0 ELSE Min(named) + desc.off
                ELSE IF desc.off > 0 THEN desc.off ELSE Len(boots) + desc.off
  IN  IF target \in DOMAIN boots THEN boots[target].boot ELSE NoName)

\* select_boot_rows and select_invocation_rows: the rows to print, numbered
NumberRows(all, lines) ==
  LET n    == Min({lines.n, Len(all)})
      rows == CASE lines.k = "all"  -> all
                [] lines.k = "head" -> SubSeq(all, 1, n)
                [] lines.k = "tail" -> SubSeq(all, Len(all) - n + 1, Len(all))
      from == IF lines.k = "head" THEN 1 ELSE 1 - Len(rows)
  IN  [i \in DOMAIN rows |-> [index |-> from + i - 1, row |-> rows[i]]]

EffectiveBoot(a) ==
  IF a.boot # <<>> THEN a.boot
  ELSE IF a.dmesg \/ a.follow THEN <<[id |-> NoName, off |-> 0]>> ELSE <<>>

----------------------------------------------------------------------------
\* Units.  A specification is [glob, names]: a name, or a pattern and the
\* names it matches.

UnitFields == {"_SYSTEMD_UNIT", "UNIT", "OBJECT_SYSTEMD_UNIT", "COREDUMP_UNIT",
               "_SYSTEMD_SLICE"}
UserUnitFields == {"_SYSTEMD_USER_UNIT", "USER_UNIT", "OBJECT_SYSTEMD_USER_UNIT",
                   "COREDUMP_USER_UNIT", "_SYSTEMD_USER_SLICE"}

RawUnitSpecs(a) ==
  IF a.user THEN <<{}, a.units \cup a.userUnits>> ELSE <<a.units, a.userUnits>>

ExpandUnitSpecs(rows, specs, fields) ==
  LET known == {p[2] : p \in {x \in UNION {rows[i].pairs : i \in DOMAIN rows} :
                                x[1] \in fields}}
  IN  UNION {IF s.glob THEN s.names \cap known ELSE s.names : s \in specs}

ExpandedUnits(rows, a) ==
  LET raw == RawUnitSpecs(a)
  IN  <<ExpandUnitSpecs(rows, raw[1], UnitFields),
        ExpandUnitSpecs(rows, raw[2], UserUnitFields)>>

\* one term per way a unit is mentioned; a disjunction after every term
SystemUnitGroupsJoined(q0, u, full) ==
  LET q1 == AddPair(q0, "_SYSTEMD_UNIT", u)
      q2 == Disjunction(AddPair(AddPair(q1, "_SYSTEMD_CGROUP", "/init.scope"), "UNIT", u))
      q3 == Disjunction(AddPair(AddPair(q2, "_UID", 0), "OBJECT_SYSTEMD_UNIT", u))
  IN  q3
SystemUnitGroups(q0, u, full) ==
  LET q1 == Disjunction(AddPair(q0, "_SYSTEMD_UNIT", u))
      q2 == Disjunction(AddPair(AddPair(q1, "_SYSTEMD_CGROUP", "/init.scope"), "UNIT", u))
      q3 == Disjunction(AddPair(AddPair(q2, "_UID", 0), "OBJECT_SYSTEMD_UNIT", u))
      q4 == AddPair(AddPair(q3, "MESSAGE_ID", "coredump"), "COREDUMP_UNIT", u)
      q5 == IF u \in Slices THEN AddPair(Disjunction(q4), "_SYSTEMD_SLICE", u) ELSE q4
  IN  IF full THEN Disjunction(q5) ELSE q3

UserTerm(q, f, u, root) ==
  LET own == AddPair(AddPair(q, f, u), "_UID", OwnUid)
  IN  IF root THEN AddPair(own, "_UID", 0) ELSE own

UserUnitGroups(q0, u, full) ==
  LET q1 == Disjunction(UserTerm(q0, "_SYSTEMD_USER_UNIT", u, FALSE))
      q2 == Disjunction(UserTerm(q1, "USER_UNIT", u, FALSE))
      q3 == Disjunction(UserTerm(q2, "OBJECT_SYSTEMD_USER_UNIT", u, TRUE))
      q4 == UserTerm(q3, "COREDUMP_USER_UNIT", u, TRUE)
      q5 == IF u \in Slices
            THEN UserTerm(Disjunction(q4), "_SYSTEMD_USER_SLICE", u, FALSE) ELSE q4
  IN  IF full THEN Disjunction(q5) ELSE q3

UnitMatches(q, units, full) ==
  LET sys  == FoldSet(LAMBDA u, acc : SystemUnitGroups(acc, u, full), q, units[1])
      both == FoldSet(LAMBDA u, acc : UserUnitGroups(acc, u, full), sys, units[2])
  IN  IF units = <<{}, {}>> THEN q ELSE Conjunction(both)

----------------------------------------------------------------------------
\* The other options.

ParsePriority(p) == IF p = <<>> THEN {}
                    ELSE IF Len(p) = 1 THEN 0..p[1]
                    ELSE Min({p[1], p[2]})..Max({p[1], p[2]})

NonUnitMatches(q, a) ==
  LET q1 == AddField(q, "_TRANSPORT", IF a.dmesg THEN {"kernel"} ELSE {})
      q2 == AddField(q1, "SYSLOG_IDENTIFIER", a.idents)
      q3 == AddField(q2, "PRIORITY", ParsePriority(a.priority))
  IN  AddField(q3, "SYSLOG_FACILITY", a.facilities)

\* validate_path_match_arguments: "+" only between terms
ValidTerms(m) ==
  \A i \in DOMAIN m : m[i] = <<"+">> =>
    i > 1 /\ i < Len(m) /\ m[i - 1] # <<"+">>

RECURSIVE ApplyTerms(_, _)
ApplyTerms(q, m) ==
  IF m = <<>> THEN q
  ELSE ApplyTerms(IF m[1] = <<"+">> THEN Disjunction(q) ELSE AddPair(q, m[1][1], m[1][2]),
                  Tail(m))

InvocationFields == <<"_SYSTEMD_INVOCATION_ID", "OBJECT_SYSTEMD_INVOCATION_ID",
                      "INVOCATION_ID", "USER_INVOCATION_ID">>

InvocationMatches(q, id) ==
  Conjunction(FoldLeft(LAMBDA acc, f : AddPair(Disjunction(acc), f, id), q,
                       InvocationFields))

\* open_filtered_journal with the names already resolved
FilteredQuery(a, boot, invoc, units) ==
  LET byBoot == UnitMatches(AddField(NoQuery, "_BOOT_ID", {boot} \ {NoName}), units, TRUE)
      named  == IF invoc # NoName THEN InvocationMatches(NoQuery, invoc) ELSE byBoot
  IN  ApplyTerms(NonUnitMatches(named, a), a.matches)

----------------------------------------------------------------------------
\* Invocations (invocation.rs).

PlainIds(row) == {x.id : x \in {y \in Range(row.ids) : y.plain}}
PrimaryId(row) == IF row.ids = <<>> THEN NoName ELSE row.ids[1].id

InScope(row, boot, unit) ==
  /\ boot # NoName => boot \in BootField(row)
  /\ unit # "" => Selects(UnitMatches(NoQuery, <<{unit}, {}>>, FALSE), row)

\* rows the scanning reader of the walker stops at
Scanned(row, w) ==
  /\ w.unrestricted \/ InScope(row, w.boot, w.unit)
  /\ w.eligible # {} => Range(row.ids) \cap w.eligible # {}

\* step: the next scanned row strictly beyond the anchor, or beyond the
\* position; 0 when there is none
WalkStep(rows, w) ==
  LET from == IF w.anchor # 0 THEN w.anchor ELSE w.pos
  IN  Using({i \in DOMAIN rows : /\ Scanned(rows[i], w)
                                 /\ IF w.older THEN i < from ELSE i > from}, LAMBDA on :
        IF on = {} THEN 0 ELSE IF w.older THEN Max(on) ELSE Min(on))

\* bound: first and last entry of an invocation, or of the scope for NoName
Bound(rows, w, id) ==
  {i \in DOMAIN rows :
     IF id = NoName THEN InScope(rows[i], w.boot, w.unit)
     ELSE (w.boot # NoName => w.boot \in BootField(rows[i])) /\ id \in PlainIds(rows[i])}

Anchor(w, bound) == IF w.older THEN Min(bound) ELSE Max(bound)

RECURSIVE Discover(_, _, _)
Discover(rows, w, broken) ==
  Using(WalkStep(rows, w), LAMBDA r :
  LET id    == PrimaryId(rows[r])
      moved == [w EXCEPT !.pos = r, !.anchor = 0]
  IN  IF r = 0 THEN [w |-> [w EXCEPT !.done = TRUE], info |-> <<>>]
      ELSE IF id = NoName \/ id = w.prev \/ id \in broken THEN Discover(rows, moved, broken)
      ELSE Using(Bound(rows, w, id), LAMBDA found :
           Using(Bound(rows, w, w.prev), LAMBDA back :
             IF found # {}
             THEN [w |-> [moved EXCEPT !.anchor = Anchor(w, found), !.prev = id],
                   info |-> <<[id |-> id, first |-> Min(found), last |-> Max(found)]>>]
             ELSE IF back = {} THEN [w |-> [w EXCEPT !.done = TRUE, !.err = TRUE], info |-> <<>>]
             ELSE Discover(rows, [moved EXCEPT !.anchor = Anchor(w, back), !.unrestricted = TRUE],
                           broken \cup {id}))))

WalkerNext(rows, w) ==
  IF w.done THEN [w |-> w, info |-> <<>>]
  ELSE Discover(rows, [w EXCEPT !.unrestricted = FALSE], {})

WalkerNew(rows, a, needsUnit, older) ==
  LET eligible == IF needsUnit THEN UNION {Range(rows[i].ids) : i \in DOMAIN rows} ELSE {}
  IN  Using(IF EffectiveBoot(a) = <<>> THEN NoName ELSE ResolveBoot(rows, EffectiveBoot(a)[1]), LAMBDA boot :
      [older |-> older, done |-> needsUnit /\ eligible = {}, anchor |-> 0, prev |-> NoName,
       pos |-> IF older THEN Len(rows) + 1 ELSE 0, unrestricted |-> FALSE,
       eligible |-> eligible, boot |-> boot,
       unit |-> IF needsUnit THEN a.invUnit ELSE "",
       err |-> boot = NoName /\ EffectiveBoot(a) # <<>>])

RECURSIVE WalkTo(_, _, _, _)
WalkTo(rows, w, off, target) ==
  Using(WalkerNext(rows, w), LAMBDA n :
    IF n.info = <<>> THEN NoName
    ELSE IF off = target THEN n.info[1].id
    ELSE WalkTo(rows, n.w, off + (IF w.older THEN -1 ELSE 1), target))

\* find_filter: the invocation a descriptor names, NoName when there is none
FindInvocation(rows, a, desc) ==
  Using(WalkerNew(rows, a, desc.id = NoName \/ desc.off # 0, desc.off <= 0), LAMBDA w :
  Using(Bound(rows, w, desc.id), LAMBDA bound :
    IF w.err \/ (desc.id # NoName /\ bound = {}) THEN NoName
    ELSE IF desc.id # NoName /\ desc.off = 0 THEN desc.id
    ELSE WalkTo(rows,
                IF desc.id = NoName THEN w ELSE [w EXCEPT !.anchor = Anchor(w, bound), !.prev = desc.id],
                IF desc.off > 0 THEN 1 ELSE IF desc.id = NoName THEN 0 ELSE -1, desc.off)))

----------------------------------------------------------------------------
\* The command.

ResolveNames ==
  /\ sePhase = "start" /\ seTask = "show"
  /\ LET a == seArgs IN
     \E boot  \in {IF EffectiveBoot(a) = <<>> \/ a.invocation # <<>> THEN NoName
                   ELSE ResolveBoot(seRows, EffectiveBoot(a)[1])},
        invoc \in {IF a.invocation = <<>> THEN NoName
                   ELSE FindInvocation(seRows, a, a.invocation[1])} :
     LET units == ExpandedUnits(seRows, a)
         bad   == \/ a.invocation # <<>> /\ invoc = NoName
                  \/ a.invocation = <<>> /\ EffectiveBoot(a) # <<>> /\ boot = NoName
                  \/ RawUnitSpecs(a) # <<{}, {}>> /\ a.invocation = <<>> /\ units = <<{}, {}>>
                  \/ ~ValidTerms(a.matches)
     IN  /\ seBoot' = boot /\ seInvoc' = invoc /\ seUnits' = units
         /\ sePhase' = IF bad THEN "failed" ELSE "ready"
  /\ seOpened' = Len(seRows)
  /\ UNCHANGED <<seRows, seLater, seTask, seArgs, seShown, seWalk, seSeen, seList>>

\* one pass of the reader; follow opens the journal again for every pass and
\* keeps the boot and the units it started with
ReadPass ==
  /\ sePhase = "ready"
  /\ \E q \in {FilteredQuery(seArgs, seBoot, seInvoc, seUnits)} :
       seShown' = {i \in DOMAIN seRows : Selects(q, seRows[i])}
  /\ sePhase' = IF seArgs.follow THEN "ready" ELSE "done"
  /\ UNCHANGED <<seRows, seLater, seTask, seArgs, seOpened, seBoot, seInvoc, seUnits,
                 seWalk, seSeen, seList>>

ListBoots ==
  /\ sePhase = "start" /\ seTask = "boots"
  /\ seList' = CollectBoots(seRows)
  /\ seOpened' = Len(seRows)
  /\ sePhase' = IF seList' = <<>> THEN "failed" ELSE "done"
  /\ UNCHANGED <<seRows, seLater, seTask, seArgs, seBoot, seInvoc, seUnits, seShown,
                 seWalk, seSeen>>

OpenWalk ==
  /\ sePhase = "start" /\ seTask = "invocations"
  /\ seWalk' = WalkerNew(seRows, seArgs, TRUE, seArgs.lines.k = "tail")
  /\ seOpened' = Len(seRows)
  /\ sePhase' = IF seWalk'.err THEN "failed" ELSE "walk"
  /\ UNCHANGED <<seRows, seLater, seTask, seArgs, seBoot, seInvoc, seUnits, seShown,
                 seSeen, seList>>

Listed(list, info) == IF seWalk.older THEN info \o list ELSE list \o info

WalkOne ==
  /\ sePhase = "walk"
  /\ seArgs.lines.k # "all" => Len(seList) < seArgs.lines.n
  /\ \E n \in {WalkerNext(seRows, seWalk)} :
       /\ n.info # <<>> /\ n.info[1].id \notin seSeen
       /\ seWalk' = n.w
       /\ seList' = Listed(seList, n.info)
       /\ seSeen' = seSeen \cup {n.info[1].id}
  /\ UNCHANGED <<seRows, seLater, seTask, seArgs, sePhase, seOpened, seBoot, seInvoc,
                 seUnits, seShown>>

WalkEnd ==
  /\ sePhase = "walk"
  /\ \E n \in {WalkerNext(seRows, seWalk)} :
       /\ \/ seArgs.lines.k # "all" /\ Len(seList) >= seArgs.lines.n
          \/ \A x \in Range(n.info) : x.id \in seSeen
       /\ sePhase' = IF n.w.err THEN "failed" ELSE "done"
  /\ UNCHANGED <<seRows, seLater, seTask, seArgs, seOpened, seBoot, seInvoc, seUnits,
                 seShown, seWalk, seSeen, seList>>

WriterAppends ==
  /\ seLater # <<>> /\ sePhase \notin {"done", "failed"}
  /\ seRows' = Append(seRows, Head(seLater))
  /\ seLater' = Tail(seLater)
  /\ UNCHANGED <<seTask, seArgs, sePhase, seOpened, seBoot, seInvoc, seUnits, seShown,
                 seWalk, seSeen, seList>>

SelectNext ==
  ResolveNames \/ ReadPass \/ ListBoots \/ OpenWalk \/ WalkOne \/ WalkEnd \/ WriterAppends

SelectSpec == SelectInit /\ [][SelectNext]_selectVars

----------------------------------------------------------------------------
\* What the options mean.

Has(row, f, v) == <<f, v>> \in row.pairs
Own(row, root) == Has(row, "_UID", OwnUid) \/ (root /\ Has(row, "_UID", 0))

OfUnit(row, u) ==
  \/ Has(row, "_SYSTEMD_UNIT", u)
  \/ Has(row, "UNIT", u) /\ Has(row, "_SYSTEMD_CGROUP", "/init.scope")
  \/ Has(row, "OBJECT_SYSTEMD_UNIT", u) /\ Has(row, "_UID", 0)
  \/ Has(row, "COREDUMP_UNIT", u) /\ Has(row, "MESSAGE_ID", "coredump")
  \/ Has(row, "_SYSTEMD_SLICE", u) /\ u \in Slices

OfUserUnit(row, u) ==
  \/ (Has(row, "_SYSTEMD_USER_UNIT", u) \/ Has(row, "USER_UNIT", u)
      \/ (Has(row, "_SYSTEMD_USER_SLICE", u) /\ u \in Slices)) /\ Own(row, FALSE)
  \/ (Has(row, "OBJECT_SYSTEMD_USER_UNIT", u) \/ Has(row, "COREDUMP_USER_UNIT", u))
     /\ Own(row, TRUE)

OneOf(row, f, S) == S = {} \/ \E v \in S : Has(row, f, v)

\* FIELD=VALUE terms: alternatives between "+", every field of a term holds
TermsHold(row, m) ==
  LET bars  == {i \in DOMAIN m : m[i] = <<"+">>}
      part(i) == {j \in DOMAIN m \ bars : ~\E k \in bars : (k > i) # (k > j)}
  IN  m = <<>> \/ \E i \in DOMAIN m \ bars :
        \A j \in part(i) : \E k \in part(i) : m[k][1] = m[j][1] /\ Has(row, m[k][1], m[k][2])

Means(row, a, start) ==
  LET boot  == ResolveBoot(start, EffectiveBoot(a)[1])
      units == ExpandedUnits(start, a)
  IN  /\ a.invocation = <<>> =>
           /\ EffectiveBoot(a) # <<>> => Has(row, "_BOOT_ID", boot)
           /\ units # <<{}, {}>> =>
                (\E u \in units[1] : OfUnit(row, u)) \/ (\E u \in units[2] : OfUserUnit(row, u))
      /\ a.invocation # <<>> => FindInvocation(start, a, a.invocation[1]) \in
           {p[2] : p \in {x \in row.pairs : x[1] \in Range(InvocationFields)}}
      /\ a.dmesg => Has(row, "_TRANSPORT", "kernel")
      /\ OneOf(row, "SYSLOG_IDENTIFIER", a.idents)
      /\ OneOf(row, "PRIORITY", ParsePriority(a.priority))
      /\ OneOf(row, "SYSLOG_FACILITY", a.facilities)
      /\ TermsHold(row, a.matches)

\* SelectExact: every pass of a command selects exactly the entries its options
\* mean, the names taken as they stood when the command started: the flat
\* stream of match, disjunction and conjunction calls (main.rs
\* open_filtered_journal, add_system_unit_match_groups) groups into the
\* intended formula, and following keeps the boot and the units it began with.
SelectExact ==
  [][(sePhase = "ready" /\ sePhase' \in {"ready", "done"} /\ UNCHANGED seRows) =>
       seShown' = {i \in DOMAIN seRows :
                     Means(seRows[i], seArgs, SubSeq(seRows, 1, seOpened))}]_selectVars

\* the invocations of the scope, when no two of them overlap in time
ScopeIds(rows, w) ==
  {PrimaryId(rows[i]) : i \in {j \in DOMAIN rows : InScope(rows[j], w.boot, w.unit)}} \ {NoName}
SpanOf(rows, w, id) ==
  {i \in DOMAIN rows : /\ w.boot # NoName => Has(rows[i], "_BOOT_ID", w.boot)
                       /\ id \in PlainIds(rows[i])}
Separate(rows, w) ==
  /\ \A i \in DOMAIN rows : \A x \in Range(rows[i].ids) : x.plain
  /\ \A i \in DOMAIN rows : Len(rows[i].ids) <= 1
  /\ \A x, y \in ScopeIds(rows, w) :
       x # y => \/ Max(SpanOf(rows, w, x)) < Min(SpanOf(rows, w, y))
                \/ Max(SpanOf(rows, w, y)) < Min(SpanOf(rows, w, x))
InOrder(rows, w, ids) ==
  SetToSortSeq(ids, LAMBDA x, y : Min(SpanOf(rows, w, x)) < Min(SpanOf(rows, w, y)))

\* InvocationsListed: while a writer appends, a listing names every invocation
\* the unit had when the walk began, once, in order of time, up to the number
\* asked for, with its true first entry (invocation.rs Walker): jumping to the
\* bounds of each invocation in a second reader skips none of them, whether
\* the walk goes forward or backward.
InvocationsListed ==
  (seTask = "invocations" /\ sePhase = "done" /\ Separate(seRows, seWalk)) =>
    LET start == SubSeq(seRows, 1, seOpened)
        all   == InOrder(seRows, seWalk, ScopeIds(start, seWalk))
        rows  == NumberRows(all, seArgs.lines)
    IN  /\ [i \in DOMAIN seList |-> seList[i].id] = [i \in DOMAIN rows |-> rows[i].row]
        /\ \A i \in DOMAIN seList : seList[i].first = Min(SpanOf(seRows, seWalk, seList[i].id))

\* IndexNamesRow: the number printed beside a boot or an invocation names it
\* again: given back as a descriptor it resolves to the same row, for the whole
\* list, for its first and for its last rows (main.rs select_boot_rows and
\* resolve_boot_id, invocation.rs find_filter).
IndexNamesRow ==
  (sePhase = "done" /\ seOpened = Len(seRows)) =>
    LET rows == NumberRows(seList, seArgs.lines) IN
      /\ seTask = "boots" =>
           \A i \in DOMAIN rows :
             ResolveBoot(seRows, [id |-> NoName, off |-> rows[i].index]) = rows[i].row.boot
      /\ (seTask = "invocations" /\ Separate(seRows, seWalk)) =>
           \A i \in DOMAIN rows :
             FindInvocation(seRows, seArgs, [id |-> NoName, off |-> rows[i].index])
               = rows[i].row.id

(***************************************************************************)
(* The filter built from boots, units, invocations and matches selects the *)
(* rows that the options mean, the invocations listed are those of the     *)
(* journal, and an index names the row it names in the listing.            *)
(***************************************************************************)
SelectSound ==
  /\ SelectExact
  /\ [](InvocationsListed /\ IndexNamesRow)
=============================================================================
