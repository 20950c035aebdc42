--------------------------- MODULE TimestampParse ---------------------------
(* The timestamps of journalctl's --since and --until                        *)
(* (cmd/journalctl/timestamp.rs, timestamp_zone.rs).  A parser is used for    *)
(* several values and keeps, between them, the offset it guesses a            *)
(* conversion with and the zone names it takes for abbreviations.  A calendar *)
(* of constant radices stands for the Gregorian one; a time is a number of    *)
(* seconds, a civil time the number of seconds its fields count.              *)
EXTENDS Integers, Sequences, FiniteSets, FiniteSetsExt, SequencesExt

CONSTANTS
    TsZones,      \* zones the parser may run in or a value may name
    TsValues,     \* values that are parsed
    TsNows,       \* readings of the clock
    TsMinute,     \* seconds of a minute
    TsHour,       \* seconds of an hour
    TsDay,        \* seconds of a day
    TsMonth,      \* days of a month
    TsMaxTime,    \* the largest time accepted
    TsStep,       \* the step of the search for the other side of a DST change
    TsReach,      \* the reach of this search
    TsWidth,      \* the first duration that does not fit the machine's integer
    TsParses      \* values parsed at most, a bound

VARIABLES
    tsZone,    \* the local zone: its table and the names it is known by
    tsGuess,   \* the guessed offset of local and of UTC conversions
    tsCount,   \* values parsed so far
    tsLast     \* the last value and what became of it

tsVars == <<tsZone, tsGuess, tsCount, tsLast>>

\* Op of a value that an earlier step has computed.
With(v, Op(_)) == Op(v)

\* A zone of a TZif file: the kinds, the transitions, the leap records, the kind
\* of the footer (0 for none), the file it comes from.
Past(z, t) == {i \in DOMAIN z.trans : z.trans[i].at <= t}
Daylight(z) == {k \in DOMAIN z.kinds : z.kinds[k].dst = 1}
Standard(z) == DOMAIN z.kinds \ Daylight(z)

\* The kind in force: before the first transition the first standard kind, after
\* the last one the footer, if there is one.
KindAt(z, t) ==
    LET n == Cardinality(Past(z, t))
    IN  IF n = 0 THEN IF Standard(z) = {} THEN 1 ELSE Min(Standard(z))
        ELSE IF n = Len(z.trans) /\ z.footer # 0 THEN z.footer
        ELSE z.trans[n].kind

FillOther(names) ==
    [d \in 0..1 |-> IF names[d] = "" THEN names[1 - d] ELSE names[d]]

\* The name of a daylight flag that the first of the transitions gives it.
NameIn(z, indices, d, default) ==
    LET given == {i \in indices : z.kinds[z.trans[i].kind].dst = d}
    IN  IF given = {} THEN default ELSE z.kinds[z.trans[Min(given)].kind].name

\* The names that a conversion of time t leaves in the zone: those of the kind
\* in force and, for the other flag, of the next transition that has it.
NamesAt(z, t) ==
    LET later == DOMAIN z.trans \ Past(z, t)
    IN  With(Cardinality(Past(z, t)), LAMBDA n :
        With(z.kinds[KindAt(z, t)], LAMBDA k :
        IF n > 0 /\ n = Len(z.trans) /\ z.footer # 0 THEN z.footerNames
        ELSE IF n = 0
        THEN FillOther([d \in 0..1 |-> IF d = 0 THEN k.name
                                       ELSE IF Daylight(z) = {} THEN ""
                                       ELSE z.kinds[Min(Daylight(z))].name])
        ELSE FillOther([d \in 0..1 |-> IF d = k.dst THEN k.name ELSE NameIn(z, later, d, "")])))

\* The names of a zone just read: those of its last transitions.
ReadZone(z) ==
    LET last(d) == {i \in DOMAIN z.trans : z.kinds[z.trans[i].kind].dst = d}
        name(d, default) == IF last(d) = {} THEN default
                            ELSE z.kinds[z.trans[Max(last(d))].kind].name
    IN  [table |-> z, names |-> [d \in 0..1 |->
            IF d = 0 THEN name(0, z.kinds[1].name) ELSE name(1, name(0, z.kinds[1].name))]]

LeapsPast(z, t) == Cardinality({i \in DOMAIN z.leaps : z.leaps[i].at <= t})

Correction(z, n) == IF n = 0 THEN 0 ELSE z.leaps[n].correction

\* Whether t is an inserted second.
LeapHit(z, t) ==
    LET n == LeapsPast(z, t)
    IN  n > 0 /\ z.leaps[n].at = t /\ Correction(z, n) > Correction(z, n - 1)

\* The leap records in a row that an inserted second belongs to.
LeapRun(z, t) ==
    LET n == LeapsPast(z, t)
        joined(j) == \A i \in (j + 1)..n : /\ z.leaps[i].at = z.leaps[i - 1].at + 1
                                           /\ z.leaps[i].correction = z.leaps[i - 1].correction + 1
    IN  IF LeapHit(z, t) THEN n + 1 - Min({j \in 1..n : joined(j)}) ELSE 0

\* civil: the civil time and the daylight flag of a time.
CivilAt(z, t, utc) ==
    t + (IF utc THEN 0 ELSE z.kinds[KindAt(z, t)].off)
      - Correction(z, LeapsPast(z, t)) + LeapRun(z, t)

DstAt(z, t, utc) == IF utc THEN 0 ELSE z.kinds[KindAt(z, t)].dst

\* format_display: the civil time, whether it is written as an inserted second,
\* the name of the zone and its offset in whole minutes, rounded towards zero.
FormatDisplay(z, t) ==
    LET k == z.kinds[KindAt(z, t)]
        minutes(off) == (off \div TsMinute) * TsMinute
    IN  [civil |-> t + k.off - Correction(z, LeapsPast(z, t)), leap |-> LeapHit(z, t), name |-> k.name,
         offset |-> IF k.off < 0 THEN -minutes(-k.off) ELSE minutes(k.off)]

-----------------------------------------------------------------------------
(* inverse: from a civil time to a time, by fixed-point iteration. *)

\* One round of the iteration: s.t is the candidate, s.t1 and s.t2 the two
\* before, s.dst the flag of the last one.
Iterate(z, target, utc, isdst, s) ==
    LET swings(dst) == /\ s.t = s.t1
                       /\ s.t # s.t2
                       /\ \/ isdst < 0 /\ s.dst <= dst
                          \/ isdst >= 0 /\ dst # isdst
    IN  IF s.found THEN s
        ELSE With(DstAt(z, s.t, utc), LAMBDA dst :
             With(target - CivilAt(z, s.t, utc), LAMBDA diff :
                 IF diff = 0 THEN [s EXCEPT !.found = TRUE]
                 ELSE IF swings(dst) THEN [s EXCEPT !.found = TRUE, !.swung = TRUE]
                 ELSE [s EXCEPT !.t1 = s.t2, !.t2 = s.t, !.dst = dst, !.t = @ + diff]))

\* The nearest period with the wanted flag, looked for in steps on both sides.
Nearest(z, t, utc, isdst) ==
    LET tries == {x \in {-1, 1} \X (1..(TsReach \div TsStep)) :
                     DstAt(z, t + x[1] * x[2] * TsStep, utc) = isdst}
        best  == CHOOSE x \in tries : \A y \in tries : x[2] < y[2] \/ (x[2] = y[2] /\ x[1] <= y[1])
    IN  IF tries = {} THEN {} ELSE {t + best[1] * best[2] * TsStep}

InverseStale(z, civil, utc, isdst, guess) ==
    LET t == Iterate(z, civil, utc, isdst,
                     [t |-> civil + guess, t1 |-> civil + guess, t2 |-> civil + guess,
                      dst |-> -1, found |-> FALSE, swung |-> FALSE]).t
    IN  [ok |-> TRUE, t |-> t, guess |-> t - civil, seen |-> t]

\* The result of the iteration, moved to the period that the caller's flag asks for.
Sided(z, civil, utc, isdst, s) ==
    With(DstAt(z, s.t, utc), LAMBDA dst :
    With(Nearest(z, s.t, utc, isdst), LAMBDA other :
        IF isdst < 0 \/ dst = isdst \/ s.swung THEN s.t
        ELSE IF other = {} THEN s.t + (dst - isdst) * TsHour
        ELSE With(CHOOSE c \in other : TRUE, LAMBDA c : c + civil - CivilAt(z, c, utc))))

\* An inserted second that shows the same civil time as the one after it.
Doubled(z, civil, utc, t) ==
    civil % TsMinute = 0 /\ LeapHit(z, t) /\ CivilAt(z, t, utc) % TsMinute = 0

\* A civil time in the middle of a change may be hit by none or by two times; the
\* caller's flag picks a side, and the second after an inserted one is not it.
InverseCivil(z, civil, utc, isdst, guess) ==
    With(FoldLeft(LAMBDA r, i : Iterate(z, civil, utc, isdst, r),
                  [t |-> civil + guess, t1 |-> civil + guess, t2 |-> civil + guess,
                   dst |-> -1, found |-> FALSE, swung |-> FALSE], [i \in 1..6 |-> i]), LAMBDA s :
    With(Sided(z, civil, utc, isdst, s), LAMBDA t :
    With(IF Doubled(z, civil, utc, t) THEN t + 1 ELSE t, LAMBDA last :
        [ok |-> s.found, t |-> last, guess |-> t - civil, seen |-> IF s.found THEN last ELSE s.t2])))

-----------------------------------------------------------------------------
(* The values.  A value has a zone suffix, a body and an argument. *)

\* duration: the sum of its terms, each a whole number, the digits of a fraction
\* and the worth of a unit; -1 when it does not fit.
AddTerm(total, term) ==
    LET whole    == IF total < 0 \/ term.whole >= (TsWidth - 1) \div term.unit THEN -1
                    ELSE total + term.whole * term.unit
        weight(i) == FoldLeft(LAMBDA w, j : w \div 10, term.unit, [j \in 1..i |-> j])
        digit(s, i) == IF s < 0 \/ s >= TsWidth - 1 THEN -1 ELSE s + term.digits[i] * weight(i)
        sum      == FoldLeft(digit, whole, [i \in DOMAIN term.digits |-> i])
    IN  IF sum >= TsWidth - 1 THEN -1 ELSE sum

Duration(terms) ==
    IF terms = <<>> THEN -1 ELSE FoldLeft(AddTerm, 0, terms)

Failure(z, guess) == [ok |-> FALSE, t |-> 0, names |-> z.names, guess |-> guess]

\* The whole civil time of a body; the fields it leaves out come from the clock,
\* a time of day left out is midnight, and days past a month's end run on.
Calendar(v, seed) ==
    LET day   == (seed \div TsDay) * TsDay
        month == (seed \div (TsDay * TsMonth)) * TsDay * TsMonth
    IN  CASE v.body = "today"     -> day
          [] v.body = "yesterday" -> day - TsDay
          [] v.body = "tomorrow"  -> day + TsDay
          [] v.body = "clock"     -> day + v.arg
          [] v.body = "date"      -> month + (v.arg - 1) * TsDay
          [] OTHER                -> v.arg

\* parse_in_zone: relative to the clock, or a calendar time; `extra` is the
\* second past :59 that a leap second is written with.
ParseInZone(z, v, now, utc, isdst, offset, withZone, guess) ==
    LET after(delta) == IF v.body = "ago" THEN now - delta ELSE now + delta
        seeded == IF utc THEN z.names ELSE NamesAt(z.table, now)
        civil  == Calendar(v, CivilAt(z.table, now, utc))
        side   == IF utc THEN "utc" ELSE "local"
        time(inv) == inv.t + v.extra - offset
    IN  IF ~withZone /\ v.body = "now" THEN [Failure(z, guess) EXCEPT !.ok = TRUE, !.t = now]
        ELSE IF ~withZone /\ v.body \in {"ago", "left"}
        THEN With(Duration(v.terms), LAMBDA delta :
                 [Failure(z, guess) EXCEPT !.ok = delta >= 0 /\ after(delta) \in 0..TsMaxTime,
                                           !.t = after(delta)])
        ELSE IF v.body \in {"now", "ago", "left"} \/ v.wrongDay
        THEN [Failure(z, guess) EXCEPT !.names = seeded]
        ELSE With(InverseCivil(z.table, civil, utc, isdst, guess[side]), LAMBDA inv :
             [ok |-> inv.ok /\ time(inv) \in 0..TsMaxTime, t |-> time(inv),
              names |-> IF utc THEN z.names ELSE NamesAt(z.table, inv.seen),
              guess |-> IF inv.ok THEN [guess EXCEPT ![side] = inv.guess] ELSE guess])

\* The flag that an abbreviation stands for in the zone, -1 for none.
Abbreviation(z, name) ==
    IF z.names[0] = name THEN 0 ELSE IF z.names[1] = name THEN 1 ELSE -1

\* restore_after_named: the names of the same file, or those it was read with.
RestoreAfterNamed(z, named, names) ==
    IF z.table.file = named.file THEN names ELSE ReadZone(z.table).names

\* parse and parse_calendar_value: the suffix decides the zone.
ParseValue(z, v, now, guess) ==
    LET dst == Abbreviation(z, v.abbr)
    IN  IF v.body = "epoch"
        THEN [Failure(z, guess) EXCEPT !.ok = Duration(v.terms) >= 0, !.t = Duration(v.terms)]
        ELSE CASE v.zone \in {"utc", "z"} ->
                      With(ParseInZone(z, v, now, TRUE, -1, 0, TRUE, guess), LAMBDA zulu :
                          IF v.zone = "utc" \/ zulu.ok THEN zulu
                          ELSE [Failure(z, zulu.guess) EXCEPT !.names = NamesAt(z.table, now)])
               [] v.zone = "offset" -> ParseInZone(z, v, now, TRUE, -1, v.offset, TRUE, guess)
               [] v.zone = "abbr" /\ dst >= 0 ->
                      ParseInZone(z, v, now, FALSE, dst, 0, TRUE, guess)
               [] v.zone = "named"  ->
                      With(ParseInZone(ReadZone(v.named), v, now, FALSE, -1, 0, TRUE, guess), LAMBDA far :
                          [far EXCEPT !.names = RestoreAfterNamed(z, v.named, far.names)])
               [] v.zone = "none"   -> ParseInZone(z, v, now, FALSE, -1, 0, FALSE, guess)
               [] OTHER             -> [Failure(z, guess) EXCEPT !.names = NamesAt(z.table, now)]

-----------------------------------------------------------------------------
TsInit ==
    /\ \E z \in TsZones : tsZone = ReadZone(z)
    /\ tsGuess = [local |-> 0, utc |-> 0]
    /\ tsCount = 0
    /\ tsLast = [value |-> <<>>, now |-> 0, ok |-> FALSE, t |-> 0]

Parse ==
    /\ tsCount < TsParses
    /\ \E v \in TsValues, now \in TsNows : \E r \in {ParseValue(tsZone, v, now, tsGuess)} :
        /\ tsZone' = [tsZone EXCEPT !.names = r.names]
        /\ tsGuess' = r.guess
        /\ tsCount' = tsCount + 1
        /\ tsLast' = [value |-> v, now |-> now, ok |-> r.ok, t |-> r.t]

TsSpec == TsInit /\ [][Parse]_tsVars

-----------------------------------------------------------------------------
\* The times of a civil time, other than the inserted seconds.
TimesOf(z, civil, utc) ==
    {t \in (-TsDay)..(TsMaxTime + TsDay) : CivilAt(z, t, utc) = civil /\ ~LeapHit(z, t)}

CalendarValue(v) == v.body \notin {"now", "ago", "left", "epoch"} /\ ~v.wrongDay

\* Whatever was parsed before and whatever offset it left as a guess, a calendar
\* value is converted to a time that shows it in its zone, if there is one, and
\* the conversion of every value, those a clock change skips included, ends.
InverseExact ==
    \A v \in {v \in {tsLast.value} : tsLast.value # <<>>} :
        LET utc   == v.zone \in {"utc", "z", "offset"}
            table == IF v.zone = "named" THEN v.named ELSE tsZone.table
            civil == Calendar(v, CivilAt(table, tsLast.now, utc))
            base  == tsLast.t - v.extra + (IF v.zone = "offset" THEN v.offset ELSE 0)
            times == TimesOf(table, civil, utc)
        IN  CalendarValue(v) /\ v.zone \in {"none", "utc", "z", "offset", "named"} =>
                /\ ~tsLast.ok => tsLast.t \notin 0..TsMaxTime
                /\ times # {} => base \in times

\* A value with a zone abbreviation that was accepted names the time in the
\* period that the abbreviation stands for, when there is one.
AbbreviationExact ==
    \A v \in {v \in {tsLast.value} : tsLast.ok} :
        LET civil == Calendar(v, CivilAt(tsZone.table, tsLast.now, FALSE))
            times == {t \in TimesOf(tsZone.table, civil, FALSE) :
                         tsZone.table.kinds[KindAt(tsZone.table, t)].name = v.abbr}
        IN  v.zone = "abbr" /\ times # {} => tsLast.t - v.extra \in times

\* The microseconds of a duration, without a bound: no unit is lost but the
\* fraction of the smallest one.
TrueLength(terms) ==
    LET part(x) == x.whole * x.unit
                   + FoldLeft(LAMBDA s, i : s + (x.digits[i] * x.unit) \div (10^i), 0,
                              [i \in DOMAIN x.digits |-> i])
    IN  FoldLeft(LAMBDA s, x : s + part(x), 0, terms)

\* A duration is read as no more than it says and short of it by less than ten
\* for each digit of a fraction, and one that does not fit is refused, never wrapped.
DurationExact ==
    \A v \in {v \in {tsLast.value} : tsLast.value # <<>>} :
        LET digits == FoldLeft(LAMBDA s, x : s + Len(x.digits), 0, v.terms)
            true   == TrueLength(v.terms)
        IN  v.body = "epoch" =>
               IF tsLast.ok THEN tsLast.t \in (true - 9 * digits)..true /\ tsLast.t < TsWidth - 1
               ELSE \E x \in Range(v.terms) : true + x.unit >= TsWidth - 1

\* What is displayed can be given back: a time written with its numeric offset
\* is parsed as that time, whatever was parsed before, in a zone of whole
\* minutes and no leap seconds.
DisplayReparsed ==
    \A t \in {t \in {tsLast.t} : tsLast.ok /\ t \in 0..TsMaxTime} :
        LET z == tsZone.table
            d == FormatDisplay(z, t)
            v == [tsLast.value EXCEPT !.zone = "offset", !.body = "full", !.arg = d.civil,
                                      !.offset = d.offset, !.extra = 0, !.wrongDay = FALSE]
        IN  \A r \in {ParseValue(tsZone, v, tsLast.now, tsGuess)} :
            /\ z.leaps = <<>> /\ z.kinds[KindAt(z, t)].off % TsMinute = 0 => r.ok /\ r.t = t
            /\ z.leaps = <<>> => r.t - t \in (1 - TsMinute)..(TsMinute - 1)
=============================================================================
