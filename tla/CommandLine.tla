---------------------------- MODULE CommandLine ----------------------------
(* The command line of journalctl: parse_cli (cmd/journalctl/parser.rs) reads *)
(* one argument after the other, an option taking its value from the argument *)
(* behind it; run (cmd/journalctl/main.rs) checks what was collected and      *)
(* dispatches to one action.  Spellings (short clusters, abbreviations) and   *)
(* the options that only change the output are left out.                      *)
EXTENDS Integers, Sequences, FiniteSets, SequencesExt

CONSTANTS
    ClTokens,   \* arguments: what each spells, the value it holds or reads as
    ClLength    \* arguments of a line at most, a bound

VARIABLES
    clLine,      \* the arguments read so far
    clArgs,      \* what was collected from them
    clWaiting,   \* the option that looks at the next argument for its value
    clDone       \* "reading", "stopped", "refused" or the action that ran

clVars == <<clLine, clArgs, clWaiting, clDone>>

\* An argument is [name, inline, value]: the option it names ("" for an operand,
\* "--" for the end of options), whether a value is attached, and the value.
\* Values: 0 is the empty one, 1 and 2 are numbers, 9 is no number at all.
Bad == 9
Vacuums  == {"vacuum-size", "vacuum-time"}
Required == {"since", "until", "directory", "file", "machine", "root", "cursor", "unit",
             "field", "verify-key"} \cup Vacuums
Optional == {"boot", "lines"}
Simple   == {"header", "list-boots", "list-invocations", "fields", "verify", "disk-usage", "sync",
             "new-id128"}
Stops    == {"help", "version"}
Typed    == {"since", "until", "boot", "lines"} \cup Vacuums
NoOption == ""

\* A value of "lines" that is 2 stands for the oldest lines (+N).
Oldest == 2
DefaultOf(name) == IF name = "boot" THEN 0 ELSE 1

NewArgs == [action |-> "show", opts |-> [o \in {} |-> 0], operands |-> 0, ended |-> FALSE]

\* The action after an option: the last one wins, but a rotation and a vacuum
\* that meet are one action.
ActionAfter(action, name) ==
    CASE name \in Simple -> name
      [] name = "field" -> "field"
      [] name = "verify-key" -> "verify"
      [] name = "rotate" -> IF action = "vacuum" THEN "rotate-and-vacuum" ELSE "rotate"
      [] name \in Vacuums -> IF action = "rotate" THEN "rotate-and-vacuum" ELSE "vacuum"
      [] OTHER -> action

Without(opts, o) == [p \in DOMAIN opts \ {o} |-> opts[p]]
WithOption(opts, o, v) == [p \in DOMAIN opts \cup {o} |-> IF p = o THEN v ELSE opts[p]]

\* An option with its value: a verification key drops a merge asked before it,
\* an empty root takes the root back.
Collect(a, name, v) ==
    [a EXCEPT !.action = ActionAfter(@, name),
              !.opts = CASE name \in Simple \cup {"rotate"} -> @
                         [] name = "verify-key" -> WithOption(Without(@, "merge"), name, v)
                         [] name = "root" /\ v = 0 -> Without(@, name)
                         [] OTHER -> WithOption(@, name, v)]

Refuses(name, v) == name \in Typed /\ v \in {0, Bad}

Settle(name, v) ==
    IF Refuses(name, v) THEN clDone' = "refused" /\ UNCHANGED clArgs
    ELSE clArgs' = Collect(clArgs, name, v) /\ UNCHANGED clDone

-----------------------------------------------------------------------------
ClInit == clLine = <<>> /\ clArgs = NewArgs /\ clWaiting = NoOption /\ clDone = "reading"

Reading(t) ==
    /\ clDone = "reading"
    /\ Len(clLine) < ClLength
    /\ clLine' = Append(clLine, t)

\* The argument is the value of the option before it, whatever it looks like;
\* an optional value only when it reads as one.
TakesAsValue(t) ==
    \/ clWaiting \in Required
    \/ clWaiting \in Optional /\ t.name = "" /\ t.value \notin {0, Bad}

ReadValue(t) ==
    /\ Reading(t) /\ TakesAsValue(t)
    /\ clWaiting' = NoOption
    /\ Settle(clWaiting, IF t.name = "" THEN t.value ELSE Bad)

\* The collected arguments once an option that waited in vain has its default.
Settled ==
    IF clWaiting \in Optional THEN Collect(clArgs, clWaiting, DefaultOf(clWaiting)) ELSE clArgs

ReadOperand(t) ==
    /\ Reading(t) /\ ~TakesAsValue(t)
    /\ (t.name = "" \/ Settled.ended)
    /\ clArgs' = [Settled EXCEPT !.operands = @ + 1]
    /\ clWaiting' = NoOption
    /\ UNCHANGED clDone

ReadEnd(t) ==
    /\ Reading(t) /\ ~TakesAsValue(t)
    /\ t.name = "--" /\ ~clArgs.ended
    /\ clArgs' = [Settled EXCEPT !.ended = TRUE]
    /\ clWaiting' = NoOption
    /\ UNCHANGED clDone

ReadStop(t) ==
    /\ Reading(t) /\ ~TakesAsValue(t)
    /\ t.name \in Stops /\ ~clArgs.ended
    /\ clDone' = "stopped"
    /\ clArgs' = Settled /\ clWaiting' = NoOption

ReadOption(t) ==
    /\ Reading(t) /\ ~TakesAsValue(t)
    /\ t.name \notin Stops \cup {"", "--"} /\ ~clArgs.ended
    /\ IF t.name \in Required \cup Optional /\ ~t.inline
       THEN clWaiting' = t.name /\ clArgs' = Settled /\ UNCHANGED clDone
       ELSE /\ clWaiting' = NoOption
            /\ IF \/ t.inline /\ t.name \notin Required \cup Optional
                  \/ t.inline /\ Refuses(t.name, t.value)
               THEN clDone' = "refused" /\ clArgs' = Settled
               ELSE clArgs' = Collect(Settled, t.name, t.value) /\ UNCHANGED clDone

-----------------------------------------------------------------------------
(* The checks of run, in the order of run, and the dispatch. *)

Given(a, o) == o \in DOMAIN a.opts
Sources == {"file", "directory", "machine", "root"}

SourcesClash(a) == Cardinality({o \in Sources : Given(a, o)}) > 1
BoundsCross(a) == Given(a, "since") /\ Given(a, "until") /\ a.opts["since"] > a.opts["until"]
CursorsClash(a) == Given(a, "cursor") /\ Given(a, "since")
LinesClash(a) ==
    \/ Given(a, "follow") /\ Given(a, "reverse")
    \/ /\ a.action = "show"
       /\ Given(a, "lines") /\ a.opts["lines"] = Oldest /\ ~Given(a, "no-tail")
       /\ \E o \in {"follow", "reverse"} : Given(a, o)
OperandsRejected(a) == a.operands > 0 /\ a.action # "show"
FieldsRestricted(a) ==
    /\ a.action \in {"fields", "field"}
    /\ \E o \in {"boot", "unit", "since", "until", "cursor"} : Given(a, o)
BootMergeClash(a) == Given(a, "merge") /\ (Given(a, "boot") \/ a.action = "list-boots")

HasVacuumFlags(a) == a.action \in {"vacuum", "rotate-and-vacuum"}

Unsupported(a) ==
    \/ Given(a, "machine") \/ Given(a, "root")
    \/ a.action \in {"sync", "rotate", "rotate-and-vacuum"}
    \/ HasVacuumFlags(a) /\ ~Given(a, "directory")

Refused(a) ==
    \/ SourcesClash(a) \/ BoundsCross(a) \/ CursorsClash(a) \/ LinesClash(a)
    \/ OperandsRejected(a) \/ FieldsRestricted(a) \/ BootMergeClash(a) \/ Unsupported(a)

HasInput(a) == Given(a, "directory") \/ Given(a, "file")

Dispatch(a) ==
    CASE Refused(a)                         -> "refused"
      [] a.action = "new-id128"             -> "new-id128"
      [] ~HasInput(a)                       -> "refused"
      [] a.action = "disk-usage"            -> "disk-usage"
      [] HasVacuumFlags(a)                  -> "vacuum"
      [] a.action \in {"header", "list-invocations", "verify", "list-boots"} -> a.action
      [] Given(a, "follow") /\ a.action = "show" -> "follow"
      [] OTHER                              -> a.action

\* The line ends: a required value is missing, or what was collected is run.
Run ==
    /\ clDone = "reading"
    /\ clDone' = IF clWaiting \in Required THEN "refused" ELSE Dispatch(Settled)
    /\ clArgs' = Settled
    /\ clWaiting' = NoOption
    /\ UNCHANGED clLine

ClNext ==
    \/ \E t \in ClTokens : ReadValue(t)
    \/ \E t \in ClTokens : ReadOperand(t)
    \/ \E t \in ClTokens : ReadEnd(t)
    \/ \E t \in ClTokens : ReadStop(t)
    \/ \E t \in ClTokens : ReadOption(t)
    \/ Run

ClSpec == ClInit /\ [][ClNext]_clVars

-----------------------------------------------------------------------------
\* What each argument of the line is, by position: a value when the one before
\* it is an option that takes it, an operand behind the end of the options.
Roles ==
    LET role[i \in 0..Len(clLine)] ==
            IF i = 0 THEN "none"
            ELSE LET t == clLine[i]
                     awaits == role[i - 1] = "option" /\ ~clLine[i - 1].inline
                     before == IF i = 1 THEN "" ELSE clLine[i - 1].name
                 IN  IF role[i - 1] \in {"end", "rest"} THEN "rest"
                     ELSE IF awaits /\ \/ before \in Required
                                       \/ before \in Optional /\ t.name = "" /\ t.value \notin {0, Bad}
                     THEN "value"
                     ELSE IF t.name = "" THEN "operand"
                     ELSE IF t.name = "--" THEN "end" ELSE "option"
    IN  [i \in DOMAIN clLine |-> role[i]]

ActionNames == Simple \cup Vacuums \cup {"field", "verify-key", "rotate"}

\* The actions a line asks for, in the order of the line.
Asked ==
    LET at == SelectSeq([i \in DOMAIN clLine |-> i],
                        LAMBDA i : Roles[i] = "option" /\ clLine[i].name \in ActionNames)
    IN  [k \in DOMAIN at |-> clLine[at[k]].name]

\* The last action of the line is the one that runs: nothing is vacuumed for a
\* limit given before another action, nothing that only looks like an option
\* because it is a value or stands behind the end of the options has an effect,
\* and a rotation that ends the line or directly precedes its one vacuum option
\* is refused, not skipped.
DispatchLastAction ==
    clDone \notin {"reading", "stopped", "refused"} =>
        IF Asked = <<>> THEN clDone \in {"show", "follow"}
        ELSE /\ clDone = CASE Last(Asked) \in Vacuums -> "vacuum"
                           [] Last(Asked) = "verify-key" -> "verify"
                           [] OTHER -> Last(Asked)
             /\ Last(Asked) # "rotate"
             /\ Len(Asked) = 2 /\ Asked[2] \in Vacuums => Asked[1] # "rotate"

\* The bounds that run are those given last, each read on its own where it
\* stands, and they are in order.
BoundsLast ==
    clDone \notin {"reading", "stopped", "refused"} =>
        LET value(i) == IF clLine[i].inline THEN clLine[i].value ELSE clLine[i + 1].value
            at(o)    == {i \in DOMAIN clLine : Roles[i] = "option" /\ clLine[i].name = o}
            last(o)  == value(CHOOSE i \in at(o) : \A j \in at(o) : j <= i)
        IN  /\ \A o \in {"since", "until"} :
                  /\ Given(clArgs, o) <=> at(o) # {}
                  /\ at(o) # {} => clArgs.opts[o] = last(o)
            /\ at("since") # {} /\ at("until") # {} => last("since") <= last("until")
=============================================================================
