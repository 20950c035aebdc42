------------------------------- MODULE MCReader -------------------------------
(* Two parts of journal-core that do not act on each other, on small instances *)
(* in one run: readers of journals of up to five entries in arrays of one, two *)
(* and four slots, and the writer of a regular file of up to four entries.     *)
(* A behaviour exercises one part and leaves the other in an initial state.    *)
EXTENDS ReaderProperties, MCWriter

VARIABLE part  \* the part this behaviour exercises

Entry(t, q, m, b, d) == [t |-> t, q |-> q, m |-> m, b |-> b, d |-> <<BootDatum(b)>> \o d, h |-> q]
A1 == <<1, 1>>
A2 == <<1, 2>>
C1 == <<2, 1>>

MCCaps == <<1, 2, 4>>
MCJournals ==
    [one |-> <<Entry(2, 1, 1, 1, <<A1>>), Entry(2, 2, 2, 1, <<A2, C1>>), Entry(4, 3, 1, 2, <<A1, C1>>),
               Entry(5, 4, 2, 2, <<A1>>), Entry(6, 5, 3, 2, <<A2, C1>>)>>,
     \* goes on after "one"
     two |-> <<Entry(7, 6, 4, 2, <<A1>>), Entry(8, 7, 5, 2, <<A2>>)>>,
     \* another sequence of the same boots, with times in common
     far |-> <<Entry(3, 1, 3, 1, <<A1>>), Entry(4, 2, 1, 2, <<A2>>), Entry(5, 3, 2, 2, <<A1, C1>>)>>,
     \* holds an entry of "one" as well
     copy |-> <<Entry(2, 2, 2, 1, <<A2, C1>>), Entry(9, 8, 9, 2, <<A1>>)>>]
MCSeqIds == [one |-> 1, two |-> 1, far |-> 2, copy |-> 1]
MCFileSetups == {[j |-> "one", n |-> 4, extent |-> e] : e \in {11, 21, Complete("one", 4)}}
Setup(j, n) == [j |-> j, n |-> n, extent |-> Complete(j, n)]
MCDirSetups == {<<Setup("two", 1), Setup("one", 4)>>, <<Setup("one", 4), Setup("far", 2)>>, <<Setup("copy", 1), Setup("one", 4)>>,
                <<[j |-> "one", n |-> 4, extent |-> 17], Setup("two", 2)>>, <<[j |-> "one", n |-> 4, extent |-> 12], Setup("far", 3)>>}
MCScripts == {<<>>, <<A1, C1>>}
MCData == {C1}
MCTimes == {4}
Anchor(s, m, t) == [seq |-> s, mono |-> m, t |-> t]
MCAnchors == {Anchor(<<1, 3>>, <<2, 1>>, 4), Anchor(<<2, 3>>, <<2, 2>>, 5), Anchor(NoPair, <<1, 3>>, NoTime)}

ReaderIdle == rdMode = "file" /\ rd = Ask(OpenedFile([j |-> "one", n |-> 4, extent |-> 11]), <<>>) /\ ReaderInit
ReaderOrWriterInit ==
  /\ Init
  /\ \/ part = "reader" /\ ReaderInit
     \/ part = "writer" /\ ReaderIdle
ReaderOrWriterNext ==
  /\ \/ part = "reader" /\ ReaderNext /\ UNCHANGED vars
     \/ part = "writer" /\ Next /\ UNCHANGED rvars
  /\ UNCHANGED part
\* An append is a call on one thread that nothing stops.
ReaderOrWriterSpec ==
  ReaderOrWriterInit /\ [][ReaderOrWriterNext]_<<part, rvars, vars>> /\ WF_vars(Step)
=============================================================================
