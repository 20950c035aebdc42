-------------------------------- MODULE MCLog --------------------------------
EXTENDS JournalLog

\* Rotation after one entry, two files kept.
CountPolicy == [rcount |-> 1, rsize |-> 0, rspan |-> 0, files |-> 2, bytes |-> 0,
                age |-> 0, artifact |-> 0, geo |-> 1]
\* Rotation by size and by time span, retention by bytes (with an artifact beside
\* every file) and by age, another hash table geometry.
SizePolicy == [rcount |-> 0, rsize |-> 3, rspan |-> 2, files |-> 0, bytes |-> 3,
               age |-> 5, artifact |-> 1, geo |-> 2]

Old(fid, m) == [NewFile(fid, 50 + m, 9, 1) EXCEPT
                  !.ents = <<[id |-> 50 + m, s |-> 3, r |-> 1, m |-> 1, b |-> 9]>>]

\* An active file nobody can append to, and one of a retired machine.
Unsupported == ActiveName(1) :> [Old(1, 1) EXCEPT !.supported = FALSE]
Retired == ActiveName(2) :> Old(1, 2)

Config(mode, sync, eager, pol) == [mode |-> mode, sync |-> sync, eager |-> eager, pol |-> pol]
MCConfigs ==
    {Config("chain", TRUE, FALSE, SizePolicy),
     Config("strict", TRUE, FALSE, CountPolicy), Config("strict", FALSE, TRUE, SizePolicy),
     Config("root", FALSE, TRUE, SizePolicy)}
MCPolicies == {CountPolicy, SizePolicy}
MCDisks == {Unsupported, Retired}
=============================================================================
