--------------------------- MODULE MCBackupFiles ---------------------------
(* Instances of BackupFiles for TLC.                                       *)
EXTENDS BackupFiles, TLC

CONSTANTS n1, n2, n3

FetchAll == [strategy |-> "fetch_existing", count |-> None, days |-> None]
FetchNewest == [strategy |-> "fetch_existing", count |-> 1, days |-> None]
DumpNewest == [strategy |-> "dump", count |-> 1, days |-> None]
DumpToday == [strategy |-> "dump", count |-> None, days |-> 0]
DumpBoth == [strategy |-> "dump", count |-> 1, days |-> 1]

EveryPolicy == {FetchNewest, DumpToday, DumpBoth}
Fetching == {FetchAll}
FetchingNewest == {FetchNewest}
Dumping == {DumpNewest}

\* Names that are all used once, or all reused, are interchangeable.
NameSymmetry == Permutations(Names)
=============================================================================
