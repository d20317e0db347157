-------------------------- MODULE MCRepositoryLock --------------------------
(* Instances of RepositoryLock for TLC.                                    *)
EXTENDS RepositoryLock, TLC

CONSTANTS a, b, serve, ticker

OwnFolders == [t \in Tasks |-> t]
OneFolder == [t \in Tasks |-> 0]
DaysOrTwo == [t \in Tasks |-> IF t = a THEN 0 ELSE 2]
Symmetry == Permutations(Procs)
=============================================================================
