---------------------------- MODULE MCBackupRuns ----------------------------
(* Small instances of BackupRuns for TLC.                                  *)
EXTENDS BackupRuns, TLC

CONSTANTS t1, t2, serve, tick, pid1, pid2, pid3

PidSymmetry == Permutations(Pids)
=============================================================================
