---------------------------- MODULE MCPocketSync ----------------------------
(* Two calls, of one process (serve) or of two (serve and a CLI command).   *)
EXTENDS PocketSync

OneProcess == [r \in {1, 2} |-> "serve"]
TwoProcesses == [r \in {1, 2} |-> IF r = 1 THEN "serve" ELSE "cli"]

=============================================================================
