------------------------------- MODULE Mirror -------------------------------
(***************************************************************************)
(* What Arkode Pocket promises, whatever fails: the published copy only    *)
(* moves forward through versions of the source, and what the phone shows  *)
(* is the copy as it was at some time, or nothing.  Versions are numbers,  *)
(* 0 is none.                                                              *)
(***************************************************************************)
EXTENDS Naturals

VARIABLES source, copy, view

Init == source = 1 /\ copy = 0 /\ view = 0

Edit == source' = source + 1 /\ UNCHANGED <<copy, view>>

Publish == copy' \in copy .. source /\ UNCHANGED <<source, view>>

View == view' \in {0, copy} /\ UNCHANGED <<source, copy>>

Spec == Init /\ [][Edit \/ Publish \/ View]_<<source, copy, view>>

=============================================================================
