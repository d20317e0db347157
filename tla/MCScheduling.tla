---------------------------- MODULE MCScheduling ----------------------------
\* A daily task and one of every second day, for model-checking Scheduling.
EXTENDS Scheduling

CONSTANTS daily, weekly

MCMatches == [t \in {daily, weekly} |-> IF t = daily THEN {0, 1, 2, 3} ELSE {0, 2}]
MCSlotOf == [t \in {daily, weekly} |-> IF t = daily THEN 1 ELSE 0]
=============================================================================
