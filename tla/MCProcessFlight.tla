--------------------------- MODULE MCProcessFlight ---------------------------
(* Processes on one machine: every clock agrees with the file times.       *)
EXTENDS ProcessFlight

ClocksAgree == [p \in Processes |-> 0]
=============================================================================
