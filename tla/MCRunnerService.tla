--------------------------- MODULE MCRunnerService --------------------------
(* Two runs, one after or during the other, for TLC. *)
EXTENDS RunnerService

CONSTANTS first, second    \* runs
=============================================================================
