---------------------------- MODULE MCLedgerSpawn -----------------------------
(* Two commands at a time, a hub terminal, and the roles with rules. *)
EXTENDS LedgerSpawn, TLC

CONSTANTS first, second     \* commands
CONSTANTS terminal, left, right     \* surfaces
CONSTANTS worker, planner, twin

Kinds == {worker, planner} \X {"persistent", "temporary"}

Commands == Permutations(Command)
===============================================================================
