------------------------------- MODULE MCBroker -------------------------------
(* The hub's terminal, a second one that also claims to be the hub, and a  *)
(* specialist.                                                             *)
EXTENDS Broker

CONSTANTS orchestrator, scout      \* names
CONSTANTS old, new, helper         \* processes
CONSTANTS first, second            \* asks

Names == [c \in Client |-> IF c = helper THEN scout ELSE orchestrator]

(* One question of the specialist, and one of the hub. *)
Askers == [a \in Ask |-> IF a = first THEN scout ELSE orchestrator]
Askeds == [a \in Ask |-> IF a = first THEN orchestrator ELSE scout]
===============================================================================
