---------------------------- MODULE MCSilentSettle ----------------------------
(* One specialist that runs at the beginning and a name for its replacement. *)
EXTENDS SilentSettle

CONSTANTS scout, spare
CONSTANT look           \* a task
CONSTANTS one, two      \* lanes
===============================================================================
