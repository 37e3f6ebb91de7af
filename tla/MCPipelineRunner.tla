-------------------------- MODULE MCPipelineRunner --------------------------
(* Small pipelines for TLC. *)
EXTENDS PipelineRunner

CONSTANTS alice, bob      \* specialists

(* Two stages, the second reading the first.  The first may be given to    *)
(* either specialist, the second to alice, who may have had the first.     *)
ChainInputs == [s \in Stage |-> IF s = 1 THEN {} ELSE {s - 1}]
SharedPool == [s \in Stage |-> IF s = 1 THEN Instance ELSE {alice}]

(* Three stages: the second reads the first, the third nothing, so under   *)
(* "continue" it runs whatever became of the others.                       *)
ForkInputs == [s \in Stage |-> IF s = 2 THEN {1} ELSE {}]
OwnPool == [s \in Stage |-> IF s = 1 THEN {alice} ELSE {bob}]

PlainAsk == {[error |-> FALSE, options |-> FALSE]}
AnyAsk == [error : BOOLEAN, options : BOOLEAN]
ChoiceAsk == {[error |-> TRUE, options |-> TRUE]}
=============================================================================
