-------------------------- MODULE PipelineContract --------------------------
(***************************************************************************)
(* What a pipeline run promises its reader, whatever happens to the        *)
(* processes that carry it out: the stages get their verdicts in the order *)
(* of the definition, each exactly once and for good; a stage is judged on *)
(* its own work only if all its inputs succeeded, and is marked            *)
(* dependency_failed exactly if one of them did not; under the policy      *)
(* "stop" nothing is decided after a failure.                              *)
(***************************************************************************)
EXTENDS Integers

CONSTANTS N, Inputs
VARIABLES policy, verdict

Stages == 1 .. N

Init ==
    /\ policy \in {"stop", "continue"}
    /\ verdict = [s \in Stages |-> "open"]

(* Stage s may be judged: all before it are, and no failure stopped it.    *)
Due(s) ==
    /\ verdict[s] = "open"
    /\ \A t \in 1 .. s - 1 :
          verdict[t] \in IF policy = "stop" THEN {"succeeded"}
                        ELSE {"succeeded", "failed", "dependency_failed"}

InputsSucceeded(s) == \A t \in Inputs[s] : verdict[t] = "succeeded"

Judge(s, v) ==
    /\ Due(s)
    /\ v \in IF InputsSucceeded(s) THEN {"succeeded", "failed"}
            ELSE {"dependency_failed"}
    /\ verdict' = [verdict EXCEPT ![s] = v]
    /\ UNCHANGED policy

Next == \E s \in Stages, v \in {"succeeded", "failed", "dependency_failed"} : Judge(s, v)

Spec == Init /\ [][Next]_<<policy, verdict>>
=============================================================================
