--------------------------- MODULE PipelineState ---------------------------
(***************************************************************************)
(* The record of one pipeline run as agency/scripts/pipeline_state.py      *)
(* keeps it in pipelines.json, and the functions that change it.  Every    *)
(* function of that file loads the state, changes one run, validates the   *)
(* whole and saves it; here each is an operator from run to run, with the  *)
(* guard under which it raises no error.                                   *)
(*                                                                         *)
(* Simplifications.  A stage is its position in the definition (stage id,  *)
(* role and the task id pl-<pipeline>-s<n> are functions of it).  Summary  *)
(* and artifacts are abstracted to the report they were taken from (by).   *)
(* Time stamps are left out: assignedInstance and dispatchedAt are only    *)
(* ever set together, and completedAt is set whenever a stage leaves       *)
(* pending or dispatched.  The texts error, question, operatorResponse and *)
(* options are abstracted to whether they are present.                     *)
(***************************************************************************)
EXTENDS Integers, FiniteSets, FiniteSetsExt

CONSTANTS
    N,          \* number of stages of the pipeline
    Inputs,     \* Inputs[s]: the earlier stages whose artifacts stage s reads
    Instance,   \* names a specialist can have in the ledger
    NoInstance  \* assignedInstance is null

Stage == 1 .. N

(* What the catalog validates of a definition: at least one stage, and     *)
(* inputs that select earlier stages only.                                 *)
ASSUME DefinitionAssumption ==
    /\ N \in Nat \ {0}
    /\ Inputs \in [Stage -> SUBSET Stage]
    /\ \A s \in Stage : \A r \in Inputs[s] : r < s
    /\ NoInstance \notin Instance

NoStage == 0    \* currentStageId is null

StageStatus == {"pending", "dispatched", "succeeded", "failed",
                "dependency_failed", "needs_attention"}
RunStatus == {"running", "succeeded", "failed", "needs_attention"}
ActiveStatus == {"running", "needs_attention"}
Decided == {"succeeded", "failed", "dependency_failed"}

StageRecord ==
    [status   : StageStatus,
     inst     : Instance \cup {NoInstance},
     by       : Nat,        \* report its summary and artifacts come from; 0: none
     error    : BOOLEAN,
     question : BOOLEAN,
     answer   : BOOLEAN,
     options  : BOOLEAN]

(* active: activePipelineId names this run. *)
Run == [status : RunStatus, onFailure : {"stop", "continue"},
        current : Stage \cup {NoStage}, active : BOOLEAN,
        stage : [Stage -> StageRecord]]

NewStage == [status |-> "pending", inst |-> NoInstance, by |-> 0,
             error |-> FALSE, question |-> FALSE, answer |-> FALSE,
             options |-> FALSE]

CreateRun(policy) ==
    [status |-> "running", onFailure |-> policy, current |-> 1,
     active |-> TRUE, stage |-> [s \in Stage |-> NewStage]]

-----------------------------------------------------------------------------
(* Validation: save_state refuses a state that is not valid. *)

ValidStage(st) ==
    /\ st.status \in {"failed", "dependency_failed"} => st.error
    /\ st.status = "needs_attention" => st.question
    /\ st.status \in {"pending", "dispatched", "succeeded"} => ~st.error
    /\ st.status # "needs_attention" => ~st.answer /\ ~st.options
    /\ st.status \in {"pending", "dependency_failed"} => st.inst = NoInstance
    /\ st.status \in {"dispatched", "succeeded", "failed"} => st.inst # NoInstance

InStatus(r, S) == {s \in Stage : r.stage[s].status \in S}
Before(s) == {t \in Stage : t < s}
After(s) == {t \in Stage : t > s}

(* A finished run has nothing uncertain left: a stopped run is successes,  *)
(* one failure, then stages never begun; any other run decided them all.   *)
FinishedCoherent(r) ==
    /\ r.current = NoStage
    /\ \/ r.status = "succeeded" /\ InStatus(r, {"succeeded"}) = Stage
       \/ /\ r.status = "failed" /\ r.onFailure = "stop"
          /\ \E f \in InStatus(r, {"failed"}) :
                /\ Before(f) \subseteq InStatus(r, {"succeeded"})
                /\ After(f) \subseteq InStatus(r, {"pending"})
       \/ /\ r.status = "failed" /\ r.onFailure = "continue"
          /\ InStatus(r, {"failed", "dependency_failed"}) # {}
          /\ InStatus(r, Decided) = Stage

(* An active run is a decided prefix, the current stage, and a suffix of   *)
(* stages never begun; under "stop" the prefix is all successes.           *)
ActiveCoherent(r) ==
    /\ r.current \in Stage
    /\ Before(r.current) \subseteq
          InStatus(r, IF r.onFailure = "stop" THEN {"succeeded"} ELSE Decided)
    /\ After(r.current) \subseteq InStatus(r, {"pending"})
    /\ r.stage[r.current].status \in
          IF r.status = "running" THEN {"pending", "dispatched"}
                                  ELSE {"needs_attention"}

ValidRun(r) ==
    /\ \A s \in Stage : ValidStage(r.stage[s])
    /\ r.active <=> r.status \in ActiveStatus
    /\ IF r.status \in ActiveStatus THEN ActiveCoherent(r)
                                    ELSE FinishedCoherent(r)

-----------------------------------------------------------------------------
(* What the run's own status and current stage become once stage s has its *)
(* new status: the first stage that needs attention, else the first that   *)
(* is dispatched, else the first pending one is current; when there is     *)
(* none, or a failure stops the run, the run is over.                      *)
Finish(r, status) ==
    [r EXCEPT !.status = status, !.current = NoStage, !.active = FALSE]

UpdateRun(r, s) ==
    LET attention  == InStatus(r, {"needs_attention"})
        dispatched == InStatus(r, {"dispatched"})
        pending    == InStatus(r, {"pending"})
        failed     == InStatus(r, {"failed", "dependency_failed"})
    IN  IF r.stage[s].status = "failed" /\ r.onFailure = "stop"
          THEN Finish(r, "failed")
        ELSE IF attention # {}
          THEN [r EXCEPT !.status = "needs_attention", !.current = Min(attention)]
        ELSE IF dispatched # {}
          THEN [r EXCEPT !.status = "running", !.current = Min(dispatched)]
        ELSE IF pending # {}
          THEN [r EXCEPT !.status = "running", !.current = Min(pending)]
        ELSE Finish(r, IF failed # {} THEN "failed" ELSE "succeeded")

(* The transition table of transition_stage. *)
Allowed(old) ==
    CASE old = "pending"         -> {"dispatched", "dependency_failed", "needs_attention"}
      [] old = "dispatched"      -> {"succeeded", "failed", "needs_attention"}
      [] old = "needs_attention" -> {"dispatched"}
      [] OTHER                   -> {}

CanTransition(r, s, new) ==
    /\ r.active
    /\ r.current = s
    /\ new \in Allowed(r.stage[s].status)

(* What a transition brings with it: the instance it dispatches to, the    *)
(* report whose summary and artifacts it stores (0: it leaves the old      *)
(* ones), and whether an error, a question and options come along.         *)
Change(i, b, e, q, o) ==
    [inst |-> i, by |-> b, error |-> e, question |-> q, options |-> o]

(* Wrong on purpose: the error of the question survives the re-dispatch.   *)
NextStageKeepsError(st, new, c) ==
    LET asks == new = "needs_attention"
    IN  [st EXCEPT !.status = new,
                   !.inst = IF c.inst # NoInstance THEN c.inst ELSE st.inst,
                   !.by = IF c.by # 0 THEN c.by ELSE st.by,
                   !.error = st.error \/ c.error,
                   !.question = asks /\ (c.question \/ st.question),
                   !.answer = asks /\ st.answer,
                   !.options = asks /\ (c.options \/ st.options)]

(* The stage after the transition: an answer, options and question do not  *)
(* outlive needs_attention, and a re-dispatch drops the old error.         *)
NextStage(st, new, c) ==
    LET asks == new = "needs_attention"
    IN  [status   |-> new,
         inst     |-> IF c.inst # NoInstance THEN c.inst ELSE st.inst,
         by       |-> IF c.by # 0 THEN c.by ELSE st.by,
         error    |-> /\ st.error \/ c.error
                      /\ ~(new = "dispatched" /\ st.status = "needs_attention"),
         question |-> asks /\ (c.question \/ st.question),
         answer   |-> asks /\ st.answer,
         options  |-> asks /\ (c.options \/ st.options)]

Transition(r, s, new, c) ==
    UpdateRun([r EXCEPT !.stage[s] = NextStage(@, new, c)], s)

Dispatching(i) == Change(i, 0, FALSE, FALSE, FALSE)
Asking == Change(NoInstance, 0, FALSE, TRUE, FALSE)
Failing == Change(NoInstance, 0, TRUE, FALSE, FALSE)

-----------------------------------------------------------------------------
(* record_reconciled_result: a late result of work that was dispatched.    *)
(* The answer, question and options of the stage stay as they are, so the  *)
(* save refuses the result of a stage that still has an answer or options. *)
Reconciled(st, status, b) ==
    [st EXCEPT !.status = status, !.by = b, !.error = (status = "failed")]

CanReconcile(r, s, status) ==
    /\ status \in {"succeeded", "failed"}
    /\ r.active
    /\ r.current = s
    /\ r.stage[s].inst # NoInstance
    /\ r.stage[s].status \in {"dispatched", "needs_attention"}
    /\ ValidStage(Reconciled(r.stage[s], status, 0))

Reconcile(r, s, status, b) ==
    UpdateRun([r EXCEPT !.stage[s] = Reconciled(@, status, b)], s)

(* record_operator_response: one answer per question, no status change.    *)
CanAnswer(r, s) ==
    /\ r.active
    /\ r.stage[s].status = "needs_attention"
    /\ ~r.stage[s].answer

RecordAnswer(r, s) == [r EXCEPT !.stage[s].answer = TRUE]

(* Wrong on purpose: re-dispatches a question nobody answered. *)
ResumeActionUnanswered(st) ==
    IF st.status = "needs_attention" /\ st.inst # NoInstance THEN "re_dispatch" ELSE "reconcile"

(* Wrong on purpose: dispatched work is looked up before answers are. *)
ResumeActionLookupFirst(st) ==
    IF st.status \in {"dispatched", "needs_attention"} /\ st.inst # NoInstance
      THEN "reconcile" ELSE "terminal"

(* classify_resume, of a stage whose report is looked up afterwards.       *)
ResumeAction(st) ==
    CASE st.status = "needs_attention" /\ st.inst # NoInstance /\ st.answer -> "re_dispatch"
      [] st.status \in {"dispatched", "needs_attention"} /\ st.inst # NoInstance
         /\ ~st.answer -> "reconcile"
      [] st.status = "pending" -> "pending"
      [] st.status = "succeeded" -> "skip"
      [] OTHER -> "terminal"
=============================================================================
