------------------------ MODULE PipelineRunner_proofs ------------------------
(***************************************************************************)
(* Proofs, for every pipeline and every bound, that the saved run always   *)
(* passes its own validation and that, as long as no operator's answer     *)
(* overlaps with a driver, a decided stage is never changed.               *)
(***************************************************************************)
EXTENDS PipelineRunner, WellFoundedInduction, TLAPS

-----------------------------------------------------------------------------
(* What one change of the run may do: the new run is valid again, decided  *)
(* stages are as before and no stage gains an answer.                      *)
Advance(r, r2) ==
    /\ r2 \in Run
    /\ ValidRun(r2)
    /\ \A s \in Stage : r.stage[s].status \in Decided => r2.stage[s] = r.stage[s]
    /\ \A s \in Stage : r2.stage[s].answer => r.stage[s].answer

(* The oldest of a set of reports is one of them. *)
LEMMA MinOfNaturals ==
    ASSUME NEW S \in SUBSET Nat, S # {}
    PROVE  Min(S) \in S
<1> DEFINE less == {p \in Nat \X Nat : p[1] < p[2]}
<1>1. IsWellFoundedOn(less, Nat)
  BY NatLessThanWellFounded DEF OpToRel
<1>2. \A x, y \in Nat : <<y, x>> \notin less => x <= y
  OBVIOUS
<1> HIDE DEF less
<1>3. PICK x \in S : \A y \in S : <<y, x>> \notin less
  BY <1>1, WFMin, Zenon
<1>4. \A y \in S : x <= y
  BY <1>2, <1>3
<1> QED
  BY <1>3, <1>4 DEF Min

(* The current stage is the least of its kind, and what follows it begins  *)
(* with its successor.                                                     *)
LEMMA MinOfStages ==
    ASSUME NEW s \in Stage
    PROVE  /\ Min({s}) = s
           /\ s # N => s + 1 \in Stage /\ After(s) # {} /\ Min(After(s)) = s + 1
           /\ s = N => After(s) = {}
<1> USE DefinitionAssumption DEF Stage
<1>1. Min({s}) = s
  BY DEF Min
<1>2. CASE s = N
  BY <1>1, <1>2 DEF After
<1>3. CASE s # N
  <2>1. s + 1 \in Stage /\ s + 1 \in After(s)
    BY <1>3 DEF After
  <2>2. \A y \in After(s) : y \in Int /\ s + 1 <= y
    BY DEF After
  <2>3. \E x \in After(s) : \A y \in After(s) : x <= y
    BY <2>1, <2>2
  <2>4. Min(After(s)) \in After(s) /\ \A y \in After(s) : Min(After(s)) <= y
    BY <2>3 DEF Min
  <2>5. Min(After(s)) = s + 1
    BY <2>1, <2>2, <2>4
  <2> QED
    BY <1>1, <1>3, <2>1, <2>5
<1> QED
  BY <1>2, <1>3

(* The heart of it: giving the current stage of a valid active run a valid *)
(* new record and updating the run yields a valid run.  A dependency can   *)
(* only have failed where the policy lets the run go on after a failure.   *)
LEMMA UpdateRunValid ==
    ASSUME NEW r \in Run, ValidRun(r), r.active, NEW s \in Stage, r.current = s,
           NEW st \in StageRecord, ValidStage(st), st.status # "pending",
           st.status = "dependency_failed" => r.onFailure = "continue"
    PROVE  LET r1 == [r EXCEPT !.stage[s] = st]
               r2 == UpdateRun(r1, s)
           IN  r2 \in Run /\ ValidRun(r2) /\ r2.stage = r1.stage
<1> DEFINE r1 == [r EXCEPT !.stage[s] = st]
           r2 == UpdateRun(r1, s)
<1>1. /\ r1 \in Run /\ r1.onFailure = r.onFailure /\ r1.active = TRUE
      /\ r1.stage[s] = st
      /\ \A t \in Stage : t # s => r1.stage[t] = r.stage[t]
      /\ \A t \in Stage : r1.stage[t] \in StageRecord
  BY DEF Run, StageRecord
<1>2. /\ \A t \in Stage : ValidStage(r1.stage[t])
      /\ \A t \in Before(s) : /\ r1.stage[t].status \in Decided
                              /\ r.onFailure = "stop" => r1.stage[t].status = "succeeded"
      /\ \A t \in After(s) : r1.stage[t].status = "pending"
  <2>1. r.status \in ActiveStatus /\ ActiveCoherent(r)
    BY DEF ValidRun
  <2>2. \A t \in Before(s) \cup After(s) : t \in Stage /\ t # s
    BY DEF Before, After, Stage
  <2> QED
    BY <1>1, <2>1, <2>2 DEF ValidRun, ActiveCoherent, InStatus, Decided
<1>3. \A t \in Stage : t = s \/ t \in Before(s) \/ t \in After(s)
  BY DefinitionAssumption DEF Before, After, Stage
<1>4. s \notin Before(s) /\ s \notin After(s)
  BY DEF Before, After, Stage
<1> HIDE DEF r1
<1>5. CASE st.status = "failed" /\ r.onFailure = "stop"
  <2>1. r2 = Finish(r1, "failed")
    BY <1>1, <1>5 DEF UpdateRun
  <2>2. r2 \in Run /\ r2.stage = r1.stage
    BY <2>1, <1>1 DEF Finish, Run, RunStatus, NoStage
  <2>3. ValidRun(r2)
    BY <2>1, <1>1, <1>2, <1>5
       DEF Finish, ValidRun, FinishedCoherent, ActiveStatus, InStatus, Run, Before, After
  <2> QED
    BY <2>2, <2>3 DEF r1
<1>6. CASE st.status = "needs_attention"
  <2>1. InStatus(r1, {"needs_attention"}) = {s}
    BY <1>1, <1>2, <1>3, <1>6 DEF InStatus, Decided
  <2>2. r2 = [r1 EXCEPT !.status = "needs_attention", !.current = s]
    BY <1>1, <1>6, <2>1, MinOfStages DEF UpdateRun
  <2>3. r2 \in Run /\ r2.stage = r1.stage
    BY <2>2, <1>1 DEF Run, RunStatus
  <2>4. ValidRun(r2)
    BY <2>2, <1>1, <1>2, <1>6
       DEF ValidRun, ActiveCoherent, ActiveStatus, InStatus, Run, Before, After, Decided
  <2> QED
    BY <2>3, <2>4 DEF r1
<1>7. CASE st.status = "dispatched"
  <2>1. /\ InStatus(r1, {"needs_attention"}) = {}
        /\ InStatus(r1, {"dispatched"}) = {s}
    BY <1>1, <1>2, <1>3, <1>7 DEF InStatus, Decided
  <2>2. r2 = [r1 EXCEPT !.status = "running", !.current = s]
    BY <1>1, <1>7, <2>1, MinOfStages DEF UpdateRun
  <2>3. r2 \in Run /\ r2.stage = r1.stage
    BY <2>2, <1>1 DEF Run, RunStatus
  <2>4. ValidRun(r2)
    BY <2>2, <1>1, <1>2, <1>7
       DEF ValidRun, ActiveCoherent, ActiveStatus, InStatus, Run, Before, After, Decided
  <2> QED
    BY <2>3, <2>4 DEF r1
<1>8. CASE st.status \in Decided /\ ~(st.status = "failed" /\ r.onFailure = "stop")
  <2>1. /\ InStatus(r1, {"needs_attention"}) = {}
        /\ InStatus(r1, {"dispatched"}) = {}
        /\ InStatus(r1, {"pending"}) = After(s)
    BY <1>1, <1>2, <1>3, <1>4, <1>8 DEF InStatus, Decided, After
  <2>2. r.onFailure = "stop" => st.status = "succeeded"
    BY <1>8 DEF Decided, Run
  <2>3. CASE s # N
    <3>1. r2 = [r1 EXCEPT !.status = "running", !.current = s + 1]
      BY <1>1, <1>8, <2>1, <2>3, MinOfStages DEF UpdateRun
    <3>2. s + 1 \in Stage /\ s + 1 \in After(s)
      BY <2>3, MinOfStages, DefinitionAssumption DEF After, Stage
    <3>3. r2 \in Run /\ r2.stage = r1.stage
      BY <3>1, <3>2, <1>1 DEF Run, RunStatus
    <3>4. \A t \in Before(s + 1) : t = s \/ t \in Before(s)
      BY DefinitionAssumption DEF Before, Stage
    <3>5. \A t \in After(s + 1) : t \in After(s)
      BY DefinitionAssumption DEF After, Stage
    <3>6. ValidRun(r2)
      BY <3>1, <3>2, <3>4, <3>5, <1>1, <1>2, <1>8, <2>2
         DEF ValidRun, ActiveCoherent, ActiveStatus, InStatus, Run, Before, After, Decided
    <3> QED
      BY <3>3, <3>6 DEF r1
  <2>4. CASE s = N
    <3>1. After(s) = {}
      BY <2>4, MinOfStages
    <3> DEFINE bad == InStatus(r1, {"failed", "dependency_failed"})
    <3>2. r2 = Finish(r1, IF bad # {} THEN "failed" ELSE "succeeded")
      BY <1>1, <1>8, <2>1, <3>1 DEF UpdateRun
    <3>3. r2 \in Run /\ r2.stage = r1.stage
      BY <3>2, <1>1 DEF Finish, Run, RunStatus, NoStage
    <3>4. InStatus(r1, Decided) = Stage
      BY <1>1, <1>2, <1>3, <1>8, <3>1 DEF InStatus
    <3>5. r.onFailure = "stop" => bad = {}
      BY <1>1, <1>2, <1>3, <2>2, <3>1 DEF InStatus
    <3>6. bad = {} => InStatus(r1, {"succeeded"}) = Stage
      BY <3>4 DEF InStatus, Decided
    <3>7. ValidRun(r2)
      BY <3>2, <3>4, <3>5, <3>6, <1>1, <1>2
         DEF Finish, ValidRun, FinishedCoherent, ActiveStatus, InStatus, Run
    <3> QED
      BY <3>3, <3>7 DEF r1
  <2> QED
    BY <2>3, <2>4
<1> QED
  BY <1>5, <1>6, <1>7, <1>8 DEF StageRecord, StageStatus, Decided

-----------------------------------------------------------------------------
(* transition_stage, for the changes the driver makes with it. *)
LEMMA TransitionAdvances ==
    ASSUME NEW r \in Run, ValidRun(r), NEW s \in Stage, NEW new \in StageStatus,
           CanTransition(r, s, new),
           NEW c \in [inst : Instance \cup {NoInstance}, by : Nat, error : BOOLEAN,
                      question : BOOLEAN, options : BOOLEAN],
           new = "dispatched" => c.inst # NoInstance /\ ~c.error,
           new # "dispatched" => c.inst = NoInstance,
           new = "needs_attention" => c.question,
           new \in {"failed", "dependency_failed"} => c.error,
           new = "succeeded" => ~c.error,
           new = "dependency_failed" => r.onFailure = "continue"
    PROVE  Advance(r, Transition(r, s, new, c))
<1> DEFINE st == NextStage(r.stage[s], new, c)
<1>1. r.active /\ r.current = s /\ new \in Allowed(r.stage[s].status)
  BY DEF CanTransition
<1>2. r.stage[s] \in StageRecord /\ ValidStage(r.stage[s])
  BY DEF Run, ValidRun
<1>3. /\ r.stage[s].status \in {"pending", "dispatched", "needs_attention"}
      /\ r.stage[s].status = "pending" =>
            new \in {"dispatched", "dependency_failed", "needs_attention"}
      /\ r.stage[s].status = "dispatched" =>
            new \in {"succeeded", "failed", "needs_attention"}
      /\ r.stage[s].status = "needs_attention" => new = "dispatched"
  BY <1>1, <1>2 DEF Allowed, StageRecord, StageStatus
<1>4. st \in StageRecord
  BY <1>2 DEF NextStage, StageRecord
<1>5. ValidStage(st)
  BY <1>2, <1>3 DEF NextStage, ValidStage, StageRecord
<1>6. st.status = new /\ st.status # "pending" /\ (st.answer => r.stage[s].answer)
  BY <1>2, <1>3 DEF NextStage, StageRecord
<1> HIDE DEF st
<1>7. LET r1 == [r EXCEPT !.stage[s] = st]
          r2 == UpdateRun(r1, s)
      IN  r2 \in Run /\ ValidRun(r2) /\ r2.stage = r1.stage
  BY <1>1, <1>4, <1>5, <1>6, UpdateRunValid
<1>8. Transition(r, s, new, c) = UpdateRun([r EXCEPT !.stage[s] = st], s)
  BY DEF Transition, st
<1>9. Transition(r, s, new, c).stage = [r.stage EXCEPT ![s] = st]
  BY <1>7, <1>8 DEF Run
<1> QED
  BY <1>3, <1>6, <1>7, <1>8, <1>9 DEF Advance, Run, Decided

(* _attention, whether or not it has anything to change. *)
LEMMA AttentionAdvances ==
    ASSUME NEW r \in Run, ValidRun(r), NEW s \in Stage, NEW status
    PROVE  Advance(r, Attention(r, s, status))
<1>1. CASE status # "needs_attention" /\ CanTransition(r, s, "needs_attention")
  <2>1. Asking \in [inst : Instance \cup {NoInstance}, by : Nat, error : BOOLEAN,
                    question : BOOLEAN, options : BOOLEAN]
        /\ Asking.inst = NoInstance /\ Asking.question
    BY DEF Asking, Change
  <2>2. Advance(r, Transition(r, s, "needs_attention", Asking))
    BY <1>1, <2>1, TransitionAdvances DEF StageStatus
  <2> QED
    BY <1>1, <2>2 DEF Attention
<1>2. CASE ~(status # "needs_attention" /\ CanTransition(r, s, "needs_attention"))
  BY <1>2 DEF Attention, Advance
<1> QED
  BY <1>1, <1>2

(* record_reconciled_result. *)
LEMMA ReconcileAdvances ==
    ASSUME NEW r \in Run, ValidRun(r), NEW s \in Stage, NEW status, NEW b \in Nat,
           CanReconcile(r, s, status)
    PROVE  Advance(r, Reconcile(r, s, status, b))
<1> DEFINE st == Reconciled(r.stage[s], status, b)
<1>1. /\ status \in {"succeeded", "failed"}
      /\ r.active /\ r.current = s
      /\ r.stage[s].status \in {"dispatched", "needs_attention"}
      /\ ValidStage(Reconciled(r.stage[s], status, 0))
  BY DEF CanReconcile
<1>2. r.stage[s] \in StageRecord
  BY DEF Run
<1>3. st \in StageRecord /\ st.status = status /\ st.answer = r.stage[s].answer
  BY <1>1, <1>2 DEF Reconciled, StageRecord, StageStatus
<1>4. ValidStage(st)
  BY <1>1, <1>2 DEF Reconciled, StageRecord, ValidStage
<1> HIDE DEF st
<1>5. LET r1 == [r EXCEPT !.stage[s] = st]
          r2 == UpdateRun(r1, s)
      IN  r2 \in Run /\ ValidRun(r2) /\ r2.stage = r1.stage
  BY <1>1, <1>3, <1>4, UpdateRunValid
<1>6. Reconcile(r, s, status, b) = UpdateRun([r EXCEPT !.stage[s] = st], s)
  BY DEF Reconcile, st
<1>7. Reconcile(r, s, status, b).stage = [r.stage EXCEPT ![s] = st]
  BY <1>5, <1>6 DEF Run
<1> QED
  BY <1>1, <1>3, <1>5, <1>6, <1>7 DEF Advance, Run, Decided

(* Only the current stage of a valid run can ask, and only it can have an  *)
(* answer.                                                                 *)
LEMMA OnlyCurrentAsks ==
    ASSUME NEW r \in Run, ValidRun(r), NEW s \in Stage
    PROVE  /\ r.stage[s].status = "needs_attention" => r.active /\ r.current = s
           /\ r.stage[s].answer => r.stage[s].status = "needs_attention"
<1>1. r.stage[s].answer => r.stage[s].status = "needs_attention"
  BY DEF ValidRun, ValidStage, Run
<1>2. CASE r.status \in ActiveStatus
  <2>1. ActiveCoherent(r) /\ r.active
    BY <1>2 DEF ValidRun
  <2>2. r.current = s \/ s \in Before(r.current) \/ s \in After(r.current)
    BY <2>1, DefinitionAssumption DEF ActiveCoherent, Before, After, Stage
  <2> QED
    BY <1>1, <2>1, <2>2 DEF ActiveCoherent, InStatus, Decided
<1>3. CASE r.status \notin ActiveStatus
  <2>1. FinishedCoherent(r)
    BY <1>3 DEF ValidRun
  <2>2. \A f \in Stage : s = f \/ s \in Before(f) \/ s \in After(f)
    BY DefinitionAssumption DEF Before, After, Stage
  <2> QED
    BY <1>1, <2>1, <2>2 DEF FinishedCoherent, InStatus, Decided
<1> QED
  BY <1>2, <1>3

-----------------------------------------------------------------------------
(* The driver's steps. *)

(* Moving reports about keeps the mail a sequence of reports of its length.*)
LEMMA MovedMail ==
    ASSUME NEW m \in Seq(Report), NEW f \in [DOMAIN m -> Report]
    PROVE  f \in Seq(Report) /\ Len(f) = Len(m) /\ DOMAIN f = DOMAIN m
<1>1. Len(m) \in Nat /\ DOMAIN m = 1 .. Len(m)
  OBVIOUS
<1> QED
  BY <1>1

(* So does moving some of them to one place. *)
LEMMA MoveToMail ==
    ASSUME mail \in Seq(Report), NEW S, NEW where \in {"pending", "processing", "done", "rejected"}
    PROVE  MoveTo(S, where) \in [DOMAIN mail -> Report]
<1>1. \A k \in DOMAIN mail : mail[k] \in Report
  OBVIOUS
<1> QED
  BY <1>1 DEF MoveTo, Report

(* A step that leaves the driver ended, or leaves its loop for an error,   *)
(* is sound whatever else it does to the mail.                             *)
LEMMA ExitSound ==
    ASSUME NEW how \in {"returned", "died"}, Exit(how), mail' \in Seq(Report)
    PROVE  DriverTypeOK' /\ DriverSound'
  BY DEF Exit, DriverTypeOK, DriverSound, PC

(* The error path of the driver: attention is asked for, and it ends. *)
LEMMA GiveUpSound ==
    ASSUME Inductive, NEW status, pc # "idle", GiveUp(status), mail' \in Seq(Report)
    PROVE  Advance(run, run') /\ DriverTypeOK' /\ DriverSound'
<1>1. cur \in Stage /\ run \in Run /\ ValidRun(run)
  BY DEF Inductive, TypeOK, Coherent, DriverSound
<1>2. Advance(run, run')
  BY <1>1, AttentionAdvances DEF GiveUp
<1> QED
  BY <1>2, ExitSound DEF GiveUp

(* The end of a turn of the loop. *)
LEMMA OnwardSound ==
    ASSUME Inductive, pc # "idle", NEW status, Onward(status), mail' \in Seq(Report)
    PROVE  DriverTypeOK' /\ DriverSound'
<1>1. cur \in Stage /\ DriverTypeOK
  BY DEF Inductive, TypeOK, DriverSound
<1>2. CASE Exit("returned")
  BY <1>2, ExitSound
<1>3. CASE cur # N /\ ~Exit("returned")
  <2>1. cur + 1 \in Stage
    BY <1>1, <1>3, MinOfStages
  <2> QED
    BY <1>1, <1>3, <2>1 DEF Onward, DriverTypeOK, DriverSound, PC
<1> QED
  BY <1>2, <1>3 DEF Onward

(* A step that leaves the run alone advances it trivially. *)
LEMMA Unmoved ==
    ASSUME Inductive, run' = run
    PROVE  Advance(run, run')
  BY DEF Inductive, TypeOK, Coherent, Advance

(* The steps of a driver that looks at a stage. *)
LEMMA VisitSteps ==
    ASSUME Inductive,
           \/ Skip \/ StopAtQuestion \/ ClassifyResume \/ DispatchedUncertain
           \/ DependencyFails \/ InputsFail \/ ReserveFails
           \/ \E i \in Instance : Dispatch(i)
    PROVE  Advance(run, run') /\ TypeOK' /\ DriverSound'
<1>1. /\ run \in Run /\ ValidRun(run) /\ mail \in Seq(Report) /\ snap \subseteq Run
      /\ DriverTypeOK /\ PanesTypeOK /\ HistoryTypeOK
  BY DEF Inductive, TypeOK, Coherent
<1>2. pc = "visit" /\ cur \in Stage
  BY DEF Inductive, DriverSound, Skip, StopAtQuestion, ClassifyResume, DispatchedUncertain,
         DependencyFails, InputsFail, ReserveFails, Dispatch
<1>3. Here \in StageRecord
  BY <1>1, <1>2 DEF Here, Run
<1>4. mail' = mail /\ snap' = snap /\ PanesTypeOK'
  BY <1>1 DEF Skip, StopAtQuestion, ClassifyResume, DispatchedUncertain, DependencyFails,
              InputsFail, ReserveFails, Dispatch, durable, panes, PanesTypeOK
<1>5. HistoryTypeOK'
  BY <1>1, <1>2 DEF Skip, StopAtQuestion, ClassifyResume, DispatchedUncertain, DependencyFails,
              InputsFail, ReserveFails, Dispatch, history, HistoryTypeOK, Counted
<1>6. SUFFICES Advance(run, run') /\ DriverTypeOK' /\ DriverSound'
  BY <1>1, <1>4, <1>5 DEF Advance, TypeOK
<1>7. CASE Skip
  BY <1>1, <1>2, <1>4, <1>7, Unmoved, OnwardSound DEF Skip, durable
<1>8. CASE StopAtQuestion
  BY <1>1, <1>4, <1>8, Unmoved, ExitSound DEF StopAtQuestion, durable
<1>9. CASE ClassifyResume
  <2>1. pc' # "idle" /\ pc' \in PC /\ pc' \notin {"persist", "settle", "ack"}
    BY <1>9 DEF ClassifyResume, PC
  <2>2. inst' \in Instance /\ seen' \in StageStatus
    BY <1>3, <1>9 DEF ClassifyResume, StageRecord
  <2>3. DriverTypeOK'
    BY <1>1, <1>4, <1>9, <2>1, <2>2 DEF ClassifyResume, DriverTypeOK
  <2>4. pc' = "redispatch" => /\ Here.status = "needs_attention" /\ Here.answer
    BY <1>9, <1>3 DEF ClassifyResume, ResumeAction, StageRecord
  <2>5. pc' = "redispatch" => CanTransition(run, cur, "dispatched")
    BY <1>1, <1>2, <2>4, OnlyCurrentAsks DEF Here, CanTransition, Allowed
  <2>6. run' = run /\ cur' = cur
    BY <1>9 DEF ClassifyResume, durable
  <2>7. DriverSound'
    BY <1>2, <2>1, <2>2, <2>4, <2>5, <2>6 DEF DriverSound, Here
  <2> QED
    BY <2>3, <2>6, <2>7, Unmoved
<1>10. CASE DispatchedUncertain
  BY <1>1, <1>2, <1>4, <1>10, GiveUpSound DEF DispatchedUncertain
<1>11. CASE DependencyFails
  <2>1. CASE CanTransition(run, cur, "dependency_failed")
    <3>1. run.onFailure = "continue"
      <4>1. PICK t \in Inputs[cur] : run.stage[t].status \in {"failed", "dependency_failed"}
        BY <1>11 DEF DependencyFails, FailedInputs
      <4>2. t \in Stage /\ t \in Before(cur)
        BY <1>2, DefinitionAssumption DEF Before
      <4>3. ActiveCoherent(run) /\ run.current = cur
        BY <1>1, <2>1 DEF ValidRun, CanTransition
      <4> QED
        BY <1>1, <4>1, <4>2, <4>3 DEF ActiveCoherent, InStatus, Run
    <3>2. /\ Failing \in [inst : Instance \cup {NoInstance}, by : Nat, error : BOOLEAN,
                          question : BOOLEAN, options : BOOLEAN]
          /\ Failing.inst = NoInstance /\ Failing.error
      BY DEF Failing, Change
    <3>3. Advance(run, Transition(run, cur, "dependency_failed", Failing))
      BY <1>1, <1>2, <2>1, <3>1, <3>2, TransitionAdvances DEF StageStatus
    <3> QED
      BY <1>1, <1>2, <1>4, <1>11, <2>1, <3>3, OnwardSound DEF DependencyFails
  <2>2. CASE ~CanTransition(run, cur, "dependency_failed")
    BY <1>1, <1>4, <1>11, <2>2, Unmoved, ExitSound DEF DependencyFails
  <2> QED
    BY <2>1, <2>2
<1>12. CASE InputsFail
  BY <1>1, <1>2, <1>4, <1>12, GiveUpSound DEF InputsFail
<1>13. CASE ReserveFails
  BY <1>1, <1>2, <1>4, <1>13, GiveUpSound DEF ReserveFails
<1>14. ASSUME NEW i \in Instance, Dispatch(i)
       PROVE  Advance(run, run') /\ DriverTypeOK' /\ DriverSound'
  <2>1. CanTransition(run, cur, "dispatched")
    BY <1>14 DEF Dispatch, CanReserve, CanTransition, Allowed
  <2>2. /\ Dispatching(i) \in [inst : Instance \cup {NoInstance}, by : Nat, error : BOOLEAN,
                                question : BOOLEAN, options : BOOLEAN]
        /\ Dispatching(i).inst # NoInstance /\ ~Dispatching(i).error
    BY DefinitionAssumption DEF Dispatching, Change
  <2>3. Advance(run, run')
    BY <1>1, <1>2, <1>14, <2>1, <2>2, TransitionAdvances DEF Dispatch, StageStatus
  <2> QED
    BY <1>1, <1>2, <1>4, <1>14, <2>3 DEF Dispatch, DriverTypeOK, DriverSound, PC, StageStatus
<1> QED
  BY <1>7, <1>8, <1>9, <1>10, <1>11, <1>12, <1>13, <1>14

(* The reports of the stage, and the oldest of them, are reports.          *)
LEMMA MatchingIn ==
    ASSUME TypeOK, NEW where
    PROVE  /\ Matching(where) \subseteq DOMAIN mail
           /\ Matching(where) # {} => Min(Matching(where)) \in DOMAIN mail
<1>1. Matching(where) \subseteq DOMAIN mail
  BY DEF Matching
<1>2. DOMAIN mail \subseteq Nat
  BY DEF TypeOK
<1> QED
  BY <1>1, <1>2, MinOfNaturals

(* A step that moves reports, ends the driver and asks for attention.      *)
LEMMA LeavingSound ==
    ASSUME Inductive, pc # "idle", NEW status, GiveUp(status),
           mail' \in Seq(Report), snap' = snap, PanesTypeOK', HistoryTypeOK'
    PROVE  Advance(run, run') /\ TypeOK' /\ DriverSound'
<1>1. Advance(run, run') /\ DriverTypeOK' /\ DriverSound'
  BY GiveUpSound
<1> QED
  BY <1>1 DEF Inductive, TypeOK, Advance

(* The steps of a driver that spawns and delegates. *)
LEMMA WorkSteps ==
    ASSUME Inductive, SpawnOk \/ SpawnFails \/ DelegateOk \/ DelegateFails
    PROVE  Advance(run, run') /\ TypeOK' /\ DriverSound'
<1>1. /\ run \in Run /\ mail \in Seq(Report) /\ snap \subseteq Run
      /\ DriverTypeOK /\ PanesTypeOK /\ HistoryTypeOK
  BY DEF Inductive, TypeOK
<1>2. /\ pc \in {"spawn", "delegate"} /\ cur \in Stage /\ inst \in Instance
  BY DEF Inductive, DriverSound, SpawnOk, SpawnFails, DelegateOk, DelegateFails
<1>3. mail' = mail /\ snap' = snap
  BY DEF SpawnOk, SpawnFails, DelegateOk, DelegateFails, durable
<1>4. HistoryTypeOK'
  <2>1. dispatches' = dispatches /\ answers' = answers
    BY DEF SpawnOk, SpawnFails, DelegateOk, DelegateFails, history
  <2>2. delegates' = delegates \/ delegates' = Counted(delegates, cur)
    BY DEF SpawnOk, SpawnFails, DelegateOk, DelegateFails, Deliver, history
  <2> QED
    BY <1>1, <1>2, <2>1, <2>2 DEF HistoryTypeOK, Counted
<1>5. PanesTypeOK'
  <2>1. live' \in [Instance -> {"absent", "alive", "dead"}]
    BY <1>1, <1>2 DEF SpawnOk, SpawnFails, DelegateOk, DelegateFails, Spawned, PanesTypeOK
  <2>2. inbox' = inbox \/ inbox' = [inbox EXCEPT ![inst] = cur]
    BY DEF SpawnOk, SpawnFails, DelegateOk, DelegateFails, Deliver
  <2>3. routed' = routed \/ routed' = [routed EXCEPT ![inst] = cur]
    BY DEF SpawnOk, SpawnFails, DelegateOk, DelegateFails, Routes
  <2> QED
    BY <1>1, <1>2, <2>1, <2>2, <2>3 DEF PanesTypeOK
<1>6. CASE SpawnOk
  <2>1. run' = run /\ DriverTypeOK' /\ DriverSound'
    BY <1>1, <1>2, <1>3, <1>6 DEF SpawnOk, Goto, durable, DriverTypeOK, DriverSound, PC
  <2> QED
    BY <1>1, <1>3, <1>4, <1>5, <2>1, Unmoved DEF TypeOK
<1>7. CASE SpawnFails
  BY <1>1, <1>2, <1>3, <1>4, <1>5, <1>7, LeavingSound DEF SpawnFails
<1>8. CASE DelegateOk
  <2>1. run' = run /\ DriverTypeOK' /\ DriverSound'
    BY <1>1, <1>2, <1>3, <1>8 DEF DelegateOk, Goto, durable, DriverTypeOK, DriverSound, PC
  <2> QED
    BY <1>1, <1>3, <1>4, <1>5, <2>1, Unmoved DEF TypeOK
<1>9. CASE DelegateFails
  BY <1>1, <1>2, <1>3, <1>4, <1>5, <1>9, LeavingSound DEF DelegateFails
<1> QED
  BY <1>6, <1>7, <1>8, <1>9

(* What validate_stage_report lets through fits the transition it asks for.*)
LEMMA BodySound ==
    ASSUME NEW b \in Body
    PROVE  /\ b.status \in {"succeeded", "failed", "needs_attention"}
           /\ b.status \in StageStatus /\ b.error \in BOOLEAN /\ b.options \in BOOLEAN
           /\ b.status = "failed" => b.error
           /\ b.status = "succeeded" => ~b.error
<1> DEFINE asking(f) == [status |-> "needs_attention", error |-> f.error,
                         options |-> f.options]
<1>1. \/ b = [status |-> "succeeded", error |-> FALSE, options |-> FALSE]
      \/ b = [status |-> "failed", error |-> TRUE, options |-> FALSE]
      \/ \E f \in AskForms : b = asking(f)
  BY Zenon DEF Body
<1>2. CASE \E f \in AskForms : b = asking(f)
  <2>1. PICK f \in AskForms : b = asking(f)
    BY <1>2
  <2>2. f \in [error : BOOLEAN, options : BOOLEAN]
    BY RunnerAssumption
  <2> QED
    BY <2>1, <2>2 DEF StageStatus
<1>3. CASE b = [status |-> "succeeded", error |-> FALSE, options |-> FALSE]
  BY <1>3 DEF StageStatus
<1>4. CASE b = [status |-> "failed", error |-> TRUE, options |-> FALSE]
  BY <1>4 DEF StageStatus
<1> QED
  BY <1>1, <1>2, <1>3, <1>4

(* The steps of a driver that waits for a result and saves it. *)
LEMMA ResultSteps ==
    ASSUME Inductive,
           WaitClaims \/ WaitClaimsInvalid \/ WaitTimesOut \/ Persist \/ PersistInvalid \/ Ack
    PROVE  Advance(run, run') /\ TypeOK' /\ DriverSound'
<1>1. /\ TypeOK /\ run \in Run /\ mail \in Seq(Report) /\ snap \subseteq Run
      /\ DriverTypeOK /\ PanesTypeOK /\ HistoryTypeOK /\ ValidRun(run)
  BY DEF Inductive, TypeOK, Coherent
<1>2. /\ pc \in {"wait", "persist", "ack"} /\ cur \in Stage /\ inst \in Instance
      /\ pc \in {"persist", "ack"} => held \in DOMAIN mail
  BY DEF Inductive, DriverSound, WaitClaims, WaitClaimsInvalid, WaitTimesOut, Persist,
         PersistInvalid, Ack
<1>3. snap' = snap /\ PanesTypeOK' /\ HistoryTypeOK'
  <2>1. UNCHANGED <<panes, snap, history>>
    BY DEF WaitClaims, WaitClaimsInvalid, WaitTimesOut, Persist, PersistInvalid, Ack
  <2> QED
    BY <1>1, <2>1 DEF panes, history, PanesTypeOK, HistoryTypeOK
<1>4. CASE WaitClaims
  <2>1. held' \in DOMAIN mail /\ mail' = MoveTo({held'}, "processing")
    BY <1>1, <1>4, MatchingIn DEF WaitClaims
  <2>2. mail' \in Seq(Report) /\ Len(mail') = Len(mail) /\ DOMAIN mail' = DOMAIN mail
    BY <1>1, <2>1, MovedMail, MoveToMail
  <2>3. run' = run /\ DriverTypeOK' /\ DriverSound'
    BY <1>1, <1>2, <1>4, <2>1, <2>2 DEF WaitClaims, Goto, DriverTypeOK, DriverSound, PC
  <2> QED
    BY <1>1, <1>3, <2>2, <2>3, Unmoved DEF TypeOK
<1>5. CASE WaitClaimsInvalid
  <2>1. mail' \in Seq(Report)
    BY <1>1, <1>5, MovedMail, MoveToMail DEF WaitClaimsInvalid
  <2> QED
    BY <1>2, <1>3, <1>5, <2>1, LeavingSound DEF WaitClaimsInvalid
<1>6. CASE WaitTimesOut
  BY <1>1, <1>2, <1>3, <1>6, LeavingSound DEF WaitTimesOut
<1>7. CASE Persist
  <2> DEFINE b == mail[held].body
  <2>1. mail' = mail
    BY <1>7 DEF Persist
  <2>2. CASE CanTransition(run, cur, b.status)
    <3>1. /\ b.status \in StageStatus /\ b.error \in BOOLEAN /\ b.options \in BOOLEAN
          /\ b.status \in {"succeeded", "failed", "needs_attention"}
          /\ b.status = "failed" => b.error
          /\ b.status = "succeeded" => ~b.error
      <4>1. held \in DOMAIN mail
        BY <1>2, <1>7 DEF Persist
      <4>2. mail[held] \in Report
        BY <1>1, <4>1
      <4>3. b \in Body
        BY <4>2 DEF Report
      <4> QED
        BY <4>3, BodySound
    <3>2. /\ Reported(b) \in [inst : Instance \cup {NoInstance}, by : Nat, error : BOOLEAN,
                             question : BOOLEAN, options : BOOLEAN]
          /\ Reported(b).inst = NoInstance /\ Reported(b).error = b.error
          /\ Reported(b).question = (b.status = "needs_attention")
      BY <1>1, <3>1 DEF Reported, Change, DriverTypeOK
    <3>3. Advance(run, Transition(run, cur, b.status, Reported(b)))
      BY <1>1, <1>2, <2>2, <3>1, <3>2, TransitionAdvances
    <3>4. /\ run' = Transition(run, cur, b.status, Reported(b))
          /\ Goto("ack") /\ UNCHANGED <<inst, held>>
      BY <1>7, <2>2 DEF Persist
    <3>5. DriverTypeOK' /\ DriverSound'
      BY <1>1, <1>2, <1>7, <2>1, <3>4 DEF Persist, Goto, DriverTypeOK, DriverSound, PC
    <3> QED
      BY <1>1, <1>3, <2>1, <3>3, <3>4, <3>5 DEF TypeOK, Advance
  <2>3. CASE ~CanTransition(run, cur, b.status)
    BY <1>1, <1>2, <1>3, <1>7, <2>1, <2>3, LeavingSound DEF Persist
  <2> QED
    BY <2>2, <2>3
<1>8. CASE PersistInvalid
  BY <1>1, <1>2, <1>3, <1>8, LeavingSound DEF PersistInvalid
<1>9. CASE Ack
  <2>1. mail' \in Seq(Report)
    BY <1>1, <1>9, MovedMail, MoveToMail DEF Ack
  <2>2. run' = run /\ DriverTypeOK' /\ DriverSound'
    BY <1>2, <1>9, <2>1, OnwardSound DEF Ack
  <2> QED
    BY <1>1, <1>3, <2>1, <2>2, Unmoved DEF TypeOK
<1> QED
  BY <1>4, <1>5, <1>6, <1>7, <1>8, <1>9

(* The steps of a driver that resumes a dispatched stage. *)
LEMMA ResumeSteps ==
    ASSUME Inductive,
           \/ Find \/ FindFails \/ Settle \/ SettleInvalid
           \/ Redispatch \/ RedispatchFails \/ InputsOk \/ RedispatchInputsFail
    PROVE  Advance(run, run') /\ TypeOK' /\ DriverSound'
<1>1. /\ TypeOK /\ run \in Run /\ mail \in Seq(Report) /\ snap \subseteq Run
      /\ DriverTypeOK /\ PanesTypeOK /\ HistoryTypeOK /\ ValidRun(run)
  BY DEF Inductive, TypeOK, Coherent
<1>2. /\ pc \in {"find", "settle", "redispatch", "inputs"} /\ cur \in Stage
      /\ inst \in Instance
      /\ pc = "settle" => held \in DOMAIN mail
  BY DEF Inductive, DriverSound, Find, FindFails, Settle, SettleInvalid, Redispatch,
         RedispatchFails, InputsOk, RedispatchInputsFail
<1>3. snap' = snap /\ PanesTypeOK' /\ HistoryTypeOK'
  <2>1. UNCHANGED <<panes, snap, answers, delegates>>
    BY DEF Find, FindFails, Settle, SettleInvalid, Redispatch, RedispatchFails, InputsOk,
           RedispatchInputsFail, history
  <2>2. dispatches' = dispatches \/ dispatches' = Counted(dispatches, cur)
    BY DEF Find, FindFails, Settle, SettleInvalid, Redispatch, RedispatchFails, InputsOk,
           RedispatchInputsFail, history
  <2> QED
    BY <1>1, <1>2, <2>1, <2>2 DEF panes, PanesTypeOK, HistoryTypeOK, Counted
<1>4. CASE Find
  <2> DEFINE all == Matching("processing") \cup Matching("pending")
  <2>1. PICK bad \in SUBSET all :
          LET old   == Matching("processing") \ bad
              new   == Matching("pending") \ bad
              found == IF old # {} THEN Min(old) ELSE IF new # {} THEN Min(new) ELSE 0
              tried == {k \in bad :
                          \/ found = 0
                          \/ mail[k].place = "processing" /\ (old = {} \/ k < found)
                          \/ mail[k].place = "pending" /\ old = {} /\ k < found}
          IN  /\ mail' = [k \in DOMAIN mail |->
                            IF k \in tried THEN [mail[k] EXCEPT !.place = "rejected"]
                            ELSE IF k = found THEN [mail[k] EXCEPT !.place = "processing"]
                            ELSE mail[k]]
              /\ IF found # 0 THEN /\ Goto("settle") /\ held' = found
                                   /\ UNCHANGED <<run, inst>>
                              ELSE GiveUp(seen)
    BY <1>4 DEF Find
  <2> DEFINE old   == Matching("processing") \ bad
             new   == Matching("pending") \ bad
             found == IF old # {} THEN Min(old) ELSE IF new # {} THEN Min(new) ELSE 0
             tried == {k \in bad :
                         \/ found = 0
                         \/ mail[k].place = "processing" /\ (old = {} \/ k < found)
                         \/ mail[k].place = "pending" /\ old = {} /\ k < found}
  <2>2. /\ mail' = [k \in DOMAIN mail |->
                      IF k \in tried THEN [mail[k] EXCEPT !.place = "rejected"]
                      ELSE IF k = found THEN [mail[k] EXCEPT !.place = "processing"]
                      ELSE mail[k]]
        /\ IF found # 0 THEN /\ Goto("settle") /\ held' = found /\ UNCHANGED <<run, inst>>
                        ELSE GiveUp(seen)
    BY <2>1
  <2> HIDE DEF tried
  <2>3. found # 0 => found \in DOMAIN mail
    <3>1. old \in SUBSET Nat /\ new \in SUBSET Nat
          /\ old \subseteq DOMAIN mail /\ new \subseteq DOMAIN mail
      BY <1>1, MatchingIn DEF TypeOK
    <3> HIDE DEF old, new
    <3> QED
      BY <3>1, MinOfNaturals
  <2> HIDE DEF found
  <2>4. \A k \in DOMAIN mail : mail[k] \in Report
    BY <1>1
  <2>5. mail' \in [DOMAIN mail -> Report]
    BY <2>2, <2>4 DEF Report
  <2>6. mail' \in Seq(Report) /\ Len(mail') = Len(mail) /\ DOMAIN mail' = DOMAIN mail
    BY <1>1, <2>5, MovedMail
  <2>7. CASE found # 0
    <3>1. Goto("settle") /\ held' = found /\ run' = run /\ inst' = inst
      BY <2>2, <2>7
    <3>2. found \in 0 .. Len(mail)
      BY <1>1, <2>3, <2>7
    <3>3. DriverTypeOK' /\ DriverSound'
      BY <1>1, <1>2, <2>3, <2>6, <2>7, <3>1, <3>2 DEF Goto, DriverTypeOK, DriverSound, PC
    <3> QED
      BY <1>1, <1>3, <2>6, <3>1, <3>3, Unmoved DEF TypeOK
  <2>8. CASE found = 0
    BY <1>2, <1>3, <2>2, <2>6, <2>8, LeavingSound
  <2> QED
    BY <2>7, <2>8
<1>5. CASE FindFails
  BY <1>1, <1>2, <1>3, <1>5, LeavingSound DEF FindFails
<1>6. CASE Settle
  <2> DEFINE status == mail[held].body.status
  <2>1. mail' = mail
    BY <1>6 DEF Settle
  <2>2. CASE CanReconcile(run, cur, status)
    <3>1. held \in Nat
      BY <1>1 DEF DriverTypeOK
    <3>2. Advance(run, Reconcile(run, cur, status, held))
      BY <1>1, <1>2, <2>2, <3>1, ReconcileAdvances
    <3>3. /\ run' = Reconcile(run, cur, status, held)
          /\ Goto("ack") /\ UNCHANGED <<inst, held>>
      BY <1>6, <2>2 DEF Settle
    <3>4. DriverTypeOK' /\ DriverSound'
      BY <1>1, <1>2, <1>6, <2>1, <3>3 DEF Settle, Goto, DriverTypeOK, DriverSound, PC
    <3> QED
      BY <1>1, <1>3, <2>1, <3>2, <3>3, <3>4 DEF TypeOK, Advance
  <2>3. CASE ~CanReconcile(run, cur, status)
    BY <1>1, <1>2, <1>3, <1>6, <2>1, <2>3, LeavingSound DEF Settle
  <2> QED
    BY <2>2, <2>3
<1>7. CASE SettleInvalid
  BY <1>1, <1>2, <1>3, <1>7, LeavingSound DEF SettleInvalid
<1>8. CASE Redispatch
  <2>1. PICK i \in RedispatchTargets :
          /\ run' = Transition(run, cur, "dispatched", Dispatching(i))
          /\ inst' = i
          /\ Goto(IF live[inst] = "alive" THEN "inputs" ELSE "spawn")
    BY <1>8 DEF Redispatch
  <2>2. CanTransition(run, cur, "dispatched") /\ mail' = mail /\ held' = held
    BY <1>8 DEF Inductive, DriverSound, Redispatch
  <2>3. i \in Instance
    BY <1>2, <2>1, RunnerAssumption DEF RedispatchTargets
  <2>4. /\ Dispatching(i) \in [inst : Instance \cup {NoInstance}, by : Nat, error : BOOLEAN,
                                question : BOOLEAN, options : BOOLEAN]
        /\ Dispatching(i).inst # NoInstance /\ ~Dispatching(i).error
    BY <2>3, DefinitionAssumption DEF Dispatching, Change
  <2>5. Advance(run, run')
    BY <1>1, <1>2, <2>1, <2>2, <2>4, TransitionAdvances DEF StageStatus
  <2>6. DriverTypeOK' /\ DriverSound'
    BY <1>1, <1>2, <2>1, <2>2, <2>3 DEF Goto, DriverTypeOK, DriverSound, PC
  <2> QED
    BY <1>1, <1>3, <2>2, <2>5, <2>6 DEF TypeOK, Advance
<1>9. CASE RedispatchFails
  BY <1>1, <1>2, <1>3, <1>9, LeavingSound DEF RedispatchFails
<1>10. CASE InputsOk
  <2>1. run' = run /\ mail' = mail
    BY <1>10 DEF InputsOk, durable
  <2>2. DriverTypeOK' /\ DriverSound'
    BY <1>1, <1>2, <1>10, <2>1 DEF InputsOk, Goto, DriverTypeOK, DriverSound, PC
  <2> QED
    BY <1>1, <1>3, <2>1, <2>2, Unmoved DEF TypeOK
<1>11. CASE RedispatchInputsFail
  BY <1>1, <1>2, <1>3, <1>11, LeavingSound DEF RedispatchInputsFail
<1> QED
  BY <1>4, <1>5, <1>6, <1>7, <1>8, <1>9, <1>10, <1>11

-----------------------------------------------------------------------------
(* The answer in flight. *)

(* An answer in flight stays sound over a step of anybody else: none of    *)
(* them records an answer, and unless answers may overlap with a driver,   *)
(* the run does not move while there is one.                               *)
LEMMA AnswerKept ==
    ASSUME Inductive, Advance(run, run'), snap' = snap,
           ~AnswerWhileDriving /\ snap # {} => pc' = pc /\ run' = run
    PROVE  AnswerSound'
  BY DEF Inductive, AnswerSound, Advance

(* Every step of a driver is one of a driver that is running. *)
LEMMA DriverSteps ==
    ASSUME Inductive, DriverStep
    PROVE  Advance(run, run') /\ Inductive'
<1>1. Advance(run, run') /\ TypeOK' /\ DriverSound'
  BY VisitSteps, WorkSteps, ResultSteps, ResumeSteps DEF DriverStep
<1>2. pc # "idle" /\ snap' = snap
  BY DEF DriverStep, Skip, StopAtQuestion, ClassifyResume, DispatchedUncertain, DependencyFails,
         InputsFail, ReserveFails, Dispatch, SpawnOk, SpawnFails, DelegateOk, DelegateFails,
         WaitClaims, WaitClaimsInvalid, WaitTimesOut, Persist, PersistInvalid, Ack, Find,
         FindFails, Settle, SettleInvalid, Redispatch, RedispatchFails, InputsOk,
         RedispatchInputsFail
<1>3. ~(~AnswerWhileDriving /\ snap # {})
  BY <1>2 DEF Inductive, AnswerSound
<1>4. AnswerSound'
  BY <1>1, <1>2, <1>3, AnswerKept
<1> QED
  BY <1>1, <1>4 DEF Inductive, Coherent, Advance

(* Starting, killing and everything that specialists do. *)
LEMMA OtherSteps ==
    ASSUME Inductive,
           \/ \E how \in {"normal", "resume"} : Start(how) \/ StartDrifted(how)
           \/ Crash
           \/ \E i \in Instance : PaneDies(i)
           \/ \E i \in Instance, b \in Body : SpecialistReports(i, b)
    PROVE  Advance(run, run') /\ Inductive'
<1>1. /\ TypeOK /\ run \in Run /\ mail \in Seq(Report) /\ snap \subseteq Run
      /\ DriverTypeOK /\ PanesTypeOK /\ HistoryTypeOK /\ ValidRun(run) /\ DriverSound
  BY DEF Inductive, TypeOK, Coherent
<1>2. snap' = snap /\ HistoryTypeOK'
  <2>1. UNCHANGED <<snap, history>>
    BY DEF Start, StartDrifted, Crash, PaneDies, SpecialistReports
  <2> QED
    BY <1>1, <2>1 DEF history, HistoryTypeOK
<1>3. SUFFICES /\ Advance(run, run') /\ mail' \in Seq(Report) /\ PanesTypeOK'
               /\ DriverTypeOK' /\ DriverSound'
               /\ ~AnswerWhileDriving /\ snap # {} => pc' = pc /\ run' = run
  BY <1>1, <1>2, AnswerKept DEF Inductive, TypeOK, Coherent, Advance
<1>4. ASSUME NEW how \in {"normal", "resume"}, Start(how)
      PROVE  /\ Advance(run, run') /\ mail' \in Seq(Report) /\ PanesTypeOK'
             /\ DriverTypeOK' /\ DriverSound'
             /\ ~AnswerWhileDriving /\ snap # {} => pc' = pc /\ run' = run
  <2>1. 1 \in Stage
    BY DefinitionAssumption DEF Stage
  <2> QED
    BY <1>1, <1>4, <2>1, Unmoved
       DEF Start, MayStart, durable, panes, PanesTypeOK, DriverTypeOK, DriverSound, PC
<1>5. ASSUME NEW how \in {"normal", "resume"}, StartDrifted(how)
      PROVE  /\ Advance(run, run') /\ mail' \in Seq(Report) /\ PanesTypeOK'
             /\ DriverTypeOK' /\ DriverSound'
             /\ ~AnswerWhileDriving /\ snap # {} => pc' = pc /\ run' = run
  <2>1. run.status \in ActiveStatus
    BY <1>5 DEF StartDrifted, MayStart, ActiveStatus
  <2>2. run.current \in Stage
    BY <1>1, <2>1 DEF ValidRun, ActiveCoherent
  <2>3. Advance(run, run')
    BY <1>1, <1>5, <2>2, AttentionAdvances DEF StartDrifted
  <2> QED
    BY <1>1, <1>5, <2>3
       DEF StartDrifted, MayStart, panes, PanesTypeOK, DriverTypeOK, DriverSound
<1>6. CASE Crash
  <2>1. pc # "idle" /\ run' = run /\ mail' = mail /\ UNCHANGED panes
    BY <1>6 DEF Crash, durable
  <2>2. DriverTypeOK' /\ DriverSound'
    BY <1>1, <1>6, <2>1, ExitSound DEF Crash
  <2>3. ~(~AnswerWhileDriving /\ snap # {})
    BY <2>1 DEF Inductive, AnswerSound
  <2> QED
    BY <1>1, <2>1, <2>2, <2>3, Unmoved DEF panes, PanesTypeOK
<1>7. ASSUME NEW i \in Instance, PaneDies(i)
      PROVE  /\ Advance(run, run') /\ mail' \in Seq(Report) /\ PanesTypeOK'
             /\ DriverTypeOK' /\ DriverSound'
             /\ ~AnswerWhileDriving /\ snap # {} => pc' = pc /\ run' = run
  <2>1. run' = run /\ UNCHANGED driver
    BY <1>7 DEF PaneDies
  <2>2. \A k \in DOMAIN mail : mail[k] \in Report
    BY <1>1
  <2>3. mail' \in [DOMAIN mail -> Report]
    BY <1>7, <2>2 DEF PaneDies, Report
  <2>4. mail' \in Seq(Report) /\ Len(mail') = Len(mail) /\ DOMAIN mail' = DOMAIN mail
    BY <1>1, <2>3, MovedMail
  <2>5. PanesTypeOK'
    BY <1>1, <1>7 DEF PaneDies, PanesTypeOK
  <2> QED
    BY <1>1, <2>1, <2>4, <2>5, Unmoved DEF driver, DriverTypeOK, DriverSound, Here
<1>8. ASSUME NEW i \in Instance, NEW b \in Body, SpecialistReports(i, b)
      PROVE  /\ Advance(run, run') /\ mail' \in Seq(Report) /\ PanesTypeOK'
             /\ DriverTypeOK' /\ DriverSound'
             /\ ~AnswerWhileDriving /\ snap # {} => pc' = pc /\ run' = run
  <2>0. PICK s \in Told(i) :
          mail' = Append(mail, [stage |-> s, from |-> i, attempt |-> dispatches[s],
                                body |-> b, auth |-> TRUE, place |-> "pending"])
    BY <1>8 DEF SpecialistReports
  <2> DEFINE r == [stage |-> s, from |-> i, attempt |-> dispatches[s],
                   body |-> b, auth |-> TRUE, place |-> "pending"]
  <2>1. run' = run /\ UNCHANGED <<driver, panes>> /\ mail' = Append(mail, r)
    BY <1>8, <2>0 DEF SpecialistReports
  <2>2. r \in Report
    BY <1>1, <2>0 DEF Told, Report, PanesTypeOK, HistoryTypeOK
  <2>3. /\ mail' \in Seq(Report) /\ Len(mail') = Len(mail) + 1
        /\ DOMAIN mail \subseteq DOMAIN mail'
    BY <1>1, <2>1, <2>2
  <2> QED
    BY <1>1, <2>1, <2>3, Unmoved
       DEF driver, panes, DriverTypeOK, PanesTypeOK, DriverSound, Here
<1> QED
  BY <1>4, <1>5, <1>6, <1>7, <1>8

(* The operator loads: the loaded run is valid, and has no answer. *)
LEMMA LoadStep ==
    ASSUME Inductive, OperatorLoads
    PROVE  Inductive'
<1>1. /\ run \in Run /\ ValidRun(run) /\ run.current \in Stage /\ CanAnswer(run, run.current)
      /\ snap' = {run} /\ UNCHANGED <<durable, driver, panes, history>>
  BY DEF Inductive, TypeOK, Coherent, OperatorLoads, Run
<1>2. \A s \in Stage : ~run.stage[s].answer
  BY <1>1, OnlyCurrentAsks DEF CanAnswer
<1>3. AnswerSound'
  BY <1>1, <1>2 DEF AnswerSound, OperatorLoads, durable, driver
<1>4. TypeOK' /\ Coherent' /\ DriverSound'
  BY <1>1 DEF Inductive, TypeOK, Coherent, DriverSound, DriverTypeOK, PanesTypeOK,
              HistoryTypeOK, durable, driver, panes, history, Here
<1> QED
  BY <1>3, <1>4 DEF Inductive

(* The operator saves: whatever was loaded is valid with the answer too.   *)
LEMMA SaveStep ==
    ASSUME Inductive, OperatorSaves
    PROVE  Inductive'
<1>1. PICK r \in snap : /\ run' = RecordAnswer(r, r.current)
                        /\ answers' = Counted(answers, r.current)
  BY DEF OperatorSaves
<1>2. /\ r \in Run /\ r.current \in Stage /\ ValidRun(r) /\ CanAnswer(r, r.current)
      /\ pc # "redispatch"
  BY <1>1 DEF Inductive, TypeOK, AnswerSound, DriverSound, Here
<1>3. snap' = {} /\ UNCHANGED <<mail, driver, panes, dispatches, delegates>>
  BY DEF OperatorSaves
<1>4. /\ run' \in Run
      /\ \A s \in Stage : /\ run'.stage[s].status = r.stage[s].status
                           /\ ValidStage(run'.stage[s])
      /\ run'.status = r.status /\ run'.current = r.current /\ run'.active = r.active
      /\ run'.onFailure = r.onFailure
  <2> DEFINE st == [r.stage[r.current] EXCEPT !.answer = TRUE]
  <2>1. /\ r.stage[r.current] \in StageRecord /\ ValidStage(r.stage[r.current])
        /\ r.stage[r.current].status = "needs_attention"
    BY <1>2 DEF Run, ValidRun, CanAnswer
  <2>2. /\ st \in StageRecord /\ ValidStage(st) /\ st.status = "needs_attention"
    BY <2>1 DEF StageRecord, ValidStage
  <2>3. run' = [r EXCEPT !.stage = [r.stage EXCEPT ![r.current] = st]]
    BY <1>1 DEF RecordAnswer
  <2> HIDE DEF st
  <2> QED
    BY <1>2, <2>1, <2>2, <2>3 DEF Run, ValidRun
<1>5. ValidRun(run')
  BY <1>2, <1>4 DEF ValidRun, ActiveCoherent, FinishedCoherent, InStatus
<1>6. TypeOK' /\ DriverSound'
  BY <1>1, <1>2, <1>3, <1>4 DEF Inductive, TypeOK, DriverSound, DriverTypeOK, PanesTypeOK,
     HistoryTypeOK, driver, panes, Counted
<1>7. AnswerSound'
  BY <1>3 DEF AnswerSound
<1> QED
  BY <1>5, <1>6, <1>7 DEF Inductive, Coherent

-----------------------------------------------------------------------------
(* The theorems. *)

(* A new run is a valid one: its first stage is current, all are pending.  *)
LEMMA InitInductive == Init => Inductive
<1> SUFFICES ASSUME Init PROVE Inductive
  OBVIOUS
<1>1. PICK p \in Policies : run = CreateRun(p)
  BY DEF Init
<1>2. NewStage \in StageRecord /\ ValidStage(NewStage)
  BY DEF NewStage, StageRecord, StageStatus, ValidStage
<1>3. run \in Run
  BY <1>1, <1>2, RunnerAssumption, DefinitionAssumption DEF CreateRun, Run, RunStatus, Stage
<1>4. ValidRun(run)
  BY <1>1, <1>2, DefinitionAssumption
     DEF CreateRun, ValidRun, ActiveStatus, ActiveCoherent, InStatus, Stage, Before, After, NewStage
<1>5. TypeOK
  BY <1>3 DEF Init, TypeOK, DriverTypeOK, PanesTypeOK, HistoryTypeOK, NoStage, PC
<1> QED
  BY <1>4, <1>5 DEF Init, Inductive, Coherent, DriverSound, AnswerSound

(* Every step of anybody keeps the inductive invariant. *)
LEMMA StepInductive == Inductive /\ [Next]_vars => Inductive'
<1> SUFFICES ASSUME Inductive, [Next]_vars PROVE Inductive'
  OBVIOUS
<1>1. CASE UNCHANGED vars
  BY <1>1 DEF Inductive, TypeOK, Coherent, DriverSound, AnswerSound, DriverTypeOK, PanesTypeOK,
     HistoryTypeOK, vars, durable, driver, panes, history, Here
<1>2. CASE Next
  BY <1>2, DriverSteps, OtherSteps, LoadStep, SaveStep DEF Next
<1> QED
  BY <1>1, <1>2

(* For every pipeline, whatever fails and however an operator's answers    *)
(* and the driver interleave, the inductive invariant holds.               *)
THEOREM InductiveInvariant == Spec => []Inductive
  BY InitInductive, StepInductive, PTL DEF Spec

(* The variables keep their types. *)
THEOREM TypeCorrect == Spec => []TypeOK
<1>1. Inductive => TypeOK
  BY DEF Inductive
<1> QED
  BY <1>1, InductiveInvariant, PTL

(* No crash, timeout, dead pane, late report or overlapping answer leaves  *)
(* a run that the next load of pipelines.json would reject as corrupt.     *)
THEOREM AlwaysCoherent == Spec => []Coherent
<1>1. Inductive => Coherent
  BY DEF Inductive
<1> QED
  BY <1>1, InductiveInvariant, PTL

(* As long as no operator's answer overlaps with a driver, a stage that    *)
(* has been decided is never changed again.  (The run overwrite shows that *)
(* the premise is needed.)                                                 *)
THEOREM DecidedForGood == ~AnswerWhileDriving => (Spec => ResultsFinal)
<1> SUFFICES ASSUME ~AnswerWhileDriving PROVE Spec => ResultsFinal
  OBVIOUS
<1> DEFINE Kept == \A s \in Stage : run.stage[s].status \in Decided
                                      => run'.stage[s] = run.stage[s]
<1>1. ASSUME Inductive, [Next]_vars PROVE [Kept]_vars
  <2>1. CASE UNCHANGED vars
    BY <2>1
  <2>2. CASE DriverStep
    BY <1>1, <2>2, DriverSteps DEF Advance
  <2>3. CASE \/ \E how \in {"normal", "resume"} : Start(how) \/ StartDrifted(how)
             \/ Crash
             \/ \E i \in Instance : PaneDies(i)
             \/ \E i \in Instance, b \in Body : SpecialistReports(i, b)
    BY <1>1, <2>3, OtherSteps DEF Advance
  <2>4. CASE OperatorLoads
    BY <2>4 DEF OperatorLoads, durable
  <2>5. CASE OperatorSaves
    <3>1. PICK r \in snap : run' = RecordAnswer(r, r.current)
      BY <2>5 DEF OperatorSaves
    <3>2. r = run /\ run \in Run /\ CanAnswer(run, run.current) /\ run.current \in Stage
      BY <1>1, <3>1 DEF Inductive, TypeOK, AnswerSound
    <3> QED
      BY <3>1, <3>2 DEF RecordAnswer, CanAnswer, Run, Decided
  <2> QED
    BY <1>1, <2>1, <2>2, <2>3, <2>4, <2>5 DEF Next
<1> HIDE DEF Kept
<1>2. Spec => [][Kept]_vars
  BY <1>1, InductiveInvariant, PTL DEF Spec
<1> QED
  BY <1>2, PTL DEF ResultsFinal, Kept
=============================================================================
