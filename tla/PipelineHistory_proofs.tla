----------------------- MODULE PipelineHistory_proofs -----------------------
(***************************************************************************)
(* Proofs, for every pipeline and every bound, about what has happened to  *)
(* the stages of a run: which dispatches, delegates and reports they had,  *)
(* on what their results rest, in what order they were decided, what a     *)
(* driver that returns leaves behind, and that the driver so keeps the     *)
(* contract of PipelineContract.                                           *)
(*                                                                         *)
(* Each step of the driver has one of four effects on the run: it asks for *)
(* attention, or it begins, judges or passes over the stage it is at.      *)
(***************************************************************************)
EXTENDS PipelineRunner_proofs

-----------------------------------------------------------------------------
(* What a step may do to the stages. *)

(* No stage changes but one that now asks for attention. *)
Asks(r, r2) ==
    /\ r2.onFailure = r.onFailure
    /\ \A s \in Stage : \/ r2.stage[s] = r.stage[s]
                        \/ /\ r.stage[s].status \notin Decided
                           /\ r2.stage[s].status = "needs_attention"
                           /\ r2.stage[s].inst = r.stage[s].inst

(* The current stage s, which was not decided, and no other becomes st.    *)
Becomes(r, r2, s, st) ==
    /\ r.active /\ r.current = s /\ r.stage[s].status \notin Decided
    /\ r2.onFailure = r.onFailure
    /\ r2.stage = [r.stage EXCEPT ![s] = st]

ChangeRecord == [inst : Instance \cup {NoInstance}, by : Nat, error : BOOLEAN,
                 question : BOOLEAN, options : BOOLEAN]

(* Updating the status of a run leaves its stages and its policy alone.    *)
LEMMA UpdateRunKeeps ==
    ASSUME NEW r \in Run, NEW s \in Stage
    PROVE  UpdateRun(r, s).stage = r.stage /\ UpdateRun(r, s).onFailure = r.onFailure
  BY DEF UpdateRun, Finish, Run

(* So a change of a stage changes nothing but that stage. *)
LEMMA ChangedStage ==
    ASSUME NEW r \in Run, NEW s \in Stage, NEW st \in StageRecord
    PROVE  LET r2 == UpdateRun([r EXCEPT !.stage[s] = st], s)
           IN  r2.stage = [r.stage EXCEPT ![s] = st] /\ r2.onFailure = r.onFailure
<1> DEFINE r1 == [r EXCEPT !.stage[s] = st]
<1>1. r1 \in Run /\ r1.stage = [r.stage EXCEPT ![s] = st] /\ r1.onFailure = r.onFailure
  BY DEF Run
<1> HIDE DEF r1
<1>2. UpdateRun(r1, s).stage = r1.stage /\ UpdateRun(r1, s).onFailure = r1.onFailure
  BY <1>1, UpdateRunKeeps
<1> QED
  BY <1>1, <1>2 DEF r1

(* transition_stage. *)
LEMMA TransitionBecomes ==
    ASSUME NEW r \in Run, NEW s \in Stage, NEW new \in StageStatus, NEW c \in ChangeRecord,
           CanTransition(r, s, new)
    PROVE  Becomes(r, Transition(r, s, new, c), s, NextStage(r.stage[s], new, c))
<1>1. r.stage[s] \in StageRecord
  BY DEF Run
<1>2. NextStage(r.stage[s], new, c) \in StageRecord
  BY <1>1 DEF NextStage, StageRecord, ChangeRecord
<1>3. r.active /\ r.current = s /\ r.stage[s].status \notin Decided
  BY DEF CanTransition, Allowed, Decided
<1> QED
  BY <1>2, <1>3, ChangedStage DEF Transition, Becomes

(* record_reconciled_result. *)
LEMMA ReconcileBecomes ==
    ASSUME NEW r \in Run, NEW s \in Stage, NEW status, NEW b \in Nat,
           CanReconcile(r, s, status)
    PROVE  Becomes(r, Reconcile(r, s, status, b), s, Reconciled(r.stage[s], status, b))
<1>1. /\ r.stage[s] \in StageRecord /\ status \in {"succeeded", "failed"}
      /\ r.active /\ r.current = s /\ r.stage[s].status \notin Decided
  BY DEF Run, CanReconcile, Decided
<1>2. Reconciled(r.stage[s], status, b) \in StageRecord
  BY <1>1 DEF Reconciled, StageRecord, StageStatus
<1> QED
  BY <1>1, <1>2, ChangedStage DEF Reconcile, Becomes

(* _attention. *)
LEMMA AttentionAsks ==
    ASSUME NEW r \in Run, NEW s \in Stage, NEW status
    PROVE  Asks(r, Attention(r, s, status))
<1>1. CASE status # "needs_attention" /\ CanTransition(r, s, "needs_attention")
  <2> DEFINE st == NextStage(r.stage[s], "needs_attention", Asking)
  <2>1. Asking \in ChangeRecord
    BY DEF Asking, Change, ChangeRecord
  <2>2. Becomes(r, Attention(r, s, status), s, st)
    BY <1>1, <2>1, TransitionBecomes DEF Attention, StageStatus
  <2>3. st.status = "needs_attention" /\ st.inst = r.stage[s].inst
    BY DEF NextStage, Asking, Change
  <2> HIDE DEF st
  <2> QED
    BY <2>2, <2>3 DEF Becomes, Asks, Run
<1>2. CASE ~(status # "needs_attention" /\ CanTransition(r, s, "needs_attention"))
  BY <1>2 DEF Attention, Asks
<1> QED
  BY <1>1, <1>2

LEMMA UnmovedAsks ==
    ASSUME run' = run
    PROVE  Asks(run, run')
  BY DEF Asks

LEMMA GiveUpAsks ==
    ASSUME Inductive, pc # "idle", NEW status, GiveUp(status)
    PROVE  Asks(run, run')
<1>1. run \in Run /\ cur \in Stage
  BY DEF Inductive, TypeOK, DriverSound
<1> QED
  BY <1>1, AttentionAsks DEF GiveUp

-----------------------------------------------------------------------------
(* The four effects of a step of the driver. *)

Begun(i) == Becomes(run, run', cur, NextStage(Here, "dispatched", Dispatching(i)))

Judged ==
    LET b == mail[held].body
    IN  \/ Becomes(run, run', cur, NextStage(Here, b.status, Reported(b)))
        \/ /\ CanReconcile(run, cur, b.status)
           /\ Becomes(run, run', cur, Reconciled(Here, b.status, held))

PassedOver == Becomes(run, run', cur, NextStage(Here, "dependency_failed", Failing))

(* The stage that is left by each of them. *)
LEMMA BegunStage ==
    ASSUME NEW st \in StageRecord, NEW i \in Instance
    PROVE  LET n == NextStage(st, "dispatched", Dispatching(i))
           IN  n.status = "dispatched" /\ n.inst = i /\ ~n.answer
  BY DefinitionAssumption DEF NextStage, Dispatching, Change

LEMMA PassedStage ==
    ASSUME NEW st \in StageRecord
    PROVE  LET n == NextStage(st, "dependency_failed", Failing)
           IN  n.status = "dependency_failed" /\ n.inst = st.inst /\ ~n.answer
  BY DEF NextStage, Failing, Change

LEMMA JudgedStage ==
    ASSUME Inductive, held \in DOMAIN mail, NEW st \in StageRecord
    PROVE  LET b == mail[held].body
               n == NextStage(st, b.status, Reported(b))
               m == Reconciled(st, b.status, held)
           IN  /\ b \in Body
               /\ b.status \in {"succeeded", "failed", "needs_attention"}
               /\ n.status = b.status /\ n.inst = st.inst /\ n.by = held
               /\ n.answer => st.answer
               /\ m.status = b.status /\ m.inst = st.inst /\ m.by = held
               /\ m.answer = st.answer
<1>1. mail[held] \in Report /\ held # 0
  BY DEF Inductive, TypeOK
<1>2. mail[held].body \in Body
  BY <1>1 DEF Report
<1>3. mail[held].body.status \in {"succeeded", "failed", "needs_attention"}
  BY <1>2, BodySound
<1> QED
  BY <1>1, <1>2, <1>3 DEF NextStage, Reported, Change, Reconciled, StageRecord

(* A stage is begun by its dispatch and by its re-dispatch. *)
LEMMA DispatchBegins ==
    ASSUME Inductive, NEW i \in Instance, Dispatch(i)
    PROVE  Begun(i)
<1>1. run \in Run /\ cur \in Stage
  BY DEF Inductive, TypeOK, DriverSound, Dispatch
<1>2. Dispatching(i) \in ChangeRecord
  BY DEF Dispatching, Change, ChangeRecord
<1>3. CanTransition(run, cur, "dispatched")
  BY DEF Dispatch, CanReserve, CanTransition, Allowed
<1> QED
  BY <1>1, <1>2, <1>3, TransitionBecomes DEF Dispatch, Begun, Here, StageStatus

LEMMA RedispatchBegins ==
    ASSUME Inductive, Redispatch
    PROVE  \E i \in RedispatchTargets : i \in Instance /\ inst' = i /\ Begun(i)
<1>1. run \in Run /\ cur \in Stage /\ inst \in Instance
  BY DEF Inductive, TypeOK, DriverSound, Redispatch
<1>2. PICK i \in RedispatchTargets :
        inst' = i /\ run' = Transition(run, cur, "dispatched", Dispatching(i))
  BY DEF Redispatch
<1>3. i \in Instance
  BY <1>1, RunnerAssumption DEF RedispatchTargets
<1>4. Dispatching(i) \in ChangeRecord
  BY <1>3 DEF Dispatching, Change, ChangeRecord
<1>5. CanTransition(run, cur, "dispatched")
  BY DEF Inductive, DriverSound, Redispatch
<1>6. Begun(i)
  BY <1>1, <1>2, <1>4, <1>5, TransitionBecomes DEF Begun, Here, StageStatus
<1> QED
  BY <1>2, <1>3, <1>6

(* What the driver does in its loop. *)
LEMMA VisitEffects ==
    ASSUME Inductive,
           \/ Skip \/ StopAtQuestion \/ ClassifyResume \/ DispatchedUncertain
           \/ DependencyFails \/ InputsFail \/ ReserveFails
           \/ \E i \in Instance : Dispatch(i)
    PROVE  \/ Asks(run, run')
           \/ \E i \in Instance : Dispatch(i) /\ Begun(i)
           \/ DependencyFails /\ PassedOver
<1>1. run \in Run /\ pc = "visit" /\ cur \in Stage
  BY DEF Inductive, TypeOK, DriverSound, Skip, StopAtQuestion, ClassifyResume,
         DispatchedUncertain, DependencyFails, InputsFail, ReserveFails, Dispatch
<1>2. CASE Skip \/ StopAtQuestion \/ ClassifyResume
  BY <1>2, UnmovedAsks DEF Skip, StopAtQuestion, ClassifyResume, durable
<1>3. CASE DispatchedUncertain \/ InputsFail \/ ReserveFails
  BY <1>1, <1>3, GiveUpAsks DEF DispatchedUncertain, InputsFail, ReserveFails
<1>4. CASE DependencyFails
  <2>1. Failing \in ChangeRecord
    BY DEF Failing, Change, ChangeRecord
  <2>2. CASE CanTransition(run, cur, "dependency_failed")
    BY <1>1, <1>4, <2>1, <2>2, TransitionBecomes DEF DependencyFails, PassedOver, Here, StageStatus
  <2>3. CASE ~CanTransition(run, cur, "dependency_failed")
    BY <1>4, <2>3, UnmovedAsks DEF DependencyFails
  <2> QED
    BY <1>4, <2>2, <2>3
<1>5. \A i \in Instance : Dispatch(i) => Begun(i)
  BY DispatchBegins
<1> QED
  BY <1>2, <1>3, <1>4, <1>5

(* A result that is persisted judges the stage; one that is refused ends   *)
(* the driver.                                                             *)
LEMMA ResultJudges ==
    ASSUME Inductive, Persist \/ Settle
    PROVE  /\ held \in DOMAIN mail /\ mail' = mail
           /\ \/ \E status : GiveUp(status)
              \/ pc' = "ack" /\ UNCHANGED <<cur, inst, held>> /\ Judged
<1>1. run \in Run /\ cur \in Stage /\ held \in DOMAIN mail /\ held \in Nat /\ mail' = mail
  BY DEF Inductive, TypeOK, DriverTypeOK, DriverSound, Persist, Settle
<1> DEFINE b == mail[held].body
<1>2. CASE Persist
  <2>1. mail[held] \in Report
    BY <1>1 DEF Inductive, TypeOK
  <2>2. b \in Body
    BY <2>1 DEF Report
  <2>3. b.status \in StageStatus /\ Reported(b) \in ChangeRecord
    BY <1>1, <2>2, BodySound DEF Reported, Change, ChangeRecord
  <2>4. CASE CanTransition(run, cur, b.status)
    <3>1. /\ run' = Transition(run, cur, b.status, Reported(b))
          /\ pc' = "ack" /\ UNCHANGED <<cur, inst, held>>
      BY <1>2, <2>4 DEF Persist, Goto
    <3> QED
      BY <1>1, <2>3, <2>4, <3>1, TransitionBecomes DEF Judged, Here
  <2>5. CASE ~CanTransition(run, cur, b.status)
    BY <1>1, <1>2, <2>5 DEF Persist
  <2> QED
    BY <2>4, <2>5
<1>3. CASE Settle
  <2>1. CASE CanReconcile(run, cur, b.status)
    <3>1. /\ run' = Reconcile(run, cur, b.status, held)
          /\ pc' = "ack" /\ UNCHANGED <<cur, inst, held>>
      BY <1>3, <2>1 DEF Settle, Goto
    <3> QED
      BY <1>1, <2>1, <3>1, ReconcileBecomes DEF Judged, Here
  <2>2. CASE ~CanReconcile(run, cur, b.status)
    BY <1>1, <1>3, <2>2 DEF Settle
  <2> QED
    BY <2>1, <2>2
<1> QED
  BY <1>2, <1>3

(* What it does after that. *)
LEMMA WorkEffects ==
    ASSUME Inductive,
           \/ SpawnOk \/ SpawnFails \/ DelegateOk \/ DelegateFails
           \/ WaitClaims \/ WaitClaimsInvalid \/ WaitTimesOut
           \/ Persist \/ PersistInvalid \/ Ack
           \/ Find \/ FindFails \/ Settle \/ SettleInvalid
           \/ Redispatch \/ RedispatchFails \/ InputsOk \/ RedispatchInputsFail
    PROVE  \/ Asks(run, run')
           \/ Redispatch /\ \E i \in RedispatchTargets : i \in Instance /\ inst' = i /\ Begun(i)
           \/ (Persist \/ Settle) /\ held \in DOMAIN mail /\ Judged
<1>1. /\ run \in Run /\ pc # "idle" /\ cur \in Stage /\ inst \in Instance
      /\ pc \in {"persist", "settle"} => held \in DOMAIN mail
  BY DEF Inductive, TypeOK, DriverSound, SpawnOk, SpawnFails, DelegateOk, DelegateFails, WaitClaims,
         WaitClaimsInvalid, WaitTimesOut, Persist, PersistInvalid, Ack, Find, FindFails, Settle,
         SettleInvalid, Redispatch, RedispatchFails, InputsOk, RedispatchInputsFail
<1>2. CASE SpawnOk \/ DelegateOk \/ WaitClaims \/ Ack \/ InputsOk
  BY <1>2, UnmovedAsks DEF SpawnOk, DelegateOk, WaitClaims, Ack, InputsOk, durable
<1>3. CASE \/ SpawnFails \/ DelegateFails \/ WaitClaimsInvalid \/ WaitTimesOut \/ PersistInvalid
           \/ FindFails \/ SettleInvalid \/ RedispatchFails \/ RedispatchInputsFail
  BY <1>1, <1>3, GiveUpAsks
     DEF SpawnFails, DelegateFails, WaitClaimsInvalid, WaitTimesOut, PersistInvalid, FindFails,
         SettleInvalid, RedispatchFails, RedispatchInputsFail
<1>4. CASE Find
  <2>1. run' = run \/ GiveUp(seen)
    BY <1>4 DEF Find
  <2> QED
    BY <1>1, <2>1, UnmovedAsks, GiveUpAsks
<1>5. CASE Persist \/ Settle
  BY <1>1, <1>5, ResultJudges, GiveUpAsks
<1>6. CASE Redispatch
  BY <1>6, RedispatchBegins
<1> QED
  BY <1>2, <1>3, <1>4, <1>5, <1>6

-----------------------------------------------------------------------------
(* Dependencies. *)

(* DependenciesHonoured, of any run; so that it can be said of the run an  *)
(* operator has loaded as well.  Only a stage that was dispatched before   *)
(* is dispatched again.                                                    *)
Honours(r) ==
    \A s \in Stage :
        /\ r.stage[s].inst # NoInstance => Inputs[s] \subseteq InStatus(r, {"succeeded"})
        /\ r.stage[s].status = "dependency_failed" =>
              Inputs[s] \cap InStatus(r, {"failed", "dependency_failed"}) # {}

HonoursAll ==
    /\ Honours(run)
    /\ \A r \in snap : Honours(r)
    /\ pc = "redispatch" => Here.inst # NoInstance

LEMMA AsksHonours ==
    ASSUME NEW r \in Run, NEW r2 \in Run, Honours(r), Asks(r, r2)
    PROVE  Honours(r2)
<1>1. \A s \in Stage : r.stage[s].status \in Decided => r2.stage[s] = r.stage[s]
  BY DEF Asks
<1>2. ASSUME NEW s \in Stage
      PROVE  /\ r2.stage[s].inst = r.stage[s].inst
             /\ r2.stage[s].status = "dependency_failed" => r2.stage[s] = r.stage[s]
  BY DEF Asks
<1>3. \A S \in SUBSET Decided : InStatus(r, S) \subseteq InStatus(r2, S)
  BY <1>1 DEF InStatus
<1> QED
  BY <1>2, <1>3 DEF Honours, Decided

LEMMA BecomesHonours ==
    ASSUME NEW r \in Run, NEW r2 \in Run, Honours(r), NEW s \in Stage, NEW st,
           Becomes(r, r2, s, st),
           st.inst # NoInstance => Inputs[s] \subseteq InStatus(r, {"succeeded"}),
           st.status = "dependency_failed" =>
              Inputs[s] \cap InStatus(r, {"failed", "dependency_failed"}) # {}
    PROVE  Honours(r2)
<1>1. /\ r2.stage[s] = st
      /\ \A t \in Stage : t # s => r2.stage[t] = r.stage[t]
  BY DEF Becomes, Run
<1>2. \A S \in SUBSET Decided : InStatus(r, S) \subseteq InStatus(r2, S)
  BY <1>1 DEF InStatus, Becomes
<1> QED
  BY <1>1, <1>2 DEF Honours, Decided

(* A stage that may be reserved has all the stages before it decided.      *)
LEMMA InputsDecided ==
    ASSUME Inductive, run.active, run.current = cur, cur \in Stage
    PROVE  Inputs[cur] \subseteq InStatus(run, Decided)
<1>1. ActiveCoherent(run)
  BY DEF Inductive, Coherent, ValidRun
<1>2. Inputs[cur] \subseteq Before(cur)
  BY DefinitionAssumption DEF Before, Stage
<1> QED
  BY <1>1, <1>2 DEF ActiveCoherent, InStatus, Decided

(* The driver honours the dependencies. *)
LEMMA DriverHonours ==
    ASSUME Inductive, HonoursAll, DriverStep
    PROVE  Honours(run')
<1>1. /\ run \in Run /\ run' \in Run /\ Honours(run)
      /\ cur \in Stage /\ Here \in StageRecord /\ ValidStage(Here)
  <2>1. run \in Run /\ ValidRun(run) /\ Honours(run) /\ run' \in Run
    BY DriverSteps DEF Inductive, TypeOK, Coherent, HonoursAll
  <2>2. pc # "idle"
    BY DEF DriverStep, Skip, StopAtQuestion, ClassifyResume, DispatchedUncertain, DependencyFails,
         InputsFail, ReserveFails, Dispatch, SpawnOk, SpawnFails, DelegateOk, DelegateFails,
         WaitClaims, WaitClaimsInvalid, WaitTimesOut, Persist, PersistInvalid, Ack, Find,
         FindFails, Settle, SettleInvalid, Redispatch, RedispatchFails, InputsOk,
         RedispatchInputsFail
  <2>3. cur \in Stage
    BY <2>2 DEF Inductive, DriverSound
  <2> QED
    BY <2>1, <2>3 DEF Here, Run, ValidRun
<1>2. CASE Asks(run, run')
  BY <1>1, <1>2, AsksHonours
<1>3. ASSUME NEW i \in Instance, Dispatch(i), Begun(i)
      PROVE  Honours(run')
  <2>1. Inputs[cur] \subseteq InStatus(run, Decided)
    BY <1>1, <1>3, InputsDecided DEF Dispatch, CanReserve
  <2>2. FailedInputs(cur) = {}
    BY <1>3 DEF Dispatch
  <2>3. Inputs[cur] \subseteq InStatus(run, {"succeeded"})
    BY <2>1, <2>2 DEF FailedInputs, InStatus, Decided
  <2> DEFINE st == NextStage(Here, "dispatched", Dispatching(i))
  <2>4. st.status = "dispatched"
    BY <1>1, BegunStage
  <2>5. Becomes(run, run', cur, st)
    BY <1>3 DEF Begun
  <2> HIDE DEF st
  <2> QED
    BY <1>1, <2>3, <2>4, <2>5, BecomesHonours
<1>4. CASE DependencyFails /\ PassedOver
  <2>1. FailedInputs(cur) # {} /\ Here.status = "pending"
    BY <1>4 DEF DependencyFails
  <2>2. Inputs[cur] \cap InStatus(run, {"failed", "dependency_failed"}) # {}
    BY <1>1, <2>1, DefinitionAssumption DEF FailedInputs, InStatus
  <2>3. Here.inst = NoInstance
    BY <1>1, <2>1 DEF ValidStage
  <2> DEFINE st == NextStage(Here, "dependency_failed", Failing)
  <2>4. st.inst = NoInstance
    BY <1>1, <2>3, PassedStage
  <2>5. Becomes(run, run', cur, st)
    BY <1>4 DEF PassedOver
  <2> HIDE DEF st
  <2> QED
    BY <1>1, <2>2, <2>4, <2>5, BecomesHonours
<1>5. CASE Redispatch /\ \E i \in RedispatchTargets : i \in Instance /\ inst' = i /\ Begun(i)
  <2>1. PICK i \in Instance : Begun(i)
    BY <1>5
  <2>2. Inputs[cur] \subseteq InStatus(run, {"succeeded"})
    BY <1>1, <1>5 DEF Redispatch, HonoursAll, Honours, Here
  <2> DEFINE st == NextStage(Here, "dispatched", Dispatching(i))
  <2>3. st.status = "dispatched"
    BY <1>1, BegunStage
  <2>4. Becomes(run, run', cur, st)
    BY <2>1 DEF Begun
  <2> HIDE DEF st
  <2> QED
    BY <1>1, <2>2, <2>3, <2>4, BecomesHonours
<1>6. CASE held \in DOMAIN mail /\ Judged
  <2>1. PICK st : /\ Becomes(run, run', cur, st)
                  /\ st.inst = Here.inst /\ st.status # "dependency_failed"
    BY <1>1, <1>6, JudgedStage DEF Judged
  <2>2. st.inst # NoInstance => Inputs[cur] \subseteq InStatus(run, {"succeeded"})
    BY <1>1, <2>1 DEF Honours, Here
  <2> QED
    BY <1>1, <2>1, <2>2, BecomesHonours
<1> QED
  BY <1>2, <1>3, <1>4, <1>5, <1>6, VisitEffects, WorkEffects DEF DriverStep

(* Whether the driver goes to re-dispatch: only after classify_resume.     *)
LEMMA RedispatchEntered ==
    ASSUME DriverStep, pc' = "redispatch"
    PROVE  ClassifyResume
  BY DEF DriverStep, Skip, StopAtQuestion, ClassifyResume, DispatchedUncertain, DependencyFails,
         InputsFail, ReserveFails, Dispatch, SpawnOk, SpawnFails, DelegateOk, DelegateFails,
         WaitClaims, WaitClaimsInvalid, WaitTimesOut, Persist, PersistInvalid, Ack, Find,
         FindFails, Settle, SettleInvalid, Redispatch, RedispatchFails, InputsOk,
         RedispatchInputsFail, Onward, Exit, GiveUp, Goto

(* No step of the driver touches an answer in flight. *)
LEMMA DriverLeavesAnswer ==
    ASSUME DriverStep
    PROVE  snap' = snap /\ answers' = answers /\ pc # "idle"
  BY DEF DriverStep, Skip, StopAtQuestion, ClassifyResume, DispatchedUncertain, DependencyFails,
         InputsFail, ReserveFails, Dispatch, SpawnOk, SpawnFails, DelegateOk, DelegateFails,
         WaitClaims, WaitClaimsInvalid, WaitTimesOut, Persist, PersistInvalid, Ack, Find,
         FindFails, Settle, SettleInvalid, Redispatch, RedispatchFails, InputsOk,
         RedispatchInputsFail, history

(* Starting a driver, killing it and what specialists do only asks. *)
LEMMA OthersAsk ==
    ASSUME Inductive,
           \/ \E how \in {"normal", "resume"} : Start(how) \/ StartDrifted(how)
           \/ Crash
           \/ \E i \in Instance : PaneDies(i)
           \/ \E i \in Instance, b \in Body : SpecialistReports(i, b)
    PROVE  /\ Asks(run, run') /\ UNCHANGED <<snap, history>>
           /\ pc' = "redispatch" => UNCHANGED <<run, driver>>
<1>1. run \in Run /\ ValidRun(run)
  BY DEF Inductive, TypeOK, Coherent
<1>2. ASSUME NEW how \in {"normal", "resume"}, StartDrifted(how)
      PROVE  Asks(run, run') /\ UNCHANGED <<snap, history>> /\ pc' # "redispatch"
  <2>1. run.current \in Stage
    BY <1>1, <1>2 DEF StartDrifted, MayStart, ValidRun, ActiveStatus, ActiveCoherent
  <2> QED
    BY <1>1, <1>2, <2>1, AttentionAsks DEF StartDrifted, MayStart
<1>3. ASSUME NEW how \in {"normal", "resume"}, Start(how)
      PROVE  Asks(run, run') /\ UNCHANGED <<snap, history>> /\ pc' # "redispatch"
  BY <1>3, UnmovedAsks DEF Start, durable
<1>4. CASE Crash
  BY <1>4, UnmovedAsks DEF Crash, durable, Exit
<1>5. ASSUME NEW i \in Instance, PaneDies(i)
      PROVE  Asks(run, run') /\ UNCHANGED <<run, driver, snap, history>>
  BY <1>5, UnmovedAsks DEF PaneDies
<1>6. ASSUME NEW i \in Instance, NEW b \in Body, SpecialistReports(i, b)
      PROVE  Asks(run, run') /\ UNCHANGED <<run, driver, snap, history>>
  BY <1>6, UnmovedAsks DEF SpecialistReports
<1> QED
  BY <1>2, <1>3, <1>4, <1>5, <1>6

(* What saving an answer does to the run that was loaded. *)
LEMMA AnsweredStage ==
    ASSUME NEW r \in Run, NEW s \in Stage
    PROVE  LET r2 == RecordAnswer(r, s)
           IN  /\ r2.onFailure = r.onFailure /\ r2.status = r.status /\ r2.current = r.current
               /\ r2.stage[s].answer
               /\ \A t \in Stage : /\ r2.stage[t].status = r.stage[t].status
                                   /\ r2.stage[t].inst = r.stage[t].inst
                                   /\ r2.stage[t].by = r.stage[t].by
                                   /\ t # s => r2.stage[t] = r.stage[t]
<1> DEFINE st == [r.stage[s] EXCEPT !.answer = TRUE]
<1>1. r.stage[s] \in StageRecord
  BY DEF Run
<1>2. /\ st.answer /\ st.status = r.stage[s].status /\ st.inst = r.stage[s].inst
      /\ st.by = r.stage[s].by
  BY <1>1 DEF StageRecord
<1>3. RecordAnswer(r, s) = [r EXCEPT !.stage = [r.stage EXCEPT ![s] = st]]
  BY DEF RecordAnswer
<1> HIDE DEF st
<1> QED
  BY <1>2, <1>3 DEF Run

LEMMA HonoursStep == Inductive /\ HonoursAll /\ [Next]_vars => HonoursAll'
<1> SUFFICES ASSUME Inductive, HonoursAll, [Next]_vars PROVE HonoursAll'
  OBVIOUS
<1>1. run \in Run /\ run' \in Run /\ snap \subseteq Run
  BY StepInductive DEF Inductive, TypeOK
<1>2. CASE DriverStep
  <2>1. ASSUME pc' = "redispatch" PROVE Here'.inst # NoInstance
    BY <1>2, <2>1, RedispatchEntered DEF ClassifyResume, Here, durable
  <2> QED
    BY <1>2, <2>1, DriverHonours, DriverLeavesAnswer DEF HonoursAll
<1>3. CASE \/ \E how \in {"normal", "resume"} : Start(how) \/ StartDrifted(how)
           \/ Crash
           \/ \E i \in Instance : PaneDies(i)
           \/ \E i \in Instance, b \in Body : SpecialistReports(i, b)
  <2>1. /\ Asks(run, run') /\ UNCHANGED <<snap, history>>
        /\ pc' = "redispatch" => UNCHANGED <<run, driver>>
    BY <1>3, OthersAsk
  <2>2. Honours(run')
    BY <1>1, <2>1, AsksHonours DEF HonoursAll
  <2> QED
    BY <2>1, <2>2 DEF HonoursAll, Here, driver
<1>4. CASE OperatorLoads
  BY <1>4 DEF OperatorLoads, HonoursAll, durable, driver, Here
<1>5. CASE OperatorSaves
  <2>1. PICK r \in snap : run' = RecordAnswer(r, r.current)
    BY <1>5 DEF OperatorSaves
  <2>2. r \in Run /\ r.current \in Stage /\ Honours(r) /\ pc # "redispatch"
    BY <1>1, <2>1 DEF Inductive, AnswerSound, DriverSound, HonoursAll, Here
  <2>3. \A t \in Stage : /\ run'.stage[t].status = r.stage[t].status
                         /\ run'.stage[t].inst = r.stage[t].inst
    BY <2>1, <2>2, AnsweredStage
  <2>4. Honours(run')
    BY <2>2, <2>3 DEF Honours, InStatus
  <2> QED
    BY <1>5, <2>2, <2>4 DEF OperatorSaves, HonoursAll, driver
<1>6. CASE UNCHANGED vars
  BY <1>6 DEF vars, durable, driver, HonoursAll, Here
<1> QED
  BY <1>2, <1>3, <1>4, <1>5, <1>6 DEF Next

LEMMA InitHonours == Init => HonoursAll
<1> SUFFICES ASSUME Init PROVE HonoursAll
  OBVIOUS
<1>1. \A s \in Stage : run.stage[s] = NewStage
  BY DEF Init, CreateRun
<1> QED
  BY <1>1 DEF Init, HonoursAll, Honours, NewStage

LEMMA HonoursAlways == Spec => []HonoursAll
  BY InitHonours, HonoursStep, InductiveInvariant, PTL DEF Spec

(* Whatever fails, and even if an operator's answer overlaps with a driver:*)
(* a stage is only begun when all its inputs succeeded, and marked         *)
(* dependency_failed only when one of them did not.                        *)
THEOREM DependenciesAlwaysHonoured == Spec => []DependenciesHonoured
<1>1. HonoursAll => DependenciesHonoured
  BY DEF HonoursAll, Honours, DependenciesHonoured
<1> QED
  BY <1>1, HonoursAlways, PTL
-----------------------------------------------------------------------------
(* The books: why NoAutomaticRetry, DispatchRecordedFirst and              *)
(* ResultMatchesReport are inductive.  A stage has been dispatched exactly *)
(* when it names an instance, an answer makes room for one more dispatch,  *)
(* a specialist is told only what was dispatched to it, and a report       *)
(* answers some dispatch.                                                  *)
StageBooks(s) ==
    LET st == run.stage[s]
    IN  /\ st.inst = NoInstance <=> dispatches[s] = 0
        /\ dispatches[s] <= 1 + answers[s]
        /\ st.answer => dispatches[s] <= answers[s]
        /\ delegates[s] <= dispatches[s]

Dispatched(s) == 1 .. dispatches[s]

Books ==
    /\ \A s \in Stage : StageBooks(s)
    /\ \A k \in DOMAIN mail : mail[k].attempt \in Dispatched(mail[k].stage)
    /\ \A i \in Instance : \A s \in Told(i) : run.stage[s].inst = i
    /\ ResultMatchesReport

(* The places: while no answer overlaps with the driver, what it has read  *)
(* stays true.  At each place the stage it is at is as it was when the     *)
(* driver got there, and the report it holds is one of that stage.         *)
Looking == {"find", "settle", "redispatch"}
Working == {"spawn", "inputs", "delegate", "wait", "persist"}
Holding == {"persist", "settle", "ack"}

Places ==
    /\ pc \in Looking => Here.inst = inst /\ seen = Here.status
    /\ pc \in Working => Authorized
    /\ pc \in {"inputs", "spawn", "delegate"} => delegates[cur] < dispatches[cur]
    /\ pc \in Holding => mail[held].stage = cur /\ mail[held].from = inst
    /\ pc = "ack" => Here.by = held /\ Here.status = mail[held].body.status

-----------------------------------------------------------------------------
(* The mail. *)

(* The reports of m are those of m2 still, wherever they lie there. *)
MailKept(m, m2) ==
    /\ DOMAIN m \subseteq DOMAIN m2
    /\ \A k \in DOMAIN m : /\ m2[k].stage = m[k].stage /\ m2[k].from = m[k].from
                           /\ m2[k].attempt = m[k].attempt /\ m2[k].body = m[k].body

LEMMA MoveToKeeps ==
    ASSUME mail \in Seq(Report), NEW S, NEW where, mail' = MoveTo(S, where)
    PROVE  MailKept(mail, mail') /\ DOMAIN mail' = DOMAIN mail
<1>1. \A k \in DOMAIN mail : mail[k] \in Report
  OBVIOUS
<1> QED
  BY <1>1 DEF MoveTo, Report, MailKept

(* What find_existing_report leaves. *)
LEMMA FindKeeps ==
    ASSUME Inductive, Find
    PROVE  /\ MailKept(mail, mail') /\ DOMAIN mail' = DOMAIN mail
           /\ \A k \in DOMAIN mail :
                mail'[k].place \in {mail[k].place, "processing", "rejected"}
           /\ \/ GiveUp(seen)
              \/ /\ Goto("settle") /\ UNCHANGED <<run, inst>>
                 /\ held' \in Matching("processing") \cup Matching("pending")
<1> DEFINE all == Matching("processing") \cup Matching("pending")
<1>1. PICK bad \in SUBSET all :
        LET old   == Matching("processing") \ bad
            new   == Matching("pending") \ bad
            found == IF old # {} THEN Min(old) ELSE IF new # {} THEN Min(new) ELSE 0
            tried == {k \in bad :
                        \/ found = 0
                        \/ mail[k].place = "processing" /\ (old = {} \/ k < found)
                        \/ mail[k].place = "pending" /\ old = {} /\ k < found}
        IN  /\ mail' = [k \in DOMAIN mail |->
                          IF k \in tried THEN [mail[k] EXCEPT !.place = "rejected"]
                          ELSE IF k = found THEN [mail[k] EXCEPT !.place = "processing"]
                          ELSE mail[k]]
            /\ IF found # 0 THEN /\ Goto("settle") /\ held' = found
                                 /\ UNCHANGED <<run, inst>>
                            ELSE GiveUp(seen)
  BY DEF Find
<1> DEFINE old   == Matching("processing") \ bad
           new   == Matching("pending") \ bad
           found == IF old # {} THEN Min(old) ELSE IF new # {} THEN Min(new) ELSE 0
           tried == {k \in bad :
                       \/ found = 0
                       \/ mail[k].place = "processing" /\ (old = {} \/ k < found)
                       \/ mail[k].place = "pending" /\ old = {} /\ k < found}
<1>2. /\ mail' = [k \in DOMAIN mail |->
                    IF k \in tried THEN [mail[k] EXCEPT !.place = "rejected"]
                    ELSE IF k = found THEN [mail[k] EXCEPT !.place = "processing"]
                    ELSE mail[k]]
      /\ IF found # 0 THEN /\ Goto("settle") /\ held' = found /\ UNCHANGED <<run, inst>>
                      ELSE GiveUp(seen)
  BY <1>1
<1> HIDE DEF tried
<1>3. found # 0 => found \in all
  <2>1. old \in SUBSET Nat /\ new \in SUBSET Nat /\ old \subseteq all /\ new \subseteq all
    BY MatchingIn DEF Inductive, TypeOK
  <2> HIDE DEF old, new
  <2> QED
    BY <2>1, MinOfNaturals
<1> HIDE DEF found
<1>4. \A k \in DOMAIN mail : mail[k] \in Report
  BY DEF Inductive, TypeOK
<1>5. MailKept(mail, mail') /\ DOMAIN mail' = DOMAIN mail
  BY <1>2, <1>4 DEF Report, MailKept
<1>6. \A k \in DOMAIN mail : mail'[k].place \in {mail[k].place, "processing", "rejected"}
  BY <1>2, <1>4 DEF Report
<1> QED
  BY <1>2, <1>3, <1>5, <1>6

(* The driver only moves reports about. *)
LEMMA DriverMoves ==
    ASSUME Inductive, DriverStep
    PROVE  MailKept(mail, mail') /\ DOMAIN mail' = DOMAIN mail
<1>1. mail \in Seq(Report)
  BY DEF Inductive, TypeOK
<1>2. mail' = mail => MailKept(mail, mail')
  BY DEF MailKept
<1>3. CASE WaitClaims \/ WaitClaimsInvalid \/ Ack
  BY <1>1, <1>2, <1>3, MoveToKeeps DEF WaitClaims, WaitClaimsInvalid, Ack
<1>4. CASE Find
  BY <1>4, FindKeeps
<1>5. CASE ~(WaitClaims \/ WaitClaimsInvalid \/ Ack \/ Find)
  <2>1. mail' = mail
    BY <1>5 DEF DriverStep, Skip, StopAtQuestion, ClassifyResume, DispatchedUncertain,
         DependencyFails, InputsFail, ReserveFails, Dispatch, SpawnOk, SpawnFails, DelegateOk,
         DelegateFails, WaitTimesOut, Persist, PersistInvalid, FindFails, Settle, SettleInvalid,
         Redispatch, RedispatchFails, InputsOk, RedispatchInputsFail, durable
  <2> QED
    BY <1>2, <2>1
<1> QED
  BY <1>3, <1>4, <1>5
-----------------------------------------------------------------------------
(* The books are kept. *)

(* A result that rests on a report: the second half of                     *)
(* ResultMatchesReport for one stage.                                      *)
RestsOnReport(s, st) ==
    /\ st.by \in DOMAIN mail
    /\ mail[st.by].stage = s /\ mail[st.by].from = st.inst
    /\ mail[st.by].body.status = st.status

(* No instance is assigned, no answer gained, and what is new among the    *)
(* results rests on a report.                                              *)
Quiet(r, r2) ==
    \A s \in Stage :
        /\ r2.stage[s].inst = r.stage[s].inst
        /\ r2.stage[s].answer => r.stage[s].answer
        /\ r2.stage[s].status \in {"succeeded", "failed"} =>
              r2.stage[s] = r.stage[s] \/ RestsOnReport(s, r2.stage[s])

LEMMA AsksIsQuiet ==
    ASSUME Advance(run, run'), Asks(run, run')
    PROVE  Quiet(run, run')
  BY DEF Advance, Asks, Quiet

(* Results stay what their reports say while reports are only moved and    *)
(* dispatches are only added.                                              *)
LEMMA ResultsKept ==
    ASSUME Inductive, Inductive', Books, MailKept(mail, mail'),
           \A s \in Stage : dispatches[s] <= dispatches'[s],
           NEW s \in Stage, run'.stage[s].status \in {"succeeded", "failed"},
           run'.stage[s] = run.stage[s] \/ RestsOnReport(s, run'.stage[s])
    PROVE  /\ run'.stage[s].by \in DOMAIN mail'
           /\ mail'[run'.stage[s].by].stage = s
           /\ mail'[run'.stage[s].by].from = run'.stage[s].inst
           /\ mail'[run'.stage[s].by].attempt \in 1 .. dispatches'[s]
           /\ mail'[run'.stage[s].by].body.status = run'.stage[s].status
<1> DEFINE k == run'.stage[s].by
<1>1. /\ k \in DOMAIN mail /\ mail[k].stage = s /\ mail[k].from = run'.stage[s].inst
      /\ mail[k].attempt \in 1 .. dispatches[s]
      /\ mail[k].body.status = run'.stage[s].status
  <2>1. CASE run'.stage[s] = run.stage[s]
    BY <2>1 DEF Books, ResultMatchesReport
  <2>2. CASE RestsOnReport(s, run'.stage[s])
    BY <2>2 DEF RestsOnReport, Books, Dispatched
  <2> QED
    BY <2>1, <2>2
<1>2. dispatches[s] \in Nat /\ dispatches'[s] \in Nat /\ dispatches[s] <= dispatches'[s]
  BY DEF Inductive, TypeOK, HistoryTypeOK
<1> HIDE DEF k
<1>3. /\ k \in DOMAIN mail' /\ mail'[k].stage = mail[k].stage /\ mail'[k].from = mail[k].from
      /\ mail'[k].attempt = mail[k].attempt /\ mail'[k].body = mail[k].body
  BY <1>1 DEF MailKept
<1> QED
  BY <1>1, <1>2, <1>3 DEF k

LEMMA ToldStages == ASSUME TypeOK, NEW i \in Instance PROVE Told(i) \subseteq Stage
  BY DEF TypeOK, PanesTypeOK, Told

(* A quiet step keeps the books, if whoever reports something new was      *)
(* dispatched for it and whoever is told something new is assigned to it.  *)
LEMMA QuietBooks ==
    ASSUME Inductive, Inductive', Books, Quiet(run, run'), MailKept(mail, mail'),
           UNCHANGED history,
           \A k \in DOMAIN mail' : \/ k \in DOMAIN mail
                                   \/ mail'[k].attempt \in Dispatched(mail'[k].stage),
           \A i \in Instance : \A s \in Told(i)' :
               s \in Told(i) \/ (s \in Stage /\ run.stage[s].inst = i)
    PROVE  Books'
<1>1. dispatches' = dispatches /\ answers' = answers /\ delegates' = delegates
  BY DEF history
<1>2. \A s \in Stage : StageBooks(s)'
  BY <1>1 DEF Books, StageBooks, Quiet
<1>3. \A k \in DOMAIN mail' : mail'[k].attempt \in 1 .. dispatches'[mail'[k].stage]
  BY <1>1 DEF Books, MailKept, Dispatched
<1>4. ASSUME NEW i \in Instance, NEW s \in Told(i)'
      PROVE  run'.stage[s].inst = i
  <2>1. s \in Stage /\ run.stage[s].inst = i
    BY ToldStages DEF Books, Inductive
  <2> QED
    BY <2>1 DEF Quiet
<1>5. ResultMatchesReport'
  <2>1. \A s \in Stage : dispatches[s] <= dispatches'[s]
    BY <1>1 DEF Inductive, TypeOK, HistoryTypeOK
  <2>2. \A s \in Stage : run'.stage[s].status \in {"succeeded", "failed"} =>
           run'.stage[s] = run.stage[s] \/ RestsOnReport(s, run'.stage[s])
    BY DEF Quiet
  <2> QED
    BY <2>1, <2>2, ResultsKept DEF ResultMatchesReport
<1> QED
  BY <1>2, <1>3, <1>4, <1>5 DEF Books, Dispatched
(* A dispatch: the first of the stage, or the one its answer stands for.   *)
LEMMA BegunBooks ==
    ASSUME Inductive, Inductive', Books, cur \in Stage, NEW i \in Instance, Begun(i),
           Here.inst = NoInstance \/ (Here.inst = i /\ Here.answer),
           dispatches' = Counted(dispatches, cur),
           UNCHANGED <<mail, inbox, routed, answers, delegates>>
    PROVE  Books'
<1>1. /\ run \in Run /\ run' \in Run /\ Here \in StageRecord
      /\ dispatches \in [Stage -> Nat] /\ answers \in [Stage -> Nat]
      /\ delegates \in [Stage -> Nat]
  BY DEF Inductive, TypeOK, HistoryTypeOK, Here, Run
<1>2. /\ run'.stage[cur].status = "dispatched" /\ run'.stage[cur].inst = i
      /\ ~run'.stage[cur].answer
      /\ \A s \in Stage : s # cur => run'.stage[s] = run.stage[s]
  BY <1>1, BegunStage DEF Begun, Becomes, Run
<1>3. /\ dispatches'[cur] = dispatches[cur] + 1
      /\ \A s \in Stage : s # cur => dispatches'[s] = dispatches[s]
      /\ \A s \in Stage : dispatches[s] <= dispatches'[s] /\ dispatches'[s] \in Nat
  BY <1>1 DEF Counted
<1>4. ASSUME NEW s \in Stage PROVE StageBooks(s)'
  <2>1. StageBooks(s)
    BY DEF Books
  <2>2. CASE s = cur
    BY <1>1, <1>2, <1>3, <2>1, <2>2, DefinitionAssumption DEF StageBooks, Here
  <2>3. CASE s # cur
    BY <1>2, <1>3, <2>1, <2>3 DEF StageBooks
  <2> QED
    BY <2>2, <2>3
<1>5. ASSUME NEW k \in DOMAIN mail'
      PROVE  mail'[k].attempt \in 1 .. dispatches'[mail'[k].stage]
  <2>1. mail[k] \in Report /\ mail'[k] = mail[k] /\ k \in DOMAIN mail
    BY DEF Inductive, TypeOK
  <2>2. mail[k].stage \in Stage /\ mail[k].attempt \in 1 .. dispatches[mail[k].stage]
    BY <2>1 DEF Report, Books, Dispatched
  <2> QED
    BY <1>1, <1>3, <2>1, <2>2
<1>6. ASSUME NEW j \in Instance, NEW s \in Told(j)'
      PROVE  run'.stage[s].inst = j
  <2>1. s \in Told(j) /\ s \in Stage /\ run.stage[s].inst = j
    BY ToldStages DEF Told, Books, Inductive
  <2> QED
    BY <1>2, <2>1, DefinitionAssumption DEF Here
<1>7. ResultMatchesReport'
  <2>1. \A s \in Stage : run'.stage[s].status \in {"succeeded", "failed"} =>
           run'.stage[s] = run.stage[s]
    BY <1>2
  <2>2. MailKept(mail, mail')
    BY DEF MailKept
  <2> QED
    BY <1>3, <2>1, <2>2, ResultsKept DEF ResultMatchesReport
<1> QED
  BY <1>4, <1>5, <1>6, <1>7 DEF Books, Dispatched

(* A delegate is for the instance its stage is assigned to, whether or not *)
(* it gets further than the row.                                           *)
LEMMA RoutedTold ==
    ASSUME TypeOK, cur \in Stage, inst \in Instance, Here.inst = inst,
           routed' = routed \/ Routes,
           inbox' = inbox \/ inbox' = [inbox EXCEPT ![inst] = cur],
           NEW i \in Instance, NEW s \in Told(i)'
    PROVE  s \in Told(i) \/ (s \in Stage /\ run.stage[s].inst = i)
<1>1. /\ inbox \in [Instance -> Stage \cup {NoStage}]
      /\ routed \in [Instance -> Stage \cup {NoStage}]
  BY DEF TypeOK, PanesTypeOK
<1>2. s # NoStage /\ (s = inbox'[i] \/ s = routed'[i])
  BY DEF Told
<1>3. inbox'[i] = inbox[i] \/ (i = inst /\ inbox'[i] = cur)
  BY <1>1
<1>4. routed'[i] = routed[i] \/ (i = inst /\ routed'[i] = cur)
  BY <1>1 DEF Routes
<1> QED
  BY <1>2, <1>3, <1>4 DEF Told, Here

(* A delegate that is sent. *)
LEMMA DeliverBooks ==
    ASSUME Inductive, Inductive', Books, cur \in Stage, inst \in Instance, Routes, Deliver,
           Asks(run, run'), Advance(run, run'), Here.inst = inst, delegates[cur] < dispatches[cur],
           UNCHANGED <<mail, dispatches, answers>>
    PROVE  Books'
<1>1. /\ run \in Run /\ run' \in Run /\ mail \in Seq(Report)
      /\ dispatches \in [Stage -> Nat] /\ delegates \in [Stage -> Nat]
  BY DEF Inductive, TypeOK, HistoryTypeOK
<1>2. /\ inbox' = inbox \/ inbox' = [inbox EXCEPT ![inst] = cur]
      /\ delegates' = Counted(delegates, cur)
  BY DEF Deliver
<1>3. Quiet(run, run')
  BY AsksIsQuiet
<1>4. ASSUME NEW s \in Stage PROVE StageBooks(s)'
  <2>1. /\ StageBooks(s) /\ run'.stage[s].inst = run.stage[s].inst
        /\ run'.stage[s].answer => run.stage[s].answer
    BY <1>3 DEF Books, Quiet
  <2>2. delegates'[s] <= dispatches[s]
    BY <1>1, <1>2, <2>1 DEF Counted, StageBooks
  <2> QED
    BY <2>1, <2>2 DEF StageBooks
<1>5. \A k \in DOMAIN mail' : mail'[k].attempt \in 1 .. dispatches'[mail'[k].stage]
  BY DEF Books, Dispatched
<1>6. ASSUME NEW j \in Instance, NEW s \in Told(j)'
      PROVE  run'.stage[s].inst = j
  <2>1. s \in Told(j) \/ (s \in Stage /\ run.stage[s].inst = j)
    BY <1>2, RoutedTold DEF Inductive
  <2>2. s \in Stage /\ run.stage[s].inst = j
    BY <2>1, ToldStages DEF Books, Inductive
  <2> QED
    BY <1>3, <2>2 DEF Quiet
<1>7. ResultMatchesReport'
  <2>1. \A s \in Stage : dispatches[s] <= dispatches'[s]
    BY <1>1
  <2>2. MailKept(mail, mail')
    BY DEF MailKept
  <2>3. \A s \in Stage : run'.stage[s].status \in {"succeeded", "failed"} =>
           run'.stage[s] = run.stage[s] \/ RestsOnReport(s, run'.stage[s])
    BY <1>3 DEF Quiet
  <2> QED
    BY <2>1, <2>2, <2>3, ResultsKept DEF ResultMatchesReport
<1> QED
  BY <1>4, <1>5, <1>6, <1>7 DEF Books, Dispatched

(* An answer: it makes room for one more dispatch. *)
LEMMA AnswerBooks ==
    ASSUME Inductive, Inductive', Books, NEW c \in Stage, run.stage[c].status = "needs_attention",
           run' = RecordAnswer(run, c), answers' = Counted(answers, c),
           UNCHANGED <<mail, inbox, routed, dispatches, delegates>>
    PROVE  Books'
<1>1. run \in Run /\ dispatches \in [Stage -> Nat] /\ answers \in [Stage -> Nat]
  BY DEF Inductive, TypeOK, HistoryTypeOK
<1>2. \A t \in Stage : /\ run'.stage[t].status = run.stage[t].status
                       /\ run'.stage[t].inst = run.stage[t].inst
                       /\ t # c => run'.stage[t] = run.stage[t]
  BY <1>1, AnsweredStage
<1>3. ASSUME NEW s \in Stage PROVE StageBooks(s)'
  <2>1. StageBooks(s) /\ dispatches[s] \in Nat /\ answers[s] \in Nat
    BY <1>1 DEF Books
  <2>2. CASE s = c
    <3>1. answers'[s] = answers[s] + 1
      BY <1>1, <2>2 DEF Counted
    <3> QED
      BY <1>2, <2>1, <3>1 DEF StageBooks
  <2>3. CASE s # c
    <3>1. answers'[s] = answers[s] /\ run'.stage[s] = run.stage[s]
      BY <1>1, <1>2, <2>3 DEF Counted
    <3> QED
      BY <2>1, <3>1 DEF StageBooks
  <2> QED
    BY <2>2, <2>3
<1>4. ResultMatchesReport'
  <2>1. \A s \in Stage : run'.stage[s].status \in {"succeeded", "failed"} =>
           run'.stage[s] = run.stage[s]
    BY <1>2
  <2>2. MailKept(mail, mail') /\ \A s \in Stage : dispatches[s] <= dispatches'[s]
    BY <1>1 DEF MailKept
  <2> QED
    BY <2>1, <2>2, ResultsKept DEF ResultMatchesReport
<1>5. ASSUME NEW i \in Instance, NEW s \in Told(i)'
      PROVE  run'.stage[s].inst = i
  <2>1. s \in Told(i) /\ s \in Stage
    BY ToldStages DEF Told, Inductive
  <2> QED
    BY <1>2, <2>1 DEF Books
<1>6. \A k \in DOMAIN mail' : mail'[k].attempt \in 1 .. dispatches'[mail'[k].stage]
  BY DEF Books, Dispatched
<1> QED
  BY <1>3, <1>4, <1>5, <1>6 DEF Books, Dispatched
-----------------------------------------------------------------------------
(* Every step keeps the books and the places. *)

(* Only dispatches and delegates are written into the books. *)
LEMMA NothingBooked ==
    ASSUME DriverStep, ~(\E i \in Instance : Dispatch(i)), ~Redispatch, ~DelegateOk, ~DelegateFails
    PROVE  UNCHANGED <<history, inbox, routed>>
  BY DEF DriverStep, Skip, StopAtQuestion, ClassifyResume, DispatchedUncertain, DependencyFails,
         InputsFail, ReserveFails, SpawnOk, SpawnFails, WaitClaims, WaitClaimsInvalid,
         WaitTimesOut, Persist, PersistInvalid, Ack, Find, FindFails, Settle, SettleInvalid,
         RedispatchFails, InputsOk, RedispatchInputsFail, panes

(* A judged stage rests on the report the driver holds. *)
LEMMA JudgedIsQuiet ==
    ASSUME Inductive, Places, Persist \/ Settle, held \in DOMAIN mail, Judged
    PROVE  Quiet(run, run')
<1>1. run \in Run /\ cur \in Stage /\ Here \in StageRecord /\ pc \in {"persist", "settle"}
  BY DEF Inductive, TypeOK, DriverSound, Here, Run, Persist, Settle
<1>2. mail[held].stage = cur /\ mail[held].from = Here.inst
  BY <1>1 DEF Places, Looking, Working, Holding, Authorized
<1>3. PICK st : /\ Becomes(run, run', cur, st)
                /\ st.inst = Here.inst /\ st.by = held /\ st.status = mail[held].body.status
                /\ st.answer => Here.answer
  BY <1>1, JudgedStage DEF Judged
<1>4. /\ run'.stage[cur] = st
      /\ \A s \in Stage : s # cur => run'.stage[s] = run.stage[s]
  BY <1>1, <1>3 DEF Becomes, Run
<1>5. RestsOnReport(cur, run'.stage[cur])
  BY <1>2, <1>3, <1>4 DEF RestsOnReport
<1> QED
  BY <1>3, <1>4, <1>5 DEF Quiet, Here

LEMMA DriverBooks ==
    ASSUME Inductive, Books, Places, DriverStep
    PROVE  Books'
<1>1. /\ Inductive' /\ Advance(run, run') /\ cur \in Stage
      /\ run \in Run /\ Here \in StageRecord /\ ValidStage(Here)
  <2>1. Inductive' /\ Advance(run, run') /\ pc # "idle"
    BY DriverSteps, DriverLeavesAnswer
  <2>2. cur \in Stage /\ run \in Run /\ ValidRun(run)
    BY <2>1 DEF Inductive, TypeOK, Coherent, DriverSound
  <2> QED
    BY <2>1, <2>2 DEF Here, Run, ValidRun
<1>2. MailKept(mail, mail') /\ DOMAIN mail' = DOMAIN mail
  BY DriverMoves
<1>3. ASSUME NEW i \in Instance, Dispatch(i)
      PROVE  Books'
  <2>1. Here.inst = NoInstance
    BY <1>1, <1>3 DEF Dispatch, ValidStage
  <2>2. dispatches' = Counted(dispatches, cur) /\ UNCHANGED <<mail, inbox, routed, answers, delegates>>
    BY <1>3 DEF Dispatch, panes
  <2> QED
    BY <1>1, <1>3, <2>1, <2>2, DispatchBegins, BegunBooks
<1>4. CASE Redispatch
  <2>1. PICK i \in RedispatchTargets : i \in Instance /\ Begun(i)
    BY <1>4, RedispatchBegins
  <2>2. pc = "redispatch" /\ Here.answer /\ Here.inst = inst /\ inst \in Instance
    BY <1>4 DEF Redispatch, Inductive, DriverSound, Places, Looking
  <2>3. ~CanReserve(cur)
    BY <1>1, <2>2 DEF CanReserve, ValidStage, Here
  <2>4. i = inst
    BY <2>1, <2>3 DEF RedispatchTargets
  <2>5. dispatches' = Counted(dispatches, cur) /\ UNCHANGED <<mail, inbox, routed, answers, delegates>>
    BY <1>4 DEF Redispatch, panes
  <2> QED
    BY <1>1, <2>1, <2>2, <2>4, <2>5, BegunBooks
<1>5. CASE DelegateOk \/ DelegateFails
  <2>1. Asks(run, run') /\ UNCHANGED <<mail, dispatches, answers>>
    <3>1. pc = "delegate"
      BY <1>5 DEF DelegateOk, DelegateFails
    <3> QED
      BY <1>1, <1>5, <3>1, UnmovedAsks, GiveUpAsks DEF DelegateOk, DelegateFails, durable
  <2>2. Here.inst = inst /\ inst \in Instance /\ delegates[cur] < dispatches[cur]
    BY <1>5 DEF DelegateOk, DelegateFails, Inductive, DriverSound, Places, Working, Authorized
  <2>3. CASE Routes /\ Deliver
    BY <1>1, <2>1, <2>2, <2>3, DeliverBooks
  <2>4. CASE (routed' = routed \/ Routes) /\ UNCHANGED <<inbox, delegates>>
    <3>1. \A i \in Instance : \A s \in Told(i)' :
              s \in Told(i) \/ (s \in Stage /\ run.stage[s].inst = i)
      BY <1>1, <2>2, <2>4, RoutedTold DEF Inductive
    <3> QED
      BY <1>1, <1>2, <2>1, <2>4, <3>1, AsksIsQuiet, QuietBooks DEF history
  <2> QED
    BY <1>5, <2>3, <2>4 DEF DelegateOk, DelegateFails
<1>6. CASE ~(\E i \in Instance : Dispatch(i)) /\ ~Redispatch /\ ~DelegateOk /\ ~DelegateFails
  <2>1. UNCHANGED history /\ \A i \in Instance : Told(i)' = Told(i)
    BY <1>6, NothingBooked DEF Told
  <2>2. Quiet(run, run')
    <3>1. CASE Asks(run, run')
      BY <1>1, <3>1, AsksIsQuiet
    <3>2. CASE PassedOver
      <4>1. PICK st : /\ Becomes(run, run', cur, st) /\ st.status = "dependency_failed"
                      /\ st.inst = Here.inst /\ ~st.answer
        BY <1>1, <3>2, PassedStage DEF PassedOver
      <4> QED
        BY <1>1, <4>1 DEF Becomes, Quiet, Run, Here
    <3>3. CASE (Persist \/ Settle) /\ held \in DOMAIN mail /\ Judged
      BY <3>3, JudgedIsQuiet
    <3> QED
      BY <1>6, <3>1, <3>2, <3>3, VisitEffects, WorkEffects DEF DriverStep
  <2> QED
    BY <1>1, <1>2, <2>1, <2>2, QuietBooks
<1> QED
  BY <1>3, <1>4, <1>5, <1>6

(* The places after each step of the driver. *)

(* Only the current stage of a valid run is at work. *)
LEMMA OnlyCurrentWorks ==
    ASSUME NEW r \in Run, ValidRun(r), NEW s \in Stage, r.stage[s].status = "dispatched"
    PROVE  r.active /\ r.current = s
<1>1. CASE r.status \in ActiveStatus
  <2>1. ActiveCoherent(r) /\ r.active
    BY <1>1 DEF ValidRun
  <2>2. r.current = s \/ s \in Before(r.current) \/ s \in After(r.current)
    BY <2>1, DefinitionAssumption DEF ActiveCoherent, Before, After, Stage
  <2> QED
    BY <2>1, <2>2 DEF ActiveCoherent, InStatus, Decided
<1>2. CASE r.status \notin ActiveStatus
  <2>1. FinishedCoherent(r)
    BY <1>2 DEF ValidRun
  <2>2. \A f \in Stage : s = f \/ s \in Before(f) \/ s \in After(f)
    BY DefinitionAssumption DEF Before, After, Stage
  <2> QED
    BY <2>1, <2>2 DEF FinishedCoherent, InStatus, Decided
<1> QED
  BY <1>1, <1>2

(* A driver that has ended or is looking at a stage anew holds nothing.    *)
LEMMA NoPlace ==
    ASSUME pc' \in {"idle", "visit"}
    PROVE  Places'
  BY DEF Places, Looking, Working, Holding

(* A stage that has just been begun may be worked on. *)
LEMMA BegunAuthorized ==
    ASSUME Inductive, Inductive', cur \in Stage, NEW i \in Instance, Begun(i),
           cur' = cur, inst' = i
    PROVE  Authorized'
<1>1. run \in Run /\ run' \in Run /\ ValidRun(run') /\ Here \in StageRecord
  BY DEF Inductive, TypeOK, Coherent, Here, Run
<1>2. run'.stage[cur].status = "dispatched" /\ run'.stage[cur].inst = i
  BY <1>1, BegunStage DEF Begun, Becomes, Run
<1> QED
  BY <1>1, <1>2, OnlyCurrentWorks DEF Authorized, Here

LEMMA DriverPlaces ==
    ASSUME Inductive, Books, Places, DriverStep
    PROVE  Places'
<1>1. /\ Inductive' /\ cur \in Stage /\ run \in Run /\ run' \in Run /\ Here \in StageRecord
      /\ dispatches \in [Stage -> Nat] /\ delegates \in [Stage -> Nat]
      /\ delegates[cur] <= dispatches[cur]
  <2>1. Inductive' /\ pc # "idle"
    BY DriverSteps, DriverLeavesAnswer
  <2>2. cur \in Stage /\ run \in Run
    BY <2>1 DEF Inductive, TypeOK, DriverSound
  <2> QED
    BY <2>1, <2>2 DEF Inductive, TypeOK, HistoryTypeOK, Here, Run, Books, StageBooks
<1>2. CASE ClassifyResume
  BY <1>2 DEF ClassifyResume, Places, Looking, Working, Holding, Here, durable
<1>3. ASSUME NEW i \in Instance, Dispatch(i)
      PROVE  Places'
  <2>1. Authorized'
    BY <1>1, <1>3, DispatchBegins, BegunAuthorized DEF Dispatch
  <2>2. /\ pc' = "spawn" /\ cur' = cur /\ delegates' = delegates
        /\ dispatches' = Counted(dispatches, cur)
    BY <1>3 DEF Dispatch
  <2> QED
    BY <1>1, <2>1, <2>2 DEF Places, Looking, Working, Holding, Counted
<1>4. CASE SpawnOk
  <2>1. /\ pc = "spawn" /\ pc' \in {"delegate", "inputs"}
        /\ UNCHANGED <<run, cur, inst, history>>
    BY <1>4 DEF SpawnOk, Goto, durable
  <2> QED
    BY <2>1 DEF Places, Looking, Working, Holding, Authorized, Here, history
<1>5. CASE DelegateOk
  <2>1. pc = "delegate" /\ pc' = "wait" /\ UNCHANGED <<run, cur, inst>>
    BY <1>5 DEF DelegateOk, Goto, durable
  <2> QED
    BY <2>1 DEF Places, Looking, Working, Holding, Authorized, Here
<1>6. CASE WaitClaims
  <2>1. /\ pc = "wait" /\ pc' = "persist" /\ UNCHANGED <<run, cur, inst>>
        /\ held' \in Matching("pending")
    BY <1>1, <1>6, MatchingIn, MinOfNaturals DEF WaitClaims, Goto, Inductive, TypeOK
  <2>2. held' \in DOMAIN mail /\ mail[held'].stage = cur /\ mail[held'].from = inst
    BY <2>1 DEF Matching
  <2>3. mail'[held'].stage = cur /\ mail'[held'].from = inst
    BY <2>2, DriverMoves DEF MailKept
  <2> QED
    BY <2>1, <2>3 DEF Places, Looking, Working, Holding, Authorized, Here
<1>7. CASE /\ Persist \/ Settle
           /\ pc' = "ack" /\ UNCHANGED <<cur, inst, held>> /\ Judged
  <2>1. pc \in {"persist", "settle"} /\ held \in DOMAIN mail /\ mail' = mail
    BY <1>7, ResultJudges DEF Persist, Settle
  <2>2. mail[held].stage = cur /\ mail[held].from = inst
    BY <2>1 DEF Places, Holding
  <2>3. PICK st : /\ Becomes(run, run', cur, st)
                  /\ st.by = held /\ st.status = mail[held].body.status
    BY <1>1, <1>7, <2>1, JudgedStage DEF Judged
  <2>4. Here'.by = held /\ Here'.status = mail[held].body.status
    BY <1>1, <1>7, <2>3 DEF Becomes, Here, Run
  <2> QED
    BY <1>7, <2>1, <2>2, <2>4 DEF Places, Looking, Working, Holding
<1>8. CASE Find
  <2>1. CASE GiveUp(seen)
    BY <2>1, NoPlace DEF GiveUp, Exit
  <2>2. CASE /\ Goto("settle") /\ UNCHANGED <<run, inst>>
             /\ held' \in Matching("processing") \cup Matching("pending")
    <3>1. held' \in DOMAIN mail /\ mail[held'].stage = cur /\ mail[held'].from = inst
      BY <2>2 DEF Matching
    <3>2. mail'[held'].stage = cur /\ mail'[held'].from = inst
      BY <3>1, DriverMoves DEF MailKept
    <3>3. pc = "find" /\ pc' = "settle" /\ UNCHANGED <<cur, seen>>
      BY <1>8, <2>2 DEF Find, Goto
    <3> QED
      BY <2>2, <3>2, <3>3 DEF Places, Looking, Working, Holding, Here
  <2> QED
    BY <1>8, <2>1, <2>2, FindKeeps
<1>9. CASE Redispatch
  <2>1. PICK i \in RedispatchTargets : i \in Instance /\ inst' = i /\ Begun(i)
    BY <1>9, RedispatchBegins
  <2>2. /\ pc' \in {"inputs", "spawn"} /\ cur' = cur /\ delegates' = delegates
        /\ dispatches' = Counted(dispatches, cur)
    BY <1>9 DEF Redispatch, Goto
  <2>3. Authorized'
    BY <1>1, <2>1, <2>2, BegunAuthorized
  <2> QED
    BY <1>1, <2>2, <2>3 DEF Places, Looking, Working, Holding, Counted
<1>10. CASE InputsOk
  <2>1. pc = "inputs" /\ pc' = "delegate" /\ UNCHANGED <<run, cur, inst, history>>
    BY <1>10 DEF InputsOk, Goto, durable
  <2> QED
    BY <2>1 DEF Places, Looking, Working, Holding, Authorized, Here, history
<1>11. CASE Skip \/ StopAtQuestion \/ DispatchedUncertain \/ DependencyFails \/ InputsFail
            \/ ReserveFails \/ SpawnFails \/ DelegateFails \/ WaitClaimsInvalid \/ WaitTimesOut
            \/ PersistInvalid \/ Ack \/ FindFails \/ SettleInvalid \/ RedispatchFails
            \/ RedispatchInputsFail
  BY <1>11, NoPlace
     DEF Skip, StopAtQuestion, DispatchedUncertain, DependencyFails, InputsFail, ReserveFails,
         SpawnFails, DelegateFails, WaitClaimsInvalid, WaitTimesOut, PersistInvalid, Ack, FindFails,
         SettleInvalid, RedispatchFails, RedispatchInputsFail, GiveUp, Exit, Onward
<1>12. CASE Persist \/ Settle
  <2>1. CASE \E status : GiveUp(status)
    BY <2>1, NoPlace DEF GiveUp, Exit
  <2> QED
    BY <1>7, <1>12, <2>1, ResultJudges
<1> QED
  BY <1>2, <1>3, <1>4, <1>5, <1>6, <1>8, <1>9, <1>10, <1>11, <1>12 DEF DriverStep

(* A report that is sent answers a dispatch to its sender.                 *)
LEMMA ReportKeeps ==
    ASSUME Inductive, Books, NEW i \in Instance, NEW b \in Body, SpecialistReports(i, b)
    PROVE  /\ MailKept(mail, mail')
           /\ \A k \in DOMAIN mail' : \/ k \in DOMAIN mail
                                      \/ mail'[k].attempt \in Dispatched(mail'[k].stage)
<1>0. PICK s \in Told(i) :
        mail' = Append(mail, [stage |-> s, from |-> i, attempt |-> dispatches[s],
                              body |-> b, auth |-> TRUE, place |-> "pending"])
  BY DEF SpecialistReports
<1> DEFINE r == [stage |-> s, from |-> i, attempt |-> dispatches[s],
                 body |-> b, auth |-> TRUE, place |-> "pending"]
<1>1. mail \in Seq(Report) /\ mail' = Append(mail, r)
  BY <1>0 DEF Inductive, TypeOK
<1>2. r.attempt \in Dispatched(r.stage)
  <2>1. s \in Stage /\ run.stage[s].inst = i
    BY ToldStages DEF Books, Inductive
  <2>2. dispatches[s] # 0 /\ dispatches[s] \in Nat
    BY <2>1, DefinitionAssumption DEF Books, StageBooks, Inductive, TypeOK, HistoryTypeOK
  <2> QED
    BY <2>2 DEF Dispatched
<1> HIDE DEF r
<1>3. /\ DOMAIN mail' = 1 .. Len(mail) + 1 /\ DOMAIN mail = 1 .. Len(mail) /\ Len(mail) \in Nat
      /\ mail'[Len(mail) + 1] = r
      /\ \A k \in DOMAIN mail : mail'[k] = mail[k]
  BY <1>1
<1>4. \A k \in DOMAIN mail' : k \in DOMAIN mail \/ k = Len(mail) + 1
  BY <1>3
<1> QED
  BY <1>2, <1>3, <1>4 DEF MailKept

(* The driver's place survives whatever is done to the mail and the panes. *)
LEMMA PlacesUnmoved ==
    ASSUME Inductive, Places, MailKept(mail, mail'), UNCHANGED <<run, driver, history>>
    PROVE  Places'
<1>1. pc \in Holding => held \in DOMAIN mail
  BY DEF Inductive, DriverSound, Holding
<1>2. /\ pc' = pc /\ cur' = cur /\ seen' = seen /\ inst' = inst /\ held' = held
      /\ delegates' = delegates /\ dispatches' = dispatches
  BY DEF driver, history
<1>3. pc \in Holding => /\ mail'[held].stage = mail[held].stage
                        /\ mail'[held].from = mail[held].from
                        /\ mail'[held].body = mail[held].body
  BY <1>1 DEF MailKept
<1>4. "ack" \in Holding
  BY DEF Holding
<1> QED
  BY <1>2, <1>3, <1>4 DEF Places, Authorized, Here

LEMMA OthersHistory ==
    ASSUME Inductive, Books, Places,
           \/ \E how \in {"normal", "resume"} : Start(how) \/ StartDrifted(how)
           \/ Crash
           \/ \E i \in Instance : PaneDies(i)
           \/ \E i \in Instance, b \in Body : SpecialistReports(i, b)
    PROVE  Books' /\ Places'
<1>1. /\ Inductive' /\ UNCHANGED history /\ Quiet(run, run')
      /\ mail \in Seq(Report)
  BY OtherSteps, OthersAsk, AsksIsQuiet DEF Inductive, TypeOK
<1>2. CASE \/ \E how \in {"normal", "resume"} : Start(how) \/ StartDrifted(how)
           \/ Crash
  <2>1. /\ mail' = mail /\ pc' \in {"idle", "visit"}
        /\ \A j \in Instance : Told(j)' = Told(j)
    BY <1>2 DEF Start, StartDrifted, MayStart, Crash, Exit, durable, panes, Told
  <2>2. MailKept(mail, mail') /\ DOMAIN mail' = DOMAIN mail
    BY <2>1 DEF MailKept
  <2> QED
    BY <1>1, <2>1, <2>2, NoPlace, QuietBooks
<1>3. ASSUME NEW i \in Instance, PaneDies(i)
      PROVE  Books' /\ Places'
  <2>1. \A k \in DOMAIN mail : mail[k] \in Report
    BY <1>1
  <2>2. MailKept(mail, mail') /\ DOMAIN mail' = DOMAIN mail
    BY <1>3, <2>1 DEF PaneDies, Report, MailKept
  <2>3. \A j \in Instance : Told(j)' = Told(j)
    BY <1>3 DEF PaneDies, Told
  <2>4. UNCHANGED <<run, driver, history>>
    BY <1>3 DEF PaneDies
  <2> QED
    BY <1>1, <2>2, <2>3, <2>4, PlacesUnmoved, QuietBooks
<1>4. ASSUME NEW i \in Instance, NEW b \in Body, SpecialistReports(i, b)
      PROVE  Books' /\ Places'
  <2>1. UNCHANGED <<run, driver, history>> /\ \A j \in Instance : Told(j)' = Told(j)
    BY <1>4 DEF SpecialistReports, panes, Told
  <2> QED
    BY <1>1, <1>4, <2>1, ReportKeeps, PlacesUnmoved, QuietBooks
<1> QED
  BY <1>2, <1>3, <1>4

(* An answer that overlaps with no driver is saved over the run it was     *)
(* loaded from.                                                            *)
LEMMA SavedOverItself ==
    ASSUME Inductive, ~AnswerWhileDriving, OperatorSaves
    PROVE  /\ pc = "idle" /\ run.current \in Stage
           /\ run.stage[run.current].status = "needs_attention"
           /\ run' = RecordAnswer(run, run.current)
           /\ answers' = Counted(answers, run.current)
<1>1. PICK r \in snap : /\ run' = RecordAnswer(r, r.current)
                        /\ answers' = Counted(answers, r.current)
  BY DEF OperatorSaves
<1>2. r = run /\ pc = "idle"
  BY <1>1 DEF Inductive, AnswerSound
<1> QED
  BY <1>1, <1>2 DEF Inductive, AnswerSound, CanAnswer

LEMMA HistoryStep ==
    ASSUME ~AnswerWhileDriving
    PROVE  Inductive /\ Books /\ Places /\ [Next]_vars => Books' /\ Places'
<1> SUFFICES ASSUME Inductive, Books, Places, [Next]_vars PROVE Books' /\ Places'
  OBVIOUS
<1>1. CASE DriverStep
  BY <1>1, DriverBooks, DriverPlaces
<1>2. CASE \/ \E how \in {"normal", "resume"} : Start(how) \/ StartDrifted(how)
           \/ Crash
           \/ \E i \in Instance : PaneDies(i)
           \/ \E i \in Instance, b \in Body : SpecialistReports(i, b)
  BY <1>2, OthersHistory
<1>3. CASE OperatorLoads \/ UNCHANGED vars
  <2>1. UNCHANGED <<run, mail, driver, history>> /\ \A j \in Instance : Told(j)' = Told(j)
    BY <1>3 DEF OperatorLoads, vars, durable, panes, Told
  <2>2. MailKept(mail, mail') /\ DOMAIN mail' = DOMAIN mail
    BY <2>1 DEF MailKept
  <2>3. Quiet(run, run') /\ Inductive'
    BY <2>1, StepInductive DEF Quiet
  <2> QED
    BY <2>1, <2>2, <2>3, PlacesUnmoved, QuietBooks
<1>4. CASE OperatorSaves
  <2>1. Inductive' /\ UNCHANGED <<mail, driver, inbox, routed, dispatches, delegates>>
    BY <1>4, StepInductive DEF OperatorSaves, panes
  <2>2. Books'
    BY <1>4, <2>1, SavedOverItself, AnswerBooks
  <2>3. Places'
    BY <1>4, <2>1, SavedOverItself, NoPlace DEF driver
  <2> QED
    BY <2>2, <2>3
<1> QED
  BY <1>1, <1>2, <1>3, <1>4 DEF Next

LEMMA InitHistory == Init => Books /\ Places
<1> SUFFICES ASSUME Init PROVE Books /\ Places
  OBVIOUS
<1>1. \A s \in Stage : run.stage[s] = NewStage
  BY DEF Init, CreateRun
<1>2. \A s \in Stage : StageBooks(s)
  BY <1>1 DEF Init, StageBooks, NewStage
<1>3. Books
  BY <1>1, <1>2 DEF Init, Books, ResultMatchesReport, NewStage, Told
<1> QED
  BY <1>3 DEF Init, Places, Looking, Working, Holding

(* While answers and drivers do not overlap, the books and the places hold *)
(* in every behaviour, whatever fails.                                     *)
THEOREM HistoryInvariant == ~AnswerWhileDriving => (Spec => [](Books /\ Places))
<1> SUFFICES ASSUME ~AnswerWhileDriving PROVE Spec => [](Books /\ Places)
  OBVIOUS
<1>1. Inductive /\ (Books /\ Places) /\ [Next]_vars => (Books /\ Places)'
  BY HistoryStep
<1> QED
  BY <1>1, InitHistory, InductiveInvariant, PTL DEF Spec
-----------------------------------------------------------------------------
(* What the books say. *)

(* As long as no operator's answer overlaps with a driver, and over any    *)
(* number of crashes, timeouts and resumes: a stage is dispatched once and *)
(* once more per answer, and each dispatch is delegated at most once.  (In *)
(* the run overwrite a save takes a dispatch back; the premise is needed.) *)
THEOREM NeverRetriedByItself == ~AnswerWhileDriving => (Spec => []NoAutomaticRetry)
<1> SUFFICES ASSUME ~AnswerWhileDriving PROVE Spec => []NoAutomaticRetry
  OBVIOUS
<1>1. Books => NoAutomaticRetry
  BY DEF Books, StageBooks, NoAutomaticRetry
<1> QED
  BY <1>1, HistoryInvariant, PTL

(* A specialist that was told of a stage is the instance pipelines.json    *)
(* names for it, at every point at which the driver may be killed, so the  *)
(* work is findable and nobody else was told of that stage.                *)
THEOREM DispatchAlwaysRecorded == ~AnswerWhileDriving => (Spec => []DispatchRecordedFirst)
<1> SUFFICES ASSUME ~AnswerWhileDriving PROVE Spec => []DispatchRecordedFirst
  OBVIOUS
<1>1. Inductive /\ Books => DispatchRecordedFirst
  <2> SUFFICES ASSUME Inductive, Books, NEW i \in Instance, NEW s \in Told(i)
               PROVE  /\ run.stage[s].status \notin {"pending", "dependency_failed"}
                      /\ run.stage[s].inst = i
    BY DEF DispatchRecordedFirst
  <2>1. s \in Stage /\ run.stage[s].inst = i
    BY ToldStages DEF Inductive, Books
  <2>2. ValidStage(run.stage[s])
    BY <2>1 DEF Inductive, Coherent, ValidRun
  <2> QED
    BY <2>1, <2>2, DefinitionAssumption DEF ValidStage
<1> QED
  BY <1>1, InductiveInvariant, HistoryInvariant, PTL

(* The result of a stage is what a report of that stage by the instance it *)
(* is assigned to said, and the report answers a dispatch of the stage.    *)
THEOREM ResultsRestOnReports == ~AnswerWhileDriving => (Spec => []ResultMatchesReport)
<1> SUFFICES ASSUME ~AnswerWhileDriving PROVE Spec => []ResultMatchesReport
  OBVIOUS
<1>1. Books => ResultMatchesReport
  BY DEF Books
<1> QED
  BY <1>1, HistoryInvariant, PTL

(* Only the acknowledgement puts a report among those that are done. *)
LEMMA OnlyAckFinishes ==
    ASSUME Inductive, Next, ~Ack, NEW k \in DOMAIN mail, mail'[k].place = "done"
    PROVE  mail[k].place = "done"
<1>1. mail \in Seq(Report) /\ mail[k] \in Report
  BY DEF Inductive, TypeOK
<1>2. mail'[k] # mail[k] => mail'[k].place # "done" \/ mail'[k].place = mail[k].place
  <2>1. CASE WaitClaims \/ WaitClaimsInvalid
    <3>1. PICK S : mail' = MoveTo(S, "processing")
      BY <2>1 DEF WaitClaims, WaitClaimsInvalid
    <3> QED
      BY <1>1, <3>1 DEF MoveTo, Report
  <2>2. CASE Find
    BY <2>2, FindKeeps
  <2>3. ASSUME NEW i \in Instance, PaneDies(i)
        PROVE  mail'[k].place = mail[k].place
    BY <1>1, <2>3 DEF PaneDies, Report
  <2>4. ASSUME NEW i \in Instance, NEW b \in Body, SpecialistReports(i, b)
        PROVE  mail'[k] = mail[k]
    BY <1>1, <2>4 DEF SpecialistReports
  <2>5. CASE DriverStep /\ ~WaitClaims /\ ~WaitClaimsInvalid /\ ~Find
    BY <2>5 DEF DriverStep, Skip, StopAtQuestion, ClassifyResume, DispatchedUncertain,
         DependencyFails, InputsFail, ReserveFails, Dispatch, SpawnOk, SpawnFails, DelegateOk,
         DelegateFails, WaitTimesOut, Persist, PersistInvalid, FindFails, Settle, SettleInvalid,
         Redispatch, RedispatchFails, InputsOk, RedispatchInputsFail, durable
  <2>6. CASE \/ \E how \in {"normal", "resume"} : Start(how) \/ StartDrifted(how)
             \/ Crash \/ OperatorLoads \/ OperatorSaves
    BY <2>6 DEF Start, StartDrifted, Crash, OperatorLoads, OperatorSaves, durable
  <2> QED
    BY <2>1, <2>2, <2>3, <2>4, <2>5, <2>6 DEF Next
<1> QED
  BY <1>2

(* A report is moved out of processing only when the run that is saved     *)
(* names it for its stage: a crash between the save and the receipt loses  *)
(* nothing, and a receipt that is given stands for a saved result.         *)
THEOREM AckedWhenPersisted == ~AnswerWhileDriving => (Spec => AckOnlyPersisted)
<1> SUFFICES ASSUME ~AnswerWhileDriving PROVE Spec => AckOnlyPersisted
  OBVIOUS
<1> DEFINE Saved == \A k \in DOMAIN mail :
                      mail[k].place # "done" /\ mail'[k].place = "done"
                         => run.stage[mail[k].stage].by = k
<1>1. ASSUME Inductive, Places, [Next]_vars PROVE [Saved]_vars
  <2>1. CASE UNCHANGED vars
    BY <2>1
  <2>2. CASE Ack
    <3>1. mail[held].stage = cur /\ Here.by = held
      BY <1>1, <2>2 DEF Ack, Places, Holding
    <3>2. \A k \in DOMAIN mail : k # held => mail'[k] = mail[k]
      BY <2>2 DEF Ack, MoveTo
    <3> QED
      BY <3>1, <3>2 DEF Here
  <2>3. CASE Next /\ ~Ack
    BY <1>1, <2>3, OnlyAckFinishes
  <2> QED
    BY <1>1, <2>1, <2>2, <2>3
<1> HIDE DEF Saved
<1>2. Spec => [][Saved]_vars
  BY <1>1, InductiveInvariant, HistoryInvariant, PTL DEF Spec
<1> QED
  BY <1>2, PTL DEF AckOnlyPersisted, Saved

-----------------------------------------------------------------------------
(* What a driver that returns leaves behind. *)

(* A run in which a stage asks, in which a failure stops it or whose last  *)
(* stage is decided is not running.                                        *)
LEMMA SettledRun ==
    ASSUME NEW r \in Run, ValidRun(r), NEW s \in Stage,
           \/ r.stage[s].status = "needs_attention"
           \/ r.stage[s].status = "failed" /\ r.onFailure = "stop"
           \/ s = N /\ r.stage[s].status \in Decided
    PROVE  r.status # "running"
<1> SUFFICES ASSUME r.status = "running" PROVE FALSE
  OBVIOUS
<1>1. ActiveCoherent(r)
  BY DEF ValidRun, ActiveStatus
<1>2. s = r.current \/ s \in Before(r.current) \/ s \in After(r.current)
  BY <1>1, DefinitionAssumption DEF ActiveCoherent, Before, After, Stage
<1>3. s = N => s \notin Before(r.current)
  BY <1>1, DefinitionAssumption DEF ActiveCoherent, Before, Stage
<1> QED
  BY <1>1, <1>2, <1>3 DEF ActiveCoherent, InStatus, Decided

(* _attention, given the status the stage has: the run asks, if the driver *)
(* does not die of it.                                                     *)
LEMMA AttentionSettles ==
    ASSUME NEW r \in Run, ValidRun(r), NEW s \in Stage, NEW r2 \in Run, ValidRun(r2),
           r2 = Attention(r, s, r.stage[s].status),
           r.stage[s].status = "needs_attention" \/ CanTransition(r, s, "needs_attention")
    PROVE  r2.status # "running"
<1>1. CASE r.stage[s].status = "needs_attention"
  BY <1>1, SettledRun DEF Attention
<1>2. CASE r.stage[s].status # "needs_attention" /\ CanTransition(r, s, "needs_attention")
  <2> DEFINE st == NextStage(r.stage[s], "needs_attention", Asking)
  <2>1. Asking \in ChangeRecord
    BY DEF Asking, Change, ChangeRecord
  <2>2. Becomes(r, r2, s, st)
    BY <1>2, <2>1, TransitionBecomes DEF Attention, StageStatus
  <2>3. st.status = "needs_attention"
    BY DEF NextStage
  <2> HIDE DEF st
  <2>4. r2.stage[s].status = "needs_attention"
    BY <2>2, <2>3 DEF Becomes, Run
  <2> QED
    BY <2>4, SettledRun
<1> QED
  BY <1>1, <1>2

(* Where the driver gives up with the status that the stage has. *)
Surrenders == GiveUp(Here.status)

(* The ways the driver may end by itself.  At each but the last it knows   *)
(* the status of the stage.                                                *)
LEMMA DriverEnding ==
    ASSUME Inductive, Places, DriverStep, outcome' # outcome
    PROVE  /\ pc' = "idle"
           /\ \/ Skip \/ StopAtQuestion \/ DependencyFails \/ Ack
              \/ Surrenders \/ RedispatchInputsFail
<1>1. CASE Skip \/ StopAtQuestion \/ DependencyFails \/ Ack \/ RedispatchInputsFail
  BY <1>1 DEF Skip, StopAtQuestion, DependencyFails, Ack, RedispatchInputsFail, Onward, GiveUp, Exit
<1>2. CASE \/ DispatchedUncertain \/ InputsFail \/ ReserveFails \/ SpawnFails \/ DelegateFails
           \/ WaitClaimsInvalid \/ WaitTimesOut \/ PersistInvalid
  BY <1>2 DEF DispatchedUncertain, InputsFail, ReserveFails, SpawnFails, DelegateFails,
              WaitClaimsInvalid, WaitTimesOut, PersistInvalid, Surrenders, GiveUp, Exit
<1>3. CASE FindFails \/ SettleInvalid \/ RedispatchFails
  BY <1>3 DEF FindFails, SettleInvalid, RedispatchFails, Places, Looking, Surrenders, GiveUp, Exit
<1>4. CASE Find
  BY <1>4, FindKeeps DEF Find, Places, Looking, Goto, Surrenders, GiveUp, Exit
<1>5. CASE Settle
  BY <1>5 DEF Settle, Places, Looking, Goto, Surrenders, GiveUp, Exit
<1>6. CASE Persist
  BY <1>6 DEF Persist, Goto, Surrenders, GiveUp, Exit
<1>7. CASE \/ ClassifyResume \/ SpawnOk \/ DelegateOk \/ WaitClaims \/ Redispatch \/ InputsOk
           \/ \E i \in Instance : Dispatch(i)
  BY <1>7 DEF ClassifyResume, SpawnOk, DelegateOk, WaitClaims, Redispatch, InputsOk, Dispatch, Goto
<1> QED
  BY <1>1, <1>2, <1>3, <1>4, <1>5, <1>6, <1>7 DEF DriverStep

Returned ==
    /\ ReturnedIsSettled
    /\ pc # "idle" => outcome # "returned"

LEMMA DriverReturns ==
    ASSUME Inductive, Inductive', Places, Returned, DriverStep, "inputs" \notin Faults
    PROVE  Returned'
<1>1. /\ cur \in Stage /\ run \in Run /\ ValidRun(run) /\ run' \in Run /\ ValidRun(run')
      /\ Here \in StageRecord /\ outcome # "returned"
  BY DriverLeavesAnswer DEF Inductive, TypeOK, Coherent, DriverSound, Here, Run, Returned
<1> SUFFICES ASSUME outcome' = "returned" PROVE pc' = "idle" /\ run'.status # "running"
  BY DEF Returned, ReturnedIsSettled
<1>2. /\ pc' = "idle"
      /\ \/ Skip \/ StopAtQuestion \/ DependencyFails \/ Ack
         \/ Surrenders \/ RedispatchInputsFail
  BY <1>1, DriverEnding
<1>3. CASE Skip
  <2>1. run' = run /\ Here.status \in Decided /\ Onward(Here.status)
    BY <1>3 DEF Skip, durable
  <2>2. (Here.status = "failed" /\ run.onFailure = "stop") \/ cur = N
    BY <1>1, <2>1 DEF Onward, Decided
  <2> QED
    BY <1>1, <1>2, <2>1, <2>2, SettledRun DEF Here
<1>4. CASE StopAtQuestion
  BY <1>1, <1>2, <1>4, SettledRun DEF StopAtQuestion, Here, durable
<1>5. CASE DependencyFails
  <2>1. CanTransition(run, cur, "dependency_failed")
    BY <1>5 DEF DependencyFails, Exit
  <2>2. /\ run' = Transition(run, cur, "dependency_failed", Failing)
        /\ Onward("dependency_failed")
    BY <1>5, <2>1 DEF DependencyFails
  <2>3. cur = N
    BY <1>1, <2>2 DEF Onward
  <2> DEFINE st == NextStage(Here, "dependency_failed", Failing)
  <2>4. Failing \in ChangeRecord /\ "dependency_failed" \in StageStatus
    BY DEF Failing, Change, ChangeRecord, StageStatus
  <2>5. Becomes(run, run', cur, st)
    BY <1>1, <2>1, <2>2, <2>4, TransitionBecomes DEF Here
  <2>6. st.status = "dependency_failed"
    BY <1>1, PassedStage
  <2> HIDE DEF st
  <2>7. run'.stage[cur].status = "dependency_failed"
    BY <1>1, <2>5, <2>6 DEF Becomes, Run
  <2> QED
    BY <1>1, <1>2, <2>3, <2>7, SettledRun DEF Decided
<1>6. CASE Ack
  <2>1. run' = run /\ Onward(Here.status)
    BY <1>6 DEF Ack, Places
  <2>2. Here.status \in {"succeeded", "failed", "needs_attention"}
    <3>1. held \in DOMAIN mail /\ Here.status = mail[held].body.status
      BY <1>6 DEF Ack, Places, Inductive, DriverSound
    <3> QED
      BY <1>1, <3>1, JudgedStage
  <2>3. \/ Here.status = "needs_attention" \/ cur = N
        \/ Here.status = "failed" /\ run.onFailure = "stop"
    BY <1>1, <2>1 DEF Onward
  <2> QED
    BY <1>1, <1>2, <2>1, <2>2, <2>3, SettledRun DEF Here, Decided
<1>7. CASE Surrenders
  <2>1. /\ run' = Attention(run, cur, run.stage[cur].status)
        /\ run.stage[cur].status = "needs_attention" \/ CanTransition(run, cur, "needs_attention")
    BY <1>7 DEF Surrenders, GiveUp, Exit, Here
  <2> QED
    BY <1>1, <1>2, <2>1, AttentionSettles
<1>8. CASE RedispatchInputsFail
  BY <1>8 DEF RedispatchInputsFail, InputsMissing
<1> QED
  BY <1>2, <1>3, <1>4, <1>5, <1>6, <1>7, <1>8

LEMMA ReturnedStep ==
    ASSUME ~AnswerWhileDriving, "inputs" \notin Faults
    PROVE  Inductive /\ Places /\ Returned /\ [Next]_vars => Returned'
<1> SUFFICES ASSUME Inductive, Places, Returned, [Next]_vars PROVE Returned'
  OBVIOUS
<1>1. /\ Inductive' /\ run \in Run /\ ValidRun(run) /\ run' \in Run /\ ValidRun(run')
  BY StepInductive DEF Inductive, TypeOK, Coherent
<1>2. CASE DriverStep
  BY <1>1, <1>2, DriverReturns
<1>3. ASSUME NEW how \in {"normal", "resume"}, StartDrifted(how)
      PROVE  Returned'
  <2>1. /\ run' = Attention(run, run.current, run.stage[run.current].status)
        /\ run.status = IF how = "resume" THEN "needs_attention" ELSE "running"
        /\ pc' = "idle"
    BY <1>3 DEF StartDrifted, MayStart
  <2>2. ActiveCoherent(run) /\ run.active
    BY <1>1, <2>1 DEF ValidRun, ActiveStatus
  <2>3. \/ run.stage[run.current].status = "needs_attention"
        \/ CanTransition(run, run.current, "needs_attention")
    BY <2>1, <2>2 DEF ActiveCoherent, CanTransition, Allowed
  <2> QED
    BY <1>1, <2>1, <2>2, <2>3, AttentionSettles DEF ActiveCoherent, Returned, ReturnedIsSettled
<1>4. CASE Crash \/ \E how \in {"normal", "resume"} : Start(how)
  BY <1>4 DEF Start, Crash, Exit, Returned, ReturnedIsSettled
<1>5. CASE \/ \E i \in Instance : PaneDies(i)
           \/ \E i \in Instance, b \in Body : SpecialistReports(i, b)
           \/ OperatorLoads \/ UNCHANGED vars
  BY <1>5 DEF PaneDies, SpecialistReports, OperatorLoads, vars, durable, driver, Returned,
              ReturnedIsSettled
<1>6. CASE OperatorSaves
  <2>1. run'.status = run.status
    BY <1>1, <1>6, SavedOverItself, AnsweredStage
  <2> QED
    BY <1>6, <2>1 DEF OperatorSaves, driver, Returned, ReturnedIsSettled
<1> QED
  BY <1>2, <1>3, <1>4, <1>5, <1>6 DEF Next

(* A driver that returns leaves a run that is over or that asks, whatever  *)
(* fails but the reading of an input: of a re-dispatch that fails so the   *)
(* driver takes the stage to ask still, and leaves the run running.        *)
THEOREM ReturnsOnlySettled ==
    ~AnswerWhileDriving /\ "inputs" \notin Faults => (Spec => []ReturnedIsSettled)
<1> SUFFICES ASSUME ~AnswerWhileDriving, "inputs" \notin Faults
             PROVE  Spec => []ReturnedIsSettled
  OBVIOUS
<1>1. Init => Returned
  BY DEF Init, Returned, ReturnedIsSettled
<1>2. Returned => ReturnedIsSettled
  BY DEF Returned
<1>3. Inductive /\ Places /\ Returned /\ [Next]_vars => Returned'
  BY ReturnedStep
<1> QED
  BY <1>1, <1>2, <1>3, InductiveInvariant, HistoryInvariant, PTL DEF Spec

-----------------------------------------------------------------------------
(* The contract.  Each effect on the run is a judgement of PipelineContract*)
(* or a stutter of it.                                                     *)

Verdicts(r) == [s \in Stage |-> Verdict(r.stage[s])]

LEMMA SameVerdicts ==
    ASSUME NEW r, NEW r2, r2.onFailure = r.onFailure,
           \A s \in Stage : Verdict(r2.stage[s]) = Verdict(r.stage[s])
    PROVE  r2.onFailure = r.onFailure /\ Verdicts(r2) = Verdicts(r)
  BY DEF Verdicts

LEMMA AsksSameVerdicts ==
    ASSUME NEW r, NEW r2, Asks(r, r2)
    PROVE  r2.onFailure = r.onFailure /\ Verdicts(r2) = Verdicts(r)
<1>1. \A s \in Stage : Verdict(r2.stage[s]) = Verdict(r.stage[s])
  BY DEF Asks, Verdict, Decided
<1> QED
  BY <1>1, SameVerdicts DEF Asks

LEMMA OpenSameVerdicts ==
    ASSUME NEW r \in Run, NEW r2 \in Run, NEW s \in Stage, NEW st,
           Becomes(r, r2, s, st), st.status \notin Decided
    PROVE  r2.onFailure = r.onFailure /\ Verdicts(r2) = Verdicts(r)
<1>1. \A t \in Stage : Verdict(r2.stage[t]) = Verdict(r.stage[t])
  BY DEF Becomes, Run, Verdict
<1> QED
  BY <1>1, SameVerdicts DEF Becomes

(* A stage that becomes decided is judged: those before it are decided, as *)
(* the run is valid, and what it was decided to be agrees with its inputs. *)
LEMMA DecidedJudges ==
    ASSUME NEW r \in Run, ValidRun(r), NEW r2 \in Run, NEW s \in Stage, NEW st,
           Becomes(r, r2, s, st),
           \/ /\ st.status \in {"succeeded", "failed"}
              /\ Inputs[s] \subseteq InStatus(r, {"succeeded"})
           \/ /\ st.status = "dependency_failed"
              /\ Inputs[s] \cap InStatus(r, {"failed", "dependency_failed"}) # {}
    PROVE  /\ r2.onFailure = r.onFailure
           /\ Verdicts(r)[s] = "open"
           /\ \A t \in 1 .. s - 1 :
                Verdicts(r)[t] \in IF r.onFailure = "stop" THEN {"succeeded"}
                                   ELSE {"succeeded", "failed", "dependency_failed"}
           /\ st.status \in IF \A t \in Inputs[s] : Verdicts(r)[t] = "succeeded"
                              THEN {"succeeded", "failed"} ELSE {"dependency_failed"}
           /\ Verdicts(r2) = [Verdicts(r) EXCEPT ![s] = st.status]
<1>1. ActiveCoherent(r) /\ r.current = s
  BY DEF ValidRun, Becomes
<1>2. \A t \in 1 .. s - 1 : t \in Stage /\ t \in Before(s)
  BY DefinitionAssumption DEF Before, Stage
<1>3. \A t \in Inputs[s] : t \in Stage
  BY DefinitionAssumption
<1>4. \A t \in 1 .. s - 1 :
        Verdicts(r)[t] \in IF r.onFailure = "stop" THEN {"succeeded"}
                           ELSE {"succeeded", "failed", "dependency_failed"}
  BY <1>1, <1>2 DEF ActiveCoherent, InStatus, Verdicts, Verdict, Decided
<1>5. st.status \in IF \A t \in Inputs[s] : Verdicts(r)[t] = "succeeded"
                      THEN {"succeeded", "failed"} ELSE {"dependency_failed"}
  BY <1>3 DEF InStatus, Verdicts, Verdict, Decided
<1>6. Verdicts(r2) = [Verdicts(r) EXCEPT ![s] = st.status]
  BY DEF Becomes, Run, Verdicts, Verdict, Decided
<1> QED
  BY <1>4, <1>5, <1>6 DEF Becomes, Verdicts, Verdict

ContractStep == Contract!Next \/ UNCHANGED <<run.onFailure, Verdicts(run)>>

LEMMA JudgementKeeps ==
    ASSUME Inductive, Inductive', cur \in Stage, NEW st, Becomes(run, run', cur, st),
           \/ /\ st.status \in {"succeeded", "failed"}
              /\ Inputs[cur] \subseteq InStatus(run, {"succeeded"})
           \/ /\ st.status = "dependency_failed"
              /\ Inputs[cur] \cap InStatus(run, {"failed", "dependency_failed"}) # {}
    PROVE  Contract!Next
<1>1. run \in Run /\ ValidRun(run) /\ run' \in Run
  BY DEF Inductive, TypeOK, Coherent
<1>2. /\ run'.onFailure = run.onFailure
      /\ Verdicts(run)[cur] = "open"
      /\ \A t \in 1 .. cur - 1 :
           Verdicts(run)[t] \in IF run.onFailure = "stop" THEN {"succeeded"}
                                ELSE {"succeeded", "failed", "dependency_failed"}
      /\ st.status \in IF \A t \in Inputs[cur] : Verdicts(run)[t] = "succeeded"
                         THEN {"succeeded", "failed"} ELSE {"dependency_failed"}
      /\ Verdicts(run') = [Verdicts(run) EXCEPT ![cur] = st.status]
  BY <1>1, DecidedJudges
<1>3. Contract!Judge(cur, st.status)
  BY <1>2 DEF Contract!Judge, Contract!Due, Contract!InputsSucceeded, Verdicts
<1>4. st.status \in {"succeeded", "failed", "dependency_failed"}
  OBVIOUS
<1> QED
  BY <1>3, <1>4 DEF Contract!Next, Contract!Stages, Stage

LEMMA DriverKeepsContract ==
    ASSUME Inductive, HonoursAll, Books, Places, DriverStep
    PROVE  ContractStep
<1>1. /\ Inductive' /\ run \in Run /\ run' \in Run /\ cur \in Stage /\ Here \in StageRecord
      /\ ValidStage(Here)
  <2>1. Inductive' /\ cur \in Stage /\ run \in Run /\ ValidRun(run)
    BY DriverSteps, DriverLeavesAnswer DEF Inductive, TypeOK, Coherent, DriverSound
  <2> QED
    BY <2>1 DEF Inductive, TypeOK, Here, Run, ValidRun
<1>2. CASE Asks(run, run')
  BY <1>2, AsksSameVerdicts DEF ContractStep
<1>3. ASSUME NEW i \in Instance, Begun(i)
      PROVE  ContractStep
  <2> DEFINE st == NextStage(Here, "dispatched", Dispatching(i))
  <2>1. st.status \notin Decided
    BY <1>1, BegunStage DEF Decided
  <2>2. Becomes(run, run', cur, st)
    BY <1>3 DEF Begun
  <2> HIDE DEF st
  <2> QED
    BY <1>1, <2>1, <2>2, OpenSameVerdicts DEF ContractStep
<1>4. CASE DependencyFails /\ PassedOver
  <2>1. Inputs[cur] \cap InStatus(run, {"failed", "dependency_failed"}) # {}
    BY <1>1, <1>4, DefinitionAssumption DEF DependencyFails, FailedInputs, InStatus
  <2> DEFINE st == NextStage(Here, "dependency_failed", Failing)
  <2>2. st.status = "dependency_failed"
    BY <1>1, PassedStage
  <2>3. Becomes(run, run', cur, st)
    BY <1>4 DEF PassedOver
  <2> HIDE DEF st
  <2> QED
    BY <1>1, <2>1, <2>2, <2>3, JudgementKeeps DEF ContractStep
<1>5. CASE (Persist \/ Settle) /\ held \in DOMAIN mail /\ Judged
  <2>1. PICK st : /\ Becomes(run, run', cur, st)
                  /\ st.status \in {"succeeded", "failed", "needs_attention"}
    BY <1>1, <1>5, JudgedStage DEF Judged
  <2>2. Here.inst # NoInstance
    <3>1. Here.inst = inst
      BY <1>5 DEF Persist, Settle, Places, Looking, Working, Authorized
    <3>2. inst \in Instance
      BY <1>5 DEF Persist, Settle, Inductive, DriverSound
    <3> QED
      BY <3>1, <3>2, DefinitionAssumption
  <2>3. Inputs[cur] \subseteq InStatus(run, {"succeeded"})
    BY <1>1, <2>2 DEF HonoursAll, Honours, Here
  <2>4. CASE st.status \in {"succeeded", "failed"}
    BY <1>1, <2>1, <2>3, <2>4, JudgementKeeps DEF ContractStep
  <2>5. CASE st.status = "needs_attention"
    BY <1>1, <2>1, <2>5, OpenSameVerdicts DEF ContractStep, Decided
  <2> QED
    BY <2>1, <2>4, <2>5
<1> QED
  BY <1>2, <1>3, <1>4, <1>5, VisitEffects, WorkEffects DEF DriverStep

LEMMA StepKeepsContract ==
    ASSUME ~AnswerWhileDriving
    PROVE  Inductive /\ HonoursAll /\ Books /\ Places /\ [Next]_vars => ContractStep
<1> SUFFICES ASSUME Inductive, HonoursAll, Books, Places, [Next]_vars PROVE ContractStep
  OBVIOUS
<1>1. CASE DriverStep
  BY <1>1, DriverKeepsContract
<1>2. CASE \/ \E how \in {"normal", "resume"} : Start(how) \/ StartDrifted(how)
           \/ Crash
           \/ \E i \in Instance : PaneDies(i)
           \/ \E i \in Instance, b \in Body : SpecialistReports(i, b)
  BY <1>2, OthersAsk, AsksSameVerdicts DEF ContractStep
<1>3. CASE OperatorLoads \/ UNCHANGED vars
  BY <1>3 DEF OperatorLoads, vars, durable, ContractStep
<1>4. CASE OperatorSaves
  <2>1. /\ run \in Run /\ run.current \in Stage
        /\ run' = RecordAnswer(run, run.current)
    BY <1>4, SavedOverItself DEF Inductive, TypeOK
  <2>2. /\ run'.onFailure = run.onFailure
        /\ \A t \in Stage : run'.stage[t].status = run.stage[t].status
    BY <2>1, AnsweredStage
  <2> QED
    BY <2>2, SameVerdicts DEF ContractStep, Verdict
<1> QED
  BY <1>1, <1>2, <1>3, <1>4 DEF Next

(* The driver, its crashes and the operator's answers between them keep    *)
(* the contract of a run: verdicts are given in order, once and for good,  *)
(* on a stage's own work only if all its inputs succeeded, and under the   *)
(* policy "stop" none after a failure.                                     *)
THEOREM KeepsContract == ~AnswerWhileDriving => (Spec => ContractKept)
<1> SUFFICES ASSUME ~AnswerWhileDriving PROVE Spec => ContractKept
  OBVIOUS
<1>1. Init => Contract!Init
  <2> SUFFICES ASSUME Init PROVE Contract!Init
    OBVIOUS
  <2>1. run.onFailure \in {"stop", "continue"}
    BY RunnerAssumption DEF Init, CreateRun
  <2>2. \A s \in Stage : Verdict(run.stage[s]) = "open"
    BY DEF Init, CreateRun, NewStage, Verdict, Decided
  <2> QED
    BY <2>1, <2>2 DEF Contract!Init, Contract!Stages, Stage
<1>2. ContractStep =>
        [Contract!Next]_<<run.onFailure, [s \in Stage |-> Verdict(run.stage[s])]>>
  BY DEF ContractStep, Verdicts
<1>3. Inductive /\ HonoursAll /\ Books /\ Places /\ [Next]_vars => ContractStep
  BY StepKeepsContract
<1> QED
  BY <1>1, <1>2, <1>3, HonoursAlways, InductiveInvariant, HistoryInvariant, PTL
     DEF Spec, ContractKept, Contract!Spec
=============================================================================
