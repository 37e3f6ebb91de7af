--------------------------- MODULE PipelineRunner ---------------------------
(***************************************************************************)
(* One pipeline run from creation to its end: the driver of                *)
(* agency/scripts/pipeline_runner.py as pipeline_runtime.py starts it, the *)
(* specialists it delegates stages to, the hub inbox their reports arrive  *)
(* in, and the operator who answers a stage's question.                    *)
(*                                                                         *)
(* The driver's process-local state (pc to held) is lost when it dies; run *)
(* is pipelines.json, mail the hub's inbox directories and live the panes. *)
(*                                                                         *)
(* Simplifications.  The project execution lock makes the driver a single  *)
(* process.  One load-change-save of a pipeline_state function is one step *)
(* of the driver; the operator's is two, because it holds no lock.  Of a   *)
(* report's content only what decides the driver's path is kept.  Inboxes  *)
(* start empty, and the recovery of SilentSettle does not replace a silent *)
(* specialist: the replacement would be one the run does not name.         *)
(***************************************************************************)
EXTENDS PipelineState, Sequences

CONSTANTS
    Policies,           \* values onFailure may have
    Pool,               \* Pool[s]: instances the role of stage s can be given
    AskForms,           \* what comes with a question: [error, options] records
    Faults,             \* the failures that may happen (FaultKinds)
    AnswerWhileDriving, \* may an operator's answer overlap with a driver?
    MaxMail,            \* bound: reports sent in a behaviour
    MaxAnswers          \* bound: operator answers in a behaviour

(* crash: the driver dies; pane: a specialist's pane dies; drift: the      *)
(* pipeline definition changed; inputs: an input artifact is missing;      *)
(* reserve, spawn, delegate, wait: that control-plane call fails; rotten:  *)
(* a report no longer validates when read; ack: its receipt is not moved.  *)
FaultKinds == {"crash", "pane", "drift", "inputs", "reserve", "spawn",
               "delegate", "wait", "rotten", "ack"}

ASSUME RunnerAssumption ==
    /\ Policies \subseteq {"stop", "continue"} /\ Policies # {}
    /\ Pool \in [Stage -> SUBSET Instance]
    /\ AskForms \subseteq [error : BOOLEAN, options : BOOLEAN]
    /\ Faults \subseteq FaultKinds
    /\ AnswerWhileDriving \in BOOLEAN
    /\ MaxMail \in Nat /\ MaxAnswers \in Nat

VARIABLES
    run,        \* the run as saved in pipelines.json
    pc,         \* where the driver is; "idle": none is running
    mode,       \* how it was started
    cur,        \* the stage its loop is at
    seen,       \* status of that stage when the loop read it
    inst,       \* its local variable instance
    held,       \* the report it has claimed, an index of mail
    outcome,    \* how the last driver ended
    live,       \* live[i]: the pane of instance i
    inbox,      \* inbox[i]: stage of the oldest delegate in the inbox of i
    routed,     \* routed[i]: stage the session row of i names
    mail,       \* every report sent, oldest first, and where it lies now
    snap,       \* the run an operator's answer has loaded and not yet saved, if any
    dispatches, \* history: how often each stage was dispatched
    answers,    \* history: how many answers each stage was given
    delegates   \* history: how many delegates of each stage were sent

durable == <<run, mail>>
driver == <<pc, mode, cur, seen, inst, held, outcome>>
panes == <<live, inbox, routed>>
history == <<dispatches, answers, delegates>>
vars == <<durable, driver, panes, snap, history>>

PC == {"idle", "visit", "find", "settle", "redispatch", "inputs", "spawn",
       "delegate", "wait", "persist", "ack"}

(* What a report says: validate_stage_report wants an error with a failure *)
(* and none with a success; only a question may offer options.             *)
Body ==
    {[status |-> "succeeded", error |-> FALSE, options |-> FALSE],
     [status |-> "failed", error |-> TRUE, options |-> FALSE]}
    \cup {[status |-> "needs_attention", error |-> f.error, options |-> f.options]
            : f \in AskForms}

(* attempt: how often the stage had been dispatched when it was sent; auth:*)
(* its sender authentication still names a live pane of that sender.       *)
Report == [stage : Stage, from : Instance, attempt : Nat, body : Body,
           auth : BOOLEAN, place : {"pending", "processing", "done", "rejected"}]

DriverTypeOK ==
    /\ pc \in PC
    /\ mode \in {"none", "normal", "resume"}
    /\ cur \in Stage \cup {NoStage}
    /\ seen \in StageStatus \cup {"none"}
    /\ inst \in Instance \cup {NoInstance}
    /\ held \in 0 .. Len(mail)
    /\ outcome \in {"none", "returned", "died"}

PanesTypeOK ==
    /\ live \in [Instance -> {"absent", "alive", "dead"}]
    /\ inbox \in [Instance -> Stage \cup {NoStage}]
    /\ routed \in [Instance -> Stage \cup {NoStage}]

HistoryTypeOK ==
    /\ dispatches \in [Stage -> Nat]
    /\ answers \in [Stage -> Nat]
    /\ delegates \in [Stage -> Nat]

TypeOK ==
    /\ run \in Run
    /\ mail \in Seq(Report)
    /\ snap \subseteq Run
    /\ DriverTypeOK /\ PanesTypeOK /\ HistoryTypeOK

Init ==
    /\ run \in {CreateRun(p) : p \in Policies}
    /\ pc = "idle" /\ mode = "none" /\ cur = NoStage /\ seen = "none"
    /\ inst = NoInstance /\ held = 0 /\ outcome = "none"
    /\ live \in [Instance -> {"absent", "alive"}]
    /\ inbox = [i \in Instance |-> NoStage] /\ routed = inbox
    /\ mail = << >>
    /\ snap = {}
    /\ dispatches = [s \in Stage |-> 0]
    /\ answers = [s \in Stage |-> 0]
    /\ delegates = [s \in Stage |-> 0]

-----------------------------------------------------------------------------
(* Helpers of the driver. *)

Here == run.stage[cur]

(* The driver ends: it returns the synthesis, or an exception ends it.     *)
Exit(how) ==
    /\ pc' = "idle" /\ outcome' = how
    /\ mode' = "none" /\ cur' = NoStage /\ seen' = "none"
    /\ inst' = NoInstance /\ held' = 0

Goto(label) == pc' = label /\ UNCHANGED <<mode, cur, seen, outcome>>

(* Wrong on purpose: attention only for work that was dispatched. *)
AttentionDispatchedOnly(r, s, status) ==
    IF status = "dispatched" /\ CanTransition(r, s, "needs_attention")
      THEN Transition(r, s, "needs_attention", Asking) ELSE r

(* _attention(stage): nothing if the record it is passed already asks.     *)
Attention(r, s, status) ==
    IF status # "needs_attention" /\ CanTransition(r, s, "needs_attention")
      THEN Transition(r, s, "needs_attention", Asking) ELSE r

(* An exception inside _attention, or of a transition outside any try,     *)
(* ends the driver; otherwise it breaks out of its loop and returns.       *)
GiveUp(status) ==
    /\ run' = Attention(run, cur, status)
    /\ Exit(IF status = "needs_attention" \/ CanTransition(run, cur, "needs_attention")
              THEN "returned" ELSE "died")

(* Wrong on purpose: the loop runs past the last stage. *)
OnwardPastEnd(status) ==
    IF status = "needs_attention" \/ (status = "failed" /\ run.onFailure = "stop")
      THEN Exit("returned")
      ELSE /\ pc' = "visit" /\ cur' = cur + 1
           /\ seen' = "none" /\ inst' = NoInstance /\ held' = 0
           /\ UNCHANGED <<mode, outcome>>

(* After a stage: the next one, or the end of the loop.                    *)
Onward(status) ==
    IF \/ status = "needs_attention"
       \/ status = "failed" /\ run.onFailure = "stop"
       \/ cur = N
      THEN Exit("returned")
      ELSE /\ pc' = "visit" /\ cur' = cur + 1
           /\ seen' = "none" /\ inst' = NoInstance /\ held' = 0
           /\ UNCHANGED <<mode, outcome>>

Counted(f, s) == [f EXCEPT ![s] = @ + 1]

(* require_active_dispatched_stage(_spawn) for the stage being driven.     *)
Authorized ==
    /\ run.active /\ run.current = cur
    /\ Here.status = "dispatched" /\ Here.inst = inst

-----------------------------------------------------------------------------
(* Wrong on purpose: a driver starts while an answer is being saved. *)
MayStartMeanwhile(how) ==
    /\ pc = "idle"
    /\ run.status = IF how = "resume" THEN "needs_attention" ELSE "running"

(* Starting a driver: a claimed run that is running, or an explicit        *)
(* resume of one that needs attention.                                     *)
MayStart(how) ==
    /\ pc = "idle"
    /\ AnswerWhileDriving \/ snap = {}
    /\ run.status = IF how = "resume" THEN "needs_attention" ELSE "running"

Start(how) ==
    /\ MayStart(how)
    /\ pc' = "visit" /\ mode' = how /\ cur' = 1 /\ outcome' = "none"
    /\ UNCHANGED <<durable, seen, inst, held, panes, snap, history>>

(* The catalog definition no longer matches the run's digest.              *)
StartDrifted(how) ==
    /\ MayStart(how)
    /\ "drift" \in Faults
    /\ run' = Attention(run, run.current, run.stage[run.current].status)
    /\ outcome' = "returned"
    /\ UNCHANGED <<mail, pc, mode, cur, seen, inst, held, panes, snap, history>>

-----------------------------------------------------------------------------
(* The loop reads the run and looks at stage cur. *)

Skip ==
    /\ pc = "visit"
    /\ Here.status \in Decided
    /\ Onward(Here.status)
    /\ UNCHANGED <<durable, panes, snap, history>>

(* A stage that asks stops the loop unless this is a resume and the stage  *)
(* was dispatched.                                                         *)
StopAtQuestion ==
    /\ pc = "visit"
    /\ Here.status = "needs_attention"
    /\ mode = "normal" \/ Here.inst = NoInstance
    /\ Exit("returned")
    /\ UNCHANGED <<durable, panes, snap, history>>

(* On resume a dispatched stage is re-dispatched if it was answered, and   *)
(* otherwise looked up among the reports.                                  *)
ClassifyResume ==
    /\ pc = "visit" /\ mode = "resume"
    /\ Here.status \in {"dispatched", "needs_attention"} /\ Here.inst # NoInstance
    /\ pc' = IF ResumeAction(Here) = "re_dispatch" THEN "redispatch" ELSE "find"
    /\ seen' = Here.status /\ inst' = Here.inst
    /\ UNCHANGED <<durable, mode, cur, held, outcome, panes, snap, history>>

(* A driver that was not told to resume leaves dispatched work to one.     *)
DispatchedUncertain ==
    /\ pc = "visit" /\ mode = "normal"
    /\ Here.status = "dispatched"
    /\ GiveUp("dispatched")
    /\ UNCHANGED <<mail, panes, snap, history>>

(* Wrong on purpose: only inputs that were themselves never begun count.   *)
FailedInputsIndirect(s) == {t \in Inputs[s] : run.stage[t].status = "dependency_failed"}

(* Wrong on purpose: any earlier stage counts, whether or not it is read.  *)
FailedEarlier(s) == {t \in Before(s) : run.stage[t].status \in {"failed", "dependency_failed"}}

FailedInputs(s) == {t \in Inputs[s] : run.stage[t].status \in {"failed", "dependency_failed"}}

DependencyFails ==
    /\ pc = "visit"
    /\ Here.status = "pending" /\ FailedInputs(cur) # {}
    /\ IF CanTransition(run, cur, "dependency_failed")
         THEN /\ run' = Transition(run, cur, "dependency_failed", Failing)
              /\ Onward("dependency_failed")
         ELSE run' = run /\ Exit("died")
    /\ UNCHANGED <<mail, panes, snap, history>>

(* resolve_named_inputs raises: an input artifact is gone.                 *)
InputsMissing(s) == "inputs" \in Faults /\ Inputs[s] # {}

InputsFail ==
    /\ pc = "visit"
    /\ Here.status = "pending" /\ FailedInputs(cur) = {}
    /\ InputsMissing(cur)
    /\ GiveUp("pending")
    /\ UNCHANGED <<mail, panes, snap, history>>

(* reserve_stage_instance only serves the current stage while pending.     *)
CanReserve(s) == run.active /\ run.current = s /\ run.stage[s].status = "pending"

ReserveFails ==
    /\ pc = "visit"
    /\ Here.status = "pending" /\ FailedInputs(cur) = {}
    /\ "reserve" \in Faults \/ ~CanReserve(cur)
    /\ GiveUp("pending")
    /\ UNCHANGED <<mail, panes, snap, history>>

(* An instance is reserved and the dispatch recorded before anything is    *)
(* spawned or sent.                                                        *)
Dispatch(i) ==
    /\ pc = "visit"
    /\ Here.status = "pending" /\ FailedInputs(cur) = {}
    /\ CanReserve(cur) /\ i \in Pool[cur]
    /\ run' = Transition(run, cur, "dispatched", Dispatching(i))
    /\ seen' = "pending" /\ inst' = i /\ pc' = "spawn"
    /\ dispatches' = Counted(dispatches, cur)
    /\ UNCHANGED <<mail, mode, cur, held, outcome, panes, snap, answers, delegates>>

-----------------------------------------------------------------------------
(* Spawning, delegating and waiting.  A call that fails may have taken     *)
(* effect; the driver treats it as uncertain and asks for attention.       *)

(* Any pane but a live one is opened anew, unless a stale idle row of a    *)
(* dead one is still believed.                                             *)
Spawned(i) == {[live EXCEPT ![i] = "alive"], live} \ (IF live[i] = "absent" THEN {live} ELSE {})

SpawnOk ==
    /\ pc = "spawn" /\ Authorized
    /\ live' \in Spawned(inst)
    /\ Goto(IF seen = "pending" THEN "delegate" ELSE "inputs")
    /\ UNCHANGED <<durable, inst, held, inbox, routed, snap, history>>

SpawnFails ==
    /\ pc = "spawn"
    /\ "spawn" \in Faults \/ ~Authorized
    /\ live' \in {live} \cup IF Authorized THEN Spawned(inst) ELSE {}
    /\ GiveUp(Here.status)
    /\ UNCHANGED <<mail, inbox, routed, snap, history>>

(* cmd_delegate writes the task into the session row and then puts the     *)
(* delegate into the inbox, whether there is a process in the pane or not. *)
Routes == routed' = [routed EXCEPT ![inst] = cur]

Deliver ==
    /\ inbox' = IF inbox[inst] = NoStage THEN [inbox EXCEPT ![inst] = cur] ELSE inbox
    /\ delegates' = Counted(delegates, cur)

DelegateOk ==
    /\ pc = "delegate" /\ Authorized
    /\ Routes /\ Deliver
    /\ Goto("wait")
    /\ UNCHANGED <<durable, inst, held, live, snap, dispatches, answers>>

DelegateFails ==
    /\ pc = "delegate"
    /\ "delegate" \in Faults \/ ~Authorized
    /\ \/ UNCHANGED <<routed, inbox, delegates>>
       \/ Authorized /\ Routes /\ UNCHANGED <<inbox, delegates>>
       \/ Authorized /\ Routes /\ Deliver
    /\ GiveUp(Here.status)
    /\ UNCHANGED <<mail, live, snap, dispatches, answers>>

(* Wrong on purpose: any report of the expected sender will do. *)
MatchingSender(where) ==
    {k \in DOMAIN mail : mail[k].from = inst /\ mail[k].place = where}

(* Reports of the stage from the expected sender.                          *)
Matching(where) ==
    {k \in DOMAIN mail : /\ mail[k].stage = cur /\ mail[k].from = inst
                         /\ mail[k].place = where}

MoveTo(S, where) == [k \in DOMAIN mail |->
    IF k \in S THEN [mail[k] EXCEPT !.place = where] ELSE mail[k]]

(* A report is accepted only while its sender's pane is confirmed alive    *)
(* and its artifacts are still there.                                      *)
MayAccept(k) == mail[k].auth
MayReject(k) == ~mail[k].auth \/ "rotten" \in Faults

(* Wrong on purpose: the receipt is acknowledged when it is claimed. *)
WaitClaimsAndAcks ==
    /\ pc = "wait" /\ Authorized
    /\ Matching("pending") # {}
    /\ MayAccept(Min(Matching("pending")))
    /\ held' = Min(Matching("pending"))
    /\ mail' = MoveTo({held'}, "done")
    /\ Goto("persist")
    /\ UNCHANGED <<run, inst, panes, snap, history>>

(* bus wait claims the oldest matching report, then it is authenticated.   *)
WaitClaims ==
    /\ pc = "wait" /\ Authorized
    /\ Matching("pending") # {}
    /\ MayAccept(Min(Matching("pending")))
    /\ held' = Min(Matching("pending"))
    /\ mail' = MoveTo({held'}, "processing")
    /\ Goto("persist")
    /\ UNCHANGED <<run, inst, panes, snap, history>>

WaitClaimsInvalid ==
    /\ pc = "wait" /\ Authorized
    /\ Matching("pending") # {}
    /\ MayReject(Min(Matching("pending")))
    /\ mail' = MoveTo({Min(Matching("pending"))}, "processing")
    /\ GiveUp(Here.status)
    /\ UNCHANGED <<panes, snap, history>>

(* Wrong on purpose: a wait without a timeout. *)
WaitForEver ==
    /\ pc = "wait" /\ ~Authorized
    /\ GiveUp(Here.status)
    /\ UNCHANGED <<mail, panes, snap, history>>

WaitTimesOut ==
    /\ pc = "wait"
    /\ Matching("pending") = {} \/ "wait" \in Faults \/ ~Authorized
    /\ GiveUp(Here.status)
    /\ UNCHANGED <<mail, panes, snap, history>>

(* The stage of a report that is persisted by a transition.                *)
Reported(b) == Change(NoInstance, held, b.error, b.status = "needs_attention", b.options)

Persist ==
    /\ pc = "persist"
    /\ LET b == mail[held].body
       IN  IF CanTransition(run, cur, b.status)
             THEN /\ run' = Transition(run, cur, b.status, Reported(b))
                  /\ Goto("ack") /\ UNCHANGED <<inst, held>>
             ELSE GiveUp(Here.status)
    /\ UNCHANGED <<mail, panes, snap, history>>

(* The second validation, after the claim, fails.                          *)
PersistInvalid ==
    /\ pc = "persist"
    /\ "rotten" \in Faults
    /\ GiveUp(Here.status)
    /\ UNCHANGED <<mail, panes, snap, history>>

(* The receipt is moved to done; if that fails it stays in processing.     *)
Ack ==
    /\ pc = "ack"
    /\ \/ mail' = MoveTo({held}, "done")
       \/ "ack" \in Faults /\ mail' = mail
    /\ Onward(mail[held].body.status)
    /\ UNCHANGED <<run, panes, snap, history>>

-----------------------------------------------------------------------------
(* Resuming: an existing report, or the re-dispatch of an answered stage.  *)

(* find_existing_report: first the reports left in processing, then the    *)
(* pending ones; those that do not validate on the way are quarantined.    *)
Find ==
    /\ pc = "find"
    /\ \E bad \in SUBSET (Matching("processing") \cup Matching("pending")) :
         /\ \A k \in Matching("processing") \cup Matching("pending") :
              IF k \in bad THEN MayReject(k) ELSE MayAccept(k)
         /\ LET old   == Matching("processing") \ bad
                new   == Matching("pending") \ bad
                found == IF old # {} THEN Min(old) ELSE IF new # {} THEN Min(new) ELSE 0
                tried == {k \in bad :
                            \/ found = 0
                            \/ mail[k].place = "processing" /\ (old = {} \/ k < found)
                            \/ mail[k].place = "pending" /\ old = {} /\ k < found}
            IN  /\ mail' = [k \in DOMAIN mail |->
                              IF k \in tried THEN [mail[k] EXCEPT !.place = "rejected"]
                              ELSE IF k = found THEN [mail[k] EXCEPT !.place = "processing"]
                              ELSE mail[k]]
                /\ IF found # 0 THEN /\ Goto("settle") /\ held' = found
                                     /\ UNCHANGED <<run, inst>>
                                ELSE GiveUp(seen)
    /\ UNCHANGED <<panes, snap, history>>

(* The lookup itself raises. *)
FindFails ==
    /\ pc = "find"
    /\ "wait" \in Faults
    /\ GiveUp(seen)
    /\ UNCHANGED <<mail, panes, snap, history>>

(* _persist_result(reconciled=True): a report that asks raises a TypeError.*)
Settle ==
    /\ pc = "settle"
    /\ LET status == mail[held].body.status
       IN  IF CanReconcile(run, cur, status)
             THEN /\ run' = Reconcile(run, cur, status, held)
                  /\ Goto("ack") /\ UNCHANGED <<inst, held>>
             ELSE GiveUp(seen)
    /\ UNCHANGED <<mail, panes, snap, history>>

SettleInvalid ==
    /\ pc = "settle"
    /\ "rotten" \in Faults
    /\ GiveUp(seen)
    /\ UNCHANGED <<mail, panes, snap, history>>

(* Wrong on purpose: the answer always goes to a fresh instance. *)
FreshTargets == Pool[cur]

(* The old instance if its pane is alive, else a newly reserved one.       *)
RedispatchTargets ==
    IF live[inst] = "alive" THEN {inst}
    ELSE IF CanReserve(cur) THEN Pool[cur] ELSE {}

Redispatch ==
    /\ pc = "redispatch"
    /\ \E i \in RedispatchTargets :
         /\ run' = Transition(run, cur, "dispatched", Dispatching(i))
         /\ inst' = i
         /\ Goto(IF live[inst] = "alive" THEN "inputs" ELSE "spawn")
    /\ dispatches' = Counted(dispatches, cur)
    /\ UNCHANGED <<mail, held, panes, snap, answers, delegates>>

RedispatchFails ==
    /\ pc = "redispatch"
    /\ RedispatchTargets = {}
    /\ GiveUp(seen)
    /\ UNCHANGED <<mail, panes, snap, history>>

(* The inputs are resolved after the re-dispatch was recorded.             *)
InputsOk ==
    /\ pc = "inputs"
    /\ Goto("delegate")
    /\ UNCHANGED <<durable, inst, held, panes, snap, history>>

RedispatchInputsFail ==
    /\ pc = "inputs"
    /\ InputsMissing(cur)
    /\ GiveUp(seen)
    /\ UNCHANGED <<mail, panes, snap, history>>

-----------------------------------------------------------------------------
(* The driver's process is killed. *)
Crash ==
    /\ pc # "idle"
    /\ "crash" \in Faults
    /\ Exit("died")
    /\ UNCHANGED <<durable, panes, snap, history>>

(* A pane dies, and with it the standing of what it sent.                  *)
PaneDies(i) ==
    /\ live[i] = "alive"
    /\ "pane" \in Faults
    /\ live' = [live EXCEPT ![i] = "dead"]
    /\ mail' = [k \in DOMAIN mail |->
                  IF mail[k].from = i THEN [mail[k] EXCEPT !.auth = FALSE] ELSE mail[k]]
    /\ UNCHANGED <<run, driver, inbox, routed, snap, history>>

(* What a specialist can have been told to do.  Nothing moves a delegate   *)
(* on, so its process is shown the oldest of its inbox, at each start anew,*)
(* and no other; the nudge after a silent settle names the task of the     *)
(* session row, which may be one it was never shown.                       *)
Told(i) == {inbox[i], routed[i]} \ {NoStage}

(* send_pipeline_report: a specialist may report the stage its session row *)
(* names while that is dispatched to it or awaits attention, as often as   *)
(* it will.                                                                *)
MayReport(i, s) ==
    /\ live[i] = "alive" /\ routed[i] = s
    /\ run.active
    /\ run.stage[s].status \in {"dispatched", "needs_attention"}
    /\ run.stage[s].inst = i

SpecialistReports(i, b) ==
    /\ Len(mail) < MaxMail
    /\ \E s \in Told(i) :
         /\ MayReport(i, s)
         /\ mail' = Append(mail,
              [stage |-> s, from |-> i, attempt |-> dispatches[s],
               body |-> b, auth |-> TRUE, place |-> "pending"])
    /\ UNCHANGED <<run, driver, panes, snap, history>>

(* pipeline-answer: record_operator_response loads the state ...           *)
OperatorLoads ==
    /\ snap = {}
    /\ AnswerWhileDriving \/ pc = "idle"
    /\ run.current # NoStage /\ CanAnswer(run, run.current)
    /\ answers[run.current] < MaxAnswers
    /\ snap' = {run}
    /\ UNCHANGED <<durable, driver, panes, history>>

(* ... and saves it with the answer.                                       *)
OperatorSaves ==
    /\ \E r \in snap : /\ run' = RecordAnswer(r, r.current)
                       /\ answers' = Counted(answers, r.current)
    /\ snap' = {}
    /\ UNCHANGED <<mail, driver, panes, dispatches, delegates>>

-----------------------------------------------------------------------------
DriverStep ==
    \/ Skip \/ StopAtQuestion \/ ClassifyResume \/ DispatchedUncertain
    \/ DependencyFails \/ InputsFail \/ ReserveFails
    \/ \E i \in Instance : Dispatch(i)
    \/ SpawnOk \/ SpawnFails \/ DelegateOk \/ DelegateFails
    \/ WaitClaims \/ WaitClaimsInvalid \/ WaitTimesOut
    \/ Persist \/ PersistInvalid \/ Ack
    \/ Find \/ FindFails \/ Settle \/ SettleInvalid
    \/ Redispatch \/ RedispatchFails \/ InputsOk \/ RedispatchInputsFail

Next ==
    \/ DriverStep
    \/ \E how \in {"normal", "resume"} : Start(how) \/ StartDrifted(how)
    \/ Crash
    \/ \E i \in Instance : PaneDies(i)
    \/ \E i \in Instance, b \in Body : SpecialistReports(i, b)
    \/ OperatorLoads \/ OperatorSaves

Spec == Init /\ [][Next]_vars

(* A driver that is not killed keeps running: each of its waits is bounded *)
(* by a timeout.                                                           *)
FairSpec == Spec /\ WF_vars(DriverStep)

(* The operator who answers also starts a driver whenever none is running, *)
(* the way the status of the run asks for, and is not killed every time.   *)
ResumedSpec ==
    /\ FairSpec
    /\ WF_vars(OperatorSaves)
    /\ \A how \in {"normal", "resume"} : WF_vars(Start(how))
    /\ <>[][~Crash]_vars

-----------------------------------------------------------------------------
(* Safety. *)

(* Whatever fails and whoever dies in between, the saved run passes the    *)
(* validation of save_state and load_state: no step leaves a state that    *)
(* the next load of pipelines.json would reject as corrupt.                *)
Coherent == ValidRun(run)

(* A stage that has been decided is never changed again.                   *)
ResultsFinal ==
    [][\A s \in Stage : run.stage[s].status \in Decided
                            => run'.stage[s] = run.stage[s]]_vars

(* No automatic retry: a stage is dispatched once, and once more per       *)
(* answer of the operator; every dispatch is delegated at most once, over  *)
(* any number of crashes, timeouts and resumes.                            *)
NoAutomaticRetry ==
    \A s \in Stage : /\ dispatches[s] <= 1 + answers[s]
                     /\ delegates[s] <= dispatches[s]

(* A specialist that has a stage in its inbox or its session row, and so   *)
(* may be working on it, is the instance that pipelines.json names for it: *)
(* a crash at any point leaves the work findable, a stage still pending has*)
(* reached nobody, and two specialists never work on the same stage.       *)
DispatchRecordedFirst ==
    \A i \in Instance : \A s \in Told(i) :
        /\ run.stage[s].status \notin {"pending", "dependency_failed"}
        /\ run.stage[s].inst = i

(* The result of a stage is what a report of that very stage, from the     *)
(* very instance it is assigned to, said; its artifacts are that report's, *)
(* and a dispatch was there before the report.  It may be an earlier one:  *)
(* a re-dispatch keeps the task id.                                        *)
ResultMatchesReport ==
    \A s \in Stage : run.stage[s].status \in {"succeeded", "failed"} =>
        /\ run.stage[s].by \in DOMAIN mail
        /\ LET r == mail[run.stage[s].by]
           IN  /\ r.stage = s /\ r.from = run.stage[s].inst
               /\ r.attempt \in 1 .. dispatches[s]
               /\ r.body.status = run.stage[s].status

(* A report is moved out of processing only when what it says is saved, so *)
(* a crash between the two loses nothing.                                  *)
AckOnlyPersisted ==
    [][\A k \in DOMAIN mail :
         mail[k].place # "done" /\ mail'[k].place = "done"
            => run.stage[mail[k].stage].by = k]_vars

(* A stage is begun only when all its inputs succeeded, and is marked      *)
(* dependency_failed only when one of them did not.                        *)
DependenciesHonoured ==
    \A s \in Stage :
        /\ run.stage[s].inst # NoInstance => Inputs[s] \subseteq InStatus(run, {"succeeded"})
        /\ run.stage[s].status = "dependency_failed" =>
              Inputs[s] \cap InStatus(run, {"failed", "dependency_failed"}) # {}

(* Why Coherent is inductive: at each place of the driver its local        *)
(* variables are set, a driver about to re-dispatch is at an answered      *)
(* stage, and an answer in flight was loaded from a valid run in which a   *)
(* stage waits for it, while no stage of the saved run has another.        *)
DriverSound ==
    /\ pc # "idle" => cur \in Stage
    /\ pc \notin {"idle", "visit"} => inst \in Instance
    /\ pc \in {"persist", "settle", "ack"} => held \in DOMAIN mail
    /\ pc = "redispatch" => /\ CanTransition(run, cur, "dispatched")
                            /\ Here.answer

AnswerSound ==
    /\ \A r \in snap : r.current \in Stage /\ ValidRun(r) /\ CanAnswer(r, r.current)
    /\ snap # {} => \A s \in Stage : ~run.stage[s].answer
    /\ ~AnswerWhileDriving /\ snap # {} => pc = "idle" /\ snap = {run}

Inductive == TypeOK /\ Coherent /\ DriverSound /\ AnswerSound

(* A driver that returns leaves a run that is over or asks for attention;  *)
(* serve_pipeline_runner has no case for any other.                        *)
ReturnedIsSettled == outcome = "returned" => run.status # "running"

-----------------------------------------------------------------------------
(* Liveness. *)

(* Every driver ends: no stage, report or resume makes it wait for ever.   *)
DriverEnds == pc # "idle" ~> pc = "idle"

(* An operator's answer to a stage that was dispatched is never silently   *)
(* lost: the stage is delegated again and its report waited for, or the    *)
(* operator is asked again, wherever the driver died or a call failed in   *)
(* between.  Not so when the stage's specialist has no live pane:          *)
(* reservation insists on a pending stage, so every resume fails and the   *)
(* answer stays where it is.                                               *)
AnswerIsSentOn ==
    \A s \in Stage :
        run.stage[s].answer /\ run.stage[s].inst # NoInstance
            ~> \/ pc = "wait" /\ cur = s
               \/ run.stage[s].status = "needs_attention" /\ ~run.stage[s].answer
               \/ \E i \in Instance : run.stage[s].inst = i /\ live[i] # "alive"

-----------------------------------------------------------------------------
(* The contract a run keeps: see PipelineContract.                         *)
Verdict(st) == IF st.status \in Decided THEN st.status ELSE "open"

Contract == INSTANCE PipelineContract
    WITH policy <- run.onFailure,
         verdict <- [s \in Stage |-> Verdict(run.stage[s])]

ContractKept == Contract!Spec
=============================================================================
