---------------------------- MODULE RunnerService ----------------------------
(***************************************************************************)
(* The life of a pipeline run around its driver: the run-pipeline command  *)
(* that creates it (agency_ctl.py, agent_spawn.py) and the process that    *)
(* serves it (serve_pipeline_runner of pipeline_runtime.py), which claims  *)
(* its first delegate, drives the run, delivers the final report, gives    *)
(* the run lock back and removes its own session row.                      *)
(*                                                                         *)
(* phase and torn are pipelines.json, lock is the lock file, ledger is     *)
(* sessions.json, inbox and reports are the message bus.  All of them      *)
(* outlive the two processes (pc to rows, cmd to copy), which may die      *)
(* between any two steps, or halfway through saving pipelines.json.        *)
(*                                                                         *)
(* Simplifications.  The driver is what PipelineRunner says of it: the run *)
(* stays running, asks, or is over.  Success and failure are not told      *)
(* apart.  Of a session row only its presence and its claim are kept; the  *)
(* runner instance of a run has the run's name.  An exception ends the     *)
(* process that raises it.  run-pipeline runs once at a time.  Where       *)
(* sessions.json is loaded and saved with nothing slow in between, that is *)
(* one step.                                                               *)
(***************************************************************************)
EXTENDS Naturals, FiniteSets

CONSTANTS
    Pipeline,    \* ids of the runs
    NoPipeline,
    Faults,      \* the failures that may happen (FaultKinds)
    MaxCrashes   \* bound: processes that are killed in a behaviour

(* crash: a process is killed; torn: it is killed between the two renames  *)
(* of save_state; auth: the hub's delegate no longer authenticates; spawn: *)
(* a terminal call fails; pane: a runner's pane is closed.                 *)
FaultKinds == {"crash", "torn", "auth", "spawn", "pane"}

ASSUME ServiceAssumption ==
    /\ NoPipeline \notin Pipeline
    /\ Faults \subseteq FaultKinds
    /\ MaxCrashes \in Nat

VARIABLES
    phase,    \* phase[p]: how far the saved run p has come
    torn,     \* pipelines.json is missing, only its previous generation is left
    lock,     \* the run whose runner owns the lock file
    ledger,   \* ledger[p]: the session row of p's runner
    pane,     \* pane[p]: the terminal pane of p's runner
    inbox,    \* inbox[p]: where the first delegate to p's runner lies
    reports,  \* reports[p]: final reports of p the hub's inbox has received
    pc,       \* where the serving process is; "idle": none holds the guard
    me,       \* the run it serves
    how,      \* "normal", or "resume" for --resume
    rows,     \* sessions.json as it loaded it
    cmd,      \* where the run-pipeline command is
    new,      \* the run it creates
    copy,     \* sessions.json as it loaded it
    overlapped, \* history: it was called while another run was under way
    hub,      \* the run whose answer pipeline-answer --resume has just saved
    crashes   \* processes killed so far

files == <<phase, torn, lock>>
server == <<pc, me, how, rows>>
starter == <<cmd, new, copy, overlapped>>
vars == <<files, ledger, pane, inbox, reports, server, starter, hub, crashes>>

Phase == {"none", "running", "attention", "over", "published", "cleaned"}
Row == {"absent", "listed", "claimed"}
Ledger == [Pipeline -> Row]
Over == {"over", "published", "cleaned"}

TypeOK ==
    /\ phase \in [Pipeline -> Phase] /\ torn \in BOOLEAN
    /\ lock \in Pipeline \cup {NoPipeline}
    /\ ledger \in Ledger
    /\ pane \in [Pipeline -> {"absent", "open", "ready", "closed"}]
    /\ inbox \in [Pipeline -> {"none", "pending", "processing", "done", "rejected"}]
    /\ reports \in [Pipeline -> Nat]
    /\ pc \in {"idle", "claim", "bind", "save", "ack", "mark", "rebind", "relist",
               "drive", "finish", "publish", "cleanup", "unlock", "clear", "close"}
    /\ me \in Pipeline \cup {NoPipeline}
    /\ how \in {"normal", "resume"}
    /\ rows \in Ledger
    /\ cmd \in {"idle", "pane", "lock", "create", "launch", "list", "delegate"}
    /\ new \in Pipeline \cup {NoPipeline}
    /\ copy \in Ledger /\ overlapped \in BOOLEAN
    /\ hub \in Pipeline \cup {NoPipeline}
    /\ crashes \in Nat

NoRows == [p \in Pipeline |-> "absent"]

Init ==
    /\ phase = [p \in Pipeline |-> "none"] /\ torn = FALSE
    /\ lock = NoPipeline
    /\ ledger = NoRows
    /\ pane = [p \in Pipeline |-> "absent"]
    /\ inbox = [p \in Pipeline |-> "none"]
    /\ reports = [p \in Pipeline |-> 0]
    /\ pc = "idle" /\ me = NoPipeline /\ how = "normal" /\ rows = NoRows
    /\ cmd = "idle" /\ new = NoPipeline /\ copy = NoRows /\ overlapped = FALSE
    /\ hub = NoPipeline
    /\ crashes = 0

-----------------------------------------------------------------------------
(* pipelines.json. *)

Active == {p \in Pipeline : phase[p] \in {"running", "attention"}}

(* load_state falls back to the previous generation, but not to one with   *)
(* an active run.                                                          *)
Readable == torn => Active = {}

(* save_state, to its end: the new generation takes the primary's place.   *)
Save(f) == phase' = f /\ torn' = FALSE

(* An active run changes only in its stages or its binding. *)
Resave == Save(phase)

-----------------------------------------------------------------------------
(* run-pipeline: spawn_specialist with pipeline_init, then the delegate.   *)

StopStart == cmd' = "idle" /\ new' = NoPipeline /\ copy' = NoRows /\ UNCHANGED overlapped
StartGoesTo(place) == cmd' = place /\ UNCHANGED <<new, copy, overlapped>>

(* reconcile-sessions drops the rows of closed panes ... *)
Reconciled == [p \in Pipeline |-> IF pane[p] = "closed" THEN "absent" ELSE ledger[p]]

(* ... whenever the sessions are listed.                                   *)
ListSessions ==
    /\ ledger' = Reconciled
    /\ UNCHANGED <<files, pane, inbox, reports, server, starter, hub, crashes>>

(* The rows are loaded, reconciled if the terminal could be asked for its  *)
(* panes, and saved with a new one.                                        *)
StartRun(p) ==
    /\ cmd = "idle"
    /\ phase[p] = "none" /\ pane[p] = "absent" /\ ledger[p] = "absent"
    /\ \E seen \in {ledger, Reconciled} : copy' = [seen EXCEPT ![p] = "listed"]
    /\ ledger' = copy'
    /\ cmd' = "pane" /\ new' = p
    /\ overlapped' = (overlapped \/ lock # NoPipeline \/ pc # "idle")
    /\ UNCHANGED <<files, pane, inbox, reports, server, hub, crashes>>

(* A pane is opened and the rows are saved again, as they were loaded. *)
OpenPane ==
    /\ cmd = "pane"
    /\ \/ pane' = [pane EXCEPT ![new] = "open"] /\ StartGoesTo("lock")
       \/ "spawn" \in Faults /\ pane' = pane /\ StopStart
    /\ ledger' = copy
    /\ UNCHANGED <<files, inbox, reports, server, hub, crashes>>

(* acquire_lock: the lock file is created exclusively. *)
AcquireLock ==
    /\ cmd = "lock"
    /\ IF lock = NoPipeline
         THEN lock' = new /\ StartGoesTo("create")
         ELSE lock' = lock /\ StopStart
    /\ UNCHANGED <<phase, torn, ledger, pane, inbox, reports, server, hub, crashes>>

(* create_run; when it raises, the lock stays.                             *)
CreateRun ==
    /\ cmd = "create"
    /\ IF Readable /\ Active = {}
         THEN /\ Save([phase EXCEPT ![new] = "running"])
              /\ StartGoesTo("launch")
         ELSE UNCHANGED <<phase, torn>> /\ StopStart
    /\ UNCHANGED <<lock, ledger, pane, inbox, reports, server, hub, crashes>>

(* The serve command is typed into the pane, so a process may start there. *)
Launch ==
    /\ cmd = "launch"
    /\ \/ /\ pane[new] = "open"
          /\ pane' = [pane EXCEPT ![new] = "ready"] /\ StartGoesTo("list")
          /\ UNCHANGED ledger
       \/ /\ "spawn" \in Faults \/ pane[new] # "open"
          /\ ledger' = copy /\ StopStart /\ pane' = pane
    /\ UNCHANGED <<files, inbox, reports, server, hub, crashes>>

(* The row becomes idle: the rows are saved a third time. *)
ListRunner ==
    /\ cmd = "list"
    /\ ledger' = copy /\ StartGoesTo("delegate")
    /\ UNCHANGED <<files, pane, inbox, reports, server, hub, crashes>>

SendDelegate ==
    /\ cmd = "delegate"
    /\ inbox' = [inbox EXCEPT ![new] = "pending"]
    /\ StopStart
    /\ UNCHANGED <<files, ledger, pane, reports, server, hub, crashes>>

-----------------------------------------------------------------------------
(* The serving process: how it begins. *)

(* It needs the execution guard, and _runner_row wants it called from the  *)
(* pane that the row of this runner names.                                 *)
MayServe(p, surface) ==
    /\ pc = "idle"
    /\ surface = "runner" /\ pane[p] = "ready"
    /\ ledger[p] # "absent"

Begin(p, h, place) == pc' = place /\ me' = p /\ how' = h /\ rows' = ledger
Leave == pc' = "idle" /\ me' = NoPipeline /\ how' = "normal" /\ rows' = NoRows
Goto(place) == pc' = place /\ UNCHANGED <<me, how, rows>>

(* Wrong on purpose: only a run whose report is published is recovered. *)
RecoverPublished(p, h, surface) ==
    /\ MayServe(p, surface)
    /\ ledger[p] = "claimed" /\ Readable /\ phase[p] \in {"published", "cleaned"}
    /\ h = "normal" /\ lock \in {p, NoPipeline}
    /\ Begin(p, h, "finish")
    /\ UNCHANGED <<files, ledger, pane, inbox, reports, starter, hub, crashes>>

(* A claimed run that is over is finished, by whoever serves it next.      *)
RecoverFinal(p, h, surface) ==
    /\ MayServe(p, surface)
    /\ ledger[p] = "claimed" /\ Readable /\ phase[p] \in Over
    /\ h = "normal" /\ lock \in {p, NoPipeline}
    /\ Begin(p, h, "finish")
    /\ UNCHANGED <<files, ledger, pane, inbox, reports, starter, hub, crashes>>

Resume(p, h, surface) ==
    /\ MayServe(p, surface)
    /\ h = "resume"
    /\ ledger[p] = "claimed" /\ Readable /\ phase[p] = "attention" /\ lock = p
    /\ Begin(p, h, "rebind")
    /\ UNCHANGED <<files, ledger, pane, inbox, reports, starter, hub, crashes>>

(* Otherwise the first delegate is claimed, unless the run asks. *)
ServeFirst(p, h, surface) ==
    /\ MayServe(p, surface)
    /\ h = "normal"
    /\ ledger[p] = "claimed" => /\ Readable /\ phase[p] \notin Over
                                /\ \A q \in Pipeline : phase[q] # "attention"
    /\ Begin(p, h, "claim")
    /\ UNCHANGED <<files, ledger, pane, inbox, reports, starter, hub, crashes>>

Serve(p, h, surface) ==
    RecoverFinal(p, h, surface) \/ Resume(p, h, surface) \/ ServeFirst(p, h, surface)

-----------------------------------------------------------------------------
(* Claiming the delegate, binding, and the claim in the session row. *)

(* _validate_initial_delegate: its run is running and its runner owns the  *)
(* lock; the sender's authentication may fail besides.                     *)
Valid == Readable /\ phase[me] = "running" /\ lock = me
MayBeRefused == ~Valid \/ "auth" \in Faults

(* An acknowledged delegate counts only for the claim that names it. *)
Candidate == \/ inbox[me] \in {"pending", "processing"}
             \/ inbox[me] = "done" /\ rows[me] = "claimed"

TakeDelegate ==
    /\ pc = "claim"
    /\ Candidate /\ Valid
    /\ inbox' = IF inbox[me] = "pending" THEN [inbox EXCEPT ![me] = "processing"] ELSE inbox
    /\ Goto("bind")
    /\ UNCHANGED <<files, ledger, pane, reports, starter, hub, crashes>>

RejectDelegate ==
    /\ pc = "claim"
    /\ inbox[me] \in {"pending", "processing"} /\ MayBeRefused
    /\ inbox' = [inbox EXCEPT ![me] = "rejected"]
    /\ UNCHANGED <<files, ledger, pane, reports, server, starter, hub, crashes>>

ClaimTimesOut ==
    /\ pc = "claim"
    /\ inbox[me] \notin {"pending", "processing"}
    /\ Candidate => MayBeRefused
    /\ Leave
    /\ UNCHANGED <<files, ledger, pane, inbox, reports, starter, hub, crashes>>

(* Wrong on purpose: the stages start before the claim is saved. *)
BindAndDrive ==
    /\ pc = "bind"
    /\ Valid
    /\ Resave /\ Goto("drive")
    /\ UNCHANGED <<lock, ledger, pane, inbox, reports, starter, hub, crashes>>

(* It is validated once more; bind_lock_runtime and bind_runner follow.    *)
Bind ==
    /\ pc = "bind"
    /\ \/ Valid /\ Resave /\ Goto("save")
       \/ MayBeRefused /\ UNCHANGED <<phase, torn>> /\ Leave
    /\ UNCHANGED <<lock, ledger, pane, inbox, reports, starter, hub, crashes>>

(* _save_claim saves the rows as they were loaded when the process began.  *)
SaveClaim ==
    /\ pc = "save"
    /\ ledger' = [rows EXCEPT ![me] = "claimed"]
    /\ Goto("ack")
    /\ UNCHANGED <<files, pane, inbox, reports, starter, hub, crashes>>

AckDelegate ==
    /\ pc = "ack"
    /\ IF inbox[me] \in {"processing", "done"}
         THEN inbox' = [inbox EXCEPT ![me] = "done"] /\ Goto("mark")
         ELSE inbox' = inbox /\ Leave
    /\ UNCHANGED <<files, ledger, pane, reports, starter, hub, crashes>>

(* _mark_initial_acknowledged loads the rows again and wants the claim. *)
MarkAcknowledged ==
    /\ pc = "mark"
    /\ IF inbox[me] = "done" /\ ledger[me] = "claimed" THEN Goto("drive") ELSE Leave
    /\ UNCHANGED <<files, ledger, pane, inbox, reports, starter, hub, crashes>>

(* --resume binds the lock and the run anew ... *)
Rebind ==
    /\ pc = "rebind"
    /\ IF lock = me /\ Readable /\ me \in Active
         THEN Resave /\ Goto("relist") ELSE UNCHANGED <<phase, torn>> /\ Leave
    /\ UNCHANGED <<lock, ledger, pane, inbox, reports, starter, hub, crashes>>

(* Wrong on purpose: the row is written without its claim. *)
RelistUnclaimed ==
    /\ pc = "relist"
    /\ ledger' = [rows EXCEPT ![me] = "listed"]
    /\ Goto("drive")
    /\ UNCHANGED <<files, pane, inbox, reports, starter, hub, crashes>>

(* ... and saves the rows as they were loaded, its own as working. *)
Relist ==
    /\ pc = "relist"
    /\ ledger' = rows
    /\ Goto("drive")
    /\ UNCHANGED <<files, pane, inbox, reports, starter, hub, crashes>>

-----------------------------------------------------------------------------
(* Driving. *)

MayDrive == pc = "drive" /\ Readable /\ lock = me

(* An answered stage is dispatched again, or its late report recorded. *)
DriverGoesOn ==
    /\ MayDrive /\ how = "resume"
    /\ phase[me] = "attention"
    /\ Save([phase EXCEPT ![me] = "running"])
    /\ UNCHANGED <<lock, ledger, pane, inbox, reports, server, starter, hub, crashes>>

(* The driver returns a run that asks; the hub is told and the process ends. *)
DriverAsks ==
    /\ MayDrive
    /\ phase[me] = "running"
    /\ Save([phase EXCEPT ![me] = "attention"])
    /\ Leave
    /\ UNCHANGED <<lock, ledger, pane, inbox, reports, starter, hub, crashes>>

DriverEnds ==
    /\ MayDrive
    /\ phase[me] = "running" \/ how = "resume"
    /\ Save([phase EXCEPT ![me] = "over"])
    /\ Goto("finish")
    /\ UNCHANGED <<lock, ledger, pane, inbox, reports, starter, hub, crashes>>

(* It changes nothing more: it returns a run that asks already, or one     *)
(* that is still running, which is an error, or it raises.                 *)
DriverStops ==
    /\ pc = "drive"
    /\ Leave
    /\ UNCHANGED <<files, ledger, pane, inbox, reports, starter, hub, crashes>>

-----------------------------------------------------------------------------
(* _finish_terminal: every step may be the last one, and is then repeated  *)
(* or skipped by the next process.                                         *)

(* Wrong on purpose: every attempt sends a message of its own. *)
SendFinalAnew ==
    /\ pc = "finish"
    /\ IF phase[me] = "over"
         THEN IF lock = me
                THEN reports' = [reports EXCEPT ![me] = @ + 1] /\ Goto("publish")
                ELSE reports' = reports /\ Leave
         ELSE reports' = reports /\ Goto("cleanup")
    /\ UNCHANGED <<files, ledger, pane, inbox, starter, hub, crashes>>

(* The final report has a fixed id: the bus delivers it again only if no   *)
(* inbox has it, in any of its places.                                     *)
SendFinal ==
    /\ pc = "finish"
    /\ IF phase[me] = "over"
         THEN IF lock = me
                THEN /\ reports' = [reports EXCEPT ![me] = IF @ = 0 THEN 1 ELSE @]
                     /\ Goto("publish")
                ELSE reports' = reports /\ Leave
         ELSE reports' = reports /\ Goto("cleanup")
    /\ UNCHANGED <<files, ledger, pane, inbox, starter, hub, crashes>>

MarkPublished ==
    /\ pc = "publish"
    /\ IF lock = me
         THEN Save([phase EXCEPT ![me] = "published"]) /\ Goto("cleanup")
         ELSE UNCHANGED <<phase, torn>> /\ Leave
    /\ UNCHANGED <<lock, ledger, pane, inbox, reports, starter, hub, crashes>>

(* Wrong on purpose: the lock goes before the intent is saved. *)
ReleaseFirst ==
    /\ pc = "cleanup"
    /\ IF lock = me
         THEN lock' = NoPipeline /\ Goto("clear")
         ELSE lock' = lock /\ Leave
    /\ UNCHANGED <<phase, torn, ledger, pane, inbox, reports, starter, hub, crashes>>

(* With the lock in hand the intent to clean up is saved; without it only  *)
(* an intent already saved lets the process go on.                         *)
MarkCleanup ==
    /\ pc = "cleanup"
    /\ IF lock = me
         THEN Save([phase EXCEPT ![me] = "cleaned"]) /\ Goto("unlock")
         ELSE /\ UNCHANGED <<phase, torn>>
              /\ IF lock = NoPipeline /\ phase[me] = "cleaned" THEN Goto("clear") ELSE Leave
    /\ UNCHANGED <<lock, ledger, pane, inbox, reports, starter, hub, crashes>>

ReleaseLock ==
    /\ pc = "unlock"
    /\ IF lock = me THEN lock' = NoPipeline /\ Goto("clear") ELSE lock' = lock /\ Leave
    /\ UNCHANGED <<phase, torn, ledger, pane, inbox, reports, starter, hub, crashes>>

(* Wrong on purpose: the row stays, as one of a closed session. *)
ClosedRow ==
    /\ pc = "clear"
    /\ ledger' = [ledger EXCEPT ![me] = "closed"]
    /\ Goto("close")
    /\ UNCHANGED <<files, pane, inbox, reports, starter, hub, crashes>>

ClearRow ==
    /\ pc = "clear"
    /\ ledger' = [ledger EXCEPT ![me] = "absent"]
    /\ Goto("close")
    /\ UNCHANGED <<files, pane, inbox, reports, starter, hub, crashes>>

(* The process closes its own pane. *)
ClosePane ==
    /\ pc = "close"
    /\ pane' = [pane EXCEPT ![me] = "closed"]
    /\ Leave
    /\ UNCHANGED <<files, ledger, inbox, reports, starter, hub, crashes>>

-----------------------------------------------------------------------------
(* pipeline-answer --resume, called in the hub's pane: the answer is saved *)
(* and then the runner is served from where the command runs.              *)
HubAnswers(p) ==
    /\ hub = NoPipeline
    /\ phase[p] = "attention" /\ Readable
    /\ Resave
    /\ hub' = p
    /\ UNCHANGED <<lock, ledger, pane, inbox, reports, server, starter, crashes>>

HubResumes ==
    /\ hub # NoPipeline
    /\ hub' = NoPipeline
    /\ IF MayServe(hub, "hub") /\ phase[hub] = "attention"
         THEN Begin(hub, "resume", "rebind") ELSE UNCHANGED server
    /\ UNCHANGED <<files, ledger, pane, inbox, reports, starter, crashes>>

-----------------------------------------------------------------------------
(* Failures. *)

MayCrash == "crash" \in Faults /\ crashes < MaxCrashes /\ crashes' = crashes + 1

ServerDies ==
    /\ pc # "idle"
    /\ MayCrash
    /\ Leave
    /\ UNCHANGED <<files, ledger, pane, inbox, reports, starter, hub>>

StarterDies ==
    /\ cmd # "idle"
    /\ MayCrash
    /\ StopStart
    /\ UNCHANGED <<files, ledger, pane, inbox, reports, server, hub>>

(* A process dies while save_state has moved the primary away and not yet  *)
(* put the new generation in its place.                                    *)
Tears(saving) ==
    /\ saving
    /\ "torn" \in Faults /\ MayCrash
    /\ \E p \in Pipeline : phase[p] # "none"
    /\ torn' = TRUE
    /\ UNCHANGED <<phase, lock, ledger, pane, inbox, reports, hub>>

ServerTears ==
    /\ Tears(\/ pc = "bind" /\ Valid
             \/ pc \in {"rebind", "drive"} /\ lock = me /\ Readable
             \/ pc = "publish" /\ lock = me
             \/ pc = "cleanup" /\ lock = me /\ phase[me] # "cleaned")
    /\ Leave
    /\ UNCHANGED starter

StarterTears ==
    /\ Tears(cmd = "create" /\ Readable /\ Active = {})
    /\ StopStart
    /\ UNCHANGED server

PaneCloses(p) ==
    /\ "pane" \in Faults
    /\ pane[p] \in {"open", "ready"}
    /\ pane' = [pane EXCEPT ![p] = "closed"]
    /\ IF me = p THEN Leave ELSE UNCHANGED server
    /\ UNCHANGED <<files, ledger, inbox, reports, starter, hub, crashes>>

-----------------------------------------------------------------------------
StarterStep ==
    \/ \E p \in Pipeline : StartRun(p)
    \/ OpenPane \/ AcquireLock \/ CreateRun \/ Launch \/ ListRunner \/ SendDelegate

ServerStep ==
    \/ TakeDelegate \/ RejectDelegate \/ ClaimTimesOut
    \/ Bind \/ SaveClaim \/ AckDelegate \/ MarkAcknowledged \/ Rebind \/ Relist
    \/ DriverGoesOn \/ DriverAsks \/ DriverEnds \/ DriverStops
    \/ SendFinal \/ MarkPublished \/ MarkCleanup \/ ReleaseLock \/ ClearRow \/ ClosePane

Next ==
    \/ StarterStep
    \/ \E p \in Pipeline, h \in {"normal", "resume"} : Serve(p, h, "runner")
    \/ ServerStep
    \/ \E p \in Pipeline : HubAnswers(p)
    \/ HubResumes \/ ListSessions
    \/ ServerDies \/ StarterDies \/ ServerTears \/ StarterTears
    \/ \E p \in Pipeline : PaneCloses(p)

Spec == Init /\ [][Next]_vars

(* A process that is not killed goes on, and the operator serves a run     *)
(* again whose runner has stopped.                                         *)
FairSpec ==
    /\ Spec
    /\ WF_vars(ServerStep)
    /\ \A p \in Pipeline : WF_vars(Serve(p, "normal", "runner"))

-----------------------------------------------------------------------------
(* Safety. *)

(* Whatever dies in between, the hub's inbox receives one final report of  *)
(* a run at most, and a run is marked published only with its report there.*)
FinalReportOnce ==
    \A p \in Pipeline :
        /\ reports[p] <= 1
        /\ reports[p] = 1 => phase[p] \in Over
        /\ phase[p] \in {"published", "cleaned"} => reports[p] = 1

(* From its creation until its cleanup is recorded a run owns the lock, so *)
(* that at most one run is under way and nobody can start another.         *)
LockGuardsRun ==
    \A p \in Pipeline : phase[p] \notin {"none", "cleaned"} => lock = p

(* Unless run-pipeline is called in between, once its driver has run, a    *)
(* run's claim stays in the session row until the cleanup or until the     *)
(* runner's pane is closed: without it nobody could deliver the report.    *)
ClaimIsDurable ==
    ~overlapped => \A p \in Pipeline :
        phase[p] \in {"attention", "over", "published"} /\ pane[p] # "closed"
            => ledger[p] = "claimed"

(* The driver runs only under the lock of an active run and for a delegate *)
(* that is acknowledged, and that its session row claims unless            *)
(* run-pipeline is called in between.                                      *)
DrivesOnlyClaimed ==
    pc = "drive" => /\ lock = me /\ inbox[me] = "done" /\ me \in Active
                    /\ ledger[me] = "claimed" \/ overlapped

(* What the proofs need besides: a delegate is sent to a created run, and  *)
(* a run that has been driven has its delegate acknowledged ...            *)
DelegateSound ==
    \A p \in Pipeline :
        /\ phase[p] = "none" => inbox[p] = "none"
        /\ phase[p] \notin {"none", "running"} => inbox[p] = "done"

(* ... run-pipeline works on a run that nobody drives, and while it is not *)
(* called during another run, on the only one ...                          *)
StarterSound ==
    cmd # "idle" =>
        /\ new \in Pipeline /\ inbox[new] = "none"
        /\ phase[new] = IF cmd \in {"pane", "lock", "create"} THEN "none" ELSE "running"
        /\ cmd = "pane" => pane[new] = "absent"
        /\ cmd = "create" => lock = new
        /\ ~overlapped => \A p \in Pipeline \ {new} : phase[p] \in {"none", "cleaned"}

(* ... and the serving process has come as far as its run and delegate.    *)
ServerSound ==
    pc # "idle" =>
        /\ me \in Pipeline /\ pane[me] = "ready"
        /\ pc \in {"bind", "save", "ack"} => inbox[me] \in {"processing", "done"}
        /\ pc \in {"mark", "rebind", "relist", "drive"} => inbox[me] = "done"
        /\ pc \in {"rebind", "relist"} => rows[me] = "claimed"
        /\ pc \in {"save", "ack", "mark", "relist", "drive"} => me \in Active
        /\ pc = "finish" => phase[me] \in Over
        /\ pc = "publish" => phase[me] = "over" /\ reports[me] = 1
        /\ pc = "cleanup" => phase[me] \in {"published", "cleaned"}
        /\ pc \in {"unlock", "clear", "close"} => phase[me] = "cleaned"

(* The inductive invariant of RunnerService_proofs. *)
ServiceInductive ==
    /\ TypeOK /\ FinalReportOnce /\ LockGuardsRun /\ ClaimIsDurable /\ DrivesOnlyClaimed
    /\ DelegateSound /\ StarterSound /\ ServerSound

(* pipeline-answer --resume, having saved the answer, resumes the runner.  *)
AnswerResumes == [][hub # NoPipeline /\ hub' = NoPipeline => me' = hub]_vars

(* Liveness: a run that is over delivers its final report and gives the    *)
(* lock back, whatever process died on the way, unless its pane is closed  *)
(* or run-pipeline is called in between.                                   *)
FinalIsDelivered ==
    \A p \in Pipeline :
        phase[p] = "over" ~> \/ reports[p] = 1 /\ lock # p
                             \/ pane[p] = "closed"
                             \/ overlapped
=============================================================================
