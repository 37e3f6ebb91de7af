------------------------- MODULE RunnerService_proofs -------------------------
(***************************************************************************)
(* Proofs, for any number of runs and crashes and every set of failures,   *)
(* that a run delivers one final report at most, keeps the lock until its  *)
(* cleanup is recorded, is driven only for an acknowledged delegate and,   *)
(* unless run-pipeline is called in between, keeps the claim in its row.   *)
(***************************************************************************)
EXTENDS RunnerService, TLAPS

(* The initial state satisfies the inductive invariant. *)
LEMMA InitSound == Init => ServiceInductive
<1> SUFFICES ASSUME Init PROVE ServiceInductive
  OBVIOUS
<1> USE ServiceAssumption DEF Init, NoRows
<1>1. TypeOK
  BY DEF TypeOK, Ledger, Row, Phase
<1>2. FinalReportOnce /\ LockGuardsRun /\ ClaimIsDurable /\ DelegateSound
  BY DEF FinalReportOnce, LockGuardsRun, ClaimIsDurable, DelegateSound, Over
<1>3. DrivesOnlyClaimed /\ StarterSound /\ ServerSound
  BY DEF DrivesOnlyClaimed, StarterSound, ServerSound
<1> QED
  BY <1>1, <1>2, <1>3 DEF ServiceInductive

(* What a completed save_state leaves behind. *)
LEMMA Saved == ASSUME NEW f, Save(f) PROVE phase' = f /\ torn' \in BOOLEAN
  BY Zenon DEF Save

(* The run-pipeline command creates a run under the lock it has taken, and *)
(* writes over a claim only if it overlaps with the run.                   *)
LEMMA StarterSteps == ServiceInductive /\ StarterStep => ServiceInductive'
<1> SUFFICES ASSUME ServiceInductive, StarterStep PROVE ServiceInductive'
  OBVIOUS
<1> USE ServiceAssumption DEF ServiceInductive, TypeOK, FinalReportOnce, LockGuardsRun,
     ClaimIsDurable, DrivesOnlyClaimed, DelegateSound, StarterSound, ServerSound,
     Phase, Over, Active, files, server, starter, StopStart, StartGoesTo
<1>1. ASSUME NEW p \in Pipeline, StartRun(p) PROVE ServiceInductive'
  <2>1. overlapped' \in BOOLEAN /\ (~overlapped' => lock = NoPipeline /\ pc = "idle")
    BY <1>1, Saved, Zenon DEF StartRun
  <2> QED
    BY <1>1, <2>1 DEF StartRun, Reconciled, Ledger, Row
<1>2. CASE OpenPane
  BY <1>2 DEF OpenPane, NoRows, Ledger, Row
<1>3. CASE AcquireLock
  BY <1>3 DEF AcquireLock, NoRows, Ledger, Row
<1>4. CASE CreateRun
  <2>1. /\ torn' \in BOOLEAN
        /\ \/ phase' = [phase EXCEPT ![new] = "running"] /\ StartGoesTo("launch")
           \/ phase' = phase /\ StopStart
    BY <1>4, Saved, Zenon DEF CreateRun, TypeOK, ServiceInductive
  <2> QED
    BY <1>4, <2>1 DEF CreateRun, NoRows, Ledger, Row
<1>5. CASE Launch
  BY <1>5 DEF Launch, NoRows, Ledger, Row
<1>6. CASE ListRunner
  BY <1>6 DEF ListRunner
<1>7. CASE SendDelegate
  BY <1>7 DEF SendDelegate, NoRows, Ledger, Row
<1> QED
  BY <1>1, <1>2, <1>3, <1>4, <1>5, <1>6, <1>7 DEF StarterStep

(* A process begins to serve a run with the rows as they are. *)
LEMMA ServeSteps == ServiceInductive /\ (\E p \in Pipeline, h \in {"normal", "resume"} : Serve(p, h, "runner")) => ServiceInductive'
<1> SUFFICES ASSUME ServiceInductive, (\E p \in Pipeline, h \in {"normal", "resume"} : Serve(p, h, "runner")) PROVE ServiceInductive'
  OBVIOUS
<1> USE ServiceAssumption DEF ServiceInductive, TypeOK, FinalReportOnce, LockGuardsRun,
     ClaimIsDurable, DrivesOnlyClaimed, DelegateSound, StarterSound, ServerSound,
     Phase, Over, Active, files, server, starter, MayServe, Begin
<1>1. ASSUME NEW p \in Pipeline, NEW h \in {"normal", "resume"}, RecoverFinal(p, h, "runner") PROVE ServiceInductive'
  BY <1>1 DEF RecoverFinal
<1>2. ASSUME NEW p \in Pipeline, NEW h \in {"normal", "resume"}, Resume(p, h, "runner") PROVE ServiceInductive'
  BY <1>2 DEF Resume
<1>3. ASSUME NEW p \in Pipeline, NEW h \in {"normal", "resume"}, ServeFirst(p, h, "runner") PROVE ServiceInductive'
  BY <1>3 DEF ServeFirst
<1> QED
  BY <1>1, <1>2, <1>3 DEF Serve

(* Claiming and binding: the stages start once the claim is saved. *)
LEMMA ClaimSteps == ServiceInductive /\ (\/ TakeDelegate \/ RejectDelegate \/ ClaimTimesOut \/ Bind \/ SaveClaim
     \/ AckDelegate \/ MarkAcknowledged \/ Rebind \/ Relist) => ServiceInductive'
<1> SUFFICES ASSUME ServiceInductive, (\/ TakeDelegate \/ RejectDelegate \/ ClaimTimesOut \/ Bind \/ SaveClaim
     \/ AckDelegate \/ MarkAcknowledged \/ Rebind \/ Relist) PROVE ServiceInductive'
  OBVIOUS
<1> USE ServiceAssumption DEF ServiceInductive, TypeOK, FinalReportOnce, LockGuardsRun,
     ClaimIsDurable, DrivesOnlyClaimed, DelegateSound, StarterSound, ServerSound,
     Phase, Over, Active, files, server, starter, Goto, Leave
<1>1. CASE TakeDelegate
  BY <1>1 DEF TakeDelegate, Candidate, Valid
<1>2. CASE RejectDelegate
  BY <1>2 DEF RejectDelegate
<1>3. CASE ClaimTimesOut
  BY <1>3 DEF ClaimTimesOut, NoRows, Ledger, Row
<1>4. CASE Bind
  BY <1>4, Saved DEF Bind, Valid, Resave, NoRows, Ledger, Row
<1>5. CASE SaveClaim
  BY <1>5 DEF SaveClaim, Ledger, Row
<1>6. CASE AckDelegate
  BY <1>6 DEF AckDelegate, NoRows, Ledger, Row
<1>7. CASE MarkAcknowledged
  BY <1>7 DEF MarkAcknowledged, NoRows, Ledger, Row
<1>8. CASE Rebind
  BY <1>8, Saved DEF Rebind, Resave, NoRows, Ledger, Row
<1>9. CASE Relist
  BY <1>9 DEF Relist
<1> QED
  BY <1>1, <1>2, <1>3, <1>4, <1>5, <1>6, <1>7, <1>8, <1>9 DEF Goto

(* Driving changes the run under its lock. *)
LEMMA DriveSteps == ServiceInductive /\ (DriverGoesOn \/ DriverAsks \/ DriverEnds \/ DriverStops) => ServiceInductive'
<1> SUFFICES ASSUME ServiceInductive, (DriverGoesOn \/ DriverAsks \/ DriverEnds \/ DriverStops) PROVE ServiceInductive'
  OBVIOUS
<1> USE ServiceAssumption DEF ServiceInductive, TypeOK, FinalReportOnce, LockGuardsRun,
     ClaimIsDurable, DrivesOnlyClaimed, DelegateSound, StarterSound, ServerSound,
     Phase, Over, Active, files, server, starter, Goto, Leave
<1>1. CASE DriverGoesOn
  <2>1. phase' = [phase EXCEPT ![me] = "running"] /\ torn' \in BOOLEAN
    BY <1>1, Saved, Zenon DEF DriverGoesOn
  <2> QED
    BY <1>1, <2>1 DEF DriverGoesOn, MayDrive
<1>2. CASE DriverAsks
  <2>1. phase' = [phase EXCEPT ![me] = "attention"] /\ torn' \in BOOLEAN
    BY <1>2, Saved, Zenon DEF DriverAsks
  <2> QED
    BY <1>2, <2>1 DEF DriverAsks, MayDrive, NoRows, Ledger, Row
<1>3. CASE DriverEnds
  <2>1. phase' = [phase EXCEPT ![me] = "over"] /\ torn' \in BOOLEAN
    BY <1>3, Saved, Zenon DEF DriverEnds
  <2> QED
    BY <1>3, <2>1 DEF DriverEnds, MayDrive
<1>4. CASE DriverStops
  BY <1>4 DEF DriverStops, NoRows, Ledger, Row
<1> QED
  BY <1>1, <1>2, <1>3, <1>4 DEF Goto

(* Delivery: the report, the marks, the lock and the row, in this order. *)
LEMMA FinishSteps == ServiceInductive /\ (\/ SendFinal \/ MarkPublished \/ MarkCleanup
     \/ ReleaseLock \/ ClearRow \/ ClosePane) => ServiceInductive'
<1> SUFFICES ASSUME ServiceInductive, (\/ SendFinal \/ MarkPublished \/ MarkCleanup
     \/ ReleaseLock \/ ClearRow \/ ClosePane) PROVE ServiceInductive'
  OBVIOUS
<1> USE ServiceAssumption DEF ServiceInductive, TypeOK, FinalReportOnce, LockGuardsRun,
     ClaimIsDurable, DrivesOnlyClaimed, DelegateSound, StarterSound, ServerSound,
     Phase, Over, Active, files, server, starter, Goto, Leave
<1>1. CASE SendFinal
  BY <1>1 DEF SendFinal, NoRows, Ledger, Row
<1>2. CASE MarkPublished
  <2>1. lock = me => phase' = [phase EXCEPT ![me] = "published"] /\ torn' \in BOOLEAN
    BY <1>2, Saved, Zenon DEF MarkPublished
  <2> QED
    BY <1>2, <2>1 DEF MarkPublished, NoRows, Ledger, Row
<1>3. CASE MarkCleanup
  <2>1. lock = me => phase' = [phase EXCEPT ![me] = "cleaned"] /\ torn' \in BOOLEAN
    BY <1>3, Saved, Zenon DEF MarkCleanup
  <2> QED
    BY <1>3, <2>1 DEF MarkCleanup, NoRows, Ledger, Row
<1>4. CASE ReleaseLock
  BY <1>4 DEF ReleaseLock, NoRows, Ledger, Row
<1>5. CASE ClearRow
  BY <1>5 DEF ClearRow, Ledger, Row
<1>6. CASE ClosePane
  BY <1>6 DEF ClosePane, NoRows, Ledger, Row
<1> QED
  BY <1>1, <1>2, <1>3, <1>4, <1>5, <1>6 DEF Goto

(* The hub and the failures change no run. *)
LEMMA OtherSteps == ServiceInductive /\ (\/ \E p \in Pipeline : HubAnswers(p) \/ PaneCloses(p)
     \/ HubResumes \/ ListSessions \/ ServerDies \/ StarterDies \/ ServerTears \/ StarterTears) => ServiceInductive'
<1> SUFFICES ASSUME ServiceInductive, (\/ \E p \in Pipeline : HubAnswers(p) \/ PaneCloses(p)
     \/ HubResumes \/ ListSessions \/ ServerDies \/ StarterDies \/ ServerTears \/ StarterTears) PROVE ServiceInductive'
  OBVIOUS
<1> USE ServiceAssumption DEF ServiceInductive, TypeOK, FinalReportOnce, LockGuardsRun,
     ClaimIsDurable, DrivesOnlyClaimed, DelegateSound, StarterSound, ServerSound,
     Phase, Over, Active, files, server, starter, Leave, StopStart
<1>1. ASSUME NEW p \in Pipeline, HubAnswers(p) PROVE ServiceInductive'
  BY <1>1, Saved DEF HubAnswers, Resave
<1>2. ASSUME NEW p \in Pipeline, PaneCloses(p) PROVE ServiceInductive'
  BY <1>2 DEF PaneCloses, NoRows, Ledger, Row
<1>3. CASE HubResumes
  BY <1>3 DEF HubResumes, MayServe
<1>4. CASE ListSessions
  BY <1>4 DEF ListSessions, Reconciled, Ledger, Row
<1>5. CASE ServerDies
  BY <1>5 DEF ServerDies, MayCrash, NoRows, Ledger, Row
<1>6. CASE StarterDies
  BY <1>6 DEF StarterDies, MayCrash, NoRows, Ledger, Row
<1>7. CASE ServerTears
  BY <1>7 DEF ServerTears, Tears, MayCrash, NoRows, Ledger, Row
<1>8. CASE StarterTears
  BY <1>8 DEF StarterTears, Tears, MayCrash, NoRows, Ledger, Row
<1> QED
  BY <1>1, <1>2, <1>3, <1>4, <1>5, <1>6, <1>7, <1>8 DEF files

(* Every step of anybody keeps the inductive invariant. *)
LEMMA StepSound == ServiceInductive /\ [Next]_vars => ServiceInductive'
<1> SUFFICES ASSUME ServiceInductive, [Next]_vars PROVE ServiceInductive'
  OBVIOUS
<1>1. CASE UNCHANGED vars
  BY <1>1 DEF ServiceInductive, TypeOK, FinalReportOnce, LockGuardsRun, ClaimIsDurable,
     DrivesOnlyClaimed, DelegateSound, StarterSound, ServerSound, Active,
     vars, files, server, starter
<1>2. CASE Next
  BY <1>2, StarterSteps, ServeSteps, ClaimSteps, DriveSteps, FinishSteps, OtherSteps
     DEF Next, ServerStep
<1> QED
  BY <1>1, <1>2

(* For any number of runs and crashes and every set of failures, the       *)
(* inductive invariant of the service holds.                               *)
THEOREM ServiceInvariant == Spec => []ServiceInductive
  BY InitSound, StepSound, PTL DEF Spec

(* The variables keep their types. *)
THEOREM ServiceTypeCorrect == Spec => []TypeOK
<1>1. ServiceInductive => TypeOK
  BY DEF ServiceInductive
<1> QED
  BY <1>1, ServiceInvariant, PTL

(* The hub receives one final report of a run at most, whatever dies       *)
(* between sending it, marking it and cleaning up.                         *)
THEOREM OneFinalReport == Spec => []FinalReportOnce
<1>1. ServiceInductive => FinalReportOnce
  BY DEF ServiceInductive
<1> QED
  BY <1>1, ServiceInvariant, PTL

(* A run owns the lock from its creation until its cleanup is recorded, so *)
(* no two runs are ever under way, even if run-pipeline is called again.   *)
THEOREM OneRunUnderWay ==
    Spec => [](LockGuardsRun /\ \A p, q \in Active : p = q)
<1>1. ServiceInductive => LockGuardsRun /\ \A p, q \in Active : p = q
  BY DEF ServiceInductive, LockGuardsRun, Active
<1> QED
  BY <1>1, ServiceInvariant, PTL

(* The driver runs only for a delegate that is acknowledged and, unless    *)
(* run-pipeline is called in between, claimed (serve_once).                *)
THEOREM ClaimGuardsDriving == Spec => []DrivesOnlyClaimed
<1>1. ServiceInductive => DrivesOnlyClaimed
  BY DEF ServiceInductive
<1> QED
  BY <1>1, ServiceInvariant, PTL

(* The claim stays in the session row until the cleanup, whatever dies in  *)
(* between (claim_delegate, cleanup).                                      *)
THEOREM ClaimStays == Spec => []ClaimIsDurable
<1>1. ServiceInductive => ClaimIsDurable
  BY DEF ServiceInductive
<1> QED
  BY <1>1, ServiceInvariant, PTL
=============================================================================
