------------------------------- MODULE FileBus -------------------------------
(***************************************************************************)
(* The file bus (bus.py) and the two lifecycle loops that deliver from it: *)
(* the hub's pane takes reports and asks and acknowledges them             *)
(* (hub_delivery.py), a specialist's pane takes delegates and replies      *)
(* (specialist_delivery.py), and a pipeline runner waits for the report of *)
(* its stage.  A message is a file that is renamed from pending to         *)
(* processing to done; senders and readers are processes that interleave   *)
(* between any two file operations and may die there.                      *)
(*                                                                         *)
(* Simplifications.  A payload is left out: it is a function of the        *)
(* message, so a replay never conflicts with what it replays.  Of a        *)
(* session row only its taskId is kept, and a load and save of the ledger  *)
(* with nothing in between is one step.  Readers take the oldest file, but *)
(* times are left out: any file of a directory may be the oldest.  The     *)
(* outbox copy of a message without a stable id is never read again and is *)
(* left out.                                                               *)
(***************************************************************************)
EXTENDS Naturals, FiniteSets

CONSTANTS
    Msg,         \* messages
    Envelope,    \* Envelope[m]: from, to, type, task, keyed (--message-id), auth (--require-caller)
    Hub,         \* the instance called orchestrator
    Runners,     \* instances whose role is pipeline-runner
    Specialist,  \* instances whose panes take delegates
    StageTasks,  \* tasks of the stages of the active run
    Ticks,       \* ticks of one pane that may overlap
    NoTask,
    NoFile,
    Faults,      \* the failures that may happen (FaultKinds)
    MaxTries     \* bound: attempts to send one message

(* crash: a sender dies; caller: the sender's pane does not authenticate;  *)
(* lost: a pending file disappears; follow: sendUserMessage throws; pane:  *)
(* the hub or a specialist is restarted.                                   *)
FaultKinds == {"crash", "caller", "lost", "follow", "pane"}

Dirs == {"pending", "processing", "done"}
File == [msg: Msg, dir: Dirs]

ASSUME BusAssumption ==
    /\ \A m \in Msg : /\ Envelope[m].keyed \in BOOLEAN
                      /\ Envelope[m].auth \in BOOLEAN
                      /\ Envelope[m].task # NoTask
    /\ NoFile \notin File /\ NoFile \notin Msg
    /\ Faults \subseteq FaultKinds
    /\ MaxTries \in Nat \ {0}

VARIABLES
    files,    \* the message files of the inboxes: msg, dir
    outbox,   \* outbox[m]: the copy of m there, "none", "torn" or "whole"
    sender,   \* sender[m]: the process that sends m
    owned,    \* stage tasks of the active run
    row,      \* row[s]: the taskId of the session row of s
    hub,      \* the delivery loop of the hub's pane: where it is, and with which file
    runner,   \* the same of a runner that waits for its stage
    cli,      \* the file somebody took with bus recv or bus wait
    last,     \* last[s]: lastSpecialistDeliveryPath of the pane of s
    tick,     \* tick[s][t]: a specialistTick of that pane
    shown,    \* history: messages a reader has been shown
    lost      \* history: messages whose file disappeared

disk == <<files, outbox>>
readers == <<hub, runner, cli, last, tick>>
others == <<sender, owned, row, lost>>
vars == <<disk, others, readers, shown>>

Copies(m) == {f \in files : f.msg = m}
Dir(name, d) == {f \in files : Envelope[f.msg].to = name /\ f.dir = d}
Renamed(f, d) == (files \ {f}) \cup {[f EXCEPT !.dir = d]}

---------------------------------------------------------------------------
(* bus send.                                                               *)

At(m, p) == sender[m].pc = p
Goto(m, p) == sender' = [sender EXCEPT ![m].pc = p]
Sending(m) == sender[m].pc \notin {"idle", "sent", "failed"}

(* The hub is at one end, or an authenticated pipeline runner sends; a     *)
(* send that is denied changes nothing.                                    *)
AclAllows(m) ==
    \/ Hub \in {Envelope[m].from, Envelope[m].to}
    \/ Envelope[m].auth /\ Envelope[m].from \in Runners

FirstStep(m) ==
    {IF Envelope[m].keyed THEN "pending" ELSE "put"}
        \cup (IF Envelope[m].auth /\ "caller" \in Faults THEN {"failed"} ELSE {})

(* delegate writes the task to the ledger before it calls the bus. *)
Routed(m) ==
    IF Envelope[m].type = "delegate" /\ sender[m].tries = 0
    THEN [row EXCEPT ![Envelope[m].to] = Envelope[m].task]
    ELSE row

(* A specialist reports on the task its row names. *)
HasCause(m) ==
    Envelope[m].from \in Specialist => row[Envelope[m].from] = Envelope[m].task

(* Wrong on purpose: retries are not counted. *)
MaySendForEver(m) == At(m, "idle") \/ (Envelope[m].keyed /\ At(m, "failed"))

(* Only a message with a stable id can be sent again. *)
MaySend(m) ==
    \/ At(m, "idle")
    \/ Envelope[m].keyed /\ sender[m].pc = "failed" /\ sender[m].tries < MaxTries

Send(m) ==
    /\ MaySend(m) /\ HasCause(m) /\ AclAllows(m)
    /\ \E p \in FirstStep(m) :
        sender' = [sender EXCEPT ![m] = [pc |-> p, seen |-> {}, tries |-> @.tries + 1]]
    /\ row' = Routed(m)
    /\ UNCHANGED <<disk, owned, readers, shown, lost>>

(* Wrong on purpose: finished messages are not looked at. *)
AfterScanLive == [pending |-> "processing", processing |-> "outbox", done |-> "outbox"]

AfterScan == [pending |-> "processing", processing |-> "done", done |-> "outbox"]

(* _message_locations looks through the directories one after the other.   *)
Scan(m) ==
    /\ sender[m].pc \in Dirs
    /\ sender' = [sender EXCEPT ![m].pc = AfterScan[@],
                                ![m].seen = @ \cup {f \in Copies(m) : f.dir = sender[m].pc}]
    /\ UNCHANGED <<disk, owned, row, readers, shown, lost>>

(* Wrong on purpose: a new message is logged instead of put. *)
ReplayLogs(m) ==
    /\ At(m, "outbox")
    /\ Goto(m, IF sender[m].seen = {} THEN "log" ELSE "sent")
    /\ UNCHANGED <<disk, owned, row, readers, shown, lost>>

(* A copy that has moved since, or that reads badly, ends the command; a   *)
(* message found nowhere is new; one found only in the outbox is put back. *)
Replay(m) ==
    /\ At(m, "outbox")
    /\ LET seen == sender[m].seen
       IN  Goto(m, IF seen \cap files # seen \/ outbox[m] = "torn" THEN "failed"
                   ELSE IF seen = {} THEN "put"
                   ELSE IF outbox[m] = "none" THEN "log" ELSE "sent")
    /\ UNCHANGED <<disk, owned, row, readers, shown, lost>>

(* _write_pending_envelope: a temporary file is renamed into place.        *)
Put(m) ==
    /\ At(m, "put")
    /\ files' = files \cup {[msg |-> m, dir |-> "pending"]}
    /\ Goto(m, IF Envelope[m].keyed /\ outbox[m] = "none" THEN "log" ELSE "sent")
    /\ UNCHANGED <<outbox, owned, row, readers, shown, lost>>

(* The copy in the outbox is written in place: begun, it reads badly.      *)
Log(m) ==
    /\ \/ At(m, "log") /\ outbox' = [outbox EXCEPT ![m] = "torn"] /\ Goto(m, "logging")
       \/ At(m, "logging") /\ outbox' = [outbox EXCEPT ![m] = "whole"] /\ Goto(m, "sent")
    /\ UNCHANGED <<files, owned, row, readers, shown, lost>>

SenderDies(m) ==
    /\ "crash" \in Faults
    /\ Sending(m)
    /\ Goto(m, "failed")
    /\ UNCHANGED <<disk, owned, row, readers, shown, lost>>

---------------------------------------------------------------------------
(* The hub's pane (drainHubQueue): claim-delivery looks for the oldest     *)
(* pending report or ask that no active stage owns, renames it, shows it   *)
(* to the model and calls ack-delivery.                                    *)

IsStageReport(m) == Envelope[m].type = "report" /\ Envelope[m].task \in owned

(* Wrong on purpose: reports of stages never go to the hub, even when the  *)
(* run is over.                                                            *)
ForHubByName(f) == Envelope[f.msg].type \in {"report", "ask"} /\ Envelope[f.msg].task \notin StageTasks

ForHub(f) == Envelope[f.msg].type \in {"report", "ask"} /\ ~IsStageReport(f.msg)

Idle == [pc |-> "idle", file |-> NoFile]

HubLooks ==
    /\ hub.pc = "idle"
    /\ \E f \in {g \in Dir(Hub, "pending") : ForHub(g)} :
        hub' = [pc |-> "claim", file |-> f]
    /\ UNCHANGED <<disk, others, runner, cli, last, tick, shown>>

(* Wrong on purpose: the file is copied, not renamed. *)
HubCopies ==
    /\ hub.pc = "claim"
    /\ files' = Renamed(hub.file, "processing")
    /\ hub' = [pc |-> "show", file |-> [hub.file EXCEPT !.dir = "processing"]]
    /\ UNCHANGED <<outbox, others, runner, cli, last, tick, shown>>

(* Wrong on purpose: the row is cleared before the report is shown. *)
HubClaimsAndClears ==
    /\ hub.pc = "claim" /\ hub.file \in files
    /\ files' = Renamed(hub.file, "processing")
    /\ hub' = [pc |-> "show", file |-> [hub.file EXCEPT !.dir = "processing"]]
    /\ row' = [s \in Specialist |-> IF s = Envelope[hub.file.msg].from THEN NoTask ELSE row[s]]
    /\ UNCHANGED <<outbox, sender, owned, lost, runner, cli, last, tick, shown>>

(* Another reader may have been faster: then the rename fails and so does  *)
(* the command.                                                            *)
HubClaims ==
    /\ hub.pc = "claim"
    /\ IF hub.file \in files
       THEN /\ files' = Renamed(hub.file, "processing")
            /\ hub' = [pc |-> "show", file |-> [hub.file EXCEPT !.dir = "processing"]]
       ELSE hub' = Idle /\ UNCHANGED files
    /\ UNCHANGED <<outbox, others, runner, cli, last, tick, shown>>

(* When sendUserMessage throws, the file is left in processing. *)
HubShows ==
    /\ hub.pc = "show"
    /\ \/ hub' = [hub EXCEPT !.pc = "ack"] /\ shown' = shown \cup {hub.file.msg}
       \/ "follow" \in Faults /\ hub' = Idle /\ UNCHANGED shown
    /\ UNCHANGED <<disk, others, runner, cli, last, tick>>

HubAcks ==
    /\ hub.pc = "ack"
    /\ files' = Renamed(hub.file, "done")
    /\ hub' = [hub EXCEPT !.pc = "clear"]
    /\ UNCHANGED <<outbox, others, runner, cli, last, tick, shown>>

(* ack_delivery clears the row of the sender if it still has that task. *)
Cleared(m) ==
    LET s == Envelope[m].from
    IN  IF s \in Specialist /\ Envelope[m].type = "report" /\ row[s] = Envelope[m].task
        THEN [row EXCEPT ![s] = NoTask] ELSE row

HubClears ==
    /\ hub.pc = "clear"
    /\ row' = Cleared(hub.file.msg)
    /\ hub' = Idle
    /\ UNCHANGED <<disk, sender, owned, lost, runner, cli, last, tick, shown>>

HubRestarts ==
    /\ "pane" \in Faults
    /\ hub # Idle
    /\ hub' = Idle
    /\ UNCHANGED <<disk, others, runner, cli, last, tick, shown>>

---------------------------------------------------------------------------
(* bus recv, wait and done.                                                *)

(* bus wait of a runner: a report of its stage task. *)
RunnerFinds ==
    /\ runner.pc = "idle"
    /\ \E f \in {g \in Dir(Hub, "pending") : IsStageReport(g.msg)} :
        runner' = [pc |-> "claim", file |-> f]
    /\ UNCHANGED <<disk, others, hub, cli, last, tick, shown>>

RunnerClaims ==
    /\ runner.pc = "claim"
    /\ IF runner.file \in files
       THEN /\ files' = Renamed(runner.file, "processing")
            /\ runner' = [pc |-> "ack", file |-> [runner.file EXCEPT !.dir = "processing"]]
            /\ shown' = shown \cup {runner.file.msg}
       ELSE runner' = Idle /\ UNCHANGED <<files, shown>>
    /\ UNCHANGED <<outbox, others, hub, cli, last, tick>>

(* The report is acknowledged with bus done once the result is saved. *)
RunnerAcks ==
    /\ runner.pc = "ack"
    /\ files' = Renamed(runner.file, "done")
    /\ runner' = Idle
    /\ UNCHANGED <<outbox, others, hub, cli, last, tick, shown>>

(* bus recv takes the oldest message whatever it is; bus wait takes the    *)
(* messages of one task, an ask before a report.  Progress notes, which    *)
(* bus wait may finish by itself, are left out.                            *)
ForWaiter(task) ==
    LET matched(types) == {f \in Dir(Hub, "pending") :
                             Envelope[f.msg].task = task /\ Envelope[f.msg].type \in types}
    IN  IF matched({"ask"}) # {} THEN matched({"ask"}) ELSE matched({"report", "reply"})

CliTakes ==
    /\ cli = NoFile
    /\ \E f \in Dir(Hub, "pending")
              \cup UNION {ForWaiter(Envelope[m].task) : m \in Msg} :
        /\ files' = Renamed(f, "processing")
        /\ cli' = [f EXCEPT !.dir = "processing"]
        /\ shown' = shown \cup {f.msg}
    /\ UNCHANGED <<outbox, others, hub, runner, last, tick>>

(* bus done. *)
CliDone ==
    /\ cli # NoFile
    /\ files' = Renamed(cli, "done")
    /\ cli' = NoFile
    /\ UNCHANGED <<outbox, others, hub, runner, last, tick, shown>>

---------------------------------------------------------------------------
(* A specialist's pane: every tick calls claim-specialist, which offers    *)
(* what is in processing again before it takes anything new.               *)

InHand(s) == {f \in Dir(s, "processing") : Envelope[f.msg].type \in {"delegate", "reply"}}
Waiting(s) == {f \in Dir(s, "pending") : Envelope[f.msg].type \in {"delegate", "reply"}}

(* Wrong on purpose: what is in processing blocks, but is not offered. *)
TickLooksAhead(s, t) ==
    /\ tick[s][t].pc = "idle" /\ InHand(s) = {}
    /\ \E f \in Waiting(s) : tick' = [tick EXCEPT ![s][t] = [pc |-> "claim", file |-> f]]
    /\ UNCHANGED <<disk, others, hub, runner, cli, last, shown>>

TickLooks(s, t) ==
    /\ tick[s][t].pc = "idle"
    /\ \/ \E f \in InHand(s) :
            /\ last[s] # f.msg
            /\ tick' = [tick EXCEPT ![s][t] = [pc |-> "show", file |-> f]]
       \/ /\ InHand(s) = {}
          /\ \E f \in Waiting(s) :
               tick' = [tick EXCEPT ![s][t] = [pc |-> "claim", file |-> f]]
    /\ UNCHANGED <<disk, others, hub, runner, cli, last, shown>>

TickClaims(s, t) ==
    /\ tick[s][t].pc = "claim"
    /\ LET f == tick[s][t].file
       IN  IF f \in files
           THEN /\ files' = Renamed(f, "processing")
                /\ tick' = [tick EXCEPT ![s][t] = [pc |-> "show", file |-> [f EXCEPT !.dir = "processing"]]]
           ELSE tick' = [tick EXCEPT ![s][t] = Idle] /\ UNCHANGED files
    /\ UNCHANGED <<outbox, others, hub, runner, cli, last, shown>>

(* The path is remembered before sendUserMessage is called, which may throw. *)
TickShows(s, t) ==
    /\ tick[s][t].pc = "show"
    /\ LET m == tick[s][t].file.msg
       IN  /\ last' = [last EXCEPT ![s] = m]
           /\ \/ shown' = shown \cup {m}
              \/ "follow" \in Faults /\ m \notin shown /\ UNCHANGED shown
    /\ tick' = [tick EXCEPT ![s][t] = Idle]
    /\ UNCHANGED <<disk, others, hub, runner, cli>>

SpecialistRestarts(s) ==
    /\ "pane" \in Faults
    /\ last[s] # NoFile \/ \E t \in Ticks : tick[s][t] # Idle
    /\ last' = [last EXCEPT ![s] = NoFile]
    /\ tick' = [tick EXCEPT ![s] = [t \in Ticks |-> Idle]]
    /\ UNCHANGED <<disk, others, hub, runner, cli, shown>>

---------------------------------------------------------------------------
(* The surroundings.                                                       *)

RunEnds ==
    /\ owned # {}
    /\ owned' = {}
    /\ UNCHANGED <<disk, sender, row, lost, readers, shown>>

PendingIsLost(f) ==
    /\ "lost" \in Faults
    /\ f.dir = "pending"
    /\ files' = files \ {f}
    /\ lost' = lost \cup {f.msg}
    /\ UNCHANGED <<outbox, sender, owned, row, readers, shown>>

---------------------------------------------------------------------------
Init ==
    /\ files = {}
    /\ outbox = [m \in Msg |-> "none"]
    /\ sender = [m \in Msg |-> [pc |-> "idle", seen |-> {}, tries |-> 0]]
    /\ owned = StageTasks
    /\ row = [s \in Specialist |-> NoTask]
    /\ hub = Idle /\ runner = Idle /\ cli = NoFile
    /\ last = [s \in Specialist |-> NoFile]
    /\ tick = [s \in Specialist |-> [t \in Ticks |-> Idle]]
    /\ shown = {}
    /\ lost = {}

SenderStep(m) == Send(m) \/ Scan(m) \/ Replay(m) \/ Put(m) \/ Log(m)
HubStep == HubLooks \/ HubClaims \/ HubShows \/ HubAcks \/ HubClears
RunnerStep == RunnerFinds \/ RunnerClaims \/ RunnerAcks
TickStep(s, t) == TickLooks(s, t) \/ TickClaims(s, t) \/ TickShows(s, t)

Next ==
    \/ \E m \in Msg : SenderStep(m) \/ SenderDies(m)
    \/ HubStep \/ HubRestarts
    \/ RunnerStep
    \/ CliTakes \/ CliDone
    \/ \E s \in Specialist : SpecialistRestarts(s) \/ \E t \in Ticks : TickStep(s, t)
    \/ RunEnds
    \/ \E f \in files : PendingIsLost(f)

Spec == Init /\ [][Next]_vars

(* The loops of the panes are timers that never stop while the pane lives; *)
(* a runner polls until it finds its report.  A pane is not for ever       *)
(* restarted just before it claims or shows something.                     *)
FairSpec ==
    /\ Spec
    /\ WF_vars(HubStep) /\ SF_vars(HubClaims)
    /\ WF_vars(RunnerStep)
    /\ \A s \in Specialist, t \in Ticks : WF_vars(TickStep(s, t)) /\ SF_vars(TickShows(s, t))

---------------------------------------------------------------------------
Reader == [pc: {"idle", "claim", "show", "ack", "clear"}, file: File \cup {NoFile}]

TypeOK ==
    /\ files \subseteq File
    /\ outbox \in [Msg -> {"none", "torn", "whole"}]
    /\ sender \in [Msg -> [pc: Dirs \cup {"idle", "outbox", "put", "log", "logging", "sent", "failed"},
                           seen: SUBSET File, tries: 0 .. MaxTries]]
    /\ owned \in {{}, StageTasks}
    /\ row \in [Specialist -> {NoTask} \cup {Envelope[m].task : m \in Msg}]
    /\ hub \in Reader /\ runner \in Reader /\ cli \in File \cup {NoFile}
    /\ last \in [Specialist -> Msg \cup {NoFile}]
    /\ tick \in [Specialist -> [Ticks -> Reader]]
    /\ shown \subseteq Msg /\ lost \subseteq Msg

---------------------------------------------------------------------------
(* A message with a stable id keeps the promise of Mailbox: however often  *)
(* it is sent again, and whatever readers do between two steps of the      *)
(* search for earlier copies, it is put into the inbox once, and one that  *)
(* was taken never comes back (cmd_send, _message_locations).              *)
Stable == {m \in Msg : Envelope[m].keyed}

Mail ==
    [m \in Stable |->
        LET dirs == {f.dir : f \in Copies(m)}
        IN  CASE "pending" \in dirs -> "waiting"
              [] "processing" \in dirs -> "taken"
              [] "done" \in dirs -> "finished"
              [] OTHER -> "unsent"]

Box == INSTANCE Mailbox WITH mail <- Mail

MailboxKept == Box!Spec

(* A send that reported success has put its message into the inbox and, if *)
(* it can be repeated, its copy into the outbox; a copy in the outbox is   *)
(* never the only one, unless the inbox lost its file.  Retries rely on    *)
(* this order (cmd_send).                                                  *)
AcceptedIsStored ==
    \A m \in Msg :
        /\ At(m, "sent") \/ outbox[m] # "none" => Copies(m) # {} \/ m \in lost
        /\ At(m, "sent") /\ Envelope[m].keyed => outbox[m] = "whole"

(* Two readers of one inbox never work on the same file, although both may *)
(* have found it (claim_pending, claim_for_delivery).                      *)
Holds(reader) == IF reader.pc \in {"show", "ack"} THEN {reader.file} ELSE {}

OneHolder ==
    /\ Holds(hub) \cap Holds(runner) = {}
    /\ cli \notin Holds(hub) \cup Holds(runner)

(* The row of a specialist loses its task only when a report of that task  *)
(* has been shown to the hub (ack_delivery).                               *)
ClearedAfterShown ==
    [][\A s \in Specialist : row[s] # NoTask /\ row'[s] = NoTask =>
         \E m \in shown : /\ Envelope[m].from = s /\ Envelope[m].type = "report"
                          /\ Envelope[m].task = row[s]]_vars

(* A message for the hub does not wait for ever: somebody takes it, unless *)
(* it is lost.                                                             *)
PendingIsTaken ==
    \A m \in Msg : Envelope[m].to = Hub =>
        ([msg |-> m, dir |-> "pending"] \in files ~> [msg |-> m, dir |-> "pending"] \notin files)

(* What a specialist has been given is put to it again after a restart of  *)
(* its pane (claim_for_specialist_delivery).                               *)
ResurfacedAfterRestart ==
    \A s \in Specialist : InHand(s) # {} ~> last[s] # NoFile

(* A delegate that was sent reaches the specialist, if its file is not     *)
(* lost and the pane is not restarted (bus-spec.md: the lifecycle bridge   *)
(* injects them).                                                          *)
DelegateIsShown ==
    \A m \in Msg : Envelope[m].type = "delegate" => (At(m, "sent") ~> m \in shown)

---------------------------------------------------------------------------
(* Why the safety properties hold.  There is one file of a message at most *)
(* - one of a keyed message is put only after a search that missed none,   *)
(* because files move only towards done, and the search too - and a reader *)
(* that has taken a file has it to itself.                                 *)
OneCopy == \A f, g \in files : f.msg = g.msg => f = g

SearchSound(m) ==
    LET here(dirs) == \A f \in Copies(m) : f.dir \in dirs
        unseen == sender[m].seen = {}
    IN  /\ At(m, "idle") \/ At(m, "put") => here({})
        /\ At(m, "processing") /\ unseen => here({"processing", "done"})
        /\ At(m, "done") /\ unseen => here({"done"})
        /\ At(m, "outbox") /\ unseen => here({})
        /\ \A f \in sender[m].seen : f.msg = m
        /\ At(m, "idle") => sender[m].tries = 0

Stored(m) == Copies(m) # {} \/ m \in lost

StoredSound(m) ==
    /\ sender[m].pc \in {"log", "logging", "sent"} \/ outbox[m] # "none" => Stored(m)
    /\ At(m, "sent") /\ Envelope[m].keyed => outbox[m] = "whole"
    /\ At(m, "put") /\ Envelope[m].keyed => outbox[m] # "torn"

Found(r) == r.pc = "claim" => r.file \in File /\ r.file.dir = "pending"
InWork(f) == f \in files /\ f.dir = "processing"

ReadersSound ==
    /\ Found(hub) /\ Found(runner) /\ \A s \in Specialist, t \in Ticks : Found(tick[s][t])
    /\ \A f \in Holds(hub) \cup Holds(runner) : InWork(f)
    /\ cli # NoFile => InWork(cli)
    /\ hub.pc \in {"ack", "clear"} => hub.file \in File /\ hub.file.msg \in shown
    /\ runner.pc \in {"idle", "claim", "ack"}
    /\ \A s \in Specialist, t \in Ticks :
         /\ tick[s][t].pc \in {"idle", "claim", "show"}
         /\ tick[s][t].pc = "show" => tick[s][t].file \in File

BusInductive ==
    /\ TypeOK /\ OneCopy /\ ReadersSound /\ OneHolder
    /\ \A m \in Msg : SearchSound(m) /\ StoredSound(m)
=============================================================================
