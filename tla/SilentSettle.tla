----------------------------- MODULE SilentSettle -----------------------------
(***************************************************************************)
(* Recovery after a silent settle (recovery.py, lifecycle_bridge.py,       *)
(* lifecycle.ts).  The hub delegates a task to a specialist.  When the     *)
(* agent settles without a report, the tick of its own pane nudges it      *)
(* once; when it does not start after that, the pane abandons itself: it   *)
(* is closed, its row cleared, a replacement spawned and given the same    *)
(* task, and the hub told by a notice that looks like a report.            *)
(*                                                                         *)
(* Simplifications.  Specialists are temporary, so a replacement has a new *)
(* name.  A command that loads and saves the ledger with nothing slow in   *)
(* between is one step; when cmux is called in between, the copy that is   *)
(* saved afterwards is kept.  It is the copy of one row: what whole-file   *)
(* saves do to the other rows is the subject of LedgerSpawn.  A time stamp *)
(* is recent or old, both limits (25 s, 60 s) and the idle timer (5 min)   *)
(* being one.  The hub gives each task once.  Closing a surface does not   *)
(* fail.  The handlers of one process do not overlap; the commands they    *)
(* start do: nothing keeps a tick from starting while another one, or what *)
(* it led to, is still running.                                            *)
(***************************************************************************)
EXTENDS Naturals

CONSTANTS
    Instance,    \* names of specialists
    Started,     \* those that run at the beginning
    Lane,        \* bound: recovery commands of a pane at one time, each in a lane
    Task,
    NoTask,
    NoRow,
    Faults       \* the failures that may happen (FaultKinds)

(* spawn: the replacement cannot be started or given the task; hup: a      *)
(* command is killed some time after its pane was closed; restart: the     *)
(* hub's session is restarted.                                             *)
FaultKinds == {"spawn", "hup", "restart"}

ASSUME SettleAssumption ==
    /\ Started \subseteq Instance
    /\ NoTask \notin Task
    /\ Faults \subseteq FaultKinds

VARIABLES
    row,     \* row[i]: the session row, or NoRow
    pane,    \* pane[i]: the pi process in the pane of i
    tick,    \* tick[i][l]: the recovery command that pane runs in lane l
    hub,     \* the hub: busy, and the delegation it is about to record
    mail,    \* reports on their way through the hub
    nagged,  \* history: nagged[i][t], the nudges i got while it had task t
    reported,\* history: <<i, t>> such that i reported t
    broken,  \* history: instances whose recovery was cut short by a fault
    doubled  \* history: instances that ran two commands at one time, and
             \* their replacements

vars == <<row, pane, tick, hub, mail, nagged, reported, broken, doubled>>

Age == {"none", "recent", "old"}

Row == [task: Task \cup {NoTask}, last: Task \cup {NoTask},   \* taskId, lastDelegate
        status: {"idle", "working"}, silent: Age, settled: Age,
        nudges: 0 .. 1, nudgeAt: Age, awaiting: BOOLEAN]

IdleRow == [task |-> NoTask, last |-> NoTask, status |-> "idle", silent |-> "none",
            settled |-> "none", nudges |-> 0, nudgeAt |-> "none", awaiting |-> FALSE]

(* prompt: there is something to start a turn for; file: a delegate in the *)
(* inbox; mark: the lifecycle status still to be recorded; timer: the idle *)
(* timer; tearing: it has gone off (tearingDown).                          *)
Pane == [is: {"none", "open", "closed"}, busy: BOOLEAN, prompt: BOOLEAN,
         task: Task \cup {NoTask}, file: Task \cup {NoTask},
         mark: {"none", "working", "idle"}, timer: Age, tearing: BOOLEAN]

NoPane == [is |-> "none", busy |-> FALSE, prompt |-> FALSE, task |-> NoTask,
           file |-> NoTask, mark |-> "none", timer |-> "none", tearing |-> FALSE]
NewPane == [NoPane EXCEPT !.is = "open"]
ShutPane == [NoPane EXCEPT !.is = "closed"]

Waiting == [pc |-> "idle", why |-> "tick", copy |-> NoRow, task |-> NoTask, to |-> NoRow]

Known(i) == row[i] # NoRow
Open(i) == pane[i].is = "open"
Quiet(i) == Open(i) /\ ~pane[i].busy
Is(i, l, p) == tick[i][l].pc = p
Goes(i, l, p) == tick' = [tick EXCEPT ![i][l].pc = p]
Ends(i, l) == tick' = [tick EXCEPT ![i][l] = Waiting]
Fails(i, l) == Ends(i, l) /\ broken' = broken \cup {i}

(* A command starts in a lane that is free; whether another is under way   *)
(* is noted, and never asked.                                              *)
Free(i) == {l \in Lane : Is(i, l, "idle")}
Takes(i, l) == Free(i) # {} /\ l = CHOOSE k \in Free(i) : TRUE
Notes(i) == doubled' = IF Free(i) = Lane THEN doubled ELSE doubled \cup {i}

(* A report or ask for the task is in the hub's inbox.  Reports that come  *)
(* through the broker are never there.                                     *)
HasHubMessage(t) == \E m \in mail : m.task = t /\ m.at \in {"pending", "processing"}

---------------------------------------------------------------------------
(* The hub.                                                                *)

(* delegate writes the routing fields of the row, not its status. *)
Routed(i, t) ==
    IF Known(i)
    THEN [row EXCEPT ![i] = [@ EXCEPT !.task = t, !.last = t, !.silent = "recent",
                                      !.nudges = 0, !.awaiting = FALSE]]
    ELSE row

(* Wrong on purpose: the answer to the nudge is still awaited. *)
ClearedAwaiting(m) ==
    IF Known(m.from) /\ row[m.from].task = m.task
    THEN [row EXCEPT ![m.from] = [@ EXCEPT !.task = NoTask, !.last = NoTask,
                                           !.silent = "none", !.nudges = 0]]
    ELSE row

(* ack-delivery and broker-ack of a report clear the row of the sender, if *)
(* it still has that task.                                                 *)
Cleared(m) ==
    IF Known(m.from) /\ row[m.from].task = m.task
    THEN [row EXCEPT ![m.from] = [@ EXCEPT !.task = NoTask, !.last = NoTask, !.silent = "none",
                                           !.nudges = 0, !.awaiting = FALSE]]
    ELSE row

(* agency_delegate sends the message to the pane first and then writes the *)
(* row, within one turn of the hub.                                        *)
HubDelegates(i, t) ==
    /\ hub.busy /\ hub.gives = NoRow /\ t \notin hub.given
    /\ Known(i) /\ Open(i)
    /\ pane' = [pane EXCEPT ![i] = [@ EXCEPT !.prompt = TRUE, !.task = t]]
    /\ hub' = [hub EXCEPT !.gives = [to |-> i, task |-> t], !.given = @ \cup {t}]
    /\ UNCHANGED <<row, tick, mail, nagged, reported, broken, doubled>>

HubRecords ==
    /\ hub.gives # NoRow
    /\ row' = Routed(hub.gives.to, hub.gives.task)
    /\ hub' = [hub EXCEPT !.gives = NoRow]
    /\ UNCHANGED <<pane, tick, mail, nagged, reported, broken, doubled>>

HubTurns ==
    /\ hub.gives = NoRow
    /\ hub' = [hub EXCEPT !.busy = ~@]
    /\ UNCHANGED <<row, pane, tick, mail, nagged, reported, broken, doubled>>

(* Between its turns the hub is shown what is queued: broker messages from *)
(* its memory, files from its inbox.                                       *)
Shown == [queue |-> "acking", pending |-> "processing"]

HubShows(m) ==
    /\ ~hub.busy /\ m.at \in DOMAIN Shown
    /\ mail' = (mail \ {m}) \cup {[m EXCEPT !.at = Shown[@]]}
    /\ UNCHANGED <<row, pane, tick, hub, nagged, reported, broken, doubled>>

HubAcks(m) ==
    /\ m.at \in {"acking", "processing"}
    /\ row' = Cleared(m)
    /\ mail' = mail \ {m}
    /\ UNCHANGED <<pane, tick, hub, nagged, reported, broken, doubled>>

(* The queue of broker messages is lost with the session. *)
HubRestarts ==
    /\ "restart" \in Faults
    /\ LET gone == {m \in mail : m.at = "queue"}
       IN  /\ gone # {}
           /\ mail' = mail \ gone
           /\ reported' = reported \ {<<m.from, m.task>> : m \in gone}
    /\ hub' = [hub EXCEPT !.busy = FALSE, !.gives = NoRow]
    /\ UNCHANGED <<row, pane, tick, nagged, broken, doubled>>

(* release --mode idle keeps lastDelegate; teardown closes the pane. *)
HubReleases(i) ==
    /\ hub.busy /\ hub.gives = NoRow /\ Known(i)
    /\ \/ /\ row' = [row EXCEPT ![i] = [@ EXCEPT !.status = "idle", !.task = NoTask]]
          /\ UNCHANGED pane
       \/ /\ row' = [row EXCEPT ![i] = NoRow]
          /\ pane' = [pane EXCEPT ![i] = ShutPane]
    /\ UNCHANGED <<tick, hub, mail, nagged, reported, broken, doubled>>

---------------------------------------------------------------------------
(* The agent of a pane, and the statuses its extension records.            *)

AgentStarts(i) ==
    /\ Quiet(i) /\ pane[i].mark = "none" /\ pane[i].prompt
    /\ pane' = [pane EXCEPT ![i] = [@ EXCEPT !.busy = TRUE, !.prompt = FALSE,
                                             !.mark = "working", !.timer = "none"]]
    /\ UNCHANGED <<row, tick, hub, mail, nagged, reported, broken, doubled>>

(* agency_report through the broker: a busy hub queues it. *)
AgentReports(i) ==
    /\ Open(i) /\ pane[i].busy /\ pane[i].task # NoTask
    /\ <<i, pane[i].task>> \notin reported
    /\ mail' = mail \cup {[from |-> i, task |-> pane[i].task,
                           at |-> IF hub.busy THEN "queue" ELSE "acking"]}
    /\ reported' = reported \cup {<<i, pane[i].task>>}
    /\ UNCHANGED <<row, pane, tick, hub, nagged, broken, doubled>>

AgentSettles(i) ==
    /\ Open(i) /\ pane[i].busy /\ pane[i].mark = "none"
    /\ pane' = [pane EXCEPT ![i] = [@ EXCEPT !.busy = FALSE, !.mark = "idle"]]
    /\ UNCHANGED <<row, tick, hub, mail, nagged, reported, broken, doubled>>

Working(r) == [r EXCEPT !.status = "working", !.awaiting = FALSE]

Settled(r) ==
    [r EXCEPT !.status = "idle", !.settled = "recent",
              !.silent = IF r.task = NoTask \/ HasHubMessage(r.task) THEN "none"
                         ELSE IF @ = "none" THEN "recent" ELSE @]

(* Wrong on purpose: only the start of a turn is recorded. *)
MarksStart(i) ==
    /\ Open(i) /\ pane[i].mark # "none"
    /\ row' = IF Known(i) /\ pane[i].mark = "working" THEN [row EXCEPT ![i] = Working(@)] ELSE row
    /\ pane' = [pane EXCEPT ![i] = [@ EXCEPT !.mark = "none"]]
    /\ UNCHANGED <<tick, hub, mail, nagged, reported, broken, doubled>>

(* lifecycle status; after a settle the idle timer is armed. *)
Marks(i) ==
    /\ Open(i) /\ pane[i].mark # "none"
    /\ row' = IF ~Known(i) THEN row
              ELSE [row EXCEPT ![i] = IF pane[i].mark = "working" THEN Working(row[i])
                                                                  ELSE Settled(row[i])]
    /\ pane' = [pane EXCEPT ![i].mark = "none",
                            ![i].timer = IF pane[i].mark = "idle" THEN "recent" ELSE @]
    /\ UNCHANGED <<tick, hub, mail, nagged, reported, broken, doubled>>

(* claim-specialist delivers a delegate that was sent by file. *)
TakesFile(i) ==
    /\ Quiet(i) /\ pane[i].file # NoTask
    /\ pane' = [pane EXCEPT ![i] = [@ EXCEPT !.prompt = TRUE, !.task = pane[i].file,
                                             !.file = NoTask]]
    /\ UNCHANGED <<row, tick, hub, mail, nagged, reported, broken, doubled>>

---------------------------------------------------------------------------
(* lifecycle tick: every few seconds and after each settle, while the      *)
(* agent is not busy; one that was started just before a turn begins reads *)
(* the row after it began.                                                 *)

Ticks(i) ==
    /\ Open(i) /\ (~pane[i].busy \/ pane[i].mark = "working") /\ ~pane[i].tearing
    /\ Known(i) /\ row[i].task # NoTask

Overdue(i) == Ticks(i) /\ ~HasHubMessage(row[i].task) /\ row[i].status # "working"

Since(r) == IF r.silent # "none" THEN r.silent ELSE r.settled

TickSeesReport(i) ==
    /\ Ticks(i) /\ HasHubMessage(row[i].task)
    /\ row' = [row EXCEPT ![i] = [@ EXCEPT !.silent = "none", !.awaiting = FALSE]]
    /\ UNCHANGED <<pane, tick, hub, mail, nagged, reported, broken, doubled>>

TickNudges(i, l) ==
    /\ Overdue(i) /\ ~row[i].awaiting /\ Since(row[i]) = "old" /\ row[i].nudges = 0
    /\ Takes(i, l) /\ Notes(i)
    /\ tick' = [tick EXCEPT ![i][l] = [Waiting EXCEPT !.pc = "nudge", !.copy = row[i]]]
    /\ UNCHANGED <<row, pane, hub, mail, nagged, reported, broken>>

(* The nudge is typed into the pane. *)
SendsNudge(i, l) ==
    /\ Is(i, l, "nudge")
    /\ pane' = [pane EXCEPT ![i].prompt = Open(i)]
    /\ nagged' = [nagged EXCEPT ![i][tick[i][l].copy.task] = @ + 1]
    /\ Goes(i, l, "nudged")
    /\ UNCHANGED <<row, hub, mail, reported, broken, doubled>>

(* Wrong on purpose: the nudge is not counted. *)
ForgetsNudge(i, l) ==
    /\ Is(i, l, "nudged")
    /\ row' = [row EXCEPT ![i] = [tick[i][l].copy EXCEPT !.nudgeAt = "recent", !.awaiting = TRUE]]
    /\ Ends(i, l)
    /\ UNCHANGED <<pane, hub, mail, nagged, reported, broken, doubled>>

(* Wrong on purpose: when it was sent is not saved. *)
SavesNudgeUndated(i, l) ==
    /\ Is(i, l, "nudged")
    /\ row' = [row EXCEPT ![i] = [tick[i][l].copy EXCEPT !.nudges = 1, !.awaiting = TRUE]]
    /\ Ends(i, l)
    /\ UNCHANGED <<pane, hub, mail, nagged, reported, broken, doubled>>

(* Whether it was sent or not, the copy is saved. *)
SavesNudge(i, l) ==
    /\ Is(i, l, "nudged")
    /\ row' = [row EXCEPT ![i] = [tick[i][l].copy EXCEPT !.nudges = 1, !.nudgeAt = "recent",
                                                         !.awaiting = TRUE]]
    /\ Ends(i, l)
    /\ UNCHANGED <<pane, hub, mail, nagged, reported, broken, doubled>>

(* The tick answers "abandon", and its pane starts that command. *)
TickAbandons(i, l) ==
    /\ Overdue(i) /\ row[i].awaiting /\ row[i].nudgeAt = "old"
    /\ Takes(i, l) /\ Notes(i)
    /\ Goes(i, l, "abandon")
    /\ UNCHANGED <<row, pane, hub, mail, nagged, reported, broken>>

---------------------------------------------------------------------------
(* lifecycle abandon and idle-teardown.                                    *)

Abandons(i, l) ==
    /\ Is(i, l, "abandon")
    /\ LET t == IF ~Open(i) \/ ~Known(i) THEN NoTask
                ELSE IF row[i].last # NoTask THEN row[i].last ELSE row[i].task
       IN  IF t = NoTask THEN Ends(i, l)
           ELSE tick' = [tick EXCEPT ![i][l] = [@ EXCEPT !.pc = "close", !.why = "abandon",
                                                         !.task = t]]
    /\ UNCHANGED <<row, pane, hub, mail, nagged, reported, broken, doubled>>

IdleTimerFires(i, l) ==
    /\ Quiet(i) /\ pane[i].timer = "old" /\ ~pane[i].tearing
    /\ Takes(i, l) /\ Notes(i)
    /\ pane' = [pane EXCEPT ![i].timer = "none", ![i].tearing = TRUE]
    /\ Goes(i, l, "teardown")
    /\ UNCHANGED <<row, hub, mail, nagged, reported, broken>>

(* A row that is working by now is skipped, without an error: tearingDown  *)
(* stays set, and the pane never ticks again.                              *)
IdleTeardown(i, l) ==
    /\ Is(i, l, "teardown")
    /\ IF Open(i) /\ Known(i) /\ row[i].status # "working"
       THEN tick' = [tick EXCEPT ![i][l] = [@ EXCEPT !.pc = "close", !.why = "teardown"]]
       ELSE Ends(i, l)
    /\ pane' = [pane EXCEPT ![i].tearing = @ /\ Known(i)]
    /\ UNCHANGED <<row, hub, mail, nagged, reported, broken, doubled>>

(* teardown_instance closes the pane it runs in ... *)
Closes(i, l) ==
    /\ Is(i, l, "close")
    /\ pane' = [pane EXCEPT ![i] = ShutPane]
    /\ Goes(i, l, "clear")
    /\ UNCHANGED <<row, hub, mail, nagged, reported, broken, doubled>>

(* ... and every command of that pane may be killed with it. *)
Dies(i, l) ==
    /\ "hup" \in Faults
    /\ ~Open(i) /\ ~Is(i, l, "idle")
    /\ Fails(i, l)
    /\ UNCHANGED <<row, pane, hub, mail, nagged, reported, doubled>>

(* Wrong on purpose: the row is left for later. *)
ClearsNothing(i, l) ==
    /\ Is(i, l, "clear")
    /\ IF tick[i][l].why = "abandon" THEN Goes(i, l, "spawn") ELSE Ends(i, l)
    /\ UNCHANGED <<row, pane, hub, mail, nagged, reported, broken, doubled>>

ClearsRow(i, l) ==
    /\ Is(i, l, "clear")
    /\ row' = [row EXCEPT ![i] = NoRow]
    /\ IF tick[i][l].why = "abandon" THEN Goes(i, l, "spawn") ELSE Ends(i, l)
    /\ UNCHANGED <<pane, hub, mail, nagged, reported, broken, doubled>>

Respawns(i, l) ==
    /\ Is(i, l, "spawn")
    /\ \/ \E k \in Instance :
            /\ row[k] = NoRow /\ pane[k].is = "none"
            /\ row' = [row EXCEPT ![k] = IdleRow]
            /\ pane' = [pane EXCEPT ![k] = NewPane]
            /\ tick' = [tick EXCEPT ![i][l] = [@ EXCEPT !.pc = "delegate", !.to = k]]
            /\ doubled' = IF i \in doubled THEN doubled \cup {k} ELSE doubled
            /\ UNCHANGED broken
       \/ /\ "spawn" \in Faults
          /\ Fails(i, l)
          /\ UNCHANGED <<row, pane, doubled>>
    /\ UNCHANGED <<hub, mail, nagged, reported>>

(* delegate --recovery, by file. *)
Redelegates(i, l) ==
    /\ Is(i, l, "delegate")
    /\ LET k == tick[i][l].to
       IN  \/ /\ Known(k)
              /\ row' = Routed(k, tick[i][l].task)
              /\ pane' = [pane EXCEPT ![k].file = tick[i][l].task]
              /\ Goes(i, l, "notice")
              /\ UNCHANGED broken
           \/ /\ "spawn" \in Faults \/ ~Known(k)
              /\ Fails(i, l)
              /\ UNCHANGED <<row, pane>>
    /\ UNCHANGED <<hub, mail, nagged, reported, doubled>>

(* Wrong on purpose: a busy hub is not told. *)
NotifiesIdleHub(i, l) ==
    /\ Is(i, l, "notice")
    /\ mail' = IF hub.busy THEN mail
               ELSE mail \cup {[from |-> tick[i][l].to, task |-> tick[i][l].task, at |-> "pending"]}
    /\ Ends(i, l)
    /\ UNCHANGED <<row, pane, hub, nagged, reported, broken, doubled>>

(* The hub is told by a report of the replacement on that task. *)
Notifies(i, l) ==
    /\ Is(i, l, "notice")
    /\ mail' = mail \cup {[from |-> tick[i][l].to, task |-> tick[i][l].task, at |-> "pending"]}
    /\ Ends(i, l)
    /\ UNCHANGED <<row, pane, hub, nagged, reported, broken, doubled>>

---------------------------------------------------------------------------
Aged(a) == IF a = "recent" THEN "old" ELSE a

AgedRow(r) ==
    IF r = NoRow THEN r
    ELSE [r EXCEPT !.silent = Aged(@), !.settled = Aged(@), !.nudgeAt = Aged(@)]

TimePasses ==
    /\ row' = [i \in Instance |-> AgedRow(row[i])]
    /\ pane' = [i \in Instance |-> [pane[i] EXCEPT !.timer = Aged(@)]]
    /\ <<row', pane'>> # <<row, pane>>
    /\ UNCHANGED <<tick, hub, mail, nagged, reported, broken, doubled>>

Init ==
    /\ row = [i \in Instance |-> IF i \in Started THEN IdleRow ELSE NoRow]
    /\ pane = [i \in Instance |-> IF i \in Started THEN NewPane ELSE NoPane]
    /\ tick = [i \in Instance |-> [l \in Lane |-> Waiting]]
    /\ hub = [busy |-> FALSE, gives |-> NoRow, given |-> {}]
    /\ mail = {}
    /\ nagged = [i \in Instance |-> [t \in Task |-> 0]]
    /\ reported = {} /\ broken = {} /\ doubled = {}

TickStarts(i) ==
    TickSeesReport(i) \/ \E l \in Lane : TickNudges(i, l) \/ TickAbandons(i, l)

CommandGoes(i, l) ==
    \/ SendsNudge(i, l) \/ SavesNudge(i, l)
    \/ Abandons(i, l) \/ IdleTeardown(i, l) \/ Closes(i, l) \/ ClearsRow(i, l)
    \/ Respawns(i, l) \/ Redelegates(i, l) \/ Notifies(i, l)

Next ==
    \/ HubRecords \/ HubTurns \/ HubRestarts
    \/ \E m \in mail : HubShows(m) \/ HubAcks(m)
    \/ \E i \in Instance :
         \/ \E t \in Task : HubDelegates(i, t)
         \/ HubReleases(i)
         \/ AgentStarts(i) \/ AgentReports(i) \/ AgentSettles(i) \/ Marks(i) \/ TakesFile(i)
         \/ TickStarts(i)
         \/ \E l \in Lane : IdleTimerFires(i, l) \/ CommandGoes(i, l) \/ Dies(i, l)
    \/ TimePasses

Spec == Init /\ [][Next]_vars

(* The ticks are timers of a live process, its event handlers run, so do   *)
(* the commands it started, and time passes.  What agents and the hub's    *)
(* model do is up to them.                                                 *)
FairSpec ==
    /\ Spec
    /\ \A i \in Instance : WF_vars(TickStarts(i)) /\ WF_vars(Marks(i))
    /\ \A i \in Instance, l \in Lane : WF_vars(CommandGoes(i, l))
    /\ WF_vars(TimePasses)

---------------------------------------------------------------------------
TickState ==
    [pc: {"idle", "nudge", "nudged", "abandon", "teardown", "close", "clear", "spawn",
          "delegate", "notice"},
     why: {"tick", "abandon", "teardown"}, copy: Row \cup {NoRow}, task: Task \cup {NoTask},
     to: Instance \cup {NoRow}]

(* Besides the types: an answer is awaited only by a row that counts the   *)
(* nudge, so whatever resets the one resets the other.                     *)
TypeOK ==
    /\ row \in [Instance -> Row \cup {NoRow}]
    /\ \A i \in Instance : Known(i) /\ row[i].awaiting => row[i].nudges = 1
    /\ pane \in [Instance -> Pane]
    /\ tick \in [Instance -> [Lane -> TickState]]
    /\ hub \in [busy: BOOLEAN, gives: [to: Instance, task: Task] \cup {NoRow}, given: SUBSET Task]
    /\ mail \subseteq [from: Instance, task: Task, at: {"queue", "acking", "pending", "processing"}]
    /\ nagged \in [Instance -> [Task -> Nat]]
    /\ reported \subseteq Instance \X Task
    /\ broken \subseteq Instance /\ doubled \subseteq Instance

---------------------------------------------------------------------------
(* As long as a pane runs one command at a time, its specialist is nudged  *)
(* at most once about a task, although the count is saved from a copy that *)
(* was read before the nudge was typed (cmd_tick).                         *)
OneNudge == \A i \in Instance \ doubled, t \in Task : nagged[i][t] <= 1

Carries(i, t) == Known(i) /\ row[i].task = t

(* A task is in two rows only if both belong to panes whose commands       *)
(* overlapped, or to their replacements: else the row of an abandoned      *)
(* specialist is gone before its replacement is given the task, and is not *)
(* saved back afterwards, wherever the recovery stops (cmd_abandon,        *)
(* cmd_tick).                                                              *)
OneCarrier ==
    \A i, j \in Instance, t \in Task :
        Carries(i, t) /\ Carries(j, t) /\ i # j => {i, j} \subseteq doubled

(* A specialist gets exactly one nudge about a task, whatever ticks its    *)
(* pane runs at one time (architecture.md, Specialist recovery after       *)
(* silent settle; cmd_tick).                                               *)
NudgedOnceOnly == \A i \in Instance, t \in Task : nagged[i][t] <= 1

(* A specialist that sits on a task does not do so unnoticed: it reports,  *)
(* is nudged, works on, or loses the task or its pane.  Not so once a      *)
(* teardown of its pane was skipped.                                       *)
Sits(i, t) == Carries(i, t) /\ Quiet(i)

SilenceIsNoticed ==
    \A i \in Instance, t \in Task :
        Sits(i, t) ~> \/ ~Sits(i, t)
                     \/ <<i, t>> \in reported \/ HasHubMessage(t)
                     \/ nagged[i][t] >= 1 \/ pane[i].tearing

(* A nudge that no turn follows leads to the end of the specialist, unless *)
(* its recovery is cut short (cmd_tick, cmd_abandon).                      *)
Awaits(i) == Known(i) /\ row[i].awaiting /\ row[i].task # NoTask /\ Quiet(i)

NudgeIsAnswered == \A i \in Instance : Awaits(i) ~> ~Awaits(i) \/ i \in broken

(* The hub is told of every specialist that was abandoned, if the recovery *)
(* is not cut short and there is another name left (cmd_abandon).          *)
AbandonIsTold ==
    \A i \in Instance, l \in Lane, t \in Task :
        Is(i, l, "clear") /\ tick[i][l].why = "abandon" /\ tick[i][l].task = t ~>
            \/ i \in broken
            \/ \E m \in mail : m.task = t /\ m.at = "pending"
            \/ Is(i, l, "spawn") /\ \A k \in Instance : pane[k].is # "none"

(* A specialist that did not report its task stays under watch: only its   *)
(* report takes the task off its row and resets the nudge (architecture.md,*)
(* Specialist recovery after silent settle).                               *)
WatchedUntilReported ==
    [][\A i \in Instance :
         Known(i) /\ Known(i)' /\ row[i].last # NoTask /\ row'[i].last = NoTask =>
            <<i, row[i].last>> \in reported]_vars
=============================================================================
