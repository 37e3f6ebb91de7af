----------------------------- MODULE LedgerSpawn ------------------------------
(***************************************************************************)
(* The session ledger and the commands that open and close panes           *)
(* (ledger.py, agent_spawn.py, reconcile-sessions.py, agency_ctl.py).      *)
(* sessions.json is loaded and saved whole, without a lock, by any number  *)
(* of commands at a time: a command that calls cmux between its load and   *)
(* its save undoes what others saved meanwhile.                            *)
(*                                                                         *)
(* Simplifications.  A load and a save with no other process called in     *)
(* between are one step.  Of a row the fields that decide about spawning   *)
(* are kept; task routing is in SilentSettle, the pipeline runner's own    *)
(* start in RunnerService.  A surface stands for itself and its pane.      *)
(***************************************************************************)
EXTENDS Naturals, FiniteSets

CONSTANTS
    Command,      \* commands that run at the same time
    Console,      \* terminals of the user, where a hub may run
    Split,        \* surfaces cmux opens for specialists
    Temporary,    \* names for temporary specialists
    Role,         \* roles of specialists
    Kind,         \* what is asked for: <<role, lifecycle>>
    Worker, Planner, Hub,
    MaxPanes,     \* spawn.maxSpecialistPanes
    MaxTwins,     \* spawn.maxTempTwinsPerRole
    MaxCommands,  \* bound: commands that are given
    NoSurface,
    NoName,
    Faults        \* the failures that may happen (FaultKinds)

(* tree: cmux tree fails, or lists only some of what exists; split:        *)
(* new-split fails, or works and the new surface is not found; send: the   *)
(* pane does not take the start command; die: a command is killed.         *)
FaultKinds == {"tree", "split", "send", "die"}

ASSUME LedgerAssumption ==
    /\ Hub \notin Role /\ {Worker, Planner} \subseteq Role
    /\ Kind \subseteq Role \X {"temporary", "persistent"}
    /\ Temporary \cap (Role \cup {Hub, NoName}) = {}
    /\ Console \cap Split = {} /\ NoSurface \notin Console \cup Split
    /\ MaxPanes \in Nat /\ MaxTwins \in Nat /\ MaxCommands \in Nat
    /\ Faults \subseteq FaultKinds

VARIABLES
    ledger,    \* the rows of sessions.json
    cmd,       \* cmd[c]: where a command is, and the rows it has loaded
    open,      \* surfaces that exist in cmux
    opened,    \* history: the surfaces that were opened so far
    given      \* history: commands given so far

vars == <<ledger, cmd, open, opened, given>>

Surface == Console \cup Split
Name == Temporary \cup Role \cup {Hub}
Status == {"starting", "idle", "working", "failed"}

Row == [name: Name, role: Role \cup {Hub}, life: {"temporary", "persistent"},
        status: Status, surface: Surface \cup {NoSurface}]

Rest == [pc |-> "idle", job |-> "list", caller |-> NoSurface, rows |-> {}, own |-> NoName]

At(c, p) == cmd[c].pc = p
Ends(c) == cmd' = [cmd EXCEPT ![c] = Rest]
Named(rows, n) == {r \in rows : r.name = n}
Bound(rows, s) == {r \in rows : r.surface = s}
Specialists(rows) == {r \in rows : r.role # Hub}

(* save_sessions of the copy the command works on. *)
Saves(c, rows, p) ==
    /\ ledger' = rows
    /\ cmd' = [cmd EXCEPT ![c] = [@ EXCEPT !.pc = p, !.rows = rows]]

(* The same, when the command will load the ledger again. *)
SavesAndGoes(c, rows, p) ==
    /\ ledger' = rows
    /\ cmd' = [cmd EXCEPT ![c] = [Rest EXCEPT !.pc = p, !.job = cmd[c].job]]

SavesAndEnds(c, rows) == ledger' = rows /\ Ends(c)

Own(c) == CHOOSE r \in cmd[c].rows : r.name = cmd[c].own

(* The command's own row changed. *)
With(c, row) == (cmd[c].rows \ Named(cmd[c].rows, row.name)) \cup {row}

---------------------------------------------------------------------------
(* A command begins.  list, and a spawn that recovers or that a pipeline   *)
(* runner asks for, do not check that the caller is the hub.  status is    *)
(* lifecycle status of a pane that does not know its own name.             *)
Jobs == {"list", "claim", "spawn", "respawn", "release", "status"}
FirstStep == [list |-> "reconcile", claim |-> "gate", spawn |-> "gate",
              respawn |-> "reconcile", release |-> "gate", status |-> "whoami"]

(* The panes a command can come from: the user's terminals, and            *)
(* specialists that were started.  The pane counts for the gate and for    *)
(* status only.                                                            *)
Begins(c, job, s) ==
    /\ At(c, "idle")
    /\ s \in open
    /\ s \in Console \/ \E r \in Bound(ledger, s) : r.status \in {"idle", "working"}
    /\ cmd' = [cmd EXCEPT ![c] = [Rest EXCEPT !.pc = FirstStep[job], !.job = job,
                                  !.caller = IF FirstStep[job] = "reconcile" THEN NoSurface
                                             ELSE s]]
    /\ given < MaxCommands /\ given' = given + 1
    /\ UNCHANGED <<ledger, open, opened>>

(* ensure_orchestrator loads the ledger, then asks cmux who calls. *)
GateLoads(c) ==
    /\ At(c, "gate")
    /\ cmd' = [cmd EXCEPT ![c] = [@ EXCEPT !.pc = "identify", !.rows = ledger]]
    /\ UNCHANGED <<ledger, open, opened, given>>

Gated == [spawn |-> "reconcile", release |-> "release"]

HubRow(s) == [name |-> Hub, role |-> Hub, life |-> "persistent", status |-> "idle", surface |-> s]

(* Wrong on purpose: whoever calls becomes the hub. *)
MayBindAny(rows, s) == TRUE

(* A hub that is bound is left alone by others; a missing or unbound one   *)
(* is not taken by a pane that has another row.                            *)
MayBind(rows, s) ==
    IF \E r \in Named(rows, Hub) : r.surface # NoSurface
    THEN Bound(Named(rows, Hub), s) # {}
    ELSE Bound(rows, s) = {} \/ \E r \in Bound(rows, s) : r.role = Hub

GatePasses(c) ==
    /\ At(c, "identify")
    /\ LET rows == cmd[c].rows
           s == cmd[c].caller
           bound == (rows \ Named(rows, Hub)) \cup {HubRow(s)}
       IN  IF ~MayBind(rows, s) THEN Ends(c) /\ UNCHANGED ledger
           ELSE IF cmd[c].job = "claim" THEN SavesAndEnds(c, bound)
           ELSE SavesAndGoes(c, bound, Gated[cmd[c].job])
    /\ UNCHANGED <<open, opened, given>>

---------------------------------------------------------------------------
(* reconcile-sessions --check-cmux, alone (list) or before a spawn.        *)

ReconcileLoads(c) ==
    /\ At(c, "reconcile")
    /\ cmd' = [cmd EXCEPT ![c] = [@ EXCEPT !.pc = "tree", !.rows = ledger]]
    /\ UNCHANGED <<ledger, open, opened, given>>

(* A row without a surface is being started. *)
Stale(r, listed) == r.surface # NoSurface /\ r.surface \notin listed

(* The rows that are left are saved, whether any was cleared or not. *)
ReconcileSaves(c, kept) ==
    /\ At(c, "tree")
    /\ IF cmd[c].job = "list" THEN SavesAndEnds(c, kept) ELSE SavesAndGoes(c, kept, "register")
    /\ UNCHANGED <<open, opened, given>>

(* A call that fails clears nothing.  An answer counts as complete, also   *)
(* one that has no windows, workspaces or panes: what it does not list is  *)
(* gone.                                                                   *)
Reconciles(c) ==
    \/ "tree" \in Faults /\ ReconcileSaves(c, cmd[c].rows)
    \/ \E listed \in {open} \cup (IF "tree" \in Faults THEN SUBSET open ELSE {}) :
          ReconcileSaves(c, {r \in cmd[c].rows : ~Stale(r, listed)})

---------------------------------------------------------------------------
(* spawn_specialist.                                                       *)

OfRole(rows, role) == {r \in rows : r.role = role}
OfLife(rows, life) == {r \in rows : r.life = life}

(* One worker; one persistent planner, and a temporary one beside a        *)
(* working one only as configured (allowWorkTwin false, allowPlanTempTwin  *)
(* true).                                                                  *)
TwinsAllow(rows, role, life) ==
    LET mine == OfRole(rows, role)
    IN  /\ role = Worker => mine = {}
        /\ role = Planner =>
             IF life = "persistent" THEN OfLife(mine, "persistent") = {}
             ELSE (\E r \in mine : r.status = "working") =>
                      Cardinality(OfLife(mine, "temporary")) < MaxTwins

(* Wrong on purpose: one too many. *)
RoomForOneMore(rows) == Cardinality(Specialists(rows)) <= MaxPanes

Room(rows) == Cardinality(Specialists(rows)) < MaxPanes

NamesFor(role, life) == IF life = "persistent" THEN {role} ELSE Temporary

Free(rows, n) == Named(rows, n) = {}

Registers(c, role, life, n) ==
    /\ At(c, "register")
    /\ Room(ledger) /\ TwinsAllow(ledger, role, life)
    /\ n \in NamesFor(role, life) /\ Free(ledger, n)
    /\ LET rows == ledger \cup {[name |-> n, role |-> role, life |-> life,
                                 status |-> "starting", surface |-> NoSurface]}
       IN  /\ ledger' = rows
           /\ cmd' = [cmd EXCEPT ![c] = [Rest EXCEPT !.pc = "open", !.rows = rows, !.own = n]]
    /\ UNCHANGED <<open, opened, given>>

(* --reuse of an idle instance, or a spawn that is refused. *)
DoesNotSpawn(c) ==
    /\ At(c, "register")
    /\ Ends(c)
    /\ UNCHANGED <<ledger, open, opened, given>>

OpensPane(c, s) ==
    /\ At(c, "open")
    /\ s \in Split \ opened
    /\ open' = open \cup {s}
    /\ opened' = opened \cup {s}
    /\ \/ Saves(c, With(c, [Own(c) EXCEPT !.surface = s]), "boot")
       \/ "split" \in Faults /\ SavesAndEnds(c, With(c, [Own(c) EXCEPT !.status = "failed"]))
    /\ UNCHANGED given

OpensNothing(c) ==
    /\ At(c, "open") /\ "split" \in Faults
    /\ SavesAndEnds(c, With(c, [Own(c) EXCEPT !.status = "failed"]))
    /\ UNCHANGED <<open, opened, given>>

(* Wrong on purpose: the status the documentation names. *)
BootsReady(c) ==
    /\ At(c, "boot")
    /\ SavesAndEnds(c, With(c, [Own(c) EXCEPT !.status = "ready"]))
    /\ UNCHANGED <<open, opened, given>>

Boots(c) ==
    /\ At(c, "boot")
    /\ \/ SavesAndEnds(c, With(c, [Own(c) EXCEPT !.status = "idle"]))
       \/ "send" \in Faults /\ SavesAndEnds(c, With(c, [Own(c) EXCEPT !.status = "failed"]))
    /\ UNCHANGED <<open, opened, given>>

---------------------------------------------------------------------------
(* release.                                                                *)

ReleaseIdle(c, r) ==
    /\ At(c, "release") /\ r \in Specialists(ledger)
    /\ SavesAndEnds(c, (ledger \ {r}) \cup {[r EXCEPT !.status = "idle"]})
    /\ UNCHANGED <<open, opened, given>>

(* The pane is closed between the load and the save. *)
ReleaseCloses(c, r) ==
    /\ At(c, "release") /\ r \in Specialists(ledger)
    /\ open' = open \ {r.surface}
    /\ cmd' = [cmd EXCEPT ![c] = [Rest EXCEPT !.pc = "closed", !.rows = ledger, !.own = r.name]]
    /\ UNCHANGED <<ledger, opened, given>>

ReleaseSaves(c) ==
    /\ At(c, "closed")
    /\ SavesAndEnds(c, cmd[c].rows \ Named(cmd[c].rows, cmd[c].own))
    /\ UNCHANGED <<open, opened, given>>

---------------------------------------------------------------------------
(* The surroundings.                                                       *)

(* lifecycle status: the status of the hub, which no command looks at, is  *)
(* left out.                                                               *)
Turned(r) ==
    IF r.role = Hub THEN r
    ELSE [r EXCEPT !.status = IF r.status = "idle" THEN "working" ELSE "idle"]

MarksStatus(r) ==
    /\ r \in Specialists(ledger) /\ r.surface \in open /\ r.status \in {"idle", "working"}
    /\ ledger' = (ledger \ {r}) \cup {Turned(r)}
    /\ UNCHANGED <<cmd, open, opened, given>>

(* Without a name it asks cmux who calls, between its load and its save.   *)
StatusLoads(c) ==
    /\ At(c, "whoami")
    /\ cmd' = [cmd EXCEPT ![c] = [@ EXCEPT !.pc = "mark", !.rows = ledger]]
    /\ UNCHANGED <<ledger, open, opened, given>>

StatusSaves(c) ==
    /\ At(c, "mark")
    /\ LET rows == cmd[c].rows
           mine == Bound(rows, cmd[c].caller)
       IN  \/ mine = {} /\ Ends(c) /\ UNCHANGED ledger
           \/ \E r \in mine : SavesAndEnds(c, (rows \ {r}) \cup {Turned(r)})
    /\ UNCHANGED <<open, opened, given>>

PaneCloses(s) ==
    /\ s \in open
    /\ open' = open \ {s}
    /\ UNCHANGED <<ledger, cmd, opened, given>>

Dies(c) ==
    /\ "die" \in Faults
    /\ ~At(c, "idle")
    /\ Ends(c)
    /\ UNCHANGED <<ledger, open, opened, given>>

Init ==
    /\ ledger = {}
    /\ cmd = [c \in Command |-> Rest]
    /\ open = Console
    /\ opened = {}
    /\ given = 0

CommandStep(c) ==
    \/ StatusLoads(c) \/ StatusSaves(c)
    \/ GateLoads(c) \/ GatePasses(c) \/ ReconcileLoads(c) \/ Reconciles(c)
    \/ \E k \in Kind, n \in Name : Registers(c, k[1], k[2], n)
    \/ DoesNotSpawn(c) \/ OpensNothing(c) \/ Boots(c) \/ ReleaseSaves(c)
    \/ \E s \in Split : OpensPane(c, s)
    \/ \E r \in ledger : ReleaseIdle(c, r) \/ ReleaseCloses(c, r)

Next ==
    \/ \E c \in Command :
         \/ \E job \in Jobs, s \in open : Begins(c, job, s)
         \/ CommandStep(c) \/ Dies(c)
    \/ \E r \in ledger : MarksStatus(r)
    \/ \E s \in open : PaneCloses(s)

Spec == Init /\ [][Next]_vars

---------------------------------------------------------------------------
CommandState ==
    [pc: {"idle", "gate", "identify", "reconcile", "tree", "register", "open", "boot",
          "release", "closed", "whoami", "mark"},
     job: Jobs, caller: Surface \cup {NoSurface}, rows: SUBSET Row, own: Name \cup {NoName}]

TypeOK ==
    /\ ledger \subseteq Row
    /\ cmd \in [Command -> CommandState]
    /\ open \subseteq Surface
    /\ opened \subseteq Split
    /\ given \in 0 .. MaxCommands

---------------------------------------------------------------------------
(* What spawn_specialist checks on the copy it loaded.                     *)
KeepsRules(rows) ==
    /\ \A r, q \in rows : r.name = q.name => r = q
    /\ Cardinality(Specialists(rows)) <= MaxPanes
    /\ Cardinality(OfRole(rows, Worker)) <= 1

(* It stays true of the ledger, although other commands save copies that   *)
(* are older: each copy was right when it was loaded, and a command adds   *)
(* only its own row to it.  Panes are another matter: a row that was lost  *)
(* with such a save leaves its pane open.                                  *)
SpawnRulesKept == KeepsRules(ledger)

(* Why it is inductive: the copies keep the rules as well, and a command   *)
(* that has registered its row has it in its copy.                         *)
Rules(rows) == IsFiniteSet(rows) /\ KeepsRules(rows)

Sound(k) ==
    /\ Rules(k.rows)
    /\ k.pc \in {"open", "boot"} => Named(k.rows, k.own) # {}
    /\ k.pc \in {"gate", "identify"} => FirstStep[k.job] = "gate"

CopiesSound == \A c \in Command : Sound(cmd[c])

SpawnInductive == TypeOK /\ Rules(ledger) /\ CopiesSound

(* A pane is known by its surface (find_by_surface): no two rows have the  *)
(* same one, and so a specialist with a row is never the hub               *)
(* (ensure_orchestrator).                                                  *)
SurfacesUnique ==
    \A r, q \in ledger : r.surface = q.surface /\ r.surface # NoSurface => r = q

(* Why that is inductive: it is true of the copies too, and a surface in a *)
(* copy was opened before.                                                 *)
Placed(rows, seen) ==
    /\ \A r, q \in rows : r.surface = q.surface /\ r.surface # NoSurface => r = q
    /\ \A r \in rows : r.surface \in seen /\ (r.role = Hub <=> r.name = Hub)

Seen == Console \cup opened \cup {NoSurface}

PlacedInductive ==
    /\ open \subseteq Seen
    /\ Placed(ledger, Seen)
    /\ \A c \in Command : Placed(cmd[c].rows, Seen) /\ cmd[c].caller \in Seen
===============================================================================
