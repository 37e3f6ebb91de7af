------------------------- MODULE SilentSettle_proofs -------------------------
(***************************************************************************)
(* Proofs about the recovery after a silent settle, for any number of      *)
(* specialists, tasks and commands that a pane runs at one time: a task is *)
(* with one specialist at a time, in its row or in a command on its way to *)
(* the replacement's row, and nobody is nudged twice about a task, as long *)
(* as the commands of a pane do not overlap; and where they did, only the  *)
(* pane and its replacements are affected.                                 *)
(***************************************************************************)
EXTENDS SilentSettle, TLAPS

(* What a recovery command knows of what it does at each of its steps. *)
CommandSound(i, l) ==
    LET c == tick[i][l]
    IN  /\ c.pc = "idle" => c = Waiting
        /\ c.pc \in {"nudge", "nudged"} => c.copy \in Row /\ c.copy.task \in Task
        /\ c.pc = "teardown" => c.task = NoTask
        /\ c.pc \in {"close", "clear"} /\ c.why = "abandon" => c.task \in Task
        /\ c.pc \in {"spawn", "delegate", "notice"} => c.task \in Task
        /\ c.pc \in {"clear", "spawn", "delegate", "notice"} => pane[i].is = "closed"
        /\ c.pc \in {"spawn", "delegate"} /\ i \notin doubled => row[i] = NoRow
        /\ c.pc \in {"delegate", "notice"} => c.to \in Instance /\ c.to # i
        /\ c.pc = "delegate" /\ i \in doubled => c.to \in doubled
        /\ pane[i].is = "none" => c.pc = "idle"
        /\ c.pc = "nudge" /\ i \notin doubled => nagged[i][c.copy.task] = 0
        /\ c.pc = "delegate" /\ c.to \notin doubled => nagged[c.to][c.task] = 0

(* A name that was never given has no row and was never nudged.  Without   *)
(* an overlap one command is under way, nobody is nudged twice, and a row  *)
(* that counts no nudge about its task has had none, unless the save that  *)
(* counts it is still to come.                                             *)
PaneSound(i) ==
    /\ pane[i].is = "none" => row[i] = NoRow /\ \A t \in Task : nagged[i][t] = 0
    /\ i \notin doubled =>
          /\ \A l, m \in Lane : tick[i][l].pc # "idle" /\ tick[i][m].pc # "idle" => l = m
          /\ \A t \in Task : nagged[i][t] <= 1
          /\ Open(i) /\ Known(i) /\ row[i].task \in Task /\ row[i].nudges = 0 =>
                \/ nagged[i][row[i].task] = 0
                \/ \E l \in Lane : tick[i][l].pc = "nudged" /\ tick[i][l].copy.task = row[i].task

(* Where task t may be found with specialist i: in its row, also after its *)
(* release, in the copy of that row which a nudge will save, and in the    *)
(* recovery that will give it to the replacement.                          *)
Holds(i, t) == Known(i) /\ t \in {row[i].task, row[i].last}
Copies(i, l, t) == /\ tick[i][l].pc \in {"nudge", "nudged"}
                   /\ t \in {tick[i][l].copy.task, tick[i][l].copy.last}
Hands(i, l, t) == /\ tick[i][l].pc \in {"close", "clear", "spawn", "delegate"}
                  /\ tick[i][l].task = t
Bears(i, t) == Holds(i, t) \/ \E l \in Lane : Copies(i, l, t) \/ Hands(i, l, t)

(* The task has not been recorded in any row yet. *)
Fresh(t) == t \notin hub.given \/ (hub.gives # NoRow /\ hub.gives.task = t)

Token(t) ==
    /\ \A i, j \in Instance : Bears(i, t) /\ Bears(j, t) /\ i # j => {i, j} \subseteq doubled
    /\ Fresh(t) => \A i \in Instance : ~Bears(i, t) /\ nagged[i][t] = 0

HubSound == hub.gives # NoRow => hub.gives.task \in hub.given

Inductive ==
    /\ TypeOK /\ HubSound
    /\ \A i \in Instance : PaneSound(i) /\ \A l \in Lane : CommandSound(i, l)
    /\ \A t \in Task : Token(t)

-----------------------------------------------------------------------------
(* Types. *)

RowsOK(f) ==
    /\ f \in [Instance -> Row \cup {NoRow}]
    /\ \A i \in Instance : f[i] # NoRow /\ f[i].awaiting => f[i].nudges = 1

LEMMA TypeParts ==
    TypeOK <=> /\ RowsOK(row)
               /\ pane \in [Instance -> Pane]
               /\ tick \in [Instance -> [Lane -> TickState]]
               /\ hub \in [busy: BOOLEAN, gives: [to: Instance, task: Task] \cup {NoRow},
                           given: SUBSET Task]
               /\ mail \subseteq [from: Instance, task: Task,
                                  at: {"queue", "acking", "pending", "processing"}]
               /\ nagged \in [Instance -> [Task -> Nat]]
               /\ reported \subseteq Instance \X Task
               /\ broken \subseteq Instance /\ doubled \subseteq Instance
  BY DEF TypeOK, RowsOK, Known

LEMMA TypeNext ==
    ASSUME RowsOK(row'), pane' \in [Instance -> Pane], tick' \in [Instance -> [Lane -> TickState]],
           hub' \in [busy: BOOLEAN, gives: [to: Instance, task: Task] \cup {NoRow},
                     given: SUBSET Task],
           mail' \subseteq [from: Instance, task: Task,
                            at: {"queue", "acking", "pending", "processing"}],
           nagged' \in [Instance -> [Task -> Nat]],
           reported' \subseteq Instance \X Task, broken' \subseteq Instance,
           doubled' \subseteq Instance
    PROVE  TypeOK'
  BY DEF TypeOK, RowsOK, Known

(* A row may be replaced by any that awaits no answer to a nudge it does   *)
(* not count, or be removed.                                               *)
LEMMA RowPut ==
    ASSUME RowsOK(row), NEW i \in Instance, NEW r,
           r = NoRow \/ (r \in Row /\ (r.awaiting => r.nudges = 1)),
           row' = [row EXCEPT ![i] = r]
    PROVE  RowsOK(row') /\ row'[i] = r /\ \A j \in Instance : j # i => row'[j] = row[j]
  BY DEF RowsOK

(* What commands make of a row. *)
LEMMA RowForms ==
    ASSUME NEW r \in Row, r.awaiting => r.nudges = 1
    PROVE  /\ LET n == [r EXCEPT !.task = NoTask, !.last = NoTask, !.silent = "none",
                                 !.nudges = 0, !.awaiting = FALSE]
              IN  n \in Row /\ ~n.awaiting /\ n.task = NoTask /\ n.last = NoTask
           /\ LET n == [r EXCEPT !.status = "idle", !.task = NoTask]
              IN  n \in Row /\ n.awaiting = r.awaiting /\ n.nudges = r.nudges
                  /\ n.task = NoTask /\ n.last = r.last
           /\ LET n == [r EXCEPT !.silent = "none", !.awaiting = FALSE]
              IN  n \in Row /\ ~n.awaiting /\ n.nudges = r.nudges
                  /\ n.task = r.task /\ n.last = r.last
           /\ LET n == Working(r)
              IN  n \in Row /\ ~n.awaiting /\ n.nudges = r.nudges
                  /\ n.task = r.task /\ n.last = r.last
<1>1. "idle" \in {"idle", "working"} /\ "working" \in {"idle", "working"}
      /\ "none" \in Age /\ "recent" \in Age /\ 0 \in 0 .. 1 /\ 1 \in 0 .. 1
  BY DEF Age
<1> QED
  BY <1>1 DEF Row, Working

LEMMA RoutedForm ==
    ASSUME NEW r \in Row, NEW t \in Task
    PROVE  LET n == [r EXCEPT !.task = t, !.last = t, !.silent = "recent",
                              !.nudges = 0, !.awaiting = FALSE]
           IN  n \in Row /\ ~n.awaiting /\ n.task = t /\ n.last = t /\ n.nudges = 0
<1>1. "recent" \in Age /\ 0 \in 0 .. 1
  BY DEF Age
<1> QED
  BY <1>1 DEF Row

LEMMA CountedForm ==
    ASSUME NEW r \in Row
    PROVE  LET n == [r EXCEPT !.nudges = 1, !.nudgeAt = "recent", !.awaiting = TRUE]
           IN  n \in Row /\ n.nudges = 1 /\ n.task = r.task /\ n.last = r.last
<1>1. "recent" \in Age /\ 1 \in 0 .. 1
  BY DEF Age
<1> QED
  BY <1>1 DEF Row

LEMMA SettledForm ==
    ASSUME NEW r \in Row, r.awaiting => r.nudges = 1
    PROVE  LET n == Settled(r)
           IN  n \in Row /\ n.awaiting = r.awaiting /\ n.nudges = r.nudges
               /\ n.task = r.task /\ n.last = r.last
<1> DEFINE v == IF r.task = NoTask \/ HasHubMessage(r.task) THEN "none"
                ELSE IF r.silent = "none" THEN "recent" ELSE r.silent
<1>1. v \in Age
  BY DEF Age, Row
<1>2. Settled(r) = [r EXCEPT !.status = "idle", !.settled = "recent", !.silent = v]
  BY DEF Settled
<1> HIDE DEF v
<1>3. "idle" \in {"idle", "working"} /\ "recent" \in Age
  BY DEF Age
<1> QED
  BY <1>1, <1>2, <1>3 DEF Row

LEMMA AgedForm ==
    ASSUME NEW r \in Row \cup {NoRow}, r # NoRow /\ r.awaiting => r.nudges = 1
    PROVE  LET n == AgedRow(r)
           IN  /\ n = NoRow \/ (n \in Row /\ (n.awaiting => n.nudges = 1))
               /\ \/ n = r
                  \/ r # NoRow /\ n.nudges = r.nudges /\ n.task = r.task /\ n.last = r.last
<1>1. CASE r = NoRow
  BY <1>1 DEF AgedRow
<1>2. CASE r # NoRow
  <2>1. /\ r \in Row
        /\ AgedRow(r) = [r EXCEPT !.silent = Aged(r.silent), !.settled = Aged(r.settled),
                                  !.nudgeAt = Aged(r.nudgeAt)]
    BY <1>2 DEF AgedRow
  <2>2. \A a \in Age : Aged(a) \in Age
    BY DEF Age, Aged
  <2>3. Aged(r.silent) \in Age /\ Aged(r.settled) \in Age /\ Aged(r.nudgeAt) \in Age
    BY <2>1, <2>2 DEF Row
  <2> QED
    BY <1>2, <2>1, <2>3 DEF Row
<1> QED
  BY <1>1, <1>2

-----------------------------------------------------------------------------
(* Most steps give no task to anybody.                                     *)

(* The row of i keeps its task and its count of nudges, or loses them. *)
Lessens(i) ==
    \/ row'[i] \in {row[i], NoRow}
    \/ /\ Known(i) /\ row'[i].last \in {row[i].last, NoTask}
       /\ \/ row'[i].task = row[i].task /\ row'[i].nudges = row[i].nudges
          \/ row'[i].task = NoTask

(* Nobody is given a task, opened or nudged, no recovery goes on. *)
Lessening ==
    /\ \A i \in Instance : Lessens(i) /\ pane'[i].is \in {pane[i].is, "closed"}
    /\ UNCHANGED <<tick, nagged, doubled>>
    /\ \A t \in Task : Fresh(t)' => Fresh(t)
    /\ HubSound => HubSound'

LEMMA SameRows ==
    ASSUME row' = row
    PROVE  /\ \A i \in Instance : Lessens(i)
           /\ RowsOK(row) => RowsOK(row')
  BY DEF Lessens

LEMMA RowLessens ==
    ASSUME RowsOK(row), NEW i \in Instance, NEW r, row' = [row EXCEPT ![i] = r],
           \/ r = NoRow
           \/ /\ Known(i) /\ r \in Row /\ (r.awaiting => r.nudges = 1)
              /\ r.last \in {row[i].last, NoTask}
              /\ \/ r.task = row[i].task /\ r.nudges = row[i].nudges
                 \/ r.task = NoTask
    PROVE  RowsOK(row') /\ \A j \in Instance : Lessens(j)
<1>1. RowsOK(row') /\ row'[i] = r /\ \A j \in Instance : j # i => row'[j] = row[j]
  BY RowPut
<1> QED
  BY <1>1 DEF Lessens

(* One pane is changed. *)
LEMMA PanePut ==
    ASSUME pane \in [Instance -> Pane], NEW i \in Instance, NEW p \in Pane,
           pane' = [pane EXCEPT ![i] = p], p.is \in {pane[i].is, "closed"}
    PROVE  /\ pane' \in [Instance -> Pane]
           /\ \A j \in Instance : pane'[j].is \in {pane[j].is, "closed"}
  OBVIOUS

LEMMA PaneForms ==
    /\ ShutPane \in Pane /\ ShutPane.is = "closed"
    /\ NewPane \in Pane /\ NewPane.is = "open"
  BY DEF ShutPane, NewPane, NoPane, Pane, Age

LEMMA HubLessens ==
    ASSUME TypeOK,
           \/ HubTurns \/ HubRestarts
           \/ \E m \in mail : HubShows(m) \/ HubAcks(m)
           \/ \E i \in Instance : HubReleases(i) \/ \E t \in Task : HubDelegates(i, t)
    PROVE  TypeOK' /\ Lessening
<1>1. /\ RowsOK(row) /\ pane \in [Instance -> Pane] /\ tick \in [Instance -> [Lane -> TickState]]
      /\ hub \in [busy: BOOLEAN, gives: [to: Instance, task: Task] \cup {NoRow},
                  given: SUBSET Task]
      /\ \A m \in mail : m \in [from: Instance, task: Task,
                                at: {"queue", "acking", "pending", "processing"}]
      /\ nagged \in [Instance -> [Task -> Nat]]
      /\ reported \subseteq Instance \X Task /\ broken \subseteq Instance
      /\ doubled \subseteq Instance
  BY TypeParts
<1>2. CASE HubTurns
  <2>1. hub' = [hub EXCEPT !.busy = ~hub.busy] /\ UNCHANGED <<row, pane, tick, mail, nagged>>
        /\ UNCHANGED <<reported, broken, doubled>>
    BY <1>2 DEF HubTurns
  <2>2. hub'.gives = hub.gives /\ hub'.given = hub.given /\ hub'.busy \in BOOLEAN
        /\ hub' \in [busy: BOOLEAN, gives: [to: Instance, task: Task] \cup {NoRow},
                     given: SUBSET Task]
    BY <1>1, <2>1
  <2> QED
    BY <1>1, <2>1, <2>2, SameRows, TypeNext DEF Lessening, Fresh, HubSound
<1>3. CASE HubRestarts
  <2>1. /\ hub' = [hub EXCEPT !.busy = FALSE, !.gives = NoRow] /\ mail' \subseteq mail
        /\ reported' \subseteq reported /\ UNCHANGED <<row, pane, tick, nagged, broken, doubled>>
    BY <1>3 DEF HubRestarts
  <2>2. hub'.gives = NoRow /\ hub'.given = hub.given
        /\ hub' \in [busy: BOOLEAN, gives: [to: Instance, task: Task] \cup {NoRow},
                     given: SUBSET Task]
    BY <1>1, <2>1
  <2> QED
    BY <1>1, <2>1, <2>2, SameRows, TypeNext DEF Lessening, Fresh, HubSound
<1>4. ASSUME NEW m \in mail, HubShows(m)
      PROVE  TypeOK' /\ Lessening
  <2>1. /\ mail' = (mail \ {m}) \cup {[m EXCEPT !.at = Shown[m.at]]}
        /\ m.at \in DOMAIN Shown
        /\ UNCHANGED <<row, pane, tick, hub, nagged, reported, broken, doubled>>
    BY <1>4 DEF HubShows
  <2>2. Shown[m.at] \in {"acking", "processing"}
    BY <2>1 DEF Shown
  <2>3. mail' \subseteq [from: Instance, task: Task,
                         at: {"queue", "acking", "pending", "processing"}]
    BY <1>1, <2>1, <2>2
  <2> QED
    BY <1>1, <2>1, <2>3, SameRows, TypeNext DEF Lessening, Fresh, HubSound
<1>5. ASSUME NEW m \in mail, HubAcks(m)
      PROVE  TypeOK' /\ Lessening
  <2>1. /\ row' = Cleared(m) /\ mail' = mail \ {m} /\ m.from \in Instance
        /\ UNCHANGED <<pane, tick, hub, nagged, reported, broken, doubled>>
    BY <1>1, <1>5 DEF HubAcks
  <2>2. RowsOK(row') /\ \A i \in Instance : Lessens(i)
    <3>1. CASE Known(m.from) /\ row[m.from].task = m.task
      <4> DEFINE r == row[m.from]
                 n == [r EXCEPT !.task = NoTask, !.last = NoTask, !.silent = "none",
                                !.nudges = 0, !.awaiting = FALSE]
      <4>1. row' = [row EXCEPT ![m.from] = n]
        BY <2>1, <3>1 DEF Cleared
      <4>2. r \in Row /\ (r.awaiting => r.nudges = 1)
        BY <1>1, <2>1, <3>1 DEF RowsOK, Known
      <4>3. n \in Row /\ ~n.awaiting /\ n.task = NoTask /\ n.last = NoTask
        BY <4>2, RowForms
      <4> HIDE DEF n
      <4> QED
        BY <1>1, <2>1, <3>1, <4>1, <4>3, RowLessens
    <3>2. CASE ~(Known(m.from) /\ row[m.from].task = m.task)
      BY <1>1, <2>1, <3>2, SameRows DEF Cleared
    <3> QED
      BY <3>1, <3>2
  <2> QED
    BY <1>1, <2>1, <2>2, TypeNext DEF Lessening, Fresh, HubSound
<1>6. ASSUME NEW i \in Instance, HubReleases(i)
      PROVE  TypeOK' /\ Lessening
  <2>1. Known(i) /\ UNCHANGED <<tick, hub, mail, nagged, reported, broken, doubled>>
    BY <1>6 DEF HubReleases
  <2>2. /\ RowsOK(row') /\ pane' \in [Instance -> Pane]
        /\ \A j \in Instance : Lessens(j) /\ pane'[j].is \in {pane[j].is, "closed"}
    <3> DEFINE r == row[i]
               n == [r EXCEPT !.status = "idle", !.task = NoTask]
    <3>1. CASE row' = [row EXCEPT ![i] = n] /\ UNCHANGED pane
      <4>1. r \in Row /\ (r.awaiting => r.nudges = 1)
        BY <1>1, <2>1 DEF RowsOK, Known
      <4>2. n \in Row /\ n.awaiting = r.awaiting /\ n.nudges = r.nudges
            /\ n.task = NoTask /\ n.last = r.last
        BY <4>1, RowForms
      <4> HIDE DEF n
      <4> QED
        BY <1>1, <2>1, <3>1, <4>1, <4>2, RowLessens
    <3>2. CASE row' = [row EXCEPT ![i] = NoRow] /\ pane' = [pane EXCEPT ![i] = ShutPane]
      BY <1>1, <3>2, RowLessens, PanePut, PaneForms
    <3> QED
      BY <1>6, <3>1, <3>2 DEF HubReleases
  <2> QED
    BY <1>1, <2>1, <2>2, TypeNext DEF Lessening, Fresh, HubSound
<1>7. ASSUME NEW i \in Instance, NEW t \in Task, HubDelegates(i, t)
      PROVE  TypeOK' /\ Lessening
  <2> DEFINE p == [pane[i] EXCEPT !.prompt = TRUE, !.task = t]
  <2>1. /\ pane' = [pane EXCEPT ![i] = p] /\ hub.gives = NoRow /\ t \notin hub.given
        /\ hub' = [hub EXCEPT !.gives = [to |-> i, task |-> t], !.given = hub.given \cup {t}]
        /\ UNCHANGED <<row, tick, mail, nagged, reported, broken, doubled>>
    BY <1>7 DEF HubDelegates
  <2>2. p \in Pane /\ p.is = pane[i].is
    <3>1. pane[i] \in Pane
      BY <1>1
    <3> QED
      BY <3>1 DEF Pane
  <2> HIDE DEF p
  <2>3. /\ hub'.gives = [to |-> i, task |-> t] /\ hub'.given = hub.given \cup {t}
        /\ hub' \in [busy: BOOLEAN, gives: [to: Instance, task: Task] \cup {NoRow},
                     given: SUBSET Task]
    BY <1>1, <2>1
  <2>4. \A u \in Task : Fresh(u)' => Fresh(u)
    BY <2>1, <2>3 DEF Fresh
  <2> QED
    BY <1>1, <2>1, <2>2, <2>3, <2>4, PanePut, SameRows, TypeNext
     DEF Lessening, HubSound
<1> QED
  BY <1>2, <1>3, <1>4, <1>5, <1>6, <1>7

LEMMA AgentLessens ==
    ASSUME TypeOK, NEW i \in Instance,
           \/ AgentStarts(i) \/ AgentReports(i) \/ AgentSettles(i) \/ Marks(i) \/ TakesFile(i)
           \/ TickSeesReport(i)
    PROVE  TypeOK' /\ Lessening
<1>1. /\ RowsOK(row) /\ pane \in [Instance -> Pane] /\ tick \in [Instance -> [Lane -> TickState]]
      /\ hub \in [busy: BOOLEAN, gives: [to: Instance, task: Task] \cup {NoRow},
                  given: SUBSET Task]
      /\ mail \subseteq [from: Instance, task: Task,
                         at: {"queue", "acking", "pending", "processing"}]
      /\ nagged \in [Instance -> [Task -> Nat]]
      /\ reported \subseteq Instance \X Task /\ broken \subseteq Instance
      /\ doubled \subseteq Instance
  BY TypeParts
<1>2. Known(i) => row[i] \in Row /\ (row[i].awaiting => row[i].nudges = 1)
  BY <1>1 DEF RowsOK, Known
<1>3. pane[i] \in Pane
  BY <1>1
<1>4. SUFFICES /\ RowsOK(row') /\ \A j \in Instance : Lessens(j)
               /\ pane' \in [Instance -> Pane]
               /\ \A j \in Instance : pane'[j].is \in {pane[j].is, "closed"}
               /\ UNCHANGED <<tick, hub, nagged, broken, doubled>>
               /\ mail' \subseteq [from: Instance, task: Task,
                                   at: {"queue", "acking", "pending", "processing"}]
               /\ reported' \subseteq Instance \X Task
  BY <1>1, TypeNext DEF Lessening, Fresh, HubSound
<1>5. CASE AgentStarts(i)
  <2> DEFINE p == [pane[i] EXCEPT !.busy = TRUE, !.prompt = FALSE, !.mark = "working",
                                  !.timer = "none"]
  <2>1. /\ pane' = [pane EXCEPT ![i] = p]
        /\ UNCHANGED <<row, tick, hub, mail, nagged, reported, broken, doubled>>
    BY <1>5 DEF AgentStarts
  <2>2. p \in Pane /\ p.is = pane[i].is
    BY <1>3 DEF Pane, Age
  <2> HIDE DEF p
  <2> QED
    BY <1>1, <2>1, <2>2, PanePut, SameRows
<1>6. CASE AgentReports(i)
  <2>1. /\ pane[i].task \in Task /\ UNCHANGED <<row, pane, tick, hub, nagged, broken, doubled>>
        /\ mail' = mail \cup {[from |-> i, task |-> pane[i].task,
                               at |-> IF hub.busy THEN "queue" ELSE "acking"]}
        /\ reported' = reported \cup {<<i, pane[i].task>>}
    BY <1>3, <1>6 DEF AgentReports, Pane
  <2> QED
    BY <1>1, <2>1, SameRows
<1>7. CASE AgentSettles(i)
  <2> DEFINE p == [pane[i] EXCEPT !.busy = FALSE, !.mark = "idle"]
  <2>1. /\ pane' = [pane EXCEPT ![i] = p]
        /\ UNCHANGED <<row, tick, hub, mail, nagged, reported, broken, doubled>>
    BY <1>7 DEF AgentSettles
  <2>2. p \in Pane /\ p.is = pane[i].is
    BY <1>3 DEF Pane, Age
  <2> HIDE DEF p
  <2> QED
    BY <1>1, <2>1, <2>2, PanePut, SameRows
<1>8. CASE Marks(i)
  <2> DEFINE p == [pane[i] EXCEPT !.mark = "none",
                                  !.timer = IF pane[i].mark = "idle" THEN "recent"
                                                                     ELSE pane[i].timer]
             r == IF pane[i].mark = "working" THEN Working(row[i]) ELSE Settled(row[i])
  <2>1. /\ pane' = [pane EXCEPT ![i] = p]
        /\ row' = IF ~Known(i) THEN row ELSE [row EXCEPT ![i] = r]
        /\ UNCHANGED <<tick, hub, mail, nagged, reported, broken, doubled>>
    BY <1>1, <1>8 DEF Marks, Pane
  <2>2. p \in Pane /\ p.is = pane[i].is
    BY <1>3 DEF Pane, Age
  <2>3. Known(i) => /\ r \in Row /\ (r.awaiting => r.nudges = 1) /\ r.nudges = row[i].nudges
                    /\ r.task = row[i].task /\ r.last = row[i].last
    BY <1>2, RowForms, SettledForm
  <2> HIDE DEF p, r
  <2>4. /\ pane' \in [Instance -> Pane]
        /\ \A j \in Instance : pane'[j].is \in {pane[j].is, "closed"}
    BY <1>1, <2>1, <2>2, PanePut
  <2>5. RowsOK(row') /\ \A j \in Instance : Lessens(j)
    BY <1>1, <2>1, <2>3, RowLessens, SameRows
  <2> QED
    BY <1>1, <2>1, <2>4, <2>5
<1>9. CASE TakesFile(i)
  <2> DEFINE p == [pane[i] EXCEPT !.prompt = TRUE, !.task = pane[i].file, !.file = NoTask]
  <2>1. /\ pane' = [pane EXCEPT ![i] = p]
        /\ UNCHANGED <<row, tick, hub, mail, nagged, reported, broken, doubled>>
    BY <1>9 DEF TakesFile
  <2>2. p \in Pane /\ p.is = pane[i].is
    BY <1>3 DEF Pane
  <2> HIDE DEF p
  <2> QED
    BY <1>1, <2>1, <2>2, PanePut, SameRows
<1>10. CASE TickSeesReport(i)
  <2> DEFINE n == [row[i] EXCEPT !.silent = "none", !.awaiting = FALSE]
  <2>1. /\ Known(i) /\ row' = [row EXCEPT ![i] = n]
        /\ UNCHANGED <<pane, tick, hub, mail, nagged, reported, broken, doubled>>
    BY <1>10 DEF TickSeesReport, Ticks
  <2>2. n \in Row /\ ~n.awaiting /\ n.nudges = row[i].nudges
        /\ n.task = row[i].task /\ n.last = row[i].last
    BY <1>2, <2>1, RowForms
  <2> HIDE DEF n
  <2> QED
    BY <1>1, <2>1, <2>2, RowLessens
<1> QED
  BY <1>5, <1>6, <1>7, <1>8, <1>9, <1>10

LEMMA TimeLessens ==
    ASSUME TypeOK, TimePasses
    PROVE  TypeOK' /\ Lessening
<1>1. /\ RowsOK(row) /\ pane \in [Instance -> Pane] /\ tick \in [Instance -> [Lane -> TickState]]
      /\ hub \in [busy: BOOLEAN, gives: [to: Instance, task: Task] \cup {NoRow},
                  given: SUBSET Task]
      /\ mail \subseteq [from: Instance, task: Task,
                         at: {"queue", "acking", "pending", "processing"}]
      /\ nagged \in [Instance -> [Task -> Nat]]
      /\ reported \subseteq Instance \X Task /\ broken \subseteq Instance
      /\ doubled \subseteq Instance
  BY TypeParts
<1>2. /\ row' = [i \in Instance |-> AgedRow(row[i])]
      /\ pane' = [i \in Instance |-> [pane[i] EXCEPT !.timer = Aged(pane[i].timer)]]
      /\ UNCHANGED <<tick, hub, mail, nagged, reported, broken, doubled>>
  BY DEF TimePasses
<1>3. RowsOK(row') /\ \A i \in Instance : Lessens(i)
  <2>1. ASSUME NEW i \in Instance
        PROVE  /\ row'[i] = NoRow
                  \/ (row'[i] \in Row /\ (row'[i].awaiting => row'[i].nudges = 1))
               /\ Lessens(i)
    <3>1. row[i] \in Row \cup {NoRow} /\ (row[i] # NoRow /\ row[i].awaiting => row[i].nudges = 1)
      BY <1>1 DEF RowsOK
    <3>2. row'[i] = AgedRow(row[i])
      BY <1>2
    <3> QED
      BY <3>1, <3>2, AgedForm DEF Lessens, Known
  <2> QED
    BY <1>2, <2>1 DEF RowsOK
<1>4. /\ pane' \in [Instance -> Pane]
      /\ \A j \in Instance : pane'[j].is \in {pane[j].is, "closed"}
  <2>1. ASSUME NEW i \in Instance
        PROVE  pane'[i] \in Pane /\ pane'[i].is = pane[i].is
    <3>1. pane[i] \in Pane /\ Aged(pane[i].timer) \in Age
      BY <1>1 DEF Pane, Age, Aged
    <3> QED
      BY <1>2, <3>1 DEF Pane
  <2> QED
    BY <1>2, <2>1
<1> QED
  BY <1>1, <1>2, <1>3, <1>4, TypeNext DEF Lessening, Fresh, HubSound

-----------------------------------------------------------------------------
(* So they keep the invariant. *)

LEMMA TokenLess ==
    ASSUME \A t \in Task : Token(t), doubled \subseteq doubled',
           \A i \in Instance : \A t \in Task : Bears(i, t)' => Bears(i, t),
           nagged' = nagged, \A t \in Task : Fresh(t)' => Fresh(t)
    PROVE  \A t \in Task : Token(t)'
<1> SUFFICES ASSUME NEW t \in Task PROVE Token(t)'
  OBVIOUS
<1>1. \A i, j \in Instance : Bears(i, t)' /\ Bears(j, t)' /\ i # j => {i, j} \subseteq doubled'
  BY DEF Token
<1>2. Fresh(t)' => \A i \in Instance : ~Bears(i, t)' /\ nagged'[i][t] = 0
  BY DEF Token
<1> QED
  BY <1>1, <1>2 DEF Token

LEMMA LessensHolds ==
    ASSUME NEW i \in Instance, Lessens(i), NEW t \in Task, Holds(i, t)'
    PROVE  Holds(i, t)
  BY SettleAssumption DEF Lessens, Holds, Known

LEMMA LesseningKeeps ==
    ASSUME Inductive, TypeOK', Lessening
    PROVE  Inductive'
<1>1. /\ tick' = tick /\ nagged' = nagged /\ doubled' = doubled
      /\ \A i \in Instance : Lessens(i) /\ pane'[i].is \in {pane[i].is, "closed"}
  BY DEF Lessening
<1>2. \A i \in Instance : \A t \in Task : Bears(i, t)' => Bears(i, t)
  BY <1>1, LessensHolds DEF Bears, Copies, Hands
<1>3. \A t \in Task : Token(t)'
  BY <1>1, <1>2, TokenLess DEF Lessening, Inductive
<1>4. ASSUME NEW i \in Instance
      PROVE  PaneSound(i)' /\ \A l \in Lane : CommandSound(i, l)'
  <2>1. /\ PaneSound(i) /\ Lessens(i) /\ pane'[i].is \in {pane[i].is, "closed"}
        /\ \A l \in Lane : CommandSound(i, l)
    BY <1>1 DEF Inductive
  <2>2. row[i] = NoRow => row'[i] = NoRow
    BY <2>1 DEF Lessens, Known
  <2>3. \A l \in Lane : CommandSound(i, l)'
    BY <1>1, <2>1, <2>2 DEF CommandSound
  <2>4. ASSUME Known(i)', row'[i].task \in Task, row'[i].nudges = 0
        PROVE  Known(i) /\ row'[i].task = row[i].task /\ row[i].nudges = 0
    BY <2>1, <2>4, SettleAssumption DEF Lessens, Known
  <2>5. PaneSound(i)'
    BY <1>1, <2>1, <2>2, <2>4 DEF PaneSound, Open
  <2> QED
    BY <2>3, <2>5
<1> QED
  BY <1>3, <1>4 DEF Inductive, Lessening

-----------------------------------------------------------------------------
(* The recovery commands. *)

(* Lane l of i holds the command c; all others are left alone. *)
Set(i, l, c) ==
    /\ tick'[i][l] = c /\ tick' \in [Instance -> [Lane -> TickState]]
    /\ \A j \in Instance, m \in Lane : j # i \/ m # l => tick'[j][m] = tick[j][m]

LEMMA TickPut ==
    ASSUME tick \in [Instance -> [Lane -> TickState]], NEW i \in Instance, NEW l \in Lane,
           NEW c \in TickState, tick' = [tick EXCEPT ![i][l] = c]
    PROVE  Set(i, l, c)
<1>1. tick' = [tick EXCEPT ![i] = [tick[i] EXCEPT ![l] = c]]
  OBVIOUS
<1>2. /\ tick'[i] = [tick[i] EXCEPT ![l] = c] /\ tick[i] \in [Lane -> TickState]
      /\ \A j \in Instance : j # i => tick'[j] = tick[j]
  BY <1>1
<1>3. tick'[i] \in [Lane -> TickState]
  BY <1>2
<1>4. tick' \in [Instance -> [Lane -> TickState]]
  BY <1>1, <1>3
<1>5. /\ tick'[i][l] = c
      /\ \A j \in Instance, m \in Lane : j # i \/ m # l => tick'[j][m] = tick[j][m]
  BY <1>2
<1> QED
  BY <1>4, <1>5 DEF Set

(* The command goes on to its next step, or it ends. *)
LEMMA GoesPut ==
    ASSUME tick \in [Instance -> [Lane -> TickState]], NEW i \in Instance, NEW l \in Lane,
           NEW p \in {"nudge", "nudged", "abandon", "teardown", "close", "clear", "spawn",
                      "delegate", "notice"},
           Goes(i, l, p)
    PROVE  Set(i, l, [tick[i][l] EXCEPT !.pc = p])
<1>1. tick[i][l] \in TickState
  OBVIOUS
<1>2. [tick[i][l] EXCEPT !.pc = p] \in TickState
  BY <1>1 DEF TickState
<1>3. tick' = [tick EXCEPT ![i][l] = [tick[i][l] EXCEPT !.pc = p]]
  BY DEF Goes
<1> QED
  BY <1>2, <1>3, TickPut

LEMMA EndsPut ==
    ASSUME tick \in [Instance -> [Lane -> TickState]], NEW i \in Instance, NEW l \in Lane,
           Ends(i, l)
    PROVE  Set(i, l, Waiting)
<1>1. Waiting \in TickState
  BY DEF Waiting, TickState
<1> QED
  BY <1>1, TickPut DEF Ends

(* A command that is left alone. *)
LEMMA CommandKeeps ==
    ASSUME NEW j \in Instance, NEW m \in Lane, CommandSound(j, m), tick'[j][m] = tick[j][m],
           doubled \subseteq doubled', pane'[j].is \in {pane[j].is, "closed"},
           j \in doubled' \ doubled => pane[j].is # "closed",
           row'[j] = NoRow \/ row'[j] = row[j]
              \/ j \in doubled' \/ tick[j][m].pc \notin {"spawn", "delegate"},
           tick[j][m].pc = "nudge" /\ j \notin doubled' =>
              nagged'[j][tick[j][m].copy.task] = nagged[j][tick[j][m].copy.task],
           tick[j][m].pc = "delegate" /\ tick[j][m].to \notin doubled' =>
              nagged'[tick[j][m].to][tick[j][m].task] = nagged[tick[j][m].to][tick[j][m].task]
    PROVE  CommandSound(j, m)'
<1> DEFINE c == tick[j][m]
<1>1. /\ c.pc = "idle" => c = Waiting
      /\ c.pc \in {"nudge", "nudged"} => c.copy \in Row /\ c.copy.task \in Task
      /\ c.pc = "teardown" => c.task = NoTask
      /\ c.pc \in {"close", "clear"} /\ c.why = "abandon" => c.task \in Task
      /\ c.pc \in {"spawn", "delegate", "notice"} => c.task \in Task
      /\ c.pc \in {"delegate", "notice"} => c.to \in Instance /\ c.to # j
  BY DEF CommandSound
<1>2. c.pc \in {"clear", "spawn", "delegate", "notice"} =>
         pane[j].is = "closed" /\ pane'[j].is = "closed"
  BY DEF CommandSound
<1>3. c.pc \in {"spawn", "delegate"} /\ j \notin doubled' => row'[j] = NoRow
  BY DEF CommandSound
<1>4. c.pc = "delegate" /\ j \in doubled' => c.to \in doubled'
  BY <1>2 DEF CommandSound
<1>5. pane'[j].is = "none" => c.pc = "idle"
  BY DEF CommandSound
<1>6. c.pc = "nudge" /\ j \notin doubled' => nagged'[j][c.copy.task] = 0
  BY DEF CommandSound
<1>7. c.pc = "delegate" /\ c.to \notin doubled' => nagged'[c.to][c.task] = 0
  BY DEF CommandSound
<1>8. tick'[j][m] = c
  OBVIOUS
<1> HIDE DEF c
<1> QED
  BY <1>1, <1>2, <1>3, <1>4, <1>5, <1>6, <1>7, <1>8 DEF CommandSound

(* A specialist whose row and commands are left alone. *)
LEMMA PaneKeeps ==
    ASSUME NEW j \in Instance, PaneSound(j), row'[j] = row[j],
           \A m \in Lane : tick'[j][m] = tick[j][m],
           nagged'[j] = nagged[j], pane'[j].is \in {pane[j].is, "closed"},
           doubled \subseteq doubled'
    PROVE  PaneSound(j)' /\ \A t \in Task : Bears(j, t)' <=> Bears(j, t)
<1>1. PaneSound(j)'
  BY DEF PaneSound, Open, Known
<1>2. \A t \in Task : Bears(j, t)' <=> Bears(j, t)
  BY DEF Bears, Holds, Copies, Hands, Known
<1> QED
  BY <1>1, <1>2

(* The command in lane l of i goes on; nobody is given a task or nudged.   *)
LEMMA MovedKeeps ==
    ASSUME Inductive, TypeOK', NEW i \in Instance, NEW l \in Lane, NEW c, Set(i, l, c),
           row'[i] \in {row[i], NoRow}, \A j \in Instance : j # i => row'[j] = row[j],
           \A j \in Instance : pane'[j].is \in {pane[j].is, "closed"},
           UNCHANGED <<nagged, hub>>,
           doubled' = doubled \/ (doubled' = doubled \cup {i} /\ pane[i].is = "open"),
           c.pc # "idle" /\ i \notin doubled' => tick[i][l].pc # "idle" \/ Free(i) = Lane,
           tick[i][l].pc = "nudged" => pane[i].is # "open",
           CommandSound(i, l)',
           \A t \in Task : Copies(i, l, t)' \/ Hands(i, l, t)' => Bears(i, t)
    PROVE  Inductive'
<1>1. /\ tick'[i][l] = c /\ doubled \subseteq doubled' /\ nagged' = nagged
      /\ \A j \in Instance, m \in Lane : j # i \/ m # l => tick'[j][m] = tick[j][m]
  BY DEF Set
<1>2. ASSUME NEW j \in Instance, NEW m \in Lane, j # i \/ m # l
      PROVE  CommandSound(j, m)'
  <2>1. CommandSound(j, m)
    BY DEF Inductive
  <2>2. j \in doubled' \ doubled => pane[j].is # "closed"
    OBVIOUS
  <2>3. row'[j] = row[j] \/ row'[j] = NoRow
    OBVIOUS
  <2> QED
    BY <1>1, <1>2, <2>1, <2>2, <2>3, CommandKeeps
<1>3. ASSUME NEW j \in Instance, j # i
      PROVE  PaneSound(j)' /\ \A t \in Task : Bears(j, t)' <=> Bears(j, t)
  <2>1. PaneSound(j) /\ \A m \in Lane : tick'[j][m] = tick[j][m]
    BY <1>1, <1>3 DEF Inductive
  <2> QED
    BY <1>1, <1>3, <2>1, PaneKeeps
<1>4. \A t \in Task : Bears(i, t)' => Bears(i, t)
  <2> SUFFICES ASSUME NEW t \in Task, Bears(i, t)' PROVE Bears(i, t)
    OBVIOUS
  <2>1. CASE Holds(i, t)'
    BY <2>1 DEF Bears, Holds, Known
  <2>2. ASSUME NEW m \in Lane, Copies(i, m, t)' \/ Hands(i, m, t)'
        PROVE  Bears(i, t)
    <3>1. CASE m = l
      BY <2>2, <3>1
    <3>2. CASE m # l
      BY <1>1, <2>2, <3>2 DEF Bears, Copies, Hands
    <3> QED
      BY <3>1, <3>2
  <2> QED
    BY <2>1, <2>2 DEF Bears
<1>5. PaneSound(i)'
  <2>1. PaneSound(i)
    BY DEF Inductive
  <2>2. pane'[i].is = "none" => row'[i] = NoRow /\ \A t \in Task : nagged'[i][t] = 0
    BY <1>1, <2>1 DEF PaneSound
  <2>3. ASSUME i \notin doubled', NEW k \in Lane, NEW m \in Lane,
               tick'[i][k].pc # "idle", tick'[i][m].pc # "idle"
        PROVE  k = m
    <3>1. \A n \in Lane : n # l => tick'[i][n] = tick[i][n]
      BY <1>1
    <3>2. \A n \in Lane, o \in Lane : tick[i][n].pc # "idle" /\ tick[i][o].pc # "idle" => n = o
      BY <1>1, <2>1, <2>3 DEF PaneSound
    <3>3. tick'[i][l].pc # "idle" =>
             tick[i][l].pc # "idle" \/ \A n \in Lane : tick[i][n].pc = "idle"
      BY <1>1, <2>3 DEF Free, Is
    <3> QED
      BY <2>3, <3>1, <3>2, <3>3
  <2>4. i \notin doubled' => \A t \in Task : nagged'[i][t] <= 1
    BY <1>1, <2>1 DEF PaneSound
  <2>5. ASSUME i \notin doubled', Open(i)', Known(i)', row'[i].task \in Task, row'[i].nudges = 0
        PROVE  \/ nagged'[i][row'[i].task] = 0
               \/ \E m \in Lane : tick'[i][m].pc = "nudged" /\ tick'[i][m].copy.task = row'[i].task
    <3>1. Open(i) /\ Known(i) /\ row'[i] = row[i] /\ tick[i][l].pc # "nudged"
      BY <2>5 DEF Open, Known
    <3>2. \/ nagged[i][row[i].task] = 0
          \/ \E m \in Lane : tick[i][m].pc = "nudged" /\ tick[i][m].copy.task = row[i].task
      BY <1>1, <2>1, <2>5, <3>1 DEF PaneSound
    <3> QED
      BY <1>1, <3>1, <3>2
  <2> QED
    BY <2>2, <2>3, <2>4, <2>5 DEF PaneSound
<1>6. \A t \in Task : Fresh(t)' => Fresh(t)
  BY DEF Fresh
<1>7. \A j \in Instance : \A t \in Task : Bears(j, t)' => Bears(j, t)
  BY <1>3, <1>4
<1>8. \A t \in Task : Token(t)'
  BY <1>1, <1>6, <1>7, TokenLess DEF Inductive
<1>9. \A j \in Instance : PaneSound(j)' /\ \A m \in Lane : CommandSound(j, m)'
  BY <1>2, <1>3, <1>5
<1>10. HubSound'
  BY DEF Inductive, HubSound
<1> QED
  BY <1>8, <1>9, <1>10 DEF Inductive

(* A tick that starts, and an idle timer that goes off, take a free lane.  *)
LEMMA StartsKeep ==
    ASSUME Inductive, NEW i \in Instance, NEW l \in Lane,
           TickNudges(i, l) \/ TickAbandons(i, l) \/ IdleTimerFires(i, l)
    PROVE  Inductive'
<1>1. /\ RowsOK(row) /\ pane \in [Instance -> Pane] /\ tick \in [Instance -> [Lane -> TickState]]
      /\ hub \in [busy: BOOLEAN, gives: [to: Instance, task: Task] \cup {NoRow},
                  given: SUBSET Task]
      /\ mail \subseteq [from: Instance, task: Task,
                         at: {"queue", "acking", "pending", "processing"}]
      /\ nagged \in [Instance -> [Task -> Nat]]
      /\ reported \subseteq Instance \X Task /\ broken \subseteq Instance
      /\ doubled \subseteq Instance
  BY TypeParts DEF Inductive
<1>2. /\ row[i] \in Row \cup {NoRow} /\ tick[i][l] \in TickState /\ pane[i] \in Pane
      /\ CommandSound(i, l) /\ PaneSound(i)
  BY <1>1 DEF RowsOK, Inductive
<1>3. /\ tick[i][l].pc = "idle" /\ tick[i][l] = Waiting /\ pane[i].is = "open"
      /\ UNCHANGED <<row, hub, nagged, mail, reported, broken>> /\ Notes(i)
  <2>1. Takes(i, l) /\ Open(i) /\ Notes(i)
    BY DEF TickNudges, TickAbandons, IdleTimerFires, Overdue, Ticks, Quiet
  <2>2. l \in Free(i)
    BY <2>1 DEF Takes
  <2>3. UNCHANGED <<row, hub, nagged, mail, reported, broken>>
    BY DEF TickNudges, TickAbandons, IdleTimerFires
  <2> QED
    BY <1>2, <2>1, <2>2, <2>3 DEF Free, Is, Open, CommandSound
<1>4. /\ doubled' = doubled \/ doubled' = doubled \cup {i}
      /\ i \notin doubled' => Free(i) = Lane
      /\ doubled' \subseteq Instance
  BY <1>1, <1>3 DEF Notes
<1>5. Free(i) = Lane => \A m \in Lane : tick[i][m].pc = "idle"
  BY DEF Free, Is
<1>6. CASE TickNudges(i, l)
  <2> DEFINE c == [Waiting EXCEPT !.pc = "nudge", !.copy = row[i]]
  <2>1. /\ tick' = [tick EXCEPT ![i][l] = c] /\ pane' = pane /\ row[i] \in Row
        /\ row[i].task \in Task /\ row[i].nudges = 0
    BY <1>2, <1>6 DEF TickNudges, Overdue, Ticks, Known, Row
  <2>2. c \in TickState /\ c.pc = "nudge" /\ c.copy = row[i]
    BY <2>1 DEF TickState, Waiting
  <2> HIDE DEF c
  <2>3. Set(i, l, c)
    BY <1>1, <2>1, <2>2, TickPut
  <2>4. TypeOK'
    BY <1>1, <1>3, <1>4, <2>1, <2>3, SameRows, TypeNext DEF Set
  <2>5. i \notin doubled' => nagged[i][c.copy.task] = 0
    BY <1>2, <1>3, <1>4, <1>5, <1>6, <2>1, <2>2
     DEF PaneSound, TickNudges, Overdue, Ticks, Open
  <2>6. CommandSound(i, l)'
    BY <1>3, <2>1, <2>2, <2>3, <2>5 DEF CommandSound, Set
  <2>7. \A t \in Task : Copies(i, l, t)' \/ Hands(i, l, t)' => Bears(i, t)
    BY <1>6, <2>2, <2>3 DEF Set, Copies, Hands, Bears, Holds, TickNudges, Overdue, Ticks
  <2> QED
    BY <1>3, <1>4, <2>1, <2>3, <2>4, <2>6, <2>7, MovedKeeps
<1>7. CASE TickAbandons(i, l) \/ IdleTimerFires(i, l)
  <2>1. PICK p \in {"abandon", "teardown"} : Goes(i, l, p)
    BY <1>7 DEF TickAbandons, IdleTimerFires
  <2> DEFINE c == [tick[i][l] EXCEPT !.pc = p]
  <2>2. c.pc = p /\ c.task = NoTask
    BY <1>2, <1>3 DEF TickState, Waiting
  <2>3. Set(i, l, c)
    BY <1>1, <2>1, GoesPut
  <2> HIDE DEF c
  <2>4. pane' \in [Instance -> Pane] /\ \A j \in Instance : pane'[j].is = pane[j].is
    <3>1. CASE TickAbandons(i, l)
      BY <1>1, <3>1 DEF TickAbandons
    <3>2. CASE IdleTimerFires(i, l)
      <4> DEFINE q == [pane[i] EXCEPT !.timer = "none", !.tearing = TRUE]
      <4>1. q \in Pane /\ q.is = pane[i].is
        BY <1>2 DEF Pane, Age
      <4>2. pane' = [pane EXCEPT ![i] = q]
        BY <1>1, <3>2 DEF IdleTimerFires
      <4> HIDE DEF q
      <4> QED
        BY <1>1, <4>1, <4>2
    <3> QED
      BY <1>7, <3>1, <3>2
  <2>5. TypeOK'
    BY <1>1, <1>3, <1>4, <2>3, <2>4, SameRows, TypeNext DEF Set
  <2>6. CommandSound(i, l)'
    BY <1>3, <2>2, <2>3, <2>4 DEF CommandSound, Set
  <2>7. \A t \in Task : Copies(i, l, t)' \/ Hands(i, l, t)' => Bears(i, t)
    BY <2>2, <2>3 DEF Set, Copies, Hands
  <2> QED
    BY <1>3, <1>4, <2>3, <2>4, <2>5, <2>6, <2>7, MovedKeeps
<1> QED
  BY <1>6, <1>7

(* The other steps of a command that do not give anything away, and the    *)
(* faults that cut it short.                                               *)
LEMMA CommandsKeep ==
    ASSUME Inductive, NEW i \in Instance, NEW l \in Lane,
           \/ Abandons(i, l) \/ IdleTeardown(i, l) \/ Closes(i, l) \/ ClearsRow(i, l)
           \/ Notifies(i, l) \/ Dies(i, l)
           \/ (Is(i, l, "spawn") \/ Is(i, l, "delegate")) /\ Fails(i, l)
              /\ UNCHANGED <<row, pane, hub, mail, nagged, reported, doubled>>
    PROVE  Inductive'
<1>1. /\ RowsOK(row) /\ pane \in [Instance -> Pane] /\ tick \in [Instance -> [Lane -> TickState]]
      /\ hub \in [busy: BOOLEAN, gives: [to: Instance, task: Task] \cup {NoRow},
                  given: SUBSET Task]
      /\ mail \subseteq [from: Instance, task: Task,
                         at: {"queue", "acking", "pending", "processing"}]
      /\ nagged \in [Instance -> [Task -> Nat]]
      /\ reported \subseteq Instance \X Task /\ broken \subseteq Instance
      /\ doubled \subseteq Instance
  BY TypeParts DEF Inductive
<1>2. /\ row[i] \in Row \cup {NoRow} /\ tick[i][l] \in TickState /\ pane[i] \in Pane
      /\ CommandSound(i, l) /\ PaneSound(i)
  BY <1>1 DEF RowsOK, Inductive
<1>3. /\ tick[i][l].pc # "idle" /\ pane[i].is # "none"
      /\ tick[i][l].pc = "nudged" => pane[i].is # "open"
      /\ UNCHANGED <<hub, nagged, reported, doubled>>
  BY <1>2 DEF Abandons, IdleTeardown, Closes, ClearsRow, Notifies, Dies, Is, Open, CommandSound
<1>4. ASSUME NEW c \in TickState, Set(i, l, c), RowsOK(row'),
             row'[i] \in {row[i], NoRow}, \A j \in Instance : j # i => row'[j] = row[j],
             pane' \in [Instance -> Pane],
             \A j \in Instance : pane'[j].is \in {pane[j].is, "closed"},
             mail' \subseteq [from: Instance, task: Task,
                              at: {"queue", "acking", "pending", "processing"}],
             broken' \subseteq Instance,
             c.pc \in {"idle", "close", "clear", "spawn"},
             c.pc = "idle" => c = Waiting,
             c.pc \in {"clear", "spawn"} => pane'[i].is = "closed",
             c.pc = "spawn" => row'[i] = NoRow,
             c.pc # "idle" /\ (c.why = "abandon" \/ c.pc = "spawn") => c.task \in Task,
             c.pc # "idle" /\ c.task \in Task => Bears(i, c.task)
      PROVE  Inductive'
  <2>1. tick'[i][l] = c /\ TypeOK'
    BY <1>1, <1>3, <1>4, TypeNext DEF Set
  <2>2. pane'[i].is # "none"
    BY <1>3, <1>4
  <2>3. CommandSound(i, l)'
    BY <1>4, <2>1, <2>2 DEF CommandSound
  <2>4. \A t \in Task : Copies(i, l, t)' \/ Hands(i, l, t)' => Bears(i, t)
    BY <1>4, <2>1 DEF Copies, Hands
  <2> QED
    BY <1>3, <1>4, <2>1, <2>3, <2>4, MovedKeeps
<1>5. Waiting \in TickState /\ Waiting.pc = "idle"
  BY DEF Waiting, TickState
<1>6. CASE Abandons(i, l)
  <2> DEFINE t == IF ~Open(i) \/ ~Known(i) THEN NoTask
                  ELSE IF row[i].last # NoTask THEN row[i].last ELSE row[i].task
             c == IF t = NoTask THEN Waiting
                  ELSE [tick[i][l] EXCEPT !.pc = "close", !.why = "abandon", !.task = t]
  <2>1. /\ tick' = [tick EXCEPT ![i][l] = c]
        /\ UNCHANGED <<row, pane, hub, mail, nagged, reported, broken, doubled>>
    BY <1>6 DEF Abandons, Ends
  <2>2. t # NoTask => Known(i) /\ t \in Task /\ t \in {row[i].task, row[i].last}
    BY <1>2 DEF Known, Row
  <2> HIDE DEF t
  <2>3. /\ c \in TickState
        /\ t = NoTask => c = Waiting
        /\ t # NoTask => c.pc = "close" /\ c.task = t
    BY <1>2, <1>5, <2>2 DEF TickState
  <2> HIDE DEF c
  <2>4. Set(i, l, c)
    BY <1>1, <2>1, <2>3, TickPut
  <2>5. t # NoTask => Bears(i, t)
    BY <2>2 DEF Bears, Holds
  <2> QED
    BY <1>1, <1>4, <1>5, <2>1, <2>2, <2>3, <2>4, <2>5, SameRows
<1>7. CASE IdleTeardown(i, l)
  <2> DEFINE q == [pane[i] EXCEPT !.tearing = pane[i].tearing /\ Known(i)]
             d == [tick[i][l] EXCEPT !.pc = "close", !.why = "teardown"]
  <2>1. /\ pane' = [pane EXCEPT ![i] = q] /\ tick[i][l].pc = "teardown"
        /\ UNCHANGED <<row, hub, mail, nagged, reported, broken, doubled>>
        /\ \/ tick' = [tick EXCEPT ![i][l] = d]
           \/ tick' = [tick EXCEPT ![i][l] = Waiting]
    BY <1>1, <1>7 DEF IdleTeardown, Ends, Is
  <2>2. q \in Pane /\ q.is = pane[i].is
    BY <1>2 DEF Pane
  <2>3. tick[i][l].task = NoTask
    BY <1>2, <2>1 DEF CommandSound
  <2>4. d \in TickState /\ d.pc = "close" /\ d.why = "teardown" /\ d.task = NoTask
    BY <1>2, <2>3 DEF TickState
  <2> HIDE DEF q, d
  <2>5. pane' \in [Instance -> Pane] /\ \A j \in Instance : pane'[j].is \in {pane[j].is, "closed"}
    BY <1>1, <2>1, <2>2
  <2>6. CASE tick' = [tick EXCEPT ![i][l] = d]
    <3>1. Set(i, l, d)
      BY <1>1, <2>4, <2>6, TickPut
    <3> QED
      BY <1>1, <1>4, <2>1, <2>4, <2>5, <3>1, SameRows, SettleAssumption
  <2>7. CASE tick' = [tick EXCEPT ![i][l] = Waiting]
    <3>1. Set(i, l, Waiting)
      BY <1>1, <1>5, <2>7, TickPut
    <3> QED
      BY <1>1, <1>4, <1>5, <2>1, <2>5, <3>1, SameRows
  <2> QED
    BY <2>1, <2>6, <2>7
<1>8. CASE Closes(i, l)
  <2> DEFINE c == [tick[i][l] EXCEPT !.pc = "clear"]
  <2>1. /\ pane' = [pane EXCEPT ![i] = ShutPane] /\ Goes(i, l, "clear") /\ tick[i][l].pc = "close"
        /\ UNCHANGED <<row, hub, mail, nagged, reported, broken, doubled>>
    BY <1>8 DEF Closes, Is
  <2>2. c \in TickState /\ c.pc = "clear" /\ c.why = tick[i][l].why /\ c.task = tick[i][l].task
    BY <1>2 DEF TickState
  <2>3. Set(i, l, c)
    BY <1>1, <2>1, GoesPut
  <2> HIDE DEF c
  <2>4. pane' \in [Instance -> Pane] /\ pane'[i].is = "closed"
        /\ \A j \in Instance : pane'[j].is \in {pane[j].is, "closed"}
    BY <1>1, <2>1, PaneForms
  <2>5. c.why = "abandon" => c.task \in Task
    BY <1>2, <2>1, <2>2 DEF CommandSound
  <2>6. Bears(i, c.task)
    BY <2>1, <2>2 DEF Bears, Hands
  <2> QED
    BY <1>1, <1>4, <2>1, <2>2, <2>3, <2>4, <2>5, <2>6, SameRows
<1>9. CASE ClearsRow(i, l)
  <2> DEFINE c == [tick[i][l] EXCEPT !.pc = "spawn"]
  <2>1. /\ row' = [row EXCEPT ![i] = NoRow] /\ tick[i][l].pc = "clear"
        /\ UNCHANGED <<pane, hub, mail, nagged, reported, broken, doubled>>
        /\ \/ tick[i][l].why = "abandon" /\ Goes(i, l, "spawn")
           \/ Ends(i, l)
    BY <1>9 DEF ClearsRow, Is
  <2>2. RowsOK(row') /\ row'[i] = NoRow /\ \A j \in Instance : j # i => row'[j] = row[j]
    BY <1>1, <2>1, RowPut
  <2>3. CASE tick[i][l].why = "abandon" /\ Goes(i, l, "spawn")
    <3>1. c \in TickState /\ c.pc = "spawn" /\ c.task = tick[i][l].task
      BY <1>2 DEF TickState
    <3>2. Set(i, l, c)
      BY <1>1, <2>3, GoesPut
    <3> HIDE DEF c
    <3>3. c.task \in Task /\ pane[i].is = "closed"
      BY <1>2, <2>1, <2>3, <3>1 DEF CommandSound
    <3>4. Bears(i, c.task)
      BY <2>1, <3>1 DEF Bears, Hands
    <3> QED
      BY <1>1, <1>4, <2>1, <2>2, <3>1, <3>2, <3>3, <3>4
  <2>4. CASE Ends(i, l)
    <3>1. Set(i, l, Waiting)
      BY <1>1, <2>4, EndsPut
    <3> QED
      BY <1>1, <1>4, <1>5, <2>1, <2>2, <3>1
  <2> QED
    BY <2>1, <2>3, <2>4
<1>10. CASE Notifies(i, l)
  <2>1. /\ Ends(i, l) /\ UNCHANGED <<row, pane, broken>>
        /\ mail' = mail \cup {[from |-> tick[i][l].to, task |-> tick[i][l].task,
                               at |-> "pending"]}
        /\ tick[i][l].to \in Instance /\ tick[i][l].task \in Task
    BY <1>2, <1>10 DEF Notifies, Is, CommandSound
  <2>2. mail' \subseteq [from: Instance, task: Task,
                         at: {"queue", "acking", "pending", "processing"}]
    BY <1>1, <2>1
  <2>3. Set(i, l, Waiting)
    BY <1>1, <2>1, EndsPut
  <2> QED
    BY <1>1, <1>4, <1>5, <2>1, <2>2, <2>3, SameRows
<1>11. CASE Fails(i, l) /\ UNCHANGED <<row, pane, hub, mail, nagged, reported, doubled>>
  <2>1. Set(i, l, Waiting)
    BY <1>1, <1>11, EndsPut DEF Fails
  <2>2. broken' \subseteq Instance
    BY <1>1, <1>11 DEF Fails
  <2> QED
    BY <1>1, <1>4, <1>5, <1>11, <2>1, <2>2, SameRows
<1>12. CASE Dies(i, l)
  BY <1>11, <1>12 DEF Dies
<1> QED
  BY <1>6, <1>7, <1>8, <1>9, <1>10, <1>11, <1>12

(* The nudge is counted after it was sent, from the copy of the row.       *)
LEMMA SendsKeeps ==
    ASSUME Inductive, NEW i \in Instance, NEW l \in Lane, SendsNudge(i, l)
    PROVE  Inductive'
<1>1. /\ RowsOK(row) /\ pane \in [Instance -> Pane] /\ tick \in [Instance -> [Lane -> TickState]]
      /\ hub \in [busy: BOOLEAN, gives: [to: Instance, task: Task] \cup {NoRow},
                  given: SUBSET Task]
      /\ mail \subseteq [from: Instance, task: Task,
                         at: {"queue", "acking", "pending", "processing"}]
      /\ nagged \in [Instance -> [Task -> Nat]]
      /\ reported \subseteq Instance \X Task /\ broken \subseteq Instance
      /\ doubled \subseteq Instance
  BY TypeParts DEF Inductive
<1> DEFINE t == tick[i][l].copy.task
           c == [tick[i][l] EXCEPT !.pc = "nudged"]
           p == [pane[i] EXCEPT !.prompt = Open(i)]
<1>2. /\ tick[i][l] \in TickState /\ pane[i] \in Pane /\ CommandSound(i, l) /\ PaneSound(i)
      /\ tick[i][l].pc = "nudge" /\ pane[i].is # "none"
      /\ tick[i][l].copy \in Row /\ t \in Task
      /\ i \notin doubled => nagged[i][t] = 0
  BY <1>1 DEF SendsNudge, Is, CommandSound, Inductive
<1>3. /\ Goes(i, l, "nudged") /\ pane' = [pane EXCEPT ![i] = p]
      /\ nagged' = [nagged EXCEPT ![i] = [nagged[i] EXCEPT ![t] = nagged[i][t] + 1]]
      /\ UNCHANGED <<row, hub, mail, reported, broken, doubled>>
  BY <1>1 DEF SendsNudge
<1>4. /\ c.pc = "nudged" /\ c.copy = tick[i][l].copy /\ c.task = tick[i][l].task
      /\ p \in Pane /\ p.is = pane[i].is
  BY <1>2 DEF TickState, Pane, Open
<1>5. Set(i, l, c)
  BY <1>1, <1>3, GoesPut
<1> HIDE DEF t, c, p
<1>6. /\ tick'[i][l] = c /\ tick' \in [Instance -> [Lane -> TickState]]
      /\ \A j \in Instance, m \in Lane : j # i \/ m # l => tick'[j][m] = tick[j][m]
      /\ pane' \in [Instance -> Pane]
      /\ \A j \in Instance : pane'[j].is = pane[j].is
  BY <1>1, <1>3, <1>4, <1>5 DEF Set
<1>7. /\ nagged'[i][t] = nagged[i][t] + 1
      /\ \A u \in Task : u # t => nagged'[i][u] = nagged[i][u]
      /\ \A j \in Instance : j # i => nagged'[j] = nagged[j]
      /\ nagged' \in [Instance -> [Task -> Nat]]
  BY <1>1, <1>2, <1>3
<1>8. TypeOK'
  BY <1>1, <1>3, <1>6, <1>7, SameRows, TypeNext
<1>9. Bears(i, t) /\ \A u \in Task : Bears(i, u)' => Bears(i, u)
  <2>1. Copies(i, l, t)
    BY <1>2 DEF Copies, t
  <2>2. \A u \in Task : Copies(i, l, u)' \/ Hands(i, l, u)' => Copies(i, l, u)
    BY <1>2, <1>4, <1>6 DEF Copies, Hands
  <2>3. \A u \in Task : Holds(i, u)' <=> Holds(i, u)
    BY <1>3 DEF Holds, Known
  <2>4. \A u \in Task, m \in Lane : m # l =>
           (Copies(i, m, u)' <=> Copies(i, m, u)) /\ (Hands(i, m, u)' <=> Hands(i, m, u))
    BY <1>6 DEF Copies, Hands
  <2> QED
    BY <2>1, <2>2, <2>3, <2>4 DEF Bears
<1>10. \A j \in Instance : Bears(j, t) /\ j # i => {i, j} \subseteq doubled
  BY <1>2, <1>9 DEF Inductive, Token
<1>11. ASSUME NEW j \in Instance, NEW m \in Lane, j # i \/ m # l
       PROVE  CommandSound(j, m)'
  <2>1. CommandSound(j, m) /\ tick'[j][m] = tick[j][m]
    BY <1>6, <1>11 DEF Inductive
  <2>2. tick[j][m].pc = "delegate" /\ tick[j][m].to \notin doubled' =>
           nagged'[tick[j][m].to][tick[j][m].task] = nagged[tick[j][m].to][tick[j][m].task]
    <3> SUFFICES ASSUME tick[j][m].pc = "delegate", tick[j][m].to \notin doubled'
                 PROVE  nagged'[tick[j][m].to][tick[j][m].task]
                           = nagged[tick[j][m].to][tick[j][m].task]
      OBVIOUS
    <3>1. /\ tick[j][m].to \in Instance /\ tick[j][m].task \in Task /\ tick[j][m].to # j
          /\ j \notin doubled
      BY <1>3, <2>1 DEF CommandSound
    <3>2. tick[j][m].task = t => j = i
      BY <1>10, <3>1 DEF Bears, Hands
    <3>3. tick[j][m].to # i \/ tick[j][m].task # t
      BY <3>1, <3>2
    <3> QED
      BY <1>7, <3>1, <3>3
  <2>3. tick[j][m].pc = "nudge" /\ j \notin doubled' =>
           nagged'[j][tick[j][m].copy.task] = nagged[j][tick[j][m].copy.task]
    <3> SUFFICES ASSUME tick[j][m].pc = "nudge", j \notin doubled
                 PROVE  j # i
      BY <1>3, <1>7
    <3>1. j = i => m = l
      BY <1>2 DEF PaneSound
    <3> QED
      BY <1>11, <3>1
  <2> QED
    BY <1>3, <1>6, <2>1, <2>2, <2>3, CommandKeeps
<1>12. CommandSound(i, l)'
  BY <1>2, <1>4, <1>6 DEF CommandSound, t
<1>13. ASSUME NEW j \in Instance, j # i
       PROVE  PaneSound(j)' /\ \A u \in Task : Bears(j, u)' <=> Bears(j, u)
  <2>1. PaneSound(j) /\ \A m \in Lane : tick'[j][m] = tick[j][m]
    BY <1>6, <1>13 DEF Inductive
  <2> QED
    BY <1>3, <1>6, <1>7, <1>13, <2>1, PaneKeeps
<1>14. PaneSound(i)'
  <2>1. ASSUME i \notin doubled', NEW k \in Lane, NEW m \in Lane,
               tick'[i][k].pc # "idle", tick'[i][m].pc # "idle"
        PROVE  k = m
    <3>1. tick[i][k].pc # "idle" /\ tick[i][m].pc # "idle" /\ i \notin doubled
      BY <1>2, <1>3, <1>6, <2>1
    <3> QED
      BY <1>2, <3>1 DEF PaneSound
  <2>2. i \notin doubled' => \A u \in Task : nagged'[i][u] <= 1
    BY <1>2, <1>3, <1>7 DEF PaneSound
  <2>3. ASSUME i \notin doubled', Open(i)', Known(i)', row'[i].task \in Task, row'[i].nudges = 0
        PROVE  \/ nagged'[i][row'[i].task] = 0
               \/ \E m \in Lane : tick'[i][m].pc = "nudged" /\ tick'[i][m].copy.task = row'[i].task
    <3>1. CASE row'[i].task = t
      BY <1>4, <1>6, <3>1 DEF t
    <3>2. CASE row'[i].task # t
      <4>1. Open(i) /\ Known(i) /\ row' = row /\ i \notin doubled
        BY <1>3, <1>6, <2>3 DEF Open, Known
      <4>2. \/ nagged[i][row[i].task] = 0
            \/ \E m \in Lane : tick[i][m].pc = "nudged" /\ tick[i][m].copy.task = row[i].task
        BY <1>2, <2>3, <4>1 DEF PaneSound
      <4>3. \A m \in Lane : tick[i][m].pc = "nudged" => m # l
        BY <1>2
      <4> QED
        BY <1>6, <1>7, <2>3, <3>2, <4>1, <4>2, <4>3
    <3> QED
      BY <3>1, <3>2
  <2>4. pane'[i].is # "none"
    BY <1>2, <1>6
  <2> QED
    BY <2>1, <2>2, <2>3, <2>4 DEF PaneSound
<1>15. ASSUME NEW u \in Task
       PROVE  Token(u)'
  <2>1. \A j \in Instance : Bears(j, u)' => Bears(j, u)
    BY <1>9, <1>13
  <2>2. Fresh(u)' => Fresh(u) /\ u # t
    BY <1>2, <1>3, <1>9 DEF Fresh, Inductive, Token
  <2>3. u # t => \A j \in Instance : nagged'[j][u] = nagged[j][u]
    BY <1>7
  <2>4. Token(u) /\ doubled' = doubled
    BY <1>3 DEF Inductive
  <2> QED
    BY <2>1, <2>2, <2>3, <2>4 DEF Token
<1>16. \A j \in Instance : PaneSound(j)' /\ \A m \in Lane : CommandSound(j, m)'
  BY <1>11, <1>12, <1>13, <1>14
<1> QED
  BY <1>3, <1>8, <1>15, <1>16 DEF Inductive, HubSound

LEMMA SavesKeeps ==
    ASSUME Inductive, NEW i \in Instance, NEW l \in Lane, SavesNudge(i, l)
    PROVE  Inductive'
<1>1. /\ RowsOK(row) /\ pane \in [Instance -> Pane] /\ tick \in [Instance -> [Lane -> TickState]]
      /\ hub \in [busy: BOOLEAN, gives: [to: Instance, task: Task] \cup {NoRow},
                  given: SUBSET Task]
      /\ mail \subseteq [from: Instance, task: Task,
                         at: {"queue", "acking", "pending", "processing"}]
      /\ nagged \in [Instance -> [Task -> Nat]]
      /\ reported \subseteq Instance \X Task /\ broken \subseteq Instance
      /\ doubled \subseteq Instance
  BY TypeParts DEF Inductive
<1> DEFINE r == [tick[i][l].copy EXCEPT !.nudges = 1, !.nudgeAt = "recent", !.awaiting = TRUE]
<1>2. /\ CommandSound(i, l) /\ PaneSound(i) /\ tick[i][l].pc = "nudged"
      /\ tick[i][l].copy \in Row /\ pane[i].is # "none"
  BY DEF SavesNudge, Is, CommandSound, Inductive
<1>3. /\ row' = [row EXCEPT ![i] = r] /\ Ends(i, l)
      /\ UNCHANGED <<pane, hub, mail, nagged, reported, broken, doubled>>
  BY DEF SavesNudge
<1>4. r \in Row /\ r.nudges = 1 /\ r.task = tick[i][l].copy.task /\ r.last = tick[i][l].copy.last
  BY <1>2, CountedForm
<1> HIDE DEF r
<1>5. RowsOK(row') /\ row'[i] = r /\ \A j \in Instance : j # i => row'[j] = row[j]
  BY <1>1, <1>3, <1>4, RowPut
<1>6. /\ tick' \in [Instance -> [Lane -> TickState]] /\ tick'[i][l] = Waiting
      /\ \A j \in Instance, m \in Lane : j # i \/ m # l => tick'[j][m] = tick[j][m]
  BY <1>1, <1>3, EndsPut DEF Set
<1>7. TypeOK'
  BY <1>1, <1>3, <1>5, <1>6, TypeNext
<1>8. ASSUME NEW j \in Instance, NEW m \in Lane, j # i \/ m # l
      PROVE  CommandSound(j, m)'
  <2>1. CommandSound(j, m) /\ tick'[j][m] = tick[j][m]
    BY <1>6, <1>8 DEF Inductive
  <2>2. row'[j] = row[j] \/ j \in doubled' \/ tick[j][m].pc \notin {"spawn", "delegate"}
    <3> SUFFICES ASSUME j = i, j \notin doubled PROVE tick[j][m].pc = "idle"
      BY <1>3, <1>5
    <3> QED
      BY <1>2, <1>8 DEF PaneSound
  <2> QED
    BY <1>3, <2>1, <2>2, CommandKeeps
<1>9. CommandSound(i, l)'
  BY <1>2, <1>3, <1>6 DEF CommandSound, Waiting
<1>10. ASSUME NEW j \in Instance, j # i
       PROVE  PaneSound(j)' /\ \A u \in Task : Bears(j, u)' <=> Bears(j, u)
  <2>1. PaneSound(j) /\ \A m \in Lane : tick'[j][m] = tick[j][m]
    BY <1>6, <1>10 DEF Inductive
  <2> QED
    BY <1>3, <1>5, <1>10, <2>1, PaneKeeps
<1>11. PaneSound(i)'
  <2>1. ASSUME i \notin doubled', NEW k \in Lane, NEW m \in Lane,
               tick'[i][k].pc # "idle", tick'[i][m].pc # "idle"
        PROVE  k = m
    <3>1. tick[i][k].pc # "idle" /\ tick[i][m].pc # "idle" /\ i \notin doubled
      BY <1>3, <1>6, <2>1 DEF Waiting
    <3> QED
      BY <1>2, <3>1 DEF PaneSound
  <2>2. i \notin doubled' => \A u \in Task : nagged'[i][u] <= 1
    BY <1>2, <1>3 DEF PaneSound
  <2>3. row'[i].nudges # 0 /\ pane'[i].is # "none"
    BY <1>2, <1>3, <1>4, <1>5
  <2> QED
    BY <2>1, <2>2, <2>3 DEF PaneSound
<1>12. \A u \in Task : Bears(i, u)' => Bears(i, u)
  <2> SUFFICES ASSUME NEW u \in Task, Bears(i, u)' PROVE Bears(i, u)
    OBVIOUS
  <2>1. CASE Holds(i, u)'
    BY <1>2, <1>4, <1>5, <2>1 DEF Bears, Holds, Copies
  <2>2. ASSUME NEW m \in Lane, Copies(i, m, u)' \/ Hands(i, m, u)'
        PROVE  Bears(i, u)
    <3>1. m # l
      BY <1>6, <2>2 DEF Copies, Hands, Waiting
    <3> QED
      BY <1>6, <2>2, <3>1 DEF Bears, Copies, Hands
  <2> QED
    BY <2>1, <2>2 DEF Bears
<1>13. \A j \in Instance : \A u \in Task : Bears(j, u)' => Bears(j, u)
  BY <1>10, <1>12
<1>14. \A u \in Task : Token(u)'
  BY <1>3, <1>13, TokenLess DEF Inductive, Fresh
<1>15. \A j \in Instance : PaneSound(j)' /\ \A m \in Lane : CommandSound(j, m)'
  BY <1>8, <1>9, <1>10, <1>11
<1> QED
  BY <1>3, <1>7, <1>14, <1>15 DEF Inductive, HubSound

(* A replacement has a new name, a row without a task and no past.         *)
LEMMA RespawnsKeeps ==
    ASSUME Inductive, NEW i \in Instance, NEW l \in Lane, Respawns(i, l)
    PROVE  Inductive'
<1>1. /\ RowsOK(row) /\ pane \in [Instance -> Pane] /\ tick \in [Instance -> [Lane -> TickState]]
      /\ hub \in [busy: BOOLEAN, gives: [to: Instance, task: Task] \cup {NoRow},
                  given: SUBSET Task]
      /\ mail \subseteq [from: Instance, task: Task,
                         at: {"queue", "acking", "pending", "processing"}]
      /\ nagged \in [Instance -> [Task -> Nat]]
      /\ reported \subseteq Instance \X Task /\ broken \subseteq Instance
      /\ doubled \subseteq Instance
  BY TypeParts DEF Inductive
<1>2. CASE Is(i, l, "spawn") /\ Fails(i, l)
           /\ UNCHANGED <<row, pane, hub, mail, nagged, reported, doubled>>
  BY <1>2, CommandsKeep
<1>3. ASSUME NEW k \in Instance, row[k] = NoRow, pane[k].is = "none",
             row' = [row EXCEPT ![k] = IdleRow], pane' = [pane EXCEPT ![k] = NewPane],
             tick' = [tick EXCEPT ![i][l] = [tick[i][l] EXCEPT !.pc = "delegate", !.to = k]],
             doubled' = IF i \in doubled THEN doubled \cup {k} ELSE doubled,
             UNCHANGED <<hub, mail, nagged, reported, broken>>
      PROVE  Inductive'
  <2> DEFINE c == [tick[i][l] EXCEPT !.pc = "delegate", !.to = k]
  <2>1. /\ tick[i][l] \in TickState /\ CommandSound(i, l) /\ PaneSound(i)
        /\ tick[i][l].pc = "spawn" /\ tick[i][l].task \in Task
        /\ pane[i].is = "closed" /\ (i \notin doubled => row[i] = NoRow)
        /\ PaneSound(k) /\ \A m \in Lane : tick[k][m] = Waiting
    <3>1. CommandSound(i, l) /\ PaneSound(i) /\ PaneSound(k) /\ tick[i][l].pc = "spawn"
      BY <1>3 DEF Respawns, Is, Inductive
    <3>2. \A m \in Lane : CommandSound(k, m)
      BY DEF Inductive
    <3> QED
      BY <1>1, <1>3, <3>1, <3>2 DEF CommandSound
  <2>2. c \in TickState /\ c.pc = "delegate" /\ c.to = k /\ c.task = tick[i][l].task
    BY <2>1 DEF TickState
  <2>3. /\ IdleRow \in Row /\ ~IdleRow.awaiting
        /\ IdleRow.task = NoTask /\ IdleRow.last = NoTask
    BY DEF IdleRow, Row, Age
  <2>4. Set(i, l, c)
    BY <1>1, <1>3, <2>2, TickPut
  <2> HIDE DEF c
  <2>5. /\ RowsOK(row') /\ row'[k] = IdleRow
        /\ \A j \in Instance : j # k => row'[j] = row[j]
    BY <1>1, <1>3, <2>3, RowPut
  <2>6. /\ pane' \in [Instance -> Pane] /\ pane'[k].is = "open"
        /\ \A j \in Instance : j # k => pane'[j] = pane[j]
    BY <1>1, <1>3, PaneForms
  <2>7. /\ tick' \in [Instance -> [Lane -> TickState]] /\ tick'[i][l] = c
        /\ \A j \in Instance, m \in Lane : j # i \/ m # l => tick'[j][m] = tick[j][m]
    BY <2>4 DEF Set
  <2>8. /\ doubled \subseteq doubled' /\ doubled' \subseteq Instance
        /\ doubled' \subseteq doubled \cup {k} /\ (i \in doubled => k \in doubled')
    BY <1>1, <1>3
  <2>9. TypeOK' /\ i # k
    BY <1>1, <1>3, <2>1, <2>5, <2>6, <2>7, <2>8, TypeNext
  <2>10. ASSUME NEW j \in Instance, NEW m \in Lane, j # k, j # i \/ m # l
         PROVE  CommandSound(j, m)'
    <3>1. CommandSound(j, m) /\ tick'[j][m] = tick[j][m] /\ row'[j] = row[j] /\ pane'[j] = pane[j]
      BY <2>5, <2>6, <2>7, <2>10 DEF Inductive
    <3>2. j \notin doubled' \ doubled
      BY <2>8, <2>10
    <3> QED
      BY <1>3, <2>8, <3>1, <3>2, CommandKeeps
  <2>11. ASSUME NEW j \in Instance, j # i, j # k
         PROVE  PaneSound(j)' /\ \A u \in Task : Bears(j, u)' <=> Bears(j, u)
    <3>1. /\ PaneSound(j) /\ row'[j] = row[j] /\ pane'[j] = pane[j]
          /\ \A m \in Lane : tick'[j][m] = tick[j][m]
      BY <2>5, <2>6, <2>7, <2>11 DEF Inductive
    <3> QED
      BY <1>3, <2>8, <3>1, PaneKeeps
  <2>12. CommandSound(i, l)' /\ PaneSound(i)' /\ \A u \in Task : Bears(i, u)' => Bears(i, u)
    <3>1. /\ row'[i] = row[i] /\ pane'[i] = pane[i] /\ nagged' = nagged
          /\ (i \in doubled' <=> i \in doubled)
      BY <1>3, <2>5, <2>6, <2>8, <2>9
    <3>2. nagged[k][c.task] = 0
      BY <1>3, <2>1, <2>2 DEF PaneSound
    <3>3. CommandSound(i, l)'
      BY <2>1, <2>2, <2>7, <2>8, <2>9, <3>1, <3>2 DEF CommandSound
    <3>4. PaneSound(i)'
      BY <2>1, <2>2, <2>7, <3>1 DEF PaneSound, Open, Known
    <3>5. \A u \in Task : Bears(i, u)' => Bears(i, u)
      <4>1. \A u \in Task : Copies(i, l, u)' \/ Hands(i, l, u)' => Hands(i, l, u)
        BY <2>1, <2>2, <2>7 DEF Copies, Hands
      <4>2. \A u \in Task, m \in Lane : m # l =>
               (Copies(i, m, u)' <=> Copies(i, m, u)) /\ (Hands(i, m, u)' <=> Hands(i, m, u))
        BY <2>7 DEF Copies, Hands
      <4> QED
        BY <3>1, <4>1, <4>2 DEF Bears, Holds, Known
    <3> QED
      BY <3>3, <3>4, <3>5
  <2>13. /\ PaneSound(k)' /\ (\A u \in Task : ~Bears(k, u)')
         /\ \A m \in Lane : CommandSound(k, m)'
    <3>1. nagged' = nagged /\ Waiting.pc = "idle" /\ \A m \in Lane : tick'[k][m] = Waiting
      BY <1>3, <2>1, <2>7, <2>9 DEF Waiting
    <3>2. \A m \in Lane : CommandSound(k, m)'
      BY <3>1 DEF CommandSound
    <3>3. PaneSound(k)'
      BY <1>3, <2>1, <2>3, <2>5, <2>6, <3>1, SettleAssumption DEF PaneSound, Known
    <3>4. \A u \in Task : ~Bears(k, u)'
      BY <2>3, <2>5, <3>1, SettleAssumption DEF Bears, Holds, Copies, Hands
    <3> QED
      BY <3>2, <3>3, <3>4
  <2>14. \A j \in Instance : \A u \in Task : Bears(j, u)' => Bears(j, u)
    BY <2>11, <2>12, <2>13
  <2>15. \A u \in Task : Token(u)'
    BY <1>3, <2>8, <2>14, TokenLess DEF Inductive, Fresh
  <2>16. \A j \in Instance : PaneSound(j)' /\ \A m \in Lane : CommandSound(j, m)'
    BY <2>10, <2>11, <2>12, <2>13
  <2> QED
    BY <1>3, <2>9, <2>15, <2>16 DEF Inductive, HubSound
<1> QED
  BY <1>1, <1>2, <1>3 DEF Respawns

(* The replacement is given the task that the recovery has kept for it.    *)
LEMMA RedelegatesKeeps ==
    ASSUME Inductive, NEW i \in Instance, NEW l \in Lane, Redelegates(i, l)
    PROVE  Inductive'
<1>1. /\ RowsOK(row) /\ pane \in [Instance -> Pane] /\ tick \in [Instance -> [Lane -> TickState]]
      /\ hub \in [busy: BOOLEAN, gives: [to: Instance, task: Task] \cup {NoRow},
                  given: SUBSET Task]
      /\ mail \subseteq [from: Instance, task: Task,
                         at: {"queue", "acking", "pending", "processing"}]
      /\ nagged \in [Instance -> [Task -> Nat]]
      /\ reported \subseteq Instance \X Task /\ broken \subseteq Instance
      /\ doubled \subseteq Instance
  BY TypeParts DEF Inductive
<1>2. CommandSound(i, l) /\ PaneSound(i) /\ tick[i][l].pc = "delegate"
  BY DEF Redelegates, Is, Inductive
<1>3. PICK k \in Instance, t \in Task : k = tick[i][l].to /\ t = tick[i][l].task /\ k # i
  BY <1>2 DEF CommandSound
<1> DEFINE r == [row[k] EXCEPT !.task = t, !.last = t, !.silent = "recent",
                               !.nudges = 0, !.awaiting = FALSE]
           p == [pane[k] EXCEPT !.file = t]
           c == [tick[i][l] EXCEPT !.pc = "notice"]
<1>4. CASE Is(i, l, "delegate") /\ Fails(i, l)
           /\ UNCHANGED <<row, pane, hub, mail, nagged, reported, doubled>>
  BY <1>4, CommandsKeep
<1>5. ASSUME Known(k), row' = Routed(k, t), pane' = [pane EXCEPT ![k].file = t],
             Goes(i, l, "notice"), UNCHANGED <<hub, mail, nagged, reported, broken, doubled>>
      PROVE  Inductive'
  <2>1. /\ tick[i][l] \in TickState /\ pane[i].is = "closed"
        /\ i \notin doubled => row[i] = NoRow
        /\ i \in doubled => k \in doubled
        /\ k \notin doubled => nagged[k][t] = 0
    BY <1>1, <1>2, <1>3 DEF CommandSound
  <2>2. row[k] \in Row /\ (row[k].awaiting => row[k].nudges = 1) /\ pane[k] \in Pane
    BY <1>1, <1>5 DEF RowsOK, Known
  <2>3. r \in Row /\ ~r.awaiting /\ r.task = t /\ r.last = t
    BY <1>3, <2>2, RoutedForm
  <2>4. row' = [row EXCEPT ![k] = r] /\ pane' = [pane EXCEPT ![k] = p]
    BY <1>1, <1>3, <1>5 DEF Routed
  <2>5. /\ c.pc = "notice" /\ c.task = t /\ c.to = k
        /\ p \in Pane /\ p.is = pane[k].is
    BY <1>3, <2>1, <2>2 DEF TickState, Pane
  <2>6. Set(i, l, c)
    BY <1>1, <1>5, GoesPut
  <2> HIDE DEF r, p, c
  <2>7. RowsOK(row') /\ row'[k] = r /\ \A j \in Instance : j # k => row'[j] = row[j]
    BY <1>1, <2>1, <2>3, <2>4, RowPut
  <2>8. pane' \in [Instance -> Pane] /\ \A j \in Instance : pane'[j].is = pane[j].is
    BY <1>1, <2>1, <2>4, <2>5
  <2>9. /\ tick' \in [Instance -> [Lane -> TickState]] /\ tick'[i][l] = c
        /\ \A j \in Instance, m \in Lane : j # i \/ m # l => tick'[j][m] = tick[j][m]
    BY <2>6 DEF Set
  <2>10. TypeOK'
    BY <1>1, <1>5, <2>7, <2>8, <2>9, TypeNext
  <2>11. /\ Bears(i, t) /\ ~Fresh(t)
         /\ \A j \in Instance : Bears(j, t) /\ j # i => {i, j} \subseteq doubled
    <3>1. Bears(i, t)
      BY <1>2, <1>3 DEF Bears, Hands
    <3> QED
      BY <3>1 DEF Inductive, Token
  <2>12. ASSUME NEW j \in Instance, NEW m \in Lane, j # i \/ m # l
         PROVE  CommandSound(j, m)'
    <3>1. CommandSound(j, m) /\ tick'[j][m] = tick[j][m]
      BY <2>9, <2>12 DEF Inductive
    <3>2. row'[j] = row[j] \/ j \in doubled' \/ tick[j][m].pc \notin {"spawn", "delegate"}
      <4>1. CASE j = k
        BY <1>5, <3>1, <4>1 DEF CommandSound, Known
      <4>2. CASE j # k
        BY <2>7, <4>2
      <4> QED
        BY <4>1, <4>2
    <3> QED
      BY <1>5, <2>8, <3>1, <3>2, CommandKeeps
  <2>13. CommandSound(i, l)'
    BY <1>3, <2>1, <2>5, <2>8, <2>9 DEF CommandSound
  <2>14. ASSUME NEW j \in Instance, j # i, j # k
         PROVE  PaneSound(j)' /\ \A u \in Task : Bears(j, u)' <=> Bears(j, u)
    <3>1. /\ PaneSound(j) /\ row'[j] = row[j]
          /\ \A m \in Lane : tick'[j][m] = tick[j][m]
      BY <2>7, <2>9, <2>14 DEF Inductive
    <3> QED
      BY <1>5, <2>8, <3>1, PaneKeeps
  <2>15. /\ PaneSound(i)' /\ (\A u \in Task : Bears(i, u)' => Bears(i, u))
         /\ i \notin doubled => ~Bears(i, t)'
    <3>1. /\ row'[i] = row[i] /\ pane'[i].is = pane[i].is /\ nagged' = nagged
          /\ doubled' = doubled
      BY <1>3, <1>5, <2>7, <2>8
    <3>2. PaneSound(i)'
      BY <1>2, <2>1, <2>5, <2>9, <3>1 DEF PaneSound, Open, Known
    <3>3. \A u \in Task : ~Copies(i, l, u)' /\ ~Hands(i, l, u)'
      BY <2>5, <2>9 DEF Copies, Hands
    <3>4. \A u \in Task, m \in Lane : m # l =>
             (Copies(i, m, u)' <=> Copies(i, m, u)) /\ (Hands(i, m, u)' <=> Hands(i, m, u))
      BY <2>9 DEF Copies, Hands
    <3>5. \A u \in Task : Bears(i, u)' => Bears(i, u)
      BY <3>1, <3>3, <3>4 DEF Bears, Holds, Known
    <3>6. ASSUME i \notin doubled PROVE ~Bears(i, t)'
      <4>1. \A m \in Lane : m # l => tick[i][m].pc = "idle"
        BY <1>2, <3>6 DEF PaneSound
      <4>2. \A m \in Lane : m # l => ~Copies(i, m, t) /\ ~Hands(i, m, t)
        BY <4>1 DEF Copies, Hands
      <4>3. ~Holds(i, t)'
        BY <2>1, <3>1, <3>6 DEF Holds, Known
      <4> QED
        BY <3>3, <3>4, <4>2, <4>3 DEF Bears
    <3> QED
      BY <3>2, <3>5, <3>6
  <2>16. PaneSound(k)' /\ \A u \in Task : Bears(k, u)' => u = t \/ Bears(k, u)
    <3>1. /\ nagged' = nagged /\ pane'[k].is = pane[k].is /\ PaneSound(k) /\ doubled' = doubled
          /\ \A m \in Lane : tick'[k][m] = tick[k][m]
      BY <1>3, <1>5, <2>8, <2>9 DEF Inductive
    <3>2. pane[k].is # "none"
      BY <1>5, <3>1 DEF PaneSound, Known
    <3>3. PaneSound(k)'
      BY <2>1, <2>3, <2>7, <3>1, <3>2 DEF PaneSound
    <3>4. \A u \in Task : Bears(k, u)' => u = t \/ Bears(k, u)
      BY <2>3, <2>7, <3>1 DEF Bears, Holds, Copies, Hands
    <3> QED
      BY <3>3, <3>4
  <2>17. ASSUME NEW u \in Task
         PROVE  Token(u)'
    <3>1. CASE u = t
      <4>1. ASSUME NEW j \in Instance, Bears(j, t)', j # k
            PROVE  j \in doubled /\ k \in doubled
        <5>1. CASE j = i
          BY <2>1, <2>15, <4>1, <5>1
        <5>2. CASE j # i
          BY <2>1, <2>11, <2>14, <4>1, <5>2
        <5> QED
          BY <5>1, <5>2
      <4>2. \A j, n \in Instance :
               Bears(j, t)' /\ Bears(n, t)' /\ j # n => {j, n} \subseteq doubled'
        BY <1>5, <4>1
      <4>3. ~Fresh(t)'
        BY <1>5, <2>11 DEF Fresh
      <4> QED
        BY <3>1, <4>2, <4>3 DEF Token
    <3>2. CASE u # t
      <4>1. \A j \in Instance : Bears(j, u)' => Bears(j, u)
        BY <2>14, <2>15, <2>16, <3>2
      <4>2. Fresh(u)' => Fresh(u)
        BY <1>5 DEF Fresh
      <4>3. Token(u) /\ doubled' = doubled /\ nagged' = nagged
        BY <1>5 DEF Inductive
      <4> QED
        BY <4>1, <4>2, <4>3 DEF Token
    <3> QED
      BY <3>1, <3>2
  <2>18. \A j \in Instance : PaneSound(j)' /\ \A m \in Lane : CommandSound(j, m)'
    BY <2>12, <2>13, <2>14, <2>15, <2>16
  <2> QED
    BY <1>5, <2>10, <2>17, <2>18 DEF Inductive, HubSound
<1> QED
  BY <1>3, <1>4, <1>5 DEF Redelegates

(* The hub records a delegation: the task was nowhere until now.           *)
LEMMA RecordsKeeps ==
    ASSUME Inductive, HubRecords
    PROVE  Inductive'
<1>1. /\ RowsOK(row) /\ pane \in [Instance -> Pane] /\ tick \in [Instance -> [Lane -> TickState]]
      /\ hub \in [busy: BOOLEAN, gives: [to: Instance, task: Task] \cup {NoRow},
                  given: SUBSET Task]
      /\ mail \subseteq [from: Instance, task: Task,
                         at: {"queue", "acking", "pending", "processing"}]
      /\ nagged \in [Instance -> [Task -> Nat]]
      /\ reported \subseteq Instance \X Task /\ broken \subseteq Instance
      /\ doubled \subseteq Instance
  BY TypeParts DEF Inductive
<1>2. /\ hub.gives # NoRow /\ hub' = [hub EXCEPT !.gives = NoRow]
      /\ UNCHANGED <<pane, tick, mail, nagged, reported, broken, doubled>>
  BY DEF HubRecords
<1>3. PICK k \in Instance, t \in Task :
        /\ k = hub.gives.to /\ t = hub.gives.task /\ t \in hub.given
        /\ row' = Routed(k, t)
  BY <1>1, <1>2 DEF HubRecords, Inductive, HubSound
<1> DEFINE r == [row[k] EXCEPT !.task = t, !.last = t, !.silent = "recent",
                               !.nudges = 0, !.awaiting = FALSE]
<1>4. /\ hub' \in [busy: BOOLEAN, gives: [to: Instance, task: Task] \cup {NoRow},
                   given: SUBSET Task]
      /\ hub'.gives = NoRow /\ hub'.given = hub.given
  BY <1>1, <1>2
<1>5. Fresh(t) /\ \A i \in Instance : ~Bears(i, t) /\ nagged[i][t] = 0
  BY <1>2, <1>3 DEF Fresh, Inductive, Token
<1>6. \A u \in Task : Fresh(u)' => Fresh(u) /\ u # t
  BY <1>3, <1>4 DEF Fresh
<1>7. CASE ~Known(k)
  <2>1. row' = row
    BY <1>3, <1>7 DEF Routed
  <2>2. TypeOK'
    BY <1>1, <1>2, <1>4, <2>1, SameRows, TypeNext
  <2>3. Lessening
    BY <1>2, <1>4, <1>6, <2>1, SameRows DEF Lessening, HubSound
  <2> QED
    BY <2>2, <2>3, LesseningKeeps
<1>8. CASE Known(k)
  <2>1. row[k] \in Row /\ (row[k].awaiting => row[k].nudges = 1)
    BY <1>1, <1>3, <1>8 DEF RowsOK, Known
  <2>2. r \in Row /\ ~r.awaiting /\ r.task = t /\ r.last = t
    BY <1>3, <2>1, RoutedForm
  <2>3. row' = [row EXCEPT ![k] = r]
    BY <1>3, <1>8 DEF Routed
  <2> HIDE DEF r
  <2>4. RowsOK(row') /\ row'[k] = r /\ \A j \in Instance : j # k => row'[j] = row[j]
    BY <1>1, <1>3, <2>2, <2>3, RowPut
  <2>5. TypeOK'
    BY <1>1, <1>2, <1>4, <2>4, TypeNext
  <2>6. ASSUME NEW j \in Instance, NEW m \in Lane
        PROVE  CommandSound(j, m)'
    <3>1. CommandSound(j, m)
      BY DEF Inductive
    <3>2. row'[j] = row[j] \/ j \in doubled' \/ tick[j][m].pc \notin {"spawn", "delegate"}
      <4>1. CASE j = k
        BY <1>2, <1>8, <3>1, <4>1 DEF CommandSound, Known
      <4>2. CASE j # k
        BY <2>4, <4>2
      <4> QED
        BY <4>1, <4>2
    <3> QED
      BY <1>2, <3>1, <3>2, CommandKeeps
  <2>7. ASSUME NEW j \in Instance, j # k
        PROVE  PaneSound(j)' /\ \A u \in Task : Bears(j, u)' <=> Bears(j, u)
    <3>1. PaneSound(j) /\ row'[j] = row[j]
      BY <2>4, <2>7 DEF Inductive
    <3> QED
      BY <1>2, <3>1, PaneKeeps
  <2>8. PaneSound(k) /\ pane[k].is # "none"
    BY <1>3, <1>8 DEF Inductive, PaneSound, Known
  <2>9. PaneSound(k)'
    BY <1>2, <1>3, <1>5, <2>2, <2>4, <2>8 DEF PaneSound
  <2>10. \A u \in Task : Bears(k, u)' => u = t \/ Bears(k, u)
    BY <1>2, <2>2, <2>4 DEF Bears, Holds, Copies, Hands
  <2>11. ASSUME NEW u \in Task
         PROVE  Token(u)'
    <3>1. CASE u = t
      <4>1. \A j \in Instance : Bears(j, t)' => j = k
        BY <1>5, <2>7, <3>1
      <4> QED
        BY <1>6, <3>1, <4>1 DEF Token
    <3>2. CASE u # t
      <4>1. \A j \in Instance : Bears(j, u)' => Bears(j, u)
        BY <2>7, <2>10, <3>2
      <4>2. Token(u) /\ doubled' = doubled /\ nagged' = nagged /\ (Fresh(u)' => Fresh(u))
        BY <1>2, <1>6 DEF Inductive
      <4> QED
        BY <4>1, <4>2 DEF Token
    <3> QED
      BY <3>1, <3>2
  <2>12. \A j \in Instance : PaneSound(j)' /\ \A m \in Lane : CommandSound(j, m)'
    BY <2>6, <2>7, <2>9
  <2> QED
    BY <1>4, <2>5, <2>11, <2>12 DEF Inductive, HubSound
<1> QED
  BY <1>7, <1>8

-----------------------------------------------------------------------------
LEMMA InitInductive == Init => Inductive
<1> SUFFICES ASSUME Init PROVE Inductive
  OBVIOUS
<1>1. IdleRow \in Row /\ ~IdleRow.awaiting /\ IdleRow.task = NoTask /\ IdleRow.last = NoTask
  BY DEF IdleRow, Row, Age
<1>2. NoPane \in Pane /\ NewPane.is = "open" /\ NewPane \in Pane
  BY DEF NoPane, NewPane, Pane, Age
<1>3. Waiting \in TickState /\ Waiting.pc = "idle"
  BY DEF Waiting, TickState
<1>4. TypeOK
  BY <1>1, <1>2, <1>3 DEF Init, TypeOK, Known
<1>5. ASSUME NEW i \in Instance
      PROVE  PaneSound(i) /\ \A l \in Lane : CommandSound(i, l)
  <2>1. /\ row[i] \in {IdleRow, NoRow} /\ (\A l \in Lane : tick[i][l] = Waiting)
        /\ \A t \in Task : nagged[i][t] = 0
    BY <1>5 DEF Init
  <2>2. pane[i].is = "none" => row[i] = NoRow
    BY <1>2, <1>5 DEF Init
  <2>3. Known(i) => row[i].task \notin Task
    BY <1>1, <2>1, SettleAssumption DEF Known
  <2>4. \A l \in Lane : CommandSound(i, l)
    BY <1>3, <2>1 DEF CommandSound
  <2>5. PaneSound(i)
    BY <1>3, <2>1, <2>2, <2>3 DEF PaneSound
  <2> QED
    BY <2>4, <2>5
<1>6. \A t \in Task : Token(t)
  BY <1>1, <1>3, SettleAssumption DEF Init, Token, Bears, Holds, Copies, Hands, Known
<1> QED
  BY <1>4, <1>5, <1>6 DEF Init, Inductive, HubSound

LEMMA StepInductive == Inductive /\ [Next]_vars => Inductive'
<1> SUFFICES ASSUME Inductive, [Next]_vars PROVE Inductive'
  OBVIOUS
<1>1. TypeOK
  BY DEF Inductive
<1>2. CASE UNCHANGED vars
  BY <1>2 DEF vars, Inductive, TypeOK, CommandSound, PaneSound, Token, Fresh, HubSound, Bears,
              Holds, Copies, Hands, Known, Open
<1>3. CASE \/ HubTurns \/ HubRestarts
           \/ \E m \in mail : HubShows(m) \/ HubAcks(m)
           \/ \E i \in Instance : HubReleases(i) \/ \E t \in Task : HubDelegates(i, t)
  BY <1>1, <1>3, HubLessens, LesseningKeeps
<1>4. CASE HubRecords
  BY <1>4, RecordsKeeps
<1>5. ASSUME NEW i \in Instance,
             \/ AgentStarts(i) \/ AgentReports(i) \/ AgentSettles(i) \/ Marks(i)
             \/ TakesFile(i) \/ TickSeesReport(i)
      PROVE  Inductive'
  BY <1>1, <1>5, AgentLessens, LesseningKeeps
<1>6. ASSUME NEW i \in Instance, NEW l \in Lane,
             \/ TickNudges(i, l) \/ TickAbandons(i, l) \/ IdleTimerFires(i, l)
             \/ CommandGoes(i, l) \/ Dies(i, l)
      PROVE  Inductive'
  BY <1>6, StartsKeep, CommandsKeep, SendsKeeps, SavesKeeps, RespawnsKeeps, RedelegatesKeeps
   DEF CommandGoes
<1>7. CASE TimePasses
  BY <1>1, <1>7, TimeLessens, LesseningKeeps
<1> QED
  BY <1>2, <1>3, <1>4, <1>5, <1>6, <1>7 DEF Next, TickStarts

(* The invariant that the other theorems of this module rest on: where a   *)
(* task is, what each command knows, and which nudges are still uncounted, *)
(* for any number of commands in a pane (cmd_tick, cmd_abandon).           *)
THEOREM InductiveInvariant == Spec => []Inductive
  BY InitInductive, StepInductive, PTL DEF Spec

(* The rows, panes, commands and messages have their types, and a row that *)
(* awaits the answer to a nudge counts that nudge.                         *)
THEOREM TypeCorrect == Spec => []TypeOK
<1>1. Inductive => TypeOK
  BY DEF Inductive
<1> QED
  BY <1>1, InductiveInvariant, PTL

(* A pane whose commands never overlapped nudges its specialist once about *)
(* a task, although the count is saved from a copy of the row that was     *)
(* read before the nudge was typed: whatever the hub, a report, a release  *)
(* or the overlapping commands of another pane do in between.              *)
THEOREM NudgedOnce == Spec => []OneNudge
<1>1. Inductive => OneNudge
  BY DEF Inductive, PaneSound, OneNudge
<1> QED
  BY <1>1, InductiveInvariant, PTL

(* A task is in two rows only if both belong to panes whose commands       *)
(* overlapped, or to their replacements: else the row of the abandoned     *)
(* specialist is gone before the replacement has the task, wherever a      *)
(* recovery stops.                                                         *)
THEOREM CarriedOnce == Spec => []OneCarrier
<1>1. Inductive => OneCarrier
  <2> SUFFICES ASSUME Inductive, NEW i \in Instance, NEW j \in Instance, NEW t \in Task,
                      Carries(i, t), Carries(j, t), i # j
               PROVE  {i, j} \subseteq doubled
    BY DEF OneCarrier
  <2>1. Bears(i, t) /\ Bears(j, t)
    BY DEF Carries, Bears, Holds
  <2> QED
    BY <2>1 DEF Inductive, Token
<1> QED
  BY <1>1, InductiveInvariant, PTL
=============================================================================
