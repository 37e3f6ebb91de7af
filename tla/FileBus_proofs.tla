---------------------------- MODULE FileBus_proofs ----------------------------
(***************************************************************************)
(* Proofs about the file bus, for any number of messages, specialists,     *)
(* ticks and retries, and every set of failures.                           *)
(***************************************************************************)
EXTENDS FileBus, TLAPS

In(f, d) == [f EXCEPT !.dir = d]

LEMMA InIs ==
    ASSUME NEW f \in File, NEW d \in Dirs
    PROVE  In(f, d) \in File /\ In(f, d).msg = f.msg /\ In(f, d).dir = d
  BY DEF In, File

LEMMA FileIs == ASSUME NEW f \in File PROVE f.msg \in Msg /\ f.dir \in Dirs
  BY DEF File

LEMMA SameFile ==
    ASSUME NEW f \in File, NEW g \in File, f.msg = g.msg, f.dir = g.dir PROVE f = g
  BY DEF File

(* A reader takes a pending file, or finishes one it has taken.            *)
Taken(f) == f \in files /\ f.dir = "pending" /\ files' = Renamed(f, "processing")
Finished(f) == InWork(f) /\ files' = Renamed(f, "done")

LEMMA RenamedIs ==
    ASSUME files \subseteq File, OneCopy, NEW f \in files, NEW d \in Dirs, files' = Renamed(f, d)
    PROVE  /\ files' \subseteq File /\ OneCopy' /\ In(f, d) \in files'
           /\ \A h \in files : h # f => h \in files'
           /\ \A h \in files' : h = In(f, d) \/ (h \in files /\ h # f)
<1>1. In(f, d) \in File /\ In(f, d).msg = f.msg /\ In(f, d).dir = d
  BY InIs
<1>2. files' = (files \ {f}) \cup {In(f, d)}
  BY DEF Renamed, In
<1> QED BY <1>1, <1>2 DEF OneCopy

LEMMA TakenIs ==
    ASSUME TypeOK, OneCopy, NEW f, Taken(f)
    PROVE  /\ InWork(In(f, "processing"))' /\ In(f, "processing") \in File
           /\ In(f, "processing").msg = f.msg
           /\ \A h : InWork(h) => InWork(h)' /\ h # In(f, "processing")
<1>1. f \in files /\ f \in File /\ "processing" \in Dirs
  BY DEF Taken, TypeOK, Dirs
<1>2. In(f, "processing") \in File /\ In(f, "processing").msg = f.msg
      /\ In(f, "processing").dir = "processing"
  BY <1>1, InIs
<1>3. In(f, "processing") \in files' /\ \A h \in files : h # f => h \in files'
  BY <1>1, RenamedIs DEF Taken, TypeOK
<1> QED BY <1>1, <1>2, <1>3 DEF InWork, OneCopy, Taken

LEMMA FinishedIs ==
    ASSUME TypeOK, OneCopy, NEW f, Finished(f)
    PROVE  \A h : InWork(h) /\ h # f => InWork(h)'
<1>1. f \in files /\ "done" \in Dirs
  BY DEF Finished, InWork, Dirs
<1> QED BY <1>1, RenamedIs DEF Finished, TypeOK, InWork

---------------------------------------------------------------------------
(* What a step does to the files. *)
FilesStep ==
    \/ UNCHANGED files
    \/ \E f : Taken(f) \/ Finished(f)
    \/ \E m \in Msg : Put(m)
    \/ \E f \in files : PendingIsLost(f)

(* The steps of readers move files; those of senders and of the            *)
(* surroundings do not.                                                    *)
LEMMA HubMoves ==
    ASSUME BusInductive, HubStep
    PROVE  /\ HubLooks \/ HubShows \/ HubClears => UNCHANGED files
           /\ HubClaims => (Taken(hub.file) /\ hub'.pc = "show" /\ hub'.file = In(hub.file, "processing"))
                             \/ (UNCHANGED files /\ hub' = Idle)
           /\ HubAcks => Finished(hub.file)
<1>1. HubLooks \/ HubShows \/ HubClears => UNCHANGED files
  BY DEF HubLooks, HubShows, HubClears, disk
<1>2. ASSUME HubClaims
      PROVE  (Taken(hub.file) /\ hub'.pc = "show" /\ hub'.file = In(hub.file, "processing"))
                \/ (UNCHANGED files /\ hub' = Idle)
  BY <1>2 DEF HubClaims, Taken, In, BusInductive, ReadersSound, Found
<1>3. ASSUME HubAcks PROVE Finished(hub.file)
  BY <1>3 DEF HubAcks, Finished, BusInductive, ReadersSound, Holds
<1> QED BY <1>1, <1>2, <1>3

LEMMA RunnerMoves ==
    ASSUME BusInductive, RunnerStep
    PROVE  /\ RunnerFinds => UNCHANGED files
           /\ RunnerClaims =>
                (Taken(runner.file) /\ runner'.pc = "ack" /\ runner'.file = In(runner.file, "processing"))
                   \/ (UNCHANGED <<files, shown>> /\ runner' = Idle)
           /\ RunnerAcks => Finished(runner.file)
<1>1. RunnerFinds => UNCHANGED files
  BY DEF RunnerFinds, disk
<1>2. ASSUME RunnerClaims
      PROVE  (Taken(runner.file) /\ runner'.pc = "ack" /\ runner'.file = In(runner.file, "processing"))
                   \/ (UNCHANGED <<files, shown>> /\ runner' = Idle)
  BY <1>2 DEF RunnerClaims, Taken, In, BusInductive, ReadersSound, Found
<1>3. ASSUME RunnerAcks PROVE Finished(runner.file)
  BY <1>3 DEF RunnerAcks, Finished, BusInductive, ReadersSound, Holds
<1> QED BY <1>1, <1>2, <1>3

LEMMA CliMoves ==
    ASSUME BusInductive
    PROVE  /\ CliTakes => \E f \in files : Taken(f) /\ cli' = In(f, "processing")
                                          /\ shown' = shown \cup {f.msg}
           /\ CliDone => Finished(cli)
<1>1. ASSUME CliTakes
      PROVE  \E f \in files : Taken(f) /\ cli' = In(f, "processing") /\ shown' = shown \cup {f.msg}
  <2>1. PICK f \in Dir(Hub, "pending") \cup UNION {ForWaiter(Envelope[m].task) : m \in Msg} :
          /\ files' = Renamed(f, "processing")
          /\ cli' = [f EXCEPT !.dir = "processing"]
          /\ shown' = shown \cup {f.msg}
    BY <1>1 DEF CliTakes
  <2>2. f \in Dir(Hub, "pending")
    BY <2>1 DEF ForWaiter
  <2>3. f \in files /\ f.dir = "pending"
    BY <2>2 DEF Dir
  <2> QED BY <2>1, <2>3 DEF Taken, In
<1>2. ASSUME CliDone PROVE Finished(cli)
  BY <1>2 DEF CliDone, Finished, BusInductive, ReadersSound
<1> QED BY <1>1, <1>2

LEMMA TickMoves ==
    ASSUME BusInductive, NEW s \in Specialist, NEW t \in Ticks, TickStep(s, t)
    PROVE  /\ TickLooks(s, t) \/ TickShows(s, t) => UNCHANGED files
           /\ TickClaims(s, t) =>
                \/ /\ Taken(tick[s][t].file)
                   /\ tick' = [tick EXCEPT ![s][t] = [pc |-> "show", file |-> In(tick[s][t].file, "processing")]]
                \/ UNCHANGED files /\ tick' = [tick EXCEPT ![s][t] = Idle]
<1>1. TickLooks(s, t) \/ TickShows(s, t) => UNCHANGED files
  BY DEF TickLooks, TickShows, disk
<1>2. ASSUME TickClaims(s, t)
      PROVE  \/ /\ Taken(tick[s][t].file)
                /\ tick' = [tick EXCEPT ![s][t] = [pc |-> "show", file |-> In(tick[s][t].file, "processing")]]
             \/ UNCHANGED files /\ tick' = [tick EXCEPT ![s][t] = Idle]
  BY <1>2 DEF TickClaims, Taken, In, BusInductive, ReadersSound, Found
<1> QED BY <1>1, <1>2

LEMMA EveryStep == ASSUME BusInductive, [Next]_vars PROVE FilesStep
<1>1. CASE UNCHANGED vars
  BY <1>1 DEF vars, disk, FilesStep
<1>2. ASSUME NEW m \in Msg, SenderStep(m) \/ SenderDies(m) PROVE FilesStep
  BY <1>2 DEF SenderStep, SenderDies, Send, Scan, Replay, Log, disk, FilesStep
<1>3. ASSUME HubStep PROVE FilesStep
  BY <1>3, HubMoves DEF HubStep, FilesStep
<1>4. ASSUME RunnerStep PROVE FilesStep
  BY <1>4, RunnerMoves DEF RunnerStep, FilesStep
<1>5. ASSUME CliTakes \/ CliDone PROVE FilesStep
  BY <1>5, CliMoves DEF FilesStep
<1>6. ASSUME NEW s \in Specialist, NEW t \in Ticks, TickStep(s, t) PROVE FilesStep
  BY <1>6, TickMoves DEF TickStep, FilesStep
<1>7. ASSUME HubRestarts \/ RunEnds \/ \E s \in Specialist : SpecialistRestarts(s) PROVE FilesStep
  BY <1>7 DEF HubRestarts, RunEnds, SpecialistRestarts, disk, FilesStep
<1>8. ASSUME NEW f \in files, PendingIsLost(f) PROVE FilesStep
  BY <1>8 DEF FilesStep
<1> QED BY <1>1, <1>2, <1>3, <1>4, <1>5, <1>6, <1>7, <1>8 DEF Next

LEMMA PutIs ==
    ASSUME BusInductive, NEW m \in Msg, Put(m)
    PROVE  /\ [msg |-> m, dir |-> "pending"] \in File
           /\ \A h \in files : h.msg # m
           /\ files' = files \cup {[msg |-> m, dir |-> "pending"]}
<1>1. SearchSound(m) /\ At(m, "put")
  BY DEF BusInductive, Put
<1>2. \A h \in files : h.msg # m
  BY <1>1 DEF SearchSound, Copies
<1> QED BY <1>2 DEF Put, File, Dirs

LEMMA FilesKept == ASSUME BusInductive, FilesStep PROVE files' \subseteq File /\ OneCopy'
<1>1. files \subseteq File /\ OneCopy
  BY DEF BusInductive, TypeOK
<1>2. CASE UNCHANGED files
  BY <1>1, <1>2 DEF OneCopy
<1>3. ASSUME NEW f, Taken(f) \/ Finished(f) PROVE files' \subseteq File /\ OneCopy'
  BY <1>1, <1>3, RenamedIs DEF Taken, Finished, InWork, Dirs
<1>4. ASSUME NEW m \in Msg, Put(m) PROVE files' \subseteq File /\ OneCopy'
  <2> DEFINE new == [msg |-> m, dir |-> "pending"]
  <2>1. new \in File /\ new.msg = m /\ files' = files \cup {new} /\ \A h \in files : h.msg # m
    BY <1>4, PutIs
  <2> HIDE DEF new
  <2> QED BY <1>1, <2>1 DEF OneCopy
<1>5. ASSUME NEW f \in files, PendingIsLost(f) PROVE files' \subseteq File /\ OneCopy'
  BY <1>1, <1>5 DEF PendingIsLost, OneCopy
<1> QED BY <1>2, <1>3, <1>4, <1>5 DEF FilesStep

---------------------------------------------------------------------------
(* Types. *)
SenderState ==
    [pc: Dirs \cup {"idle", "outbox", "put", "log", "logging", "sent", "failed"},
     seen: SUBSET File, tries: 0 .. MaxTries]

RowState == [Specialist -> {NoTask} \cup {Envelope[m].task : m \in Msg}]

LEMMA GotoIs ==
    ASSUME sender \in [Msg -> SenderState], NEW m \in Msg,
           NEW p \in Dirs \cup {"idle", "outbox", "put", "log", "logging", "sent", "failed"}, Goto(m, p)
    PROVE  /\ sender' \in [Msg -> SenderState]
           /\ sender'[m].pc = p /\ sender'[m].seen = sender[m].seen
           /\ \A n \in Msg : n # m => sender'[n] = sender[n]
<1> DEFINE new == [sender[m] EXCEPT !.pc = p]
<1>1. sender[m] \in SenderState
  OBVIOUS
<1>2. new \in SenderState /\ new.pc = p /\ new.seen = sender[m].seen
  BY <1>1 DEF SenderState
<1>3. sender' = [sender EXCEPT ![m] = new]
  BY DEF Goto
<1> HIDE DEF new
<1> QED BY <1>2, <1>3

LEMMA SendIs ==
    ASSUME TypeOK, NEW m \in Msg, SearchSound(m), Send(m)
    PROVE  /\ sender' \in [Msg -> SenderState]
           /\ sender'[m].seen = {} /\ sender'[m].pc \in {"pending", "put", "failed"}
           /\ sender'[m].pc = "put" => At(m, "idle") /\ ~Envelope[m].keyed
           /\ \A n \in Msg : n # m => sender'[n] = sender[n]
<1>1. PICK p \in FirstStep(m) :
        sender' = [sender EXCEPT ![m] = [pc |-> p, seen |-> {}, tries |-> @.tries + 1]]
  BY DEF Send
<1>2. p \in {"pending", "put", "failed"} /\ (p = "put" => ~Envelope[m].keyed)
  BY <1>1 DEF FirstStep
<1>3. sender \in [Msg -> SenderState] /\ sender[m].tries \in 0 .. MaxTries
  BY DEF TypeOK, SenderState
<1>4. sender[m].tries + 1 \in 0 .. MaxTries
  BY <1>3, BusAssumption DEF Send, MaySend, SearchSound
<1> DEFINE new == [pc |-> p, seen |-> {}, tries |-> sender[m].tries + 1]
<1>5. new \in SenderState /\ new.pc = p /\ new.seen = {}
  BY <1>2, <1>4 DEF SenderState, Dirs
<1>6. sender' = [sender EXCEPT ![m] = new]
  BY <1>1
<1> HIDE DEF new
<1> QED BY <1>2, <1>3, <1>5, <1>6 DEF Send, MaySend, At

LEMMA ScanIs ==
    ASSUME TypeOK, NEW m \in Msg, Scan(m)
    PROVE  /\ sender' \in [Msg -> SenderState]
           /\ sender[m].pc \in Dirs /\ sender'[m].pc = AfterScan[sender[m].pc]
           /\ sender'[m].seen = sender[m].seen \cup {f \in Copies(m) : f.dir = sender[m].pc}
           /\ \A n \in Msg : n # m => sender'[n] = sender[n]
<1> DEFINE found == {f \in Copies(m) : f.dir = sender[m].pc}
           pc == AfterScan[sender[m].pc]
           seen == sender[m].seen \cup found
           new == [pc |-> pc, seen |-> seen, tries |-> sender[m].tries]
<1>1. sender \in [Msg -> SenderState] /\ sender[m] \in SenderState /\ files \subseteq File
  BY DEF TypeOK, SenderState
<1>2. sender[m].pc \in Dirs /\ sender' = [sender EXCEPT ![m].pc = pc, ![m].seen = seen]
  BY DEF Scan
<1>3. pc \in {"processing", "done", "outbox"}
  BY <1>2 DEF AfterScan, Dirs
<1>4. found \subseteq File
  BY <1>1 DEF Copies
<1>5. seen \subseteq File
  BY <1>1, <1>4 DEF SenderState
<1> HIDE DEF found, pc, seen
<1>6. sender'[m] = new /\ sender' = [sender EXCEPT ![m] = sender'[m]]
  BY <1>1, <1>2 DEF SenderState
<1>7. new \in SenderState
  BY <1>1, <1>3, <1>5 DEF SenderState, Dirs
<1> QED BY <1>1, <1>2, <1>6, <1>7 DEF found, pc, seen
LEMMA GoingOnIs ==
    ASSUME TypeOK, NEW m \in Msg, Replay(m) \/ Put(m) \/ Log(m) \/ SenderDies(m)
    PROVE  /\ sender' \in [Msg -> SenderState]
           /\ sender'[m].seen = sender[m].seen
           /\ \A n \in Msg : n # m => sender'[n] = sender[n]
           /\ sender'[m].pc \in {"failed", "put", "log", "logging", "sent"}
           /\ \A p \in {"failed", "put", "log", "logging", "sent"} : Goto(m, p) => sender'[m].pc = p
<1> DEFINE to == {"failed", "put", "log", "logging", "sent"}
<1>1. sender \in [Msg -> SenderState]
  BY DEF TypeOK, SenderState
<1>2. PICK p \in to : Goto(m, p)
  BY DEF Replay, Put, Log, SenderDies
<1>3. ASSUME NEW q \in to, Goto(m, q)
      PROVE  /\ sender' \in [Msg -> SenderState]
             /\ sender'[m].pc = q /\ sender'[m].seen = sender[m].seen
             /\ \A n \in Msg : n # m => sender'[n] = sender[n]
  BY <1>1, <1>3, GotoIs
<1> QED BY <1>2, <1>3

---------------------------------------------------------------------------
(* No step but Put brings a file of a message into the inbox, and files    *)
(* only move on.                                                           *)
Ahead(m) ==
    /\ \A g \in Copies(m)' : \E f \in Copies(m) : g = f \/ f.dir = "pending" \/ g.dir = "done"
    /\ Stored(m) => Stored(m)'

LEMMA LostGrows == ASSUME [Next]_vars PROVE lost \subseteq lost'
<1>1. CASE UNCHANGED vars
  BY <1>1 DEF vars, others
<1>2. ASSUME NEW m \in Msg, SenderStep(m) \/ SenderDies(m) PROVE lost \subseteq lost'
  BY <1>2 DEF SenderStep, SenderDies, Send, Scan, Replay, Put, Log
<1>3. CASE HubStep \/ HubRestarts
  BY <1>3 DEF HubStep, HubLooks, HubClaims, HubShows, HubAcks, HubClears, HubRestarts, others
<1>4. CASE RunnerStep \/ CliTakes \/ CliDone
  BY <1>4 DEF RunnerStep, RunnerFinds, RunnerClaims, RunnerAcks, CliTakes, CliDone, others
<1>5. ASSUME NEW s \in Specialist, SpecialistRestarts(s) \/ \E t \in Ticks : TickStep(s, t)
      PROVE  lost \subseteq lost'
  BY <1>5 DEF SpecialistRestarts, TickStep, TickLooks, TickClaims, TickShows, others
<1>6. CASE RunEnds \/ \E f \in files : PendingIsLost(f)
  BY <1>6 DEF RunEnds, PendingIsLost
<1> QED BY <1>1, <1>2, <1>3, <1>4, <1>5, <1>6 DEF Next

LEMMA AheadIs ==
    ASSUME BusInductive, [Next]_vars, NEW m \in Msg, ~Put(m)
    PROVE  Ahead(m)
<1>1. files \subseteq File /\ OneCopy /\ lost \subseteq lost'
  BY LostGrows DEF BusInductive, TypeOK
<1>2. CASE UNCHANGED files
  BY <1>1, <1>2 DEF Ahead, Copies, Stored
<1>3. ASSUME NEW f, NEW d \in {"processing", "done"}, f \in files, files' = Renamed(f, d),
             f.dir = "pending" \/ d = "done"
      PROVE  Ahead(m)
  <2>1. /\ In(f, d) \in files' /\ In(f, d).msg = f.msg /\ In(f, d).dir = d
        /\ \A h \in files : h # f => h \in files'
        /\ \A h \in files' : h = In(f, d) \/ (h \in files /\ h # f)
    BY <1>1, <1>3, RenamedIs, InIs DEF Dirs
  <2> QED BY <1>1, <1>3, <2>1 DEF Ahead, Copies, Stored
<1>4. ASSUME NEW n \in Msg, Put(n) PROVE Ahead(m)
  <2>1. n # m
    BY <1>4
  <2> DEFINE new == [msg |-> n, dir |-> "pending"]
  <2>2. new.msg = n /\ files' = files \cup {new}
    BY <1>4 DEF Put
  <2> HIDE DEF new
  <2> QED BY <1>1, <2>1, <2>2 DEF Ahead, Copies, Stored
<1>5. ASSUME NEW f \in files, PendingIsLost(f) PROVE Ahead(m)
  BY <1>1, <1>5 DEF PendingIsLost, Ahead, Copies, Stored
<1>6. FilesStep
  BY EveryStep
<1> QED BY <1>2, <1>3, <1>4, <1>5, <1>6 DEF FilesStep, Taken, Finished, InWork

---------------------------------------------------------------------------
(* What is known of a message stays known.                                 *)
SenderSound(m) == SearchSound(m) /\ StoredSound(m)

LEMMA OtherKept ==
    ASSUME NEW m \in Msg, SenderSound(m), Ahead(m),
           sender'[m] = sender[m], outbox'[m] = outbox[m]
    PROVE  SenderSound(m)'
<1>1. SearchSound(m)'
  BY DEF SenderSound, SearchSound, Ahead, At
<1>2. StoredSound(m)'
  BY DEF SenderSound, StoredSound, Ahead, At
<1> QED BY <1>1, <1>2 DEF SenderSound

LEMMA SendKept ==
    ASSUME TypeOK, NEW m \in Msg, SenderSound(m), Send(m) PROVE SenderSound(m)'
<1>1. files' = files /\ outbox' = outbox /\ lost' = lost
  BY DEF Send, disk
<1>2. /\ sender'[m].seen = {} /\ sender'[m].pc \in {"pending", "put", "failed"}
      /\ sender'[m].pc = "put" => At(m, "idle") /\ ~Envelope[m].keyed
  BY SendIs DEF SenderSound
<1> QED BY <1>1, <1>2 DEF SenderSound, SearchSound, StoredSound, Stored, Copies, At

LEMMA ScanKept ==
    ASSUME TypeOK, NEW m \in Msg, SenderSound(m), Scan(m) PROVE SenderSound(m)'
<1>1. files' = files /\ outbox' = outbox /\ lost' = lost
  BY DEF Scan, disk
<1>2. /\ sender[m].pc \in Dirs /\ sender'[m].pc = AfterScan[sender[m].pc]
      /\ sender'[m].seen = sender[m].seen \cup {f \in Copies(m) : f.dir = sender[m].pc}
  BY ScanIs
<1>3. \A f \in Copies(m) : f.msg = m /\ f.dir \in Dirs
  BY FileIs DEF Copies, TypeOK
<1>4. Copies(m)' = Copies(m)
  BY <1>1 DEF Copies
<1>5. /\ sender'[m].pc = "processing" => sender[m].pc = "pending"
      /\ sender'[m].pc = "done" => sender[m].pc = "processing"
      /\ sender'[m].pc = "outbox" => sender[m].pc = "done"
      /\ sender'[m].pc \in {"processing", "done", "outbox"}
  BY <1>2 DEF AfterScan, Dirs
<1>6. SearchSound(m)'
  BY <1>2, <1>3, <1>4, <1>5 DEF SenderSound, SearchSound, At, Dirs
<1>7. StoredSound(m)'
  BY <1>1, <1>4, <1>5 DEF SenderSound, StoredSound, Stored, At
<1> QED BY <1>6, <1>7 DEF SenderSound

LEMMA ReplayKept ==
    ASSUME TypeOK, NEW m \in Msg, SenderSound(m), Replay(m) PROVE SenderSound(m)'
<1> DEFINE seen == sender[m].seen
           bad == seen \cap files # seen \/ outbox[m] = "torn"
<1>1. files' = files /\ outbox' = outbox /\ lost' = lost /\ At(m, "outbox")
  BY DEF Replay, disk
<1>2. Copies(m)' = Copies(m) /\ outbox[m] \in {"none", "torn", "whole"} /\ Stored(m)' = Stored(m)
  BY <1>1 DEF Copies, Stored, TypeOK
<1>3. sender'[m].seen = seen /\ \A f \in seen : f.msg = m
  BY GoingOnIs DEF SenderSound, SearchSound
<1>4. /\ bad => sender'[m].pc = "failed"
      /\ ~bad /\ seen = {} => sender'[m].pc = "put"
      /\ ~bad /\ seen # {} /\ outbox[m] = "none" => sender'[m].pc = "log"
      /\ ~bad /\ seen # {} /\ outbox[m] # "none" => sender'[m].pc = "sent"
  <2>1. ASSUME bad PROVE Goto(m, "failed")
    BY <2>1 DEF Replay
  <2>2. ASSUME ~bad, seen = {} PROVE Goto(m, "put")
    BY <2>2 DEF Replay
  <2>3. ASSUME ~bad, seen # {}, outbox[m] = "none" PROVE Goto(m, "log")
    BY <2>3 DEF Replay
  <2>4. ASSUME ~bad, seen # {}, outbox[m] # "none" PROVE Goto(m, "sent")
    BY <2>4 DEF Replay
  <2> HIDE DEF bad, seen
  <2> QED BY <2>1, <2>2, <2>3, <2>4, GoingOnIs
<1>5. seen # {} /\ ~bad => Stored(m)
  BY <1>3 DEF Stored, Copies
<1>6. At(m, "outbox") /\ seen = {} => Copies(m) = {}
  BY DEF SenderSound, SearchSound
<1> HIDE DEF seen, bad
<1>7. bad \/ (~bad /\ seen = {}) \/ (~bad /\ seen # {} /\ outbox[m] = "none")
        \/ (~bad /\ seen # {} /\ outbox[m] # "none")
  OBVIOUS
<1>8. SearchSound(m)'
  BY <1>1, <1>2, <1>3, <1>4, <1>6, <1>7 DEF SearchSound, At
<1>9. ~bad => outbox[m] # "torn"
  BY DEF bad
<1>10. StoredSound(m)'
  BY <1>1, <1>2, <1>4, <1>5, <1>7, <1>9 DEF SenderSound, StoredSound, At
<1> QED BY <1>8, <1>10 DEF SenderSound

LEMMA PutKept ==
    ASSUME TypeOK, NEW m \in Msg, SenderSound(m), Put(m) PROVE SenderSound(m)'
<1>1. outbox' = outbox /\ lost' = lost /\ At(m, "put")
  BY DEF Put
<1>2. Stored(m)'
  <2> DEFINE new == [msg |-> m, dir |-> "pending"]
  <2>1. new.msg = m /\ new \in files'
    BY DEF Put
  <2> HIDE DEF new
  <2> QED BY <2>1 DEF Stored, Copies
<1>3. sender'[m].pc = IF Envelope[m].keyed /\ outbox[m] = "none" THEN "log" ELSE "sent"
  BY GoingOnIs DEF Put
<1>4. sender'[m].seen = sender[m].seen /\ \A f \in sender[m].seen : f.msg = m
  BY GoingOnIs DEF SenderSound, SearchSound
<1>5. outbox[m] \in {"none", "torn", "whole"}
  BY DEF TypeOK
<1>6. SearchSound(m)'
  BY <1>3, <1>4 DEF SearchSound, At
<1>7. StoredSound(m)'
  BY <1>1, <1>2, <1>3, <1>5 DEF SenderSound, StoredSound, At
<1> QED BY <1>6, <1>7 DEF SenderSound

LEMMA LogKept ==
    ASSUME TypeOK, NEW m \in Msg, SenderSound(m), Log(m) PROVE SenderSound(m)'
<1>1. files' = files /\ lost' = lost
  BY DEF Log
<1>2. Copies(m)' = Copies(m) /\ Stored(m)' = Stored(m)
  BY <1>1 DEF Copies, Stored
<1>3. sender'[m].seen = sender[m].seen /\ \A f \in sender[m].seen : f.msg = m
  BY GoingOnIs DEF SenderSound, SearchSound
<1>4. \/ At(m, "log") /\ outbox'[m] = "torn" /\ sender'[m].pc = "logging"
      \/ At(m, "logging") /\ outbox'[m] = "whole" /\ sender'[m].pc = "sent"
  BY GoingOnIs DEF Log, TypeOK
<1>5. SearchSound(m)'
  BY <1>3, <1>4 DEF SearchSound, At
<1>6. StoredSound(m)'
  BY <1>2, <1>4 DEF SenderSound, StoredSound, At
<1> QED BY <1>5, <1>6 DEF SenderSound

LEMMA DeadKept ==
    ASSUME TypeOK, NEW m \in Msg, SenderSound(m), SenderDies(m) PROVE SenderSound(m)'
<1>1. files' = files /\ outbox' = outbox /\ lost' = lost
  BY DEF SenderDies, disk
<1>2. Copies(m)' = Copies(m) /\ Stored(m)' = Stored(m)
  BY <1>1 DEF Copies, Stored
<1>3. sender'[m].seen = sender[m].seen /\ sender'[m].pc = "failed"
  BY GoingOnIs DEF SenderDies
<1> QED BY <1>1, <1>2, <1>3 DEF SenderSound, SearchSound, StoredSound, At

(* The steps that are not a sender's leave senders and outboxes alone.     *)
LEMMA SendersAlone ==
    ASSUME [Next]_vars, \A m \in Msg : ~SenderStep(m) /\ ~SenderDies(m)
    PROVE  sender' = sender /\ outbox' = outbox
<1>1. CASE UNCHANGED vars
  BY <1>1 DEF vars, others, disk
<1>2. CASE HubStep \/ HubRestarts
  BY <1>2 DEF HubStep, HubLooks, HubClaims, HubShows, HubAcks, HubClears, HubRestarts, others, disk
<1>3. CASE RunnerStep \/ CliTakes \/ CliDone
  BY <1>3 DEF RunnerStep, RunnerFinds, RunnerClaims, RunnerAcks, CliTakes, CliDone, others, disk
<1>4. ASSUME NEW s \in Specialist, SpecialistRestarts(s) \/ \E t \in Ticks : TickStep(s, t)
      PROVE  sender' = sender /\ outbox' = outbox
  BY <1>4 DEF SpecialistRestarts, TickStep, TickLooks, TickClaims, TickShows, others, disk
<1>5. CASE RunEnds \/ \E f \in files : PendingIsLost(f)
  BY <1>5 DEF RunEnds, PendingIsLost, disk
<1> QED BY <1>1, <1>2, <1>3, <1>4, <1>5 DEF Next

LEMMA OutboxIs ==
    ASSUME TypeOK, NEW m \in Msg, SenderStep(m) \/ SenderDies(m)
    PROVE  /\ outbox' \in [Msg -> {"none", "torn", "whole"}]
           /\ \A n \in Msg : n # m => outbox'[n] = outbox[n] /\ sender'[n] = sender[n]
<1>1. outbox \in [Msg -> {"none", "torn", "whole"}]
  BY DEF TypeOK
<1>2. CASE Log(m)
  BY <1>1, <1>2, GoingOnIs DEF Log
<1>3. CASE Send(m)
  BY <1>1, <1>3 DEF Send, disk
<1>4. CASE Scan(m)
  BY <1>1, <1>4, ScanIs DEF Scan, disk
<1>5. CASE Replay(m) \/ Put(m) \/ SenderDies(m)
  BY <1>1, <1>5, GoingOnIs DEF Replay, Put, SenderDies, disk
<1> QED BY <1>2, <1>3, <1>4, <1>5 DEF SenderStep

LEMMA SendersKept ==
    ASSUME BusInductive, [Next]_vars
    PROVE  /\ \A n \in Msg : SenderSound(n)'
           /\ sender' \in [Msg -> SenderState] /\ outbox' \in [Msg -> {"none", "torn", "whole"}]
<1>1. TypeOK /\ \A n \in Msg : SenderSound(n)
  BY DEF BusInductive, SenderSound
<1>2. sender \in [Msg -> SenderState] /\ outbox \in [Msg -> {"none", "torn", "whole"}]
  BY <1>1 DEF TypeOK, SenderState
<1>3. ASSUME NEW m \in Msg, SenderStep(m) \/ SenderDies(m)
      PROVE  /\ \A n \in Msg : SenderSound(n)'
             /\ sender' \in [Msg -> SenderState] /\ outbox' \in [Msg -> {"none", "torn", "whole"}]
  <2>1. SenderSound(m)'
    BY <1>1, <1>3, SendKept, ScanKept, ReplayKept, PutKept, LogKept, DeadKept DEF SenderStep
  <2>2. sender' \in [Msg -> SenderState]
    BY <1>1, <1>3, SendIs, ScanIs, GoingOnIs DEF SenderStep, SenderSound
  <2>3. ASSUME NEW n \in Msg, n # m PROVE SenderSound(n)'
    <3>1. outbox'[n] = outbox[n] /\ sender'[n] = sender[n]
      BY <1>1, <1>3, <2>3, OutboxIs
    <3>2. CASE Put(n)
      <4>1. sender'[n].pc \in {"log", "sent"} /\ sender[n].pc = "put"
        BY <1>1, <3>2, GoingOnIs DEF Put, At
      <4> QED BY <3>1, <4>1
    <3>3. CASE ~Put(n)
      BY <1>1, <3>1, <3>3, AheadIs, OtherKept
    <3> QED BY <3>2, <3>3
  <2> QED BY <1>1, <1>3, <2>1, <2>2, <2>3, OutboxIs
<1>4. CASE \A m \in Msg : ~SenderStep(m) /\ ~SenderDies(m)
  <2>1. sender' = sender /\ outbox' = outbox
    BY <1>4, SendersAlone
  <2> QED BY <1>1, <1>2, <1>4, <2>1, AheadIs, OtherKept DEF SenderStep
<1> QED BY <1>3, <1>4

---------------------------------------------------------------------------
(* What each reader knows.                                                 *)
HubSound ==
    /\ hub \in Reader /\ Found(hub)
    /\ hub.pc \in {"show", "ack"} => InWork(hub.file)
    /\ hub.pc \in {"ack", "clear"} => hub.file \in File /\ hub.file.msg \in shown

RunnerSound ==
    /\ runner \in Reader /\ Found(runner) /\ runner.pc \in {"idle", "claim", "ack"}
    /\ runner.pc = "ack" => InWork(runner.file)

CliSound == cli \in File \cup {NoFile} /\ (cli # NoFile => InWork(cli))

TickSound(r) ==
    /\ r \in Reader /\ Found(r) /\ r.pc \in {"idle", "claim", "show"}
    /\ r.pc = "show" => r.file \in File

TicksSound ==
    /\ tick \in [Specialist -> [Ticks -> Reader]]
    /\ \A s \in Specialist, t \in Ticks : TickSound(tick[s][t])

Apart ==
    /\ hub.pc \in {"show", "ack"} /\ runner.pc = "ack" => hub.file # runner.file
    /\ hub.pc \in {"show", "ack"} /\ cli # NoFile => hub.file # cli
    /\ runner.pc = "ack" /\ cli # NoFile => runner.file # cli

ReadersInv == HubSound /\ RunnerSound /\ CliSound /\ TicksSound /\ Apart

LEMMA ReadersAre == ASSUME TypeOK, ReadersSound, OneHolder PROVE ReadersInv
<1>1. HubSound /\ RunnerSound /\ CliSound /\ TicksSound
  BY DEF TypeOK, ReadersSound, Holds, HubSound, RunnerSound, CliSound, TicksSound, TickSound
<1>2. Apart
  BY DEF OneHolder, Holds, Apart
<1> QED BY <1>1, <1>2 DEF ReadersInv

LEMMA ReadersAreBack ==
    ASSUME files \subseteq File, ReadersInv PROVE ReadersSound /\ OneHolder
<1>1. ReadersSound
  BY DEF ReadersInv, ReadersSound, Holds, HubSound, RunnerSound, CliSound, TicksSound, TickSound
<1>2. \A f : InWork(f) => f # NoFile
  BY BusAssumption DEF InWork
<1>3. OneHolder
  BY <1>2 DEF ReadersInv, OneHolder, Holds, HubSound, RunnerSound, CliSound, Apart
<1> QED BY <1>1, <1>3

(* A reader never disturbs another.                                        *)
LEMMA ShownGrows ==
    ASSUME TypeOK, [Next]_vars PROVE shown \subseteq shown'
<1>1. CASE UNCHANGED vars
  BY <1>1 DEF vars
<1>2. ASSUME NEW m \in Msg, SenderStep(m) \/ SenderDies(m) PROVE shown \subseteq shown'
  BY <1>2 DEF SenderStep, SenderDies, Send, Scan, Replay, Put, Log
<1>3. CASE HubStep \/ HubRestarts
  BY <1>3 DEF HubStep, HubLooks, HubClaims, HubShows, HubAcks, HubClears, HubRestarts
<1>4. CASE RunnerStep \/ CliTakes \/ CliDone
  BY <1>4 DEF RunnerStep, RunnerFinds, RunnerClaims, RunnerAcks, CliTakes, CliDone
<1>5. ASSUME NEW s \in Specialist, SpecialistRestarts(s) \/ \E t \in Ticks : TickStep(s, t)
      PROVE  shown \subseteq shown'
  BY <1>5 DEF SpecialistRestarts, TickStep, TickLooks, TickClaims, TickShows
<1>6. CASE RunEnds \/ \E f \in files : PendingIsLost(f)
  BY <1>6 DEF RunEnds, PendingIsLost
<1> QED BY <1>1, <1>2, <1>3, <1>4, <1>5, <1>6 DEF Next

(* Which readers a step may change.                                        *)
LEMMA ReadersAlone ==
    ASSUME [Next]_vars
    PROVE  \/ (HubStep \/ HubRestarts) /\ UNCHANGED <<runner, cli, tick>>
           \/ RunnerStep /\ UNCHANGED <<hub, cli, tick>>
           \/ (CliTakes \/ CliDone) /\ UNCHANGED <<hub, runner, tick>>
           \/ /\ \E s \in Specialist : SpecialistRestarts(s) \/ \E t \in Ticks : TickStep(s, t)
              /\ UNCHANGED <<hub, runner, cli>>
           \/ /\ \/ UNCHANGED vars
                 \/ \E m \in Msg : SenderStep(m) \/ SenderDies(m)
                 \/ RunEnds
                 \/ \E f \in files : PendingIsLost(f)
              /\ UNCHANGED <<hub, runner, cli, tick>>
<1>1. CASE UNCHANGED vars
  BY <1>1 DEF vars, readers
<1>2. ASSUME NEW m \in Msg, SenderStep(m) \/ SenderDies(m) PROVE UNCHANGED <<hub, runner, cli, tick>>
  BY <1>2 DEF SenderStep, SenderDies, Send, Scan, Replay, Put, Log, readers
<1>3. ASSUME HubStep \/ HubRestarts PROVE UNCHANGED <<runner, cli, tick>>
  BY <1>3 DEF HubStep, HubLooks, HubClaims, HubShows, HubAcks, HubClears, HubRestarts
<1>4. ASSUME RunnerStep PROVE UNCHANGED <<hub, cli, tick>>
  BY <1>4 DEF RunnerStep, RunnerFinds, RunnerClaims, RunnerAcks
<1>5. ASSUME CliTakes \/ CliDone PROVE UNCHANGED <<hub, runner, tick>>
  BY <1>5 DEF CliTakes, CliDone
<1>6. ASSUME NEW s \in Specialist, SpecialistRestarts(s) \/ \E t \in Ticks : TickStep(s, t)
      PROVE  UNCHANGED <<hub, runner, cli>>
  BY <1>6 DEF SpecialistRestarts, TickStep, TickLooks, TickClaims, TickShows
<1>7. ASSUME RunEnds \/ \E f \in files : PendingIsLost(f) PROVE UNCHANGED <<hub, runner, cli, tick>>
  BY <1>7 DEF RunEnds, PendingIsLost, readers
<1> QED BY <1>1, <1>2, <1>3, <1>4, <1>5, <1>6, <1>7 DEF Next

(* A step other than an acknowledgement leaves every file in work there.   *)
LEMMA WorkKept ==
    ASSUME BusInductive, [Next]_vars, ~HubAcks, ~RunnerAcks, ~CliDone
    PROVE  \A f : InWork(f) => InWork(f)'
<1>1. TypeOK /\ OneCopy
  BY DEF BusInductive
<1>2. CASE UNCHANGED files
  BY <1>2 DEF InWork
<1>3. ASSUME NEW f, Taken(f) PROVE \A h : InWork(h) => InWork(h)'
  BY <1>1, <1>3, TakenIs
<1>4. CASE \E m \in Msg : Put(m)
  BY <1>4 DEF Put, InWork
<1>5. CASE \E f \in files : PendingIsLost(f)
  BY <1>5 DEF PendingIsLost, InWork
<1>6. ASSUME HubStep \/ HubRestarts PROVE UNCHANGED files \/ \E f : Taken(f)
  BY <1>6, HubMoves DEF HubStep, HubRestarts, disk
<1>7. ASSUME RunnerStep PROVE UNCHANGED files \/ \E f : Taken(f)
  BY <1>7, RunnerMoves DEF RunnerStep
<1>8. ASSUME CliTakes PROVE \E f : Taken(f)
  BY <1>8, CliMoves
<1>9. ASSUME NEW s \in Specialist, SpecialistRestarts(s) \/ \E t \in Ticks : TickStep(s, t)
      PROVE  UNCHANGED files \/ \E f : Taken(f)
  BY <1>9, TickMoves DEF TickStep, SpecialistRestarts, disk
<1>10. ASSUME NEW m \in Msg, SenderStep(m) \/ SenderDies(m) PROVE UNCHANGED files \/ Put(m)
  BY <1>10 DEF SenderStep, SenderDies, Send, Scan, Replay, Log, disk
<1>11. UNCHANGED vars \/ RunEnds => UNCHANGED files
  BY DEF vars, RunEnds, disk
<1> QED BY <1>2, <1>3, <1>4, <1>5, <1>6, <1>7, <1>8, <1>9, <1>10, <1>11, ReadersAlone

(* Records of readers.                                                     *)
LEMMA ReaderIs ==
    ASSUME NEW p \in {"idle", "claim", "show", "ack", "clear"}, NEW f \in File \cup {NoFile}
    PROVE  /\ [pc |-> p, file |-> f] \in Reader
           /\ [pc |-> p, file |-> f].pc = p /\ [pc |-> p, file |-> f].file = f
  BY DEF Reader

LEMMA IdleIs == Idle \in Reader /\ Idle.pc = "idle"
  BY DEF Idle, Reader

LEMMA PcIs ==
    ASSUME NEW r \in Reader, NEW p \in {"idle", "claim", "show", "ack", "clear"}
    PROVE  /\ [r EXCEPT !.pc = p] \in Reader
           /\ [r EXCEPT !.pc = p].pc = p /\ [r EXCEPT !.pc = p].file = r.file
  BY DEF Reader

(* A file that stays in work. *)
Still(f) == f \in files' /\ f.dir = "processing"

LEMMA HubKept ==
    ASSUME BusInductive, [Next]_vars, HubStep \/ HubRestarts PROVE ReadersInv'
<1>1. ReadersInv /\ TypeOK /\ OneCopy
  BY ReadersAre DEF BusInductive
<1>2. UNCHANGED <<runner, cli, tick>>
  BY DEF HubStep, HubLooks, HubClaims, HubShows, HubAcks, HubClears, HubRestarts
<1>3. TicksSound'
  BY <1>1, <1>2 DEF ReadersInv, TicksSound, TickSound, Found
<1>4. /\ hub \in Reader /\ runner \in Reader /\ cli \in File \cup {NoFile}
      /\ runner.pc = "ack" => InWork(runner.file)
      /\ cli # NoFile => InWork(cli)
      /\ \A f \in files : f \in File
  BY <1>1 DEF ReadersInv, HubSound, RunnerSound, CliSound, TypeOK
<1>5. ASSUME runner.pc = "ack" => Still(runner.file), cli # NoFile => Still(cli)
      PROVE  RunnerSound' /\ CliSound'
  BY <1>1, <1>2, <1>5 DEF ReadersInv, RunnerSound, CliSound, Found, Still, InWork
<1>6. shown \subseteq shown'
  BY <1>1, ShownGrows
<1>7. CASE HubLooks
  <2>1. PICK f \in Dir(Hub, "pending") : hub' = [pc |-> "claim", file |-> f]
    BY <1>7 DEF HubLooks
  <2>2. f \in File /\ f.dir = "pending" /\ UNCHANGED <<files, shown>>
    BY <2>1, <1>4, <1>7 DEF Dir, HubLooks, disk
  <2>3. hub' \in Reader /\ hub'.pc = "claim" /\ hub'.file = f
    BY <2>1, <2>2, ReaderIs
  <2>4. HubSound' /\ Apart'
    BY <1>1, <1>2, <2>2, <2>3 DEF HubSound, Found, Apart, ReadersInv
  <2>5. RunnerSound' /\ CliSound'
    BY <1>4, <1>5, <2>2 DEF InWork, Still
  <2> QED BY <1>3, <2>4, <2>5 DEF ReadersInv
<1>8. CASE HubClaims /\ UNCHANGED files /\ hub' = Idle
  <2>1. HubSound' /\ Apart'
    BY <1>1, <1>2, <1>8, IdleIs DEF HubSound, Found, Apart, ReadersInv
  <2>2. RunnerSound' /\ CliSound'
    BY <1>4, <1>5, <1>8 DEF InWork, Still
  <2> QED BY <1>3, <2>1, <2>2 DEF ReadersInv
<1>9. CASE HubClaims /\ Taken(hub.file)
  <2> DEFINE new == In(hub.file, "processing")
  <2>1. Still(new) /\ new \in File /\ \A h : InWork(h) => Still(h) /\ h # new
    BY <1>1, <1>9, TakenIs DEF Still, InWork
  <2>2. hub' = [pc |-> "show", file |-> new]
    BY <1>9 DEF HubClaims, Taken, In
  <2> HIDE DEF new
  <2>3. hub' \in Reader /\ hub'.pc = "show" /\ hub'.file = new
    BY <2>1, <2>2, ReaderIs
  <2>4. HubSound'
    BY <2>1, <2>3 DEF HubSound, Found, Still, InWork
  <2>5. Apart'
    BY <1>1, <1>2, <1>4, <2>1, <2>3 DEF Apart, ReadersInv
  <2>6. RunnerSound' /\ CliSound'
    BY <1>4, <1>5, <2>1
  <2> QED BY <1>3, <2>4, <2>5, <2>6 DEF ReadersInv
<1>10. CASE HubShows
  <2>1. UNCHANGED files
    BY <1>10 DEF HubShows, disk
  <2>2. RunnerSound' /\ CliSound'
    BY <1>4, <1>5, <2>1 DEF InWork, Still
  <2>3. CASE hub' = Idle
    BY <1>1, <1>2, <1>3, <2>2, <2>3, IdleIs DEF HubSound, Found, Apart, ReadersInv
  <2>4. CASE hub' = [hub EXCEPT !.pc = "ack"] /\ shown' = shown \cup {hub.file.msg}
    <3>1. hub' \in Reader /\ hub'.pc = "ack" /\ hub'.file = hub.file
      BY <1>4, <2>4, PcIs
    <3>2. hub.pc = "show" /\ InWork(hub.file)
      BY <1>1, <1>10 DEF HubShows, ReadersInv, HubSound
    <3>3. HubSound'
      BY <1>4, <2>1, <2>4, <3>1, <3>2 DEF HubSound, Found, InWork
    <3>4. Apart'
      BY <1>1, <1>2, <3>1, <3>2 DEF Apart, ReadersInv
    <3> QED BY <1>3, <2>2, <3>3, <3>4 DEF ReadersInv
  <2> QED BY <1>10, <2>3, <2>4 DEF HubShows
<1>11. CASE HubAcks
  <2>1. hub.pc = "ack" /\ Finished(hub.file) /\ hub' = [hub EXCEPT !.pc = "clear"] /\ shown' = shown
    BY <1>11, HubMoves DEF HubAcks, HubStep
  <2>2. hub' \in Reader /\ hub'.pc = "clear" /\ hub'.file = hub.file
    BY <1>4, <2>1, PcIs
  <2>3. HubSound'
    BY <1>1, <2>1, <2>2 DEF ReadersInv, HubSound, Found
  <2>4. Apart'
    BY <1>1, <1>2, <2>2 DEF Apart, ReadersInv
  <2>5. \A h : InWork(h) /\ h # hub.file => Still(h)
    BY <1>1, <2>1, FinishedIs DEF Still, InWork
  <2>6. (runner.pc = "ack" => runner.file # hub.file) /\ (cli # NoFile => cli # hub.file)
    BY <1>1, <2>1 DEF ReadersInv, Apart
  <2>7. RunnerSound' /\ CliSound'
    BY <1>4, <1>5, <2>5, <2>6
  <2> QED BY <1>3, <2>3, <2>4, <2>7 DEF ReadersInv
<1>12. CASE HubClears \/ HubRestarts
  <2>1. hub' = Idle /\ UNCHANGED <<files, shown>>
    BY <1>12 DEF HubClears, HubRestarts, disk
  <2>2. HubSound' /\ Apart'
    BY <1>1, <1>2, <2>1, IdleIs DEF HubSound, Found, Apart, ReadersInv
  <2>3. RunnerSound' /\ CliSound'
    BY <1>4, <1>5, <2>1 DEF InWork, Still
  <2> QED BY <1>3, <2>2, <2>3 DEF ReadersInv
<1> QED BY <1>7, <1>8, <1>9, <1>10, <1>11, <1>12, HubMoves DEF HubStep

LEMMA RunnerKept ==
    ASSUME BusInductive, [Next]_vars, RunnerStep PROVE ReadersInv'
<1>1. ReadersInv /\ TypeOK /\ OneCopy
  BY ReadersAre DEF BusInductive
<1>2. UNCHANGED <<hub, cli, tick>>
  BY DEF RunnerStep, RunnerFinds, RunnerClaims, RunnerAcks
<1>3. TicksSound'
  BY <1>1, <1>2 DEF ReadersInv, TicksSound, TickSound, Found
<1>4. /\ hub \in Reader /\ runner \in Reader /\ cli \in File \cup {NoFile}
      /\ hub.pc \in {"show", "ack"} => InWork(hub.file)
      /\ cli # NoFile => InWork(cli)
      /\ \A f \in files : f \in File
  BY <1>1 DEF ReadersInv, HubSound, RunnerSound, CliSound, TypeOK
<1>5. shown \subseteq shown'
  BY <1>1, ShownGrows
<1>6. ASSUME hub.pc \in {"show", "ack"} => Still(hub.file), cli # NoFile => Still(cli)
      PROVE  HubSound' /\ CliSound'
  BY <1>1, <1>2, <1>5, <1>6 DEF ReadersInv, HubSound, CliSound, Found, Still, InWork
<1>7. CASE RunnerFinds
  <2>1. PICK f \in Dir(Hub, "pending") : runner' = [pc |-> "claim", file |-> f]
    BY <1>7 DEF RunnerFinds
  <2>2. f \in File /\ f.dir = "pending" /\ UNCHANGED files
    BY <2>1, <1>4, <1>7 DEF Dir, RunnerFinds, disk
  <2>3. runner' \in Reader /\ runner'.pc = "claim" /\ runner'.file = f
    BY <2>1, <2>2, ReaderIs
  <2>4. RunnerSound' /\ Apart'
    BY <1>1, <1>2, <2>2, <2>3 DEF RunnerSound, Found, Apart, ReadersInv
  <2>5. HubSound' /\ CliSound'
    BY <1>4, <1>6, <2>2 DEF InWork, Still
  <2> QED BY <1>3, <2>4, <2>5 DEF ReadersInv
<1>8. CASE RunnerClaims /\ UNCHANGED files /\ runner' = Idle
  <2>1. RunnerSound' /\ Apart'
    BY <1>1, <1>2, <1>8, IdleIs DEF RunnerSound, Found, Apart, ReadersInv
  <2>2. HubSound' /\ CliSound'
    BY <1>4, <1>6, <1>8 DEF InWork, Still
  <2> QED BY <1>3, <2>1, <2>2 DEF ReadersInv
<1>9. CASE RunnerClaims /\ Taken(runner.file)
  <2> DEFINE new == In(runner.file, "processing")
  <2>1. Still(new) /\ new \in File /\ \A h : InWork(h) => Still(h) /\ h # new
    BY <1>1, <1>9, TakenIs DEF Still, InWork
  <2>2. runner' = [pc |-> "ack", file |-> new]
    BY <1>9 DEF RunnerClaims, Taken, In
  <2> HIDE DEF new
  <2>3. runner' \in Reader /\ runner'.pc = "ack" /\ runner'.file = new
    BY <2>1, <2>2, ReaderIs
  <2>4. RunnerSound'
    BY <2>1, <2>3 DEF RunnerSound, Found, Still, InWork
  <2>5. Apart'
    BY <1>1, <1>2, <1>4, <2>1, <2>3 DEF Apart, ReadersInv
  <2>6. HubSound' /\ CliSound'
    BY <1>4, <1>6, <2>1
  <2> QED BY <1>3, <2>4, <2>5, <2>6 DEF ReadersInv
<1>10. CASE RunnerAcks
  <2>1. runner.pc = "ack" /\ Finished(runner.file) /\ runner' = Idle
    BY <1>10, RunnerMoves DEF RunnerAcks
  <2>2. RunnerSound' /\ Apart'
    BY <1>1, <1>2, <2>1, IdleIs DEF RunnerSound, Found, Apart, ReadersInv
  <2>3. \A h : InWork(h) /\ h # runner.file => Still(h)
    BY <1>1, <2>1, FinishedIs DEF Still, InWork
  <2>4. (hub.pc \in {"show", "ack"} => hub.file # runner.file) /\ (cli # NoFile => cli # runner.file)
    BY <1>1, <2>1 DEF ReadersInv, Apart
  <2>5. HubSound' /\ CliSound'
    BY <1>4, <1>6, <2>3, <2>4
  <2> QED BY <1>3, <2>2, <2>5 DEF ReadersInv
<1> QED BY <1>7, <1>8, <1>9, <1>10, RunnerMoves DEF RunnerStep

LEMMA CliKept ==
    ASSUME BusInductive, [Next]_vars, CliTakes \/ CliDone PROVE ReadersInv'
<1>1. ReadersInv /\ TypeOK /\ OneCopy
  BY ReadersAre DEF BusInductive
<1>2. UNCHANGED <<hub, runner, tick>>
  BY DEF CliTakes, CliDone
<1>3. TicksSound'
  BY <1>1, <1>2 DEF ReadersInv, TicksSound, TickSound, Found
<1>4. /\ hub.pc \in {"show", "ack"} => InWork(hub.file)
      /\ runner.pc = "ack" => InWork(runner.file)
  BY <1>1 DEF ReadersInv, HubSound, RunnerSound
<1>5. shown \subseteq shown'
  BY <1>1, ShownGrows
<1>6. ASSUME hub.pc \in {"show", "ack"} => Still(hub.file), runner.pc = "ack" => Still(runner.file)
      PROVE  HubSound' /\ RunnerSound'
  BY <1>1, <1>2, <1>5, <1>6 DEF ReadersInv, HubSound, RunnerSound, Found, Still, InWork
<1>7. ASSUME NEW f \in files, Taken(f), cli' = In(f, "processing") PROVE ReadersInv'
  <2> DEFINE new == In(f, "processing")
  <2>1. Still(new) /\ new \in File /\ \A h : InWork(h) => Still(h) /\ h # new
    BY <1>1, <1>7, TakenIs DEF Still, InWork
  <2>2. cli' = new
    BY <1>7
  <2> HIDE DEF new
  <2>3. CliSound'
    BY <2>1, <2>2 DEF CliSound, Still, InWork
  <2>4. Apart'
    BY <1>1, <1>2, <1>4, <2>1, <2>2 DEF Apart, ReadersInv
  <2>5. HubSound' /\ RunnerSound'
    BY <1>4, <1>6, <2>1
  <2> QED BY <1>3, <2>3, <2>4, <2>5 DEF ReadersInv
<1>8. CASE CliDone
  <2>1. cli # NoFile /\ Finished(cli) /\ cli' = NoFile
    BY <1>8, CliMoves DEF CliDone
  <2>2. CliSound' /\ Apart'
    BY <1>1, <1>2, <2>1 DEF CliSound, Apart, ReadersInv
  <2>3. \A h : InWork(h) /\ h # cli => Still(h)
    BY <1>1, <2>1, FinishedIs DEF Still, InWork
  <2>4. (hub.pc \in {"show", "ack"} => hub.file # cli) /\ (runner.pc = "ack" => runner.file # cli)
    BY <1>1, <2>1 DEF ReadersInv, Apart
  <2>5. HubSound' /\ RunnerSound'
    BY <1>4, <1>6, <2>3, <2>4
  <2> QED BY <1>3, <2>2, <2>5 DEF ReadersInv
<1> QED BY <1>7, <1>8, CliMoves

(* A step that takes nothing the hub, the runner or the command line holds *)
(* and changes none of them.                                               *)
LEMMA HoldersKept ==
    ASSUME BusInductive, [Next]_vars, UNCHANGED <<hub, runner, cli>>
    PROVE  HubSound' /\ RunnerSound' /\ CliSound' /\ Apart'
<1>1. ReadersInv /\ TypeOK
  BY ReadersAre DEF BusInductive
<1>2. ~HubAcks /\ ~RunnerAcks /\ ~CliDone
  <2>1. HubAcks => hub.pc = "ack" /\ hub'.pc = "clear"
    BY <1>1, PcIs DEF HubAcks, ReadersInv, HubSound
  <2>2. RunnerAcks => runner.pc = "ack" /\ runner'.pc = "idle"
    BY IdleIs DEF RunnerAcks
  <2> QED BY <2>1, <2>2 DEF CliDone
<1>3. \A h : InWork(h) => Still(h)
  BY <1>2, WorkKept DEF Still, InWork
<1>4. shown \subseteq shown'
  BY <1>1, ShownGrows
<1> QED BY <1>1, <1>3, <1>4 DEF ReadersInv, HubSound, RunnerSound, CliSound, Apart, Found, Still, InWork

LEMMA TickSet ==
    ASSUME TicksSound, NEW s \in Specialist, NEW t \in Ticks, NEW r, TickSound(r),
           tick' = [tick EXCEPT ![s][t] = r]
    PROVE  TicksSound'
<1>1. tick \in [Specialist -> [Ticks -> Reader]] /\ r \in Reader
  BY DEF TicksSound, TickSound
<1>2. tick' \in [Specialist -> [Ticks -> Reader]]
  BY <1>1
<1>3. ASSUME NEW z \in Specialist, NEW u \in Ticks PROVE tick'[z][u] = r \/ tick'[z][u] = tick[z][u]
  BY <1>1
<1>4. ASSUME NEW z \in Specialist, NEW u \in Ticks PROVE TickSound(tick[z][u])
  BY DEF TicksSound
<1>5. ASSUME NEW z \in Specialist, NEW u \in Ticks PROVE TickSound(tick'[z][u])
  BY <1>3, <1>4
<1> QED BY <1>2, <1>5 DEF TicksSound, TickSound, Found

LEMMA IdleSound == TickSound(Idle)
  BY IdleIs DEF TickSound, Found

LEMMA TicksKept ==
    ASSUME BusInductive, [Next]_vars, NEW s \in Specialist,
           SpecialistRestarts(s) \/ \E t \in Ticks : TickStep(s, t)
    PROVE  ReadersInv'
<1>1. ReadersInv /\ TypeOK /\ OneCopy /\ TicksSound
  BY ReadersAre DEF BusInductive, ReadersInv
<1>2. UNCHANGED <<hub, runner, cli>>
  BY DEF SpecialistRestarts, TickStep, TickLooks, TickClaims, TickShows
<1>3. ASSUME SpecialistRestarts(s) PROVE TicksSound'
  <2>1. tick' = [tick EXCEPT ![s] = [t \in Ticks |-> Idle]]
    BY <1>3 DEF SpecialistRestarts
  <2>2. tick' \in [Specialist -> [Ticks -> Reader]]
    BY <1>1, <2>1, IdleIs DEF TicksSound
  <2>3. ASSUME NEW z \in Specialist, NEW u \in Ticks PROVE tick'[z][u] = Idle \/ tick'[z][u] = tick[z][u]
    BY <1>1, <2>1 DEF TicksSound
  <2>4. ASSUME NEW z \in Specialist, NEW u \in Ticks PROVE TickSound(tick[z][u])
    BY <1>1 DEF TicksSound
  <2>5. ASSUME NEW z \in Specialist, NEW u \in Ticks PROVE TickSound(tick'[z][u])
    BY <2>3, <2>4, IdleSound
  <2> QED BY <2>2, <2>5 DEF TicksSound, TickSound, Found
<1>4. ASSUME NEW t \in Ticks, TickLooks(s, t) PROVE TicksSound'
  <2>1. PICK f \in files, p \in {"show", "claim"} :
          /\ tick' = [tick EXCEPT ![s][t] = [pc |-> p, file |-> f]]
          /\ p = "claim" => f.dir = "pending"
    BY <1>4 DEF TickLooks, InHand, Waiting, Dir
  <2> DEFINE r == [pc |-> p, file |-> f]
  <2>2. f \in File
    BY <1>1 DEF TypeOK
  <2>3. r \in Reader /\ r.pc = p /\ r.file = f
    BY <2>2, ReaderIs
  <2> HIDE DEF r
  <2>4. TickSound(r)
    BY <2>1, <2>2, <2>3 DEF TickSound, Found
  <2>5. tick' = [tick EXCEPT ![s][t] = r]
    BY <2>1 DEF r
  <2> QED BY <1>1, <2>4, <2>5, TickSet
<1>5. ASSUME NEW t \in Ticks, TickClaims(s, t) PROVE TicksSound'
  <2>1. CASE tick' = [tick EXCEPT ![s][t] = Idle]
    BY <1>1, <2>1, TickSet, IdleSound
  <2>2. CASE /\ Taken(tick[s][t].file)
             /\ tick' = [tick EXCEPT ![s][t] = [pc |-> "show", file |-> In(tick[s][t].file, "processing")]]
    <3> DEFINE new == In(tick[s][t].file, "processing")
               r == [pc |-> "show", file |-> new]
    <3>1. new \in File
      BY <1>1, <2>2, TakenIs
    <3> HIDE DEF new
    <3>2. r \in Reader /\ r.pc = "show" /\ r.file = new
      BY <3>1, ReaderIs
    <3>3. tick' = [tick EXCEPT ![s][t] = r]
      BY <2>2 DEF new
    <3> HIDE DEF r
    <3>4. TickSound(r)
      BY <3>1, <3>2 DEF TickSound, Found
    <3> QED BY <1>1, <3>3, <3>4, TickSet
  <2> QED BY <1>5, <2>1, <2>2, TickMoves DEF TickStep
<1>6. ASSUME NEW t \in Ticks, TickShows(s, t) PROVE TicksSound'
  BY <1>1, <1>6, TickSet, IdleSound DEF TickShows
<1>7. TicksSound'
  BY <1>3, <1>4, <1>5, <1>6 DEF TickStep
<1> QED BY <1>2, <1>7, HoldersKept DEF ReadersInv

LEMMA ReadersKept == ASSUME BusInductive, [Next]_vars PROVE ReadersInv'
<1>1. ReadersInv
  BY ReadersAre DEF BusInductive
<1>2. ASSUME UNCHANGED <<hub, runner, cli, tick>> PROVE ReadersInv'
  <2>1. TicksSound'
    BY <1>1, <1>2 DEF ReadersInv, TicksSound, TickSound, Found
  <2> QED BY <1>2, <2>1, HoldersKept DEF ReadersInv
<1> QED BY <1>2, ReadersAlone, HubKept, RunnerKept, CliKept, TicksKept

---------------------------------------------------------------------------
(* The remaining variables. *)
LEMMA RowKept ==
    ASSUME BusInductive, [Next]_vars PROVE row' \in RowState
<1>1. row \in RowState
  BY DEF BusInductive, TypeOK, RowState
<1> HIDE DEF RowState
<1>2. ASSUME NEW m \in Msg, NEW s \in Specialist PROVE [row EXCEPT ![s] = Envelope[m].task] \in RowState
  BY <1>1 DEF RowState
<1>3. ASSUME NEW s \in Specialist PROVE [row EXCEPT ![s] = NoTask] \in RowState
  BY <1>1 DEF RowState
<1>4. ASSUME NEW m \in Msg, Send(m) PROVE row' \in RowState
  <2>1. row' = row \/ row' = [row EXCEPT ![Envelope[m].to] = Envelope[m].task]
    BY <1>4 DEF Send, Routed
  <2>2. CASE Envelope[m].to \in Specialist
    BY <1>1, <1>2, <2>1, <2>2
  <2>3. CASE Envelope[m].to \notin Specialist
    <3>1. [row EXCEPT ![Envelope[m].to] = Envelope[m].task] = row
      BY <1>1, <2>3 DEF RowState
    <3> QED BY <1>1, <2>1, <3>1
  <2> QED BY <2>2, <2>3
<1>5. ASSUME HubClears PROVE row' \in RowState
  BY <1>1, <1>3, <1>5 DEF HubClears, Cleared
<1>6. ASSUME NEW m \in Msg, SenderStep(m) \/ SenderDies(m), ~Send(m) PROVE row' = row
  BY <1>6 DEF SenderStep, SenderDies, Scan, Replay, Put, Log
<1>7. ASSUME HubStep \/ HubRestarts, ~HubClears PROVE row' = row
  BY <1>7 DEF HubStep, HubLooks, HubClaims, HubShows, HubAcks, HubRestarts, others
<1>8. ASSUME RunnerStep \/ CliTakes \/ CliDone PROVE row' = row
  BY <1>8 DEF RunnerStep, RunnerFinds, RunnerClaims, RunnerAcks, CliTakes, CliDone, others
<1>9. ASSUME NEW s \in Specialist, SpecialistRestarts(s) \/ \E t \in Ticks : TickStep(s, t) PROVE row' = row
  BY <1>9 DEF SpecialistRestarts, TickStep, TickLooks, TickClaims, TickShows, others
<1>10. ASSUME RunEnds \/ (\E f \in files : PendingIsLost(f)) \/ UNCHANGED vars PROVE row' = row
  BY <1>10 DEF RunEnds, PendingIsLost, vars, others
<1> QED BY <1>1, <1>4, <1>5, <1>6, <1>7, <1>8, <1>9, <1>10, ReadersAlone

LEMMA RestKept ==
    ASSUME BusInductive, [Next]_vars
    PROVE  /\ owned' \in {{}, StageTasks} /\ lost' \subseteq Msg /\ shown' \subseteq Msg
           /\ last' \in [Specialist -> Msg \cup {NoFile}]
<1>1. /\ owned \in {{}, StageTasks} /\ lost \subseteq Msg /\ shown \subseteq Msg
      /\ last \in [Specialist -> Msg \cup {NoFile}] /\ files \subseteq File
  BY DEF BusInductive, TypeOK
<1>2. ReadersInv /\ TypeOK /\ OneCopy
  BY ReadersAre DEF BusInductive
<1>3. ASSUME NEW m \in Msg, SenderStep(m) \/ SenderDies(m) PROVE UNCHANGED <<owned, lost, shown, last>>
  BY <1>3 DEF SenderStep, SenderDies, Send, Scan, Replay, Put, Log, readers
<1>4. ASSUME HubStep \/ HubRestarts
      PROVE  UNCHANGED <<owned, lost, last>> /\ shown' \subseteq Msg
  <2>1. UNCHANGED <<owned, lost, last>>
    BY <1>4 DEF HubStep, HubLooks, HubClaims, HubShows, HubAcks, HubClears, HubRestarts, others
  <2>2. HubShows => hub.file \in File
    BY <1>2 DEF HubShows, ReadersInv, HubSound, InWork, TypeOK
  <2>3. shown' = shown \/ (HubShows /\ shown' = shown \cup {hub.file.msg})
    BY <1>4 DEF HubStep, HubLooks, HubClaims, HubShows, HubAcks, HubClears, HubRestarts
  <2> QED BY <1>1, <2>1, <2>2, <2>3, FileIs
<1>5. ASSUME RunnerStep PROVE UNCHANGED <<owned, lost, last>> /\ shown' \subseteq Msg
  <2>1. UNCHANGED <<owned, lost, last>>
    BY <1>5 DEF RunnerStep, RunnerFinds, RunnerClaims, RunnerAcks, others
  <2>2. RunnerClaims => runner.file \in File
    BY <1>2 DEF RunnerClaims, ReadersInv, RunnerSound, Found
  <2>3. shown' = shown \/ (RunnerClaims /\ shown' = shown \cup {runner.file.msg})
    BY <1>5 DEF RunnerStep, RunnerFinds, RunnerClaims, RunnerAcks
  <2> QED BY <1>1, <2>1, <2>2, <2>3, FileIs
<1>6. ASSUME CliTakes \/ CliDone PROVE UNCHANGED <<owned, lost, last>> /\ shown' \subseteq Msg
  <2>1. UNCHANGED <<owned, lost, last>>
    BY <1>6 DEF CliTakes, CliDone, others
  <2>2. shown' = shown \/ \E f \in files : shown' = shown \cup {f.msg}
    BY <1>6, CliMoves DEF CliDone
  <2> QED BY <1>1, <2>1, <2>2, FileIs
<1>7. ASSUME NEW s \in Specialist, SpecialistRestarts(s) \/ \E t \in Ticks : TickStep(s, t)
      PROVE  /\ UNCHANGED <<owned, lost>> /\ shown' \subseteq Msg
             /\ last' \in [Specialist -> Msg \cup {NoFile}]
  <2>1. UNCHANGED <<owned, lost>>
    BY <1>7 DEF SpecialistRestarts, TickStep, TickLooks, TickClaims, TickShows, others
  <2>2. ASSUME NEW t \in Ticks, TickShows(s, t) PROVE tick[s][t].file.msg \in Msg
    BY <1>2, <2>2, FileIs DEF TickShows, ReadersInv, TicksSound, TickSound
  <2>3. shown' \subseteq Msg /\ last' \in [Specialist -> Msg \cup {NoFile}]
    BY <1>1, <1>7, <2>2 DEF SpecialistRestarts, TickStep, TickLooks, TickClaims, TickShows
  <2> QED BY <2>1, <2>3
<1>8. ASSUME RunEnds PROVE owned' = {} /\ UNCHANGED <<lost, shown, last>>
  BY <1>8 DEF RunEnds, readers
<1>9. ASSUME NEW f \in files, PendingIsLost(f)
      PROVE  UNCHANGED <<owned, shown, last>> /\ lost' = lost \cup {f.msg}
  BY <1>9 DEF PendingIsLost, readers
<1>10. UNCHANGED vars => UNCHANGED <<owned, lost, shown, last>>
  BY DEF vars, others, readers
<1> QED BY <1>1, <1>3, <1>4, <1>5, <1>6, <1>7, <1>8, <1>9, <1>10, FileIs DEF Next

LEMMA InductiveStep == ASSUME BusInductive, [Next]_vars PROVE BusInductive'
<1>1. files' \subseteq File /\ OneCopy'
  BY EveryStep, FilesKept
<1>2. /\ \A m \in Msg : SenderSound(m)'
      /\ sender' \in [Msg -> SenderState] /\ outbox' \in [Msg -> {"none", "torn", "whole"}]
  BY SendersKept
<1>3. ReadersInv'
  BY ReadersKept
<1>4. row' \in RowState
  BY RowKept
<1>5. TypeOK'
  BY <1>1, <1>2, <1>3, <1>4, RestKept
     DEF TypeOK, SenderState, RowState, ReadersInv, HubSound, RunnerSound, CliSound, TicksSound
<1>6. ReadersSound' /\ OneHolder'
  <2>1. \A f : InWork(f)' => f # NoFile
    BY <1>1, BusAssumption DEF InWork
  <2>2. ReadersSound'
    BY <1>1, <1>3 DEF ReadersInv, ReadersSound, Holds, HubSound, RunnerSound, CliSound, TicksSound, TickSound
  <2>3. OneHolder'
    BY <1>3, <2>1 DEF ReadersInv, OneHolder, Holds, HubSound, RunnerSound, CliSound, Apart, InWork
  <2> QED BY <2>2, <2>3
<1>7. \A m \in Msg : SearchSound(m)' /\ StoredSound(m)'
  BY <1>2 DEF SenderSound
<1> QED BY <1>1, <1>5, <1>6, <1>7 DEF BusInductive

LEMMA InductiveInit == ASSUME Init PROVE BusInductive
<1>1. TypeOK
  BY BusAssumption DEF Init, TypeOK, Idle, Reader, Dirs
<1>2. OneCopy /\ ReadersSound /\ OneHolder
  BY BusAssumption DEF Init, OneCopy, ReadersSound, OneHolder, Holds, Found, Idle
<1>3. \A m \in Msg : SearchSound(m) /\ StoredSound(m)
  BY DEF Init, SearchSound, StoredSound, Copies, At
<1> QED BY <1>1, <1>2, <1>3 DEF BusInductive

---------------------------------------------------------------------------
(* In every state of the bus there is at most one file of a message, each  *)
(* file that a reader works on is in processing and no other reader's, and *)
(* a search for earlier copies has missed none (cmd_send,                  *)
(* _message_locations, claim_for_delivery).                                *)
THEOREM BusInvariant == Spec => []BusInductive
<1>1. Init => BusInductive
  BY InductiveInit
<1>2. BusInductive /\ [Next]_vars => BusInductive'
  BY InductiveStep
<1> QED BY <1>1, <1>2, PTL DEF Spec

(* Every variable of the bus keeps its type, and no message is sent more   *)
(* often than its retries allow.                                           *)
THEOREM BusTypeCorrect == Spec => []TypeOK
<1>1. BusInductive => TypeOK
  BY DEF BusInductive
<1> QED BY <1>1, BusInvariant, PTL

(* Two readers of one inbox never work on the same file, although both may *)
(* have found it: claiming is a rename (claim_pending, claim_for_delivery).*)
THEOREM FileHasOneHolder == Spec => []OneHolder
<1>1. BusInductive => OneHolder
  BY DEF BusInductive
<1> QED BY <1>1, BusInvariant, PTL

(* A send that reported success has stored its message, and a copy in the  *)
(* outbox is not the only one, unless the inbox lost its file (cmd_send).  *)
THEOREM AcceptedStored == Spec => []AcceptedIsStored
<1>1. BusInductive => AcceptedIsStored
  BY DEF BusInductive, StoredSound, Stored, AcceptedIsStored, At
<1> QED BY <1>1, BusInvariant, PTL

(* The row of a specialist loses its task only after the hub was shown a   *)
(* report of that task (ack_delivery).                                     *)
THEOREM RowClearedAfterShown == Spec => ClearedAfterShown
<1> DEFINE Reported(s) ==
             \E m \in shown : /\ Envelope[m].from = s /\ Envelope[m].type = "report"
                              /\ Envelope[m].task = row[s]
           ClearStep == \A s \in Specialist : row[s] # NoTask /\ row'[s] = NoTask => Reported(s)
<1>1. ASSUME BusInductive, [Next]_vars PROVE ClearStep
  <2>1. row \in RowState
    BY <1>1 DEF BusInductive, TypeOK, RowState
  <2>2. ASSUME NEW m \in Msg, Send(m) PROVE \A s \in Specialist : row'[s] = row[s] \/ row'[s] # NoTask
    BY <2>1, <2>2, BusAssumption DEF Send, Routed, RowState
  <2>3. ASSUME HubClears PROVE ClearStep
    <3>1. hub.file.msg \in shown /\ row' = Cleared(hub.file.msg)
      BY <1>1, <2>3 DEF HubClears, BusInductive, ReadersSound
    <3> QED BY <2>1, <3>1 DEF Cleared, RowState
  <2>4. ASSUME NEW m \in Msg, SenderStep(m) \/ SenderDies(m), ~Send(m) PROVE row' = row
    BY <2>4 DEF SenderStep, SenderDies, Scan, Replay, Put, Log
  <2>5. ASSUME HubStep \/ HubRestarts, ~HubClears PROVE row' = row
    BY <2>5 DEF HubStep, HubLooks, HubClaims, HubShows, HubAcks, HubRestarts, others
  <2>6. ASSUME RunnerStep \/ CliTakes \/ CliDone PROVE row' = row
    BY <2>6 DEF RunnerStep, RunnerFinds, RunnerClaims, RunnerAcks, CliTakes, CliDone, others
  <2>7. ASSUME NEW s \in Specialist, SpecialistRestarts(s) \/ \E t \in Ticks : TickStep(s, t) PROVE row' = row
    BY <2>7 DEF SpecialistRestarts, TickStep, TickLooks, TickClaims, TickShows, others
  <2>8. ASSUME RunEnds \/ (\E f \in files : PendingIsLost(f)) \/ UNCHANGED vars PROVE row' = row
    BY <2>8 DEF RunEnds, PendingIsLost, vars, others
  <2>9. row' = row => ClearStep
    OBVIOUS
  <2>10. (\E m \in Msg : Send(m)) => ClearStep
    BY <2>2
  <2> HIDE DEF ClearStep
  <2> QED BY <1>1, <2>3, <2>4, <2>5, <2>6, <2>7, <2>8, <2>9, <2>10, ReadersAlone
<1>2. BusInductive /\ [Next]_vars => [ClearStep]_vars
  BY <1>1
<1> HIDE DEF ClearStep
<1>3. Spec => [][ClearStep]_vars
  BY <1>2, BusInvariant, PTL DEF Spec
<1> QED BY <1>3 DEF ClearStep, ClearedAfterShown

---------------------------------------------------------------------------
(* The bus implements Mailbox.                                             *)
MailIn(F) ==
    [m \in Stable |->
        LET dirs == {f.dir : f \in {g \in F : g.msg = m}}
        IN  CASE "pending" \in dirs -> "waiting"
              [] "processing" \in dirs -> "taken"
              [] "done" \in dirs -> "finished"
              [] OTHER -> "unsent"]

StateOf(d) == IF d = "pending" THEN "waiting" ELSE IF d = "processing" THEN "taken" ELSE "finished"

LEMMA MailInIs ==
    ASSUME NEW F, F \subseteq File, \A f, g \in F : f.msg = g.msg => f = g, NEW m \in Stable
    PROVE  /\ \A f \in F : f.msg = m => MailIn(F)[m] = StateOf(f.dir)
           /\ (\A f \in F : f.msg # m) => MailIn(F)[m] = "unsent"
<1> DEFINE dirs == {f.dir : f \in {g \in F : g.msg = m}}
<1>1. MailIn(F)[m] = CASE "pending" \in dirs -> "waiting"
                       [] "processing" \in dirs -> "taken"
                       [] "done" \in dirs -> "finished"
                       [] OTHER -> "unsent"
  BY DEF MailIn
<1>2. ASSUME NEW f \in F, f.msg = m PROVE MailIn(F)[m] = StateOf(f.dir)
  <2>1. \A d : d \in dirs <=> d = f.dir
    BY <1>2
  <2>2. f.dir = "pending" \/ f.dir = "processing" \/ f.dir = "done"
    BY <1>2, FileIs DEF Dirs
  <2> HIDE DEF dirs
  <2>3. CASE f.dir = "pending"
    BY <1>1, <2>1, <2>3 DEF StateOf
  <2>4. CASE f.dir = "processing"
    BY <1>1, <2>1, <2>4 DEF StateOf
  <2>5. CASE f.dir = "done"
    BY <1>1, <2>1, <2>5 DEF StateOf
  <2> QED BY <2>2, <2>3, <2>4, <2>5
<1>3. ASSUME \A f \in F : f.msg # m PROVE MailIn(F)[m] = "unsent"
  <2>1. \A d : d \notin dirs
    BY <1>3
  <2> HIDE DEF dirs
  <2> QED BY <1>1, <2>1
<1> QED BY <1>2, <1>3

LEMMA MailSame ==
    ASSUME NEW F, NEW G, NEW m \in Stable, \A f : f.msg = m => (f \in F <=> f \in G)
    PROVE  MailIn(F)[m] = MailIn(G)[m]
<1>1. {f \in F : f.msg = m} = {f \in G : f.msg = m}
  OBVIOUS
<1> QED BY <1>1 DEF MailIn

(* A step that changes the file of one message changes the mail of that    *)
(* message only.                                                           *)
Differ(F, G, m, from, to) ==
    /\ \A f : f.msg # m => (f \in F <=> f \in G)
    /\ m \in Stable => MailIn(F)[m] = from /\ MailIn(G)[m] = to

LEMMA MailMoves ==
    ASSUME NEW F, NEW G, NEW m, NEW from, NEW to, Differ(F, G, m, from, to)
    PROVE  \/ MailIn(G) = MailIn(F)
           \/ m \in Stable /\ MailIn(F)[m] = from /\ MailIn(G) = [MailIn(F) EXCEPT ![m] = to]
<1>1. ASSUME NEW n \in Stable, n # m PROVE MailIn(G)[n] = MailIn(F)[n]
  BY <1>1, MailSame DEF Differ
<1>2. MailIn(F) = [n \in Stable |-> MailIn(F)[n]] /\ MailIn(G) = [n \in Stable |-> MailIn(G)[n]]
  BY DEF MailIn
<1> QED BY <1>1, <1>2 DEF Differ

LEMMA MailIsIn == Mail = MailIn(files) /\ Mail' = MailIn(files')
  BY DEF Mail, MailIn, Copies

LEMMA MailStep == ASSUME BusInductive, [Next]_vars PROVE [Box!Next]_Mail
<1>1. /\ files \subseteq File /\ files' \subseteq File
      /\ \A f, g \in files : f.msg = g.msg => f = g
      /\ \A f, g \in files' : f.msg = g.msg => f = g
  BY EveryStep, FilesKept DEF BusInductive, TypeOK, OneCopy
<1> DEFINE F == files
           G == files'
<1>2. ASSUME NEW m, NEW from, NEW to, Differ(F, G, m, from, to),
             <<from, to>> \in {<<"unsent", "waiting">>, <<"waiting", "unsent">>,
                               <<"waiting", "taken">>, <<"taken", "finished">>}
      PROVE  [Box!Next]_Mail
  <2> HIDE DEF F, G
  <2>1. MailIn(G) = MailIn(F) \/ (m \in Stable /\ MailIn(F)[m] = from /\ MailIn(G) = [MailIn(F) EXCEPT ![m] = to])
    BY <1>2, MailMoves
  <2>2. Mail' = Mail \/ (m \in Stable /\ Mail[m] = from /\ Mail' = [Mail EXCEPT ![m] = to])
    BY <2>1, MailIsIn DEF F, G
  <2> QED BY <1>2, <2>2 DEF Box!Next, Box!Moves, Box!Post, Box!Lose, Box!Take, Box!Finish
<1>3. CASE UNCHANGED files
  BY <1>3, MailIsIn
<1>4. ASSUME NEW f \in files, NEW d \in {"processing", "done"}, files' = Renamed(f, d)
      PROVE  Differ(F, G, f.msg, StateOf(f.dir), StateOf(d))
  <2>1. In(f, d) \in G /\ In(f, d).msg = f.msg /\ In(f, d).dir = d
    BY <1>1, <1>4, RenamedIs, InIs DEF OneCopy, Dirs
  <2>2. G = (F \ {f}) \cup {In(f, d)}
    BY <1>4 DEF Renamed, In
  <2> HIDE DEF F, G
  <2>3. \A h : h.msg # f.msg => (h \in F <=> h \in G)
    BY <2>1, <2>2
  <2>4. ASSUME f.msg \in Stable PROVE MailIn(F)[f.msg] = StateOf(f.dir) /\ MailIn(G)[f.msg] = StateOf(d)
    BY <1>1, <2>1, <2>4, MailInIs DEF F, G
  <2> QED BY <2>3, <2>4 DEF Differ
<1>5. ASSUME NEW f, Taken(f) PROVE [Box!Next]_Mail
  BY <1>2, <1>4, <1>5 DEF Taken, StateOf
<1>6. ASSUME NEW f, Finished(f) PROVE [Box!Next]_Mail
  BY <1>2, <1>4, <1>6 DEF Finished, InWork, StateOf
<1>7. ASSUME NEW m \in Msg, Put(m) PROVE [Box!Next]_Mail
  <2> DEFINE new == [msg |-> m, dir |-> "pending"]
  <2>1. new \in File /\ new.msg = m /\ new.dir = "pending" /\ G = F \cup {new} /\ \A h \in F : h.msg # m
    BY <1>7, PutIs
  <2> HIDE DEF new, F, G
  <2>2. \A h : h.msg # m => (h \in F <=> h \in G)
    BY <2>1
  <2>3. ASSUME m \in Stable PROVE MailIn(F)[m] = "unsent" /\ MailIn(G)[m] = "waiting"
    BY <1>1, <2>1, <2>3, MailInIs DEF StateOf, F, G
  <2>4. Differ(F, G, m, "unsent", "waiting")
    BY <2>2, <2>3 DEF Differ
  <2> QED BY <1>2, <2>4
<1>8. ASSUME NEW f \in files, PendingIsLost(f) PROVE [Box!Next]_Mail
  <2>1. f.dir = "pending" /\ G = F \ {f}
    BY <1>8 DEF PendingIsLost
  <2>2. \A h : h.msg # f.msg => (h \in F <=> h \in G)
    BY <2>1
  <2>3. \A h \in G : h.msg # f.msg
    BY <1>1, <2>1
  <2>4. ASSUME f.msg \in Stable PROVE MailIn(F)[f.msg] = "waiting" /\ MailIn(G)[f.msg] = "unsent"
    BY <1>1, <2>1, <2>3, <2>4, MailInIs DEF StateOf
  <2> HIDE DEF F, G
  <2>5. Differ(F, G, f.msg, "waiting", "unsent")
    BY <2>2, <2>4 DEF Differ
  <2> QED BY <1>2, <2>5
<1>9. FilesStep
  BY EveryStep
<1> QED BY <1>3, <1>5, <1>6, <1>7, <1>8, <1>9 DEF FilesStep

(* A message with a stable id keeps the promise of Mailbox: however often  *)
(* it is sent again it is put into the inbox once, taken by one reader and *)
(* finished, and it never comes back (cmd_send, _message_locations).       *)
THEOREM BusImplementsMailbox == Spec => MailboxKept
<1>1. Init => Box!Init
  BY MailIsIn DEF Init, Box!Init, Mail, Copies
<1>2. BusInductive /\ [Next]_vars => [Box!Next]_Mail
  BY MailStep
<1> QED BY <1>1, <1>2, BusInvariant, PTL DEF Spec, MailboxKept, Box!Spec
===============================================================================
