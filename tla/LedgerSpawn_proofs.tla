-------------------------- MODULE LedgerSpawn_proofs --------------------------
(***************************************************************************)
(* The rules of spawning hold of the ledger for any number of commands,    *)
(* panes and roles and whatever fails, although nothing is locked.         *)
(***************************************************************************)
EXTENDS LedgerSpawn, FiniteSetTheorems, TLAPS

(* A part of rows that keep the rules keeps them: what reconciling and     *)
(* releasing save.                                                         *)
LEMMA PartKeepsRules ==
    ASSUME NEW rows, NEW part \in SUBSET rows, Rules(rows)
    PROVE  Rules(part)
<1> DEFINE work(R) == OfRole(R, Worker)
<1>1. /\ IsFiniteSet(rows) /\ IsFiniteSet(part)
      /\ Specialists(part) \in SUBSET Specialists(rows) /\ Specialists(rows) \in SUBSET rows
      /\ work(part) \in SUBSET work(rows) /\ work(rows) \in SUBSET rows
  BY FS_Subset DEF Rules, Specialists, OfRole
<1>2. IsFiniteSet(Specialists(rows)) /\ IsFiniteSet(work(rows))
  BY <1>1, FS_Subset
<1>3. /\ Cardinality(Specialists(part)) <= Cardinality(Specialists(rows))
      /\ Cardinality(work(part)) <= Cardinality(work(rows))
  BY <1>1, <1>2, FS_Subset
<1>4. /\ Cardinality(Specialists(part)) \in Nat /\ Cardinality(Specialists(rows)) \in Nat
      /\ Cardinality(work(part)) \in Nat /\ Cardinality(work(rows)) \in Nat
  BY <1>1, <1>2, FS_Subset, FS_CardinalityType
<1> QED
  BY <1>1, <1>3, <1>4, LedgerAssumption DEF Rules, KeepsRules

(* The size of a set of which one element was exchanged. *)
LEMMA Exchanged ==
    ASSUME NEW S, IsFiniteSet(S), NEW r \in S, NEW q
    PROVE  /\ Cardinality((S \ {r}) \cup {q}) <= Cardinality(S)
           /\ Cardinality((S \ {r}) \cup {q}) \in Nat /\ Cardinality(S) \in Nat
<1>1. IsFiniteSet(S \ {r}) /\ Cardinality(S \ {r}) = Cardinality(S) - 1
  BY FS_RemoveElement
<1>2. /\ IsFiniteSet((S \ {r}) \cup {q})
      /\ Cardinality((S \ {r}) \cup {q}) \in {Cardinality(S \ {r}), Cardinality(S \ {r}) + 1}
  BY <1>1, FS_AddElement
<1> QED
  BY <1>1, <1>2, FS_CardinalityType

(* Giving a row another status or surface keeps the rules. *)
LEMMA ChangedKeepsRules ==
    ASSUME NEW rows, Rules(rows), NEW r \in rows, NEW q,
           q.name = r.name, q.role = r.role
    PROVE  Rules((rows \ Named(rows, r.name)) \cup {q})
<1> DEFINE new == (rows \ Named(rows, r.name)) \cup {q}
<1>1. Named(rows, r.name) = {r}
  BY DEF Rules, KeepsRules, Named
<1>2. new = (rows \ {r}) \cup {q}
  BY <1>1
<1>3. IsFiniteSet(new)
  BY <1>2, FS_RemoveElement, FS_AddElement DEF Rules
<1>4. \A x, y \in new : x.name = y.name => x = y
  BY <1>2 DEF Rules, KeepsRules
<1>5. /\ IsFiniteSet(Specialists(rows)) /\ IsFiniteSet(OfRole(rows, Worker))
  <2>1. Specialists(rows) \in SUBSET rows /\ OfRole(rows, Worker) \in SUBSET rows
    BY DEF Specialists, OfRole
  <2> QED BY <2>1, FS_Subset DEF Rules
<1>6. /\ Cardinality(Specialists(new)) <= Cardinality(Specialists(rows))
      /\ Cardinality(Specialists(new)) \in Nat /\ Cardinality(Specialists(rows)) \in Nat
  <2>1. CASE r.role = Hub
    <3>1. Specialists(new) = Specialists(rows)
      BY <1>2, <2>1 DEF Specialists
    <3> QED BY <3>1, <1>5, FS_CardinalityType
  <2>2. CASE r.role # Hub
    <3>1. r \in Specialists(rows) /\ Specialists(new) = (Specialists(rows) \ {r}) \cup {q}
      BY <1>2, <2>2 DEF Specialists
    <3> QED BY <3>1, <1>5, Exchanged
  <2> QED BY <2>1, <2>2
<1>7. /\ Cardinality(OfRole(new, Worker)) <= Cardinality(OfRole(rows, Worker))
      /\ Cardinality(OfRole(new, Worker)) \in Nat /\ Cardinality(OfRole(rows, Worker)) \in Nat
  <2>1. CASE r.role # Worker
    <3>1. OfRole(new, Worker) = OfRole(rows, Worker)
      BY <1>2, <2>1 DEF OfRole
    <3> QED BY <3>1, <1>5, FS_CardinalityType
  <2>2. CASE r.role = Worker
    <3>1. r \in OfRole(rows, Worker) /\ OfRole(new, Worker) = (OfRole(rows, Worker) \ {r}) \cup {q}
      BY <1>2, <2>2 DEF OfRole
    <3> QED BY <3>1, <1>5, Exchanged
  <2> QED BY <2>1, <2>2
<1> QED
  BY <1>3, <1>4, <1>6, <1>7, LedgerAssumption DEF Rules, KeepsRules

(* Binding the hub keeps the rules. *)
LEMMA BoundKeepsRules ==
    ASSUME NEW rows, Rules(rows), NEW s
    PROVE  Rules((rows \ Named(rows, Hub)) \cup {HubRow(s)})
<1> DEFINE rest == rows \ Named(rows, Hub)
           new == rest \cup {HubRow(s)}
<1>1. Rules(rest)
  BY PartKeepsRules
<1>2. IsFiniteSet(new)
  BY <1>1, FS_AddElement DEF Rules
<1>3. \A x, y \in new : x.name = y.name => x = y
  BY <1>1 DEF Rules, KeepsRules, Named, HubRow
<1>4. Specialists(new) = Specialists(rest) /\ OfRole(new, Worker) = OfRole(rest, Worker)
  BY LedgerAssumption DEF Specialists, OfRole, HubRow
<1> QED
  BY <1>1, <1>2, <1>3, <1>4 DEF Rules, KeepsRules

(* A spawn that passes the checks keeps the rules. *)
LEMMA RegisteredKeepsRules ==
    ASSUME NEW rows, Rules(rows), Room(rows), NEW role, NEW life, TwinsAllow(rows, role, life),
           NEW q, q.role = role, Free(rows, q.name)
    PROVE  Rules(rows \cup {q})
<1> DEFINE new == rows \cup {q}
<1>1. IsFiniteSet(new)
  BY FS_AddElement DEF Rules
<1>2. \A x, y \in new : x.name = y.name => x = y
  BY DEF Rules, KeepsRules, Free, Named
<1>3. /\ IsFiniteSet(Specialists(rows)) /\ IsFiniteSet(OfRole(rows, Worker))
  <2>1. Specialists(rows) \in SUBSET rows /\ OfRole(rows, Worker) \in SUBSET rows
    BY DEF Specialists, OfRole
  <2> QED BY <2>1, FS_Subset DEF Rules
<1>4. Cardinality(Specialists(new)) <= MaxPanes
  <2>1. Specialists(new) = Specialists(rows) \/ Specialists(new) = Specialists(rows) \cup {q}
    BY DEF Specialists
  <2>2. Cardinality(Specialists(rows)) \in Nat
    BY <1>3, FS_CardinalityType
  <2>3. Cardinality(Specialists(rows) \cup {q}) \in
          {Cardinality(Specialists(rows)), Cardinality(Specialists(rows)) + 1}
    BY <1>3, FS_AddElement
  <2>4. Cardinality(Specialists(rows)) < MaxPanes /\ MaxPanes \in Nat
    BY LedgerAssumption DEF Room
  <2> HIDE DEF new
  <2> QED BY <2>1, <2>2, <2>3, <2>4
<1>5. Cardinality(OfRole(new, Worker)) <= 1
  <2>1. CASE role # Worker
    <3>1. OfRole(new, Worker) = OfRole(rows, Worker)
      BY <2>1 DEF OfRole
    <3> QED BY <3>1 DEF Rules, KeepsRules
  <2>2. CASE role = Worker
    <3>1. OfRole(new, Worker) = {q}
      BY <2>2 DEF OfRole, TwinsAllow
    <3> QED BY <3>1, FS_Singleton
  <2> QED BY <2>1, <2>2
<1> QED
  BY <1>1, <1>2, <1>4, <1>5 DEF Rules, KeepsRules

(* A command that has ended holds nothing. *)
LEMMA RestIsSound ==
    /\ Rest \in CommandState
    /\ Rules({})
<1>1. Rest \in CommandState
  BY DEF Rest, CommandState, Jobs
<1>2. Specialists({}) = {} /\ OfRole({}, Worker) = {}
  BY DEF Specialists, OfRole
<1> QED
  BY <1>1, <1>2, FS_EmptySet, LedgerAssumption DEF Rules, KeepsRules

(* What every step of a command has to show. *)
LEMMA CommandKeeps ==
    ASSUME SpawnInductive, NEW c \in Command, NEW k \in CommandState, Sound(k),
           ledger' \in SUBSET Row, Rules(ledger'), cmd' = [cmd EXCEPT ![c] = k],
           open' \subseteq Surface, opened' \subseteq Split, given' \in 0 .. MaxCommands
    PROVE  SpawnInductive'
<1>1. cmd \in [Command -> CommandState] /\ CopiesSound
  BY DEF SpawnInductive, TypeOK
<1>2. TypeOK'
  BY <1>1 DEF TypeOK
<1>3. CopiesSound'
  <2> SUFFICES ASSUME NEW d \in Command PROVE Sound(cmd'[d])
    BY DEF CopiesSound, Sound
  <2>1. CASE d = c
    BY <1>1, <2>1
  <2>2. CASE d # c
    <3>1. cmd'[d] = cmd[d]
      BY <1>1, <2>2
    <3> QED BY <1>1, <3>1 DEF CopiesSound
  <2> QED BY <2>1, <2>2
<1> QED
  BY <1>2, <1>3 DEF SpawnInductive

(* The same for a command that saves and ends. *)
LEMMA EndKeeps ==
    ASSUME SpawnInductive, NEW c \in Command, NEW rows \in SUBSET Row, Rules(rows),
           SavesAndEnds(c, rows),
           open' \subseteq Surface, opened' \subseteq Split, given' \in 0 .. MaxCommands
    PROVE  SpawnInductive'
<1>1. /\ Rest.rows = {} /\ Rest.pc = "idle"
      /\ ledger' = rows /\ cmd' = [cmd EXCEPT ![c] = Rest]
  BY DEF Rest, SavesAndEnds, Ends
<1>2. Sound(Rest)
  BY <1>1, RestIsSound DEF Sound
<1> QED
  BY <1>1, <1>2, RestIsSound, CommandKeeps

(* The same for a command that goes on, with or without a copy. *)
LEMMA CopyKeeps ==
    ASSUME SpawnInductive, NEW c \in Command, NEW rows \in SUBSET Row, Rules(rows),
           NEW k \in CommandState, k.rows \in {{}, rows},
           k.pc \in {"open", "boot"} => Named(k.rows, k.own) # {},
           k.pc \in {"gate", "identify"} => FirstStep[k.job] = "gate",
           cmd' = [cmd EXCEPT ![c] = k], ledger' \in {ledger, rows},
           open' \subseteq Surface, opened' \subseteq Split, given' \in 0 .. MaxCommands
    PROVE  SpawnInductive'
<1>1. Sound(k)
  BY RestIsSound DEF Sound
<1>2. ledger' \in SUBSET Row /\ Rules(ledger')
  BY DEF SpawnInductive, TypeOK
<1> QED
  BY <1>1, <1>2, CommandKeeps

(* The row of a command that opens its pane. *)
LEMMA OwnKeeps ==
    ASSUME SpawnInductive, NEW c \in Command, cmd[c].pc \in {"open", "boot"},
           NEW st \in Status, NEW sf \in Surface \cup {NoSurface},
           NEW q, q = [Own(c) EXCEPT !.status = st] \/ q = [Own(c) EXCEPT !.surface = sf]
    PROVE  /\ With(c, q) \in SUBSET Row
           /\ Rules(With(c, q))
           /\ Named(With(c, q), cmd[c].own) # {}
<1>1. cmd[c].rows \in SUBSET Row /\ Rules(cmd[c].rows) /\ Named(cmd[c].rows, cmd[c].own) # {}
  BY DEF SpawnInductive, TypeOK, CopiesSound, Sound, CommandState
<1>2. Own(c) \in cmd[c].rows /\ Own(c).name = cmd[c].own
  BY <1>1 DEF Own, Named
<1>3. q \in Row /\ q.name = cmd[c].own /\ q.role = Own(c).role
  BY <1>1, <1>2 DEF Row
<1>4. Rules(With(c, q))
  BY <1>1, <1>2, <1>3, ChangedKeepsRules DEF With
<1>5. With(c, q) \in SUBSET Row /\ q \in With(c, q)
  BY <1>1, <1>3 DEF With
<1> QED
  BY <1>3, <1>4, <1>5 DEF Named

LEMMA InitIsSound == Init => SpawnInductive
<1> SUFFICES ASSUME Init PROVE SpawnInductive
  OBVIOUS
<1>1. TypeOK
  BY RestIsSound, LedgerAssumption DEF Init, TypeOK, Surface
<1>2. Rest.rows = {} /\ Rest.pc = "idle"
  BY DEF Rest
<1> QED
  BY <1>1, <1>2, RestIsSound DEF Init, SpawnInductive, CopiesSound, Sound

(* The steps that leave the ledger alone. *)
LEMMA QuietStepKeeps ==
    ASSUME SpawnInductive, NEW c \in Command,
           \/ \E job \in Jobs, s \in open : Begins(c, job, s)
           \/ GateLoads(c) \/ ReconcileLoads(c) \/ StatusLoads(c) \/ DoesNotSpawn(c) \/ Dies(c)
    PROVE  SpawnInductive'
<1>1. /\ ledger \in SUBSET Row /\ Rules(ledger) /\ cmd \in [Command -> CommandState]
      /\ open \subseteq Surface /\ opened \subseteq Split /\ given \in 0 .. MaxCommands
      /\ Sound(cmd[c])
  BY DEF SpawnInductive, TypeOK, CopiesSound
<1>2. ASSUME NEW job \in Jobs, NEW s \in open, Begins(c, job, s) PROVE SpawnInductive'
  <2> DEFINE k == [Rest EXCEPT !.pc = FirstStep[job], !.job = job,
                               !.caller = IF FirstStep[job] = "reconcile" THEN NoSurface
                                          ELSE s]
  <2>1. FirstStep[job] \in {"gate", "reconcile", "whoami"}
    BY DEF Jobs, FirstStep
  <2>2. /\ k \in CommandState /\ k.rows = {} /\ k.pc \notin {"open", "boot"}
        /\ k.pc \in {"gate", "identify"} => FirstStep[k.job] = "gate"
    BY <1>1, <2>1 DEF Rest, CommandState
  <2>3. /\ cmd' = [cmd EXCEPT ![c] = k] /\ UNCHANGED <<ledger, open, opened>>
        /\ given' \in 0 .. MaxCommands
    <3>1. given < MaxCommands /\ given' = given + 1
      BY <1>2 DEF Begins
    <3>2. given' \in 0 .. MaxCommands
      BY <1>1, <3>1, LedgerAssumption
    <3> QED BY <1>2, <3>2, Zenon DEF Begins
  <2>4. ledger' = ledger /\ open' \subseteq Surface /\ opened' \subseteq Split
    BY <1>1, <2>3
  <2>5. k.rows \in {{}, ledger} /\ ledger' \in {ledger, ledger}
    BY <2>2, <2>4
  <2> HIDE DEF k
  <2> QED
    BY <1>1, <2>1, <2>2, <2>3, <2>4, <2>5, CopyKeeps
<1>3. ASSUME NEW p \in {"identify", "tree", "mark"}, p = "identify" => FirstStep[cmd[c].job] = "gate",
             cmd' = [cmd EXCEPT ![c] = [@ EXCEPT !.pc = p, !.rows = ledger]],
             UNCHANGED <<ledger, open, opened, given>>
      PROVE  SpawnInductive'
  <2> DEFINE k == [cmd[c] EXCEPT !.pc = p, !.rows = ledger]
  <2>1. /\ k \in CommandState /\ k.rows = ledger /\ k.pc \notin {"open", "boot"}
        /\ k.pc \in {"gate", "identify"} => FirstStep[k.job] = "gate"
    BY <1>1, <1>3 DEF CommandState
  <2>2. cmd' = [cmd EXCEPT ![c] = k]
    BY <1>1, <1>3
  <2>3. /\ ledger' = ledger /\ open' \subseteq Surface /\ opened' \subseteq Split
        /\ given' \in 0 .. MaxCommands
    BY <1>1, <1>3
  <2>4. k.rows \in {{}, ledger} /\ ledger' \in {ledger, ledger}
    BY <2>1, <2>3
  <2> HIDE DEF k
  <2> QED
    BY <1>1, <2>1, <2>2, <2>3, <2>4, CopyKeeps
<1>4. CASE GateLoads(c)
  BY <1>1, <1>3, <1>4 DEF GateLoads, At, Sound
<1>5. CASE ReconcileLoads(c) \/ StatusLoads(c)
  BY <1>3, <1>5 DEF ReconcileLoads, StatusLoads
<1>6. CASE DoesNotSpawn(c) \/ Dies(c)
  <2>1. SavesAndEnds(c, ledger) /\ UNCHANGED <<open, opened, given>>
    BY <1>6 DEF DoesNotSpawn, Dies, SavesAndEnds
  <2> QED BY <1>1, <2>1, EndKeeps
<1> QED
  BY <1>2, <1>4, <1>5, <1>6

(* The gate and the reconcile save a copy that other commands may have     *)
(* overtaken; it keeps the rules all the same.                             *)
LEMMA GateAndReconcileKeep ==
    ASSUME SpawnInductive, NEW c \in Command, GatePasses(c) \/ Reconciles(c)
    PROVE  SpawnInductive'
<1>1. /\ ledger \in SUBSET Row /\ Rules(ledger) /\ cmd \in [Command -> CommandState]
      /\ open \subseteq Surface /\ opened \subseteq Split /\ given \in 0 .. MaxCommands
      /\ cmd[c].rows \in SUBSET Row /\ Rules(cmd[c].rows) /\ cmd[c].job \in Jobs
      /\ cmd[c].caller \in Surface \cup {NoSurface} /\ Sound(cmd[c])
  BY DEF SpawnInductive, TypeOK, CopiesSound, Sound, CommandState
<1>2. ASSUME NEW rows \in SUBSET Row, Rules(rows), NEW p \in {"reconcile", "release", "register"},
             SavesAndGoes(c, rows, p), UNCHANGED <<open, opened, given>>
      PROVE  SpawnInductive'
  <2> DEFINE k == [Rest EXCEPT !.pc = p, !.job = cmd[c].job]
  <2>1. /\ k \in CommandState /\ k.rows = {}
        /\ k.pc \notin {"open", "boot", "gate", "identify"}
    BY <1>1, <1>2 DEF Rest, CommandState
  <2>2. cmd' = [cmd EXCEPT ![c] = k] /\ ledger' = rows
    BY <1>2 DEF SavesAndGoes
  <2> HIDE DEF k
  <2> QED
    BY <1>1, <1>2, <2>1, <2>2, CopyKeeps
<1>3. CASE GatePasses(c)
  <2> DEFINE rows == cmd[c].rows
             s == cmd[c].caller
             bound == (rows \ Named(rows, Hub)) \cup {HubRow(s)}
  <2>1. bound \in SUBSET Row /\ Rules(bound)
    <3>1. HubRow(s) \in Row
      BY <1>1 DEF HubRow, Row, Name, Status
    <3> QED BY <1>1, <3>1, BoundKeepsRules
  <2>2. cmd[c].job = "claim" \/ Gated[cmd[c].job] \in {"reconcile", "release"}
    BY <1>1, <1>3 DEF GatePasses, At, Sound, Jobs, FirstStep, Gated
  <2>3. CASE ~MayBind(rows, s)
    <3>1. SavesAndEnds(c, ledger) /\ UNCHANGED <<open, opened, given>>
      BY <1>3, <2>3 DEF GatePasses, SavesAndEnds
    <3> QED BY <1>1, <3>1, EndKeeps
  <2>4. CASE MayBind(rows, s)
    <3>1. /\ UNCHANGED <<open, opened, given>>
          /\ SavesAndEnds(c, bound) \/ SavesAndGoes(c, bound, Gated[cmd[c].job])
          /\ cmd[c].job = "claim" => SavesAndEnds(c, bound)
      BY <1>3, <2>4 DEF GatePasses
    <3> HIDE DEF bound
    <3> QED BY <1>1, <1>2, <2>1, <2>2, <3>1, EndKeeps
  <2> QED BY <2>3, <2>4
<1>4. CASE Reconciles(c)
  <2>1. PICK kept \in SUBSET cmd[c].rows : ReconcileSaves(c, kept)
    BY <1>4 DEF Reconciles
  <2>2. kept \in SUBSET Row /\ Rules(kept)
    BY <1>1, PartKeepsRules
  <2>3. /\ UNCHANGED <<open, opened, given>>
        /\ SavesAndEnds(c, kept) \/ SavesAndGoes(c, kept, "register")
    BY <2>1 DEF ReconcileSaves
  <2> QED BY <1>1, <1>2, <2>2, <2>3, EndKeeps
<1> QED
  BY <1>3, <1>4

(* A spawn adds its row to the ledger it has just loaded. *)
LEMMA RegisterKeeps ==
    ASSUME SpawnInductive, NEW c \in Command, NEW kind \in Kind, NEW n \in Name,
           Registers(c, kind[1], kind[2], n)
    PROVE  SpawnInductive'
<1> DEFINE row == [name |-> n, role |-> kind[1], life |-> kind[2],
                   status |-> "starting", surface |-> NoSurface]
           rows == ledger \cup {row}
           k == [Rest EXCEPT !.pc = "open", !.rows = rows, !.own = n]
<1>1. /\ ledger \in SUBSET Row /\ Rules(ledger) /\ cmd \in [Command -> CommandState]
      /\ open \subseteq Surface /\ opened \subseteq Split /\ given \in 0 .. MaxCommands
  BY DEF SpawnInductive, TypeOK
<1>2. /\ Room(ledger) /\ TwinsAllow(ledger, kind[1], kind[2]) /\ Free(ledger, n)
      /\ ledger' = rows /\ cmd' = [cmd EXCEPT ![c] = k] /\ UNCHANGED <<open, opened, given>>
  BY DEF Registers
<1>3. row \in Row /\ row.role = kind[1] /\ row.name = n
  BY LedgerAssumption DEF Row, Status
<1>4. rows \in SUBSET Row /\ Rules(rows)
  BY <1>1, <1>2, <1>3, RegisteredKeepsRules
<1>5. /\ k \in CommandState /\ k.rows = rows /\ k.own = n /\ k.pc = "open"
  BY <1>4 DEF Rest, CommandState, Jobs
<1>6. Named(k.rows, k.own) # {}
  BY <1>3, <1>5 DEF Named
<1>7. /\ ledger' \in {ledger, rows} /\ k.rows \in {{}, rows}
      /\ open' \subseteq Surface /\ opened' \subseteq Split /\ given' \in 0 .. MaxCommands
  BY <1>1, <1>2, <1>5
<1> HIDE DEF k, rows
<1> QED
  BY <1>2, <1>4, <1>5, <1>6, <1>7, CopyKeeps

(* The steps that save the command's own row. *)
LEMMA OwnStepKeeps ==
    ASSUME SpawnInductive, NEW c \in Command,
           (\E s \in Split : OpensPane(c, s)) \/ OpensNothing(c) \/ Boots(c)
    PROVE  SpawnInductive'
<1>1. /\ cmd \in [Command -> CommandState] /\ cmd[c].pc \in {"open", "boot"}
      /\ open \subseteq Surface /\ opened \subseteq Split /\ given \in 0 .. MaxCommands
  BY DEF SpawnInductive, TypeOK, OpensPane, OpensNothing, Boots, At
<1>2. open' \subseteq Surface /\ opened' \subseteq Split /\ given' \in 0 .. MaxCommands
  BY <1>1 DEF OpensPane, OpensNothing, Boots, Surface
<1>3. ASSUME NEW st \in {"idle", "failed"},
             SavesAndEnds(c, With(c, [Own(c) EXCEPT !.status = st]))
      PROVE  SpawnInductive'
  <2> DEFINE rows == With(c, [Own(c) EXCEPT !.status = st])
  <2>1. st \in Status /\ NoSurface \in Surface \cup {NoSurface}
    BY DEF Status
  <2>2. rows \in SUBSET Row /\ Rules(rows)
    BY <1>1, <2>1, OwnKeeps
  <2>3. SavesAndEnds(c, rows)
    BY <1>3
  <2> HIDE DEF rows
  <2> QED
    BY <1>2, <2>2, <2>3, EndKeeps
<1>4. ASSUME NEW s \in Split, Saves(c, With(c, [Own(c) EXCEPT !.surface = s]), "boot")
      PROVE  SpawnInductive'
  <2> DEFINE rows == With(c, [Own(c) EXCEPT !.surface = s])
             k == [cmd[c] EXCEPT !.pc = "boot", !.rows = rows]
  <2>1. "idle" \in Status /\ s \in Surface \cup {NoSurface}
    BY DEF Status, Surface
  <2>2. rows \in SUBSET Row /\ Rules(rows) /\ Named(rows, cmd[c].own) # {}
    BY <1>1, <2>1, OwnKeeps
  <2>3. k \in CommandState /\ k.rows = rows /\ k.own = cmd[c].own /\ k.pc = "boot"
    BY <1>1, <2>2 DEF CommandState
  <2>4. cmd' = [cmd EXCEPT ![c] = k] /\ ledger' = rows
    BY <1>1, <1>4 DEF Saves
  <2>5. k.rows \in {{}, rows} /\ ledger' \in {ledger, rows}
    BY <2>3, <2>4
  <2> HIDE DEF rows, k
  <2> QED
    BY <1>2, <2>2, <2>3, <2>4, <2>5, CopyKeeps
<1>5. CASE \E s \in Split : OpensPane(c, s)
  BY <1>3, <1>4, <1>5 DEF OpensPane
<1>6. CASE OpensNothing(c)
  BY <1>3, <1>6 DEF OpensNothing
<1>7. CASE Boots(c)
  BY <1>3, <1>7 DEF Boots
<1> QED
  BY <1>5, <1>6, <1>7

(* A row whose status changes. *)
LEMMA MarkedKeepsRules ==
    ASSUME NEW rows \in SUBSET Row, Rules(rows), NEW r \in rows, NEW q \in Row,
           q.name = r.name, q.role = r.role
    PROVE  /\ (rows \ {r}) \cup {q} \in SUBSET Row
           /\ Rules((rows \ {r}) \cup {q})
<1>1. Named(rows, r.name) = {r}
  BY DEF Rules, KeepsRules, Named
<1>2. Rules((rows \ {r}) \cup {q})
  BY <1>1, ChangedKeepsRules
<1> QED
  BY <1>2

LEMMA MarkedRow ==
    ASSUME NEW r \in Row
    PROVE  \A q \in {[r EXCEPT !.status = "idle"], Turned(r)} :
              q \in Row /\ q.name = r.name /\ q.role = r.role /\ q.surface = r.surface
<1>1. ASSUME NEW st \in Status
      PROVE  LET q == [r EXCEPT !.status = st]
             IN  q \in Row /\ q.name = r.name /\ q.role = r.role /\ q.surface = r.surface
  BY <1>1 DEF Row
<1>2. {"idle", "working"} \subseteq Status
  BY DEF Status
<1> QED
  BY <1>1, <1>2 DEF Turned

LEMMA ReleaseKeeps ==
    ASSUME SpawnInductive, NEW c \in Command,
           (\E r \in ledger : ReleaseIdle(c, r) \/ ReleaseCloses(c, r)) \/ ReleaseSaves(c)
    PROVE  SpawnInductive'
<1>1. /\ ledger \in SUBSET Row /\ Rules(ledger) /\ cmd \in [Command -> CommandState]
      /\ open \subseteq Surface /\ opened \subseteq Split /\ given \in 0 .. MaxCommands
      /\ cmd[c].rows \in SUBSET Row /\ Rules(cmd[c].rows)
  BY DEF SpawnInductive, TypeOK, CopiesSound, Sound, CommandState
<1>2. ASSUME NEW r \in ledger, ReleaseIdle(c, r) PROVE SpawnInductive'
  <2> DEFINE rows == (ledger \ {r}) \cup {[r EXCEPT !.status = "idle"]}
  <2>1. rows \in SUBSET Row /\ Rules(rows)
    BY <1>1, MarkedRow, MarkedKeepsRules
  <2>2. SavesAndEnds(c, rows) /\ UNCHANGED <<open, opened, given>>
    BY <1>2 DEF ReleaseIdle
  <2> HIDE DEF rows
  <2> QED BY <1>1, <2>1, <2>2, EndKeeps
<1>3. ASSUME NEW r \in ledger, ReleaseCloses(c, r) PROVE SpawnInductive'
  <2> DEFINE k == [Rest EXCEPT !.pc = "closed", !.rows = ledger, !.own = r.name]
  <2>1. r.name \in Name
    BY <1>1 DEF Row
  <2>2. /\ k \in CommandState /\ k.rows = ledger
        /\ k.pc \notin {"open", "boot", "gate", "identify"}
    BY <1>1, <2>1 DEF Rest, CommandState, Jobs
  <2>3. /\ cmd' = [cmd EXCEPT ![c] = k] /\ ledger' = ledger
        /\ open' \subseteq Surface /\ opened' \subseteq Split /\ given' \in 0 .. MaxCommands
    BY <1>1, <1>3 DEF ReleaseCloses
  <2>4. k.rows \in {{}, ledger} /\ ledger' \in {ledger, ledger}
    BY <2>2, <2>3
  <2> HIDE DEF k
  <2> QED BY <1>1, <2>2, <2>3, <2>4, CopyKeeps
<1>4. CASE ReleaseSaves(c)
  <2> DEFINE rows == cmd[c].rows \ Named(cmd[c].rows, cmd[c].own)
  <2>1. rows \in SUBSET Row /\ Rules(rows)
    BY <1>1, PartKeepsRules
  <2>2. SavesAndEnds(c, rows) /\ UNCHANGED <<open, opened, given>>
    BY <1>4 DEF ReleaseSaves
  <2> HIDE DEF rows
  <2> QED BY <1>1, <2>1, <2>2, EndKeeps
<1> QED
  BY <1>2, <1>3, <1>4

(* lifecycle status of a pane that asked cmux for its own row. *)
LEMMA StatusKeeps ==
    ASSUME SpawnInductive, NEW c \in Command, StatusSaves(c)
    PROVE  SpawnInductive'
<1>1. /\ ledger \in SUBSET Row /\ Rules(ledger)
      /\ open' \subseteq Surface /\ opened' \subseteq Split /\ given' \in 0 .. MaxCommands
      /\ cmd[c].rows \in SUBSET Row /\ Rules(cmd[c].rows)
  BY DEF SpawnInductive, TypeOK, CopiesSound, Sound, CommandState, StatusSaves
<1> DEFINE rows == cmd[c].rows
<1>2. CASE Ends(c) /\ UNCHANGED ledger
  <2>1. SavesAndEnds(c, ledger)
    BY <1>2 DEF SavesAndEnds
  <2> QED BY <1>1, <2>1, EndKeeps
<1>3. ASSUME NEW r \in rows, SavesAndEnds(c, (rows \ {r}) \cup {Turned(r)})
      PROVE  SpawnInductive'
  <2>1. /\ r \in Row /\ Turned(r) \in Row
        /\ Turned(r).name = r.name /\ Turned(r).role = r.role
    BY <1>1, MarkedRow
  <2>2. /\ (rows \ {r}) \cup {Turned(r)} \in SUBSET Row
        /\ Rules((rows \ {r}) \cup {Turned(r)})
    BY <1>1, <2>1, MarkedKeepsRules
  <2> QED BY <1>1, <1>3, <2>2, EndKeeps
<1> QED
  BY <1>2, <1>3 DEF StatusSaves, Bound

(* What the specialists, the user and cmux do meanwhile. *)
LEMMA OthersKeep ==
    ASSUME SpawnInductive,
           \/ \E r \in ledger : MarksStatus(r)
           \/ \E s \in open : PaneCloses(s)
           \/ UNCHANGED vars
    PROVE  SpawnInductive'
<1>1. TypeOK /\ Rules(ledger) /\ CopiesSound
  BY DEF SpawnInductive
<1>2. ASSUME cmd' = cmd, ledger' \in SUBSET Row, Rules(ledger'),
             open' \subseteq Surface, UNCHANGED <<opened, given>>
      PROVE  SpawnInductive'
  <2>1. TypeOK'
    BY <1>1, <1>2 DEF TypeOK
  <2>2. CopiesSound'
    BY <1>1, <1>2 DEF CopiesSound, Sound
  <2> QED BY <1>2, <2>1, <2>2 DEF SpawnInductive
<1>3. ASSUME NEW r \in ledger, MarksStatus(r) PROVE SpawnInductive'
  <2> DEFINE rows == (ledger \ {r}) \cup {Turned(r)}
  <2>1. rows \in SUBSET Row /\ Rules(rows)
    BY <1>1, MarkedRow, MarkedKeepsRules DEF TypeOK
  <2>2. ledger' = rows /\ UNCHANGED <<cmd, open, opened, given>>
    BY <1>3 DEF MarksStatus
  <2> HIDE DEF rows
  <2> QED BY <1>1, <1>2, <2>1, <2>2 DEF TypeOK
<1>4. CASE \E s \in open : PaneCloses(s)
  BY <1>1, <1>2, <1>4 DEF PaneCloses, TypeOK
<1>5. CASE UNCHANGED vars
  BY <1>1, <1>2, <1>5 DEF vars, TypeOK
<1> QED
  BY <1>3, <1>4, <1>5

LEMMA StepKeeps == SpawnInductive /\ [Next]_vars => SpawnInductive'
<1> SUFFICES ASSUME SpawnInductive, [Next]_vars PROVE SpawnInductive'
  OBVIOUS
<1>1. ASSUME NEW c \in Command, CommandStep(c) PROVE SpawnInductive'
  <2>1. CASE \E kind \in Kind, n \in Name : Registers(c, kind[1], kind[2], n)
    BY <2>1, RegisterKeeps
  <2>2. CASE \E s \in Split : OpensPane(c, s)
    BY <2>2, OwnStepKeeps
  <2>3. CASE \E r \in ledger : ReleaseIdle(c, r) \/ ReleaseCloses(c, r)
    BY <2>3, ReleaseKeeps
  <2> QED
    BY <1>1, <2>1, <2>2, <2>3, QuietStepKeeps, GateAndReconcileKeep, StatusKeeps,
       OwnStepKeeps, ReleaseKeeps
    DEF CommandStep
<1> QED
  BY <1>1, QuietStepKeeps, OthersKeep DEF Next

(* The state every command leaves behind: the rows keep the rules, and so  *)
(* does every copy a command still works on (agent_spawn.py,               *)
(* agency_ctl.py, reconcile-sessions.py).                                  *)
THEOREM SpawnInvariant == Spec => []SpawnInductive
<1> QED
  BY InitIsSound, StepKeeps, PTL DEF Spec

(* Rows and copies keep their types. *)
THEOREM LedgerTypeCorrect == Spec => []TypeOK
<1>1. SpawnInductive => TypeOK
  BY DEF SpawnInductive
<1> QED
  BY <1>1, SpawnInvariant, PTL

(* Whatever commands run at the same time and whatever fails, the ledger   *)
(* has no name twice, no more specialists than panes are allowed, and no   *)
(* second worker (spawn_specialist's checks, on a ledger without a lock).  *)
THEOREM RulesKept == Spec => []SpawnRulesKept
<1>1. SpawnInductive => SpawnRulesKept
  BY DEF SpawnInductive, Rules, SpawnRulesKept
<1> QED
  BY <1>1, SpawnInvariant, PTL

---------------------------------------------------------------------------
(* Surfaces: a part, and the same rows when more surfaces were opened.     *)
LEMMA PartPlaced ==
    ASSUME NEW seen, NEW more, seen \subseteq more,
           NEW rows, Placed(rows, seen), NEW part \in SUBSET rows
    PROVE  Placed(part, more)
BY DEF Placed

(* A row that changes keeps its surface or gets a new one. *)
LEMMA ChangedPlaced ==
    ASSUME NEW seen, NEW more, seen \subseteq more,
           NEW rows, Placed(rows, seen), NEW r \in rows, NEW q,
           q.name = r.name, q.role = r.role,
           q.surface = r.surface \/ q.surface \in more \ seen
    PROVE  Placed((rows \ Named(rows, r.name)) \cup {q}, more)
<1> DEFINE rest == rows \ Named(rows, r.name)
<1>1. r \notin rest /\ rest \subseteq rows
  BY DEF Named
<1>2. \A x \in rest : x.surface # NoSurface => x.surface # q.surface
  BY <1>1 DEF Placed
<1>3. Placed(rest, more)
  BY <1>1, PartPlaced
<1>4. q.surface \in more /\ (q.role = Hub <=> q.name = Hub)
  BY DEF Placed
<1> HIDE DEF rest
<1>5. Placed(rest \cup {q}, more)
  BY <1>2, <1>3, <1>4 DEF Placed
<1> QED
  BY <1>5 DEF rest

(* A pane that may be bound as the hub's has no other row. *)
LEMMA BoundPlaced ==
    ASSUME NEW seen, NEW rows, Placed(rows, seen), NEW s \in seen, MayBind(rows, s)
    PROVE  Placed((rows \ Named(rows, Hub)) \cup {HubRow(s)}, seen)
<1> DEFINE rest == rows \ Named(rows, Hub)
<1>1. Placed(rest, seen)
  BY PartPlaced
<1>2. \A x \in rest : x.surface = s => s = NoSurface
  <2> SUFFICES ASSUME NEW x \in rest, x.surface = s, s # NoSurface PROVE FALSE
    OBVIOUS
  <2>1. x \in Bound(rows, s) /\ x.name # Hub
    BY DEF Bound, Named
  <2>2. PICK r \in rows : r.surface = s /\ r.name = Hub
    BY <2>1 DEF MayBind, Bound, Named, Placed
  <2> QED
    BY <2>1, <2>2 DEF Placed
<1>3. HubRow(s).surface = s /\ HubRow(s).role = Hub /\ HubRow(s).name = Hub
  BY DEF HubRow
<1> HIDE DEF rest
<1>4. Placed(rest \cup {HubRow(s)}, seen)
  BY <1>1, <1>2, <1>3 DEF Placed
<1> QED
  BY <1>4 DEF rest

(* What every step of a command has to show about surfaces. *)
LEMMA CommandPlaces ==
    ASSUME SpawnInductive, PlacedInductive, NEW c \in Command, NEW k,
           cmd' = [cmd EXCEPT ![c] = k], Seen \subseteq Seen', open' \subseteq Seen',
           Placed(ledger', Seen'), Placed(k.rows, Seen'), k.caller \in Seen'
    PROVE  PlacedInductive'
<1>1. cmd \in [Command -> CommandState]
  BY DEF SpawnInductive, TypeOK
<1>2. ASSUME NEW d \in Command
      PROVE  Placed(cmd'[d].rows, Seen') /\ cmd'[d].caller \in Seen'
  <2>1. CASE d = c
    BY <1>1, <2>1
  <2>2. CASE d # c
    <3>1. cmd'[d] = cmd[d]
      BY <1>1, <2>2
    <3>2. Placed(cmd[d].rows, Seen') /\ cmd[d].caller \in Seen'
      BY PartPlaced DEF PlacedInductive
    <3> QED BY <3>1, <3>2
  <2> QED BY <2>1, <2>2
<1> QED
  BY <1>2 DEF PlacedInductive, Placed

(* The same when the command ends. *)
LEMMA EndPlaces ==
    ASSUME SpawnInductive, PlacedInductive, NEW c \in Command, NEW rows,
           SavesAndEnds(c, rows), Placed(rows, Seen'),
           Seen \subseteq Seen', open' \subseteq Seen'
    PROVE  PlacedInductive'
<1>1. /\ Rest.rows = {} /\ Rest.caller = NoSurface
      /\ ledger' = rows /\ cmd' = [cmd EXCEPT ![c] = Rest]
  BY DEF Rest, SavesAndEnds, Ends
<1>2. Placed(Rest.rows, Seen') /\ Rest.caller \in Seen'
  BY <1>1 DEF Placed, Seen
<1> QED
  BY <1>1, <1>2, CommandPlaces

(* What an invariant says of a command, for the lemmas below. *)
LEMMA CommandFacts ==
    ASSUME SpawnInductive, PlacedInductive, NEW c \in Command
    PROVE  /\ cmd[c] \in CommandState /\ cmd \in [Command -> CommandState]
           /\ Rules(cmd[c].rows) /\ Placed(cmd[c].rows, Seen) /\ cmd[c].caller \in Seen
           /\ Placed(ledger, Seen) /\ open \subseteq Seen
           /\ cmd[c].pc \in {"open", "boot"} =>
                Own(c) \in cmd[c].rows /\ Own(c).name = cmd[c].own /\ Own(c) \in Row
<1>1. /\ cmd[c] \in CommandState /\ cmd \in [Command -> CommandState] /\ Sound(cmd[c])
  BY DEF SpawnInductive, TypeOK, CopiesSound
<1>2. ASSUME cmd[c].pc \in {"open", "boot"}
      PROVE  Own(c) \in cmd[c].rows /\ Own(c).name = cmd[c].own /\ Own(c) \in Row
  <2>1. Named(cmd[c].rows, cmd[c].own) # {} /\ cmd[c].rows \in SUBSET Row
    BY <1>1, <1>2 DEF Sound, CommandState
  <2>2. Own(c) \in cmd[c].rows /\ Own(c).name = cmd[c].own
    BY <2>1 DEF Own, Named
  <2> QED BY <2>1, <2>2
<1> QED
  BY <1>1, <1>2 DEF PlacedInductive, Sound

(* Steps that open no surface and save nothing of their own. *)
LEMMA CopyStepPlaces ==
    ASSUME SpawnInductive, PlacedInductive, NEW c \in Command,
           \/ \E job \in Jobs, s \in open : Begins(c, job, s)
           \/ GateLoads(c) \/ ReconcileLoads(c) \/ StatusLoads(c) \/ DoesNotSpawn(c) \/ Dies(c)
           \/ Reconciles(c) \/ ReleaseSaves(c)
           \/ \E r \in ledger : ReleaseCloses(c, r)
    PROVE  PlacedInductive'
<1>1. /\ Seen' = Seen /\ open' \subseteq Seen'
  BY CommandFacts DEF Begins, GateLoads, ReconcileLoads, StatusLoads, DoesNotSpawn, Dies,
     Reconciles, ReconcileSaves, ReleaseSaves, ReleaseCloses, Seen
<1>2. /\ cmd[c] \in CommandState
      /\ Placed(cmd[c].rows, Seen) /\ cmd[c].caller \in Seen /\ Placed(ledger, Seen)
  BY CommandFacts
<1>3. Placed({}, Seen)
  BY DEF Placed
<1>4. ASSUME NEW job \in Jobs, NEW s \in open, Begins(c, job, s) PROVE PlacedInductive'
  <2> DEFINE k == [Rest EXCEPT !.pc = FirstStep[job], !.job = job,
                               !.caller = IF FirstStep[job] = "reconcile" THEN NoSurface
                                          ELSE s]
  <2>1. k.rows = {} /\ k.caller \in {s, NoSurface}
    BY DEF Rest
  <2>2. s \in Seen /\ NoSurface \in Seen
    BY CommandFacts DEF Seen
  <2>3. cmd' = [cmd EXCEPT ![c] = k] /\ ledger' = ledger
    BY <1>4, Zenon DEF Begins
  <2> HIDE DEF k
  <2> QED
    BY <1>1, <1>2, <1>3, <2>1, <2>2, <2>3, CommandPlaces
<1>5. ASSUME NEW p, cmd' = [cmd EXCEPT ![c] = [@ EXCEPT !.pc = p, !.rows = ledger]],
             ledger' = ledger
      PROVE  PlacedInductive'
  <2> DEFINE k == [cmd[c] EXCEPT !.pc = p, !.rows = ledger]
  <2>1. k.rows = ledger /\ k.caller = cmd[c].caller
    BY <1>2 DEF CommandState
  <2>2. cmd' = [cmd EXCEPT ![c] = k]
    BY <1>5, CommandFacts
  <2> HIDE DEF k
  <2> QED
    BY <1>1, <1>2, <1>5, <2>1, <2>2, CommandPlaces
<1>6. CASE GateLoads(c) \/ ReconcileLoads(c) \/ StatusLoads(c)
  BY <1>5, <1>6 DEF GateLoads, ReconcileLoads, StatusLoads
<1>7. CASE DoesNotSpawn(c) \/ Dies(c)
  <2>1. SavesAndEnds(c, ledger)
    BY <1>7 DEF DoesNotSpawn, Dies, SavesAndEnds
  <2> QED BY <1>1, <1>2, <2>1, EndPlaces
<1>8. CASE Reconciles(c)
  <2>1. PICK kept \in SUBSET cmd[c].rows :
          SavesAndEnds(c, kept) \/ SavesAndGoes(c, kept, "register")
    BY <1>8 DEF Reconciles, ReconcileSaves
  <2>2. Placed(kept, Seen')
    BY <1>1, <1>2, PartPlaced
  <2>3. CASE SavesAndEnds(c, kept)
    BY <1>1, <2>2, <2>3, EndPlaces
  <2>4. CASE SavesAndGoes(c, kept, "register")
    <3> DEFINE k == [Rest EXCEPT !.pc = "register", !.job = cmd[c].job]
    <3>1. k.rows = {} /\ k.caller = NoSurface /\ NoSurface \in Seen
      BY DEF Rest, Seen
    <3>2. cmd' = [cmd EXCEPT ![c] = k] /\ ledger' = kept
      BY <2>4 DEF SavesAndGoes
    <3> HIDE DEF k
    <3> QED BY <1>1, <1>3, <2>2, <3>1, <3>2, CommandPlaces
  <2> QED BY <2>1, <2>3, <2>4
<1>9. CASE ReleaseSaves(c)
  <2> DEFINE rows == cmd[c].rows \ Named(cmd[c].rows, cmd[c].own)
  <2>1. Placed(rows, Seen') /\ SavesAndEnds(c, rows)
    BY <1>1, <1>2, <1>9, PartPlaced DEF ReleaseSaves
  <2> HIDE DEF rows
  <2> QED BY <1>1, <2>1, EndPlaces
<1>10. ASSUME NEW r \in ledger, ReleaseCloses(c, r) PROVE PlacedInductive'
  <2> DEFINE k == [Rest EXCEPT !.pc = "closed", !.rows = ledger, !.own = r.name]
  <2>1. k.rows = ledger /\ k.caller = NoSurface /\ NoSurface \in Seen
    BY DEF Rest, Seen
  <2>2. cmd' = [cmd EXCEPT ![c] = k] /\ ledger' = ledger
    BY <1>10 DEF ReleaseCloses
  <2> HIDE DEF k
  <2> QED BY <1>1, <1>2, <2>1, <2>2, CommandPlaces
<1> QED
  BY <1>4, <1>6, <1>7, <1>8, <1>9, <1>10

LEMMA GatePlaces ==
    ASSUME SpawnInductive, PlacedInductive, NEW c \in Command, GatePasses(c)
    PROVE  PlacedInductive'
<1> DEFINE rows == cmd[c].rows
           s == cmd[c].caller
           bound == (rows \ Named(rows, Hub)) \cup {HubRow(s)}
<1>1. Seen' = Seen /\ open' \subseteq Seen' /\ Placed(ledger, Seen)
  BY CommandFacts DEF GatePasses, Seen
<1>2. CASE ~MayBind(rows, s)
  <2>1. SavesAndEnds(c, ledger)
    BY <1>2 DEF GatePasses, SavesAndEnds
  <2> QED BY <1>1, <2>1, EndPlaces
<1>3. CASE MayBind(rows, s)
  <2>1. Placed(bound, Seen')
    BY <1>1, <1>3, CommandFacts, BoundPlaced
  <2>2. SavesAndEnds(c, bound) \/ SavesAndGoes(c, bound, Gated[cmd[c].job])
    BY <1>3 DEF GatePasses
  <2> HIDE DEF bound
  <2>3. CASE SavesAndEnds(c, bound)
    BY <1>1, <2>1, <2>3, EndPlaces
  <2>4. CASE SavesAndGoes(c, bound, Gated[cmd[c].job])
    <3> DEFINE k == [Rest EXCEPT !.pc = Gated[cmd[c].job], !.job = cmd[c].job]
    <3>1. k.rows = {} /\ k.caller = NoSurface /\ NoSurface \in Seen /\ Placed({}, Seen)
      BY DEF Rest, Seen, Placed
    <3>2. cmd' = [cmd EXCEPT ![c] = k] /\ ledger' = bound
      BY <2>4 DEF SavesAndGoes
    <3> HIDE DEF k
    <3> QED BY <1>1, <2>1, <3>1, <3>2, CommandPlaces
  <2> QED BY <2>2, <2>3, <2>4
<1> QED
  BY <1>2, <1>3

(* The row of a spawn: no surface yet, and then one that nobody has seen. *)
LEMMA SpawnPlaces ==
    ASSUME SpawnInductive, PlacedInductive, NEW c \in Command,
           \/ \E kind \in Kind, n \in Name : Registers(c, kind[1], kind[2], n)
           \/ (\E s \in Split : OpensPane(c, s)) \/ OpensNothing(c) \/ Boots(c)
    PROVE  PlacedInductive'
<1>1. Seen \subseteq Seen' /\ open' \subseteq Seen'
  BY CommandFacts DEF Registers, OpensPane, OpensNothing, Boots, Seen
<1>2. ASSUME NEW kind \in Kind, NEW n \in Name, Registers(c, kind[1], kind[2], n)
      PROVE  PlacedInductive'
  <2> DEFINE row == [name |-> n, role |-> kind[1], life |-> kind[2],
                     status |-> "starting", surface |-> NoSurface]
             rows == ledger \cup {row}
             k == [Rest EXCEPT !.pc = "open", !.rows = rows, !.own = n]
  <2>1. kind[1] \in Role /\ n \in NamesFor(kind[1], kind[2])
    BY <1>2, LedgerAssumption DEF Registers
  <2>2. n # Hub /\ kind[1] # Hub
    BY <2>1, LedgerAssumption DEF NamesFor
  <2>3. Placed(rows, Seen')
    <3>1. Placed(ledger, Seen')
      BY <1>1, CommandFacts, PartPlaced
    <3>2. row.surface = NoSurface /\ NoSurface \in Seen' /\ (row.role = Hub <=> row.name = Hub)
      BY <2>2 DEF Seen
    <3> HIDE DEF row
    <3> QED BY <3>1, <3>2 DEF Placed
  <2>4. k.rows = rows /\ k.caller = NoSurface /\ NoSurface \in Seen'
    BY DEF Rest, Seen
  <2>5. cmd' = [cmd EXCEPT ![c] = k] /\ ledger' = rows
    BY <1>2 DEF Registers
  <2> HIDE DEF k, rows
  <2> QED BY <1>1, <2>3, <2>4, <2>5, CommandPlaces
<1>3. ASSUME NEW st, cmd[c].pc \in {"open", "boot"},
             SavesAndEnds(c, With(c, [Own(c) EXCEPT !.status = st]))
      PROVE  PlacedInductive'
  <2> DEFINE q == [Own(c) EXCEPT !.status = st]
  <2>1. q.name = Own(c).name /\ q.role = Own(c).role /\ q.surface = Own(c).surface
    BY <1>3, CommandFacts DEF Row
  <2> HIDE DEF q
  <2>2. Placed(With(c, q), Seen')
    BY <1>1, <1>3, <2>1, CommandFacts, ChangedPlaced DEF With
  <2>3. SavesAndEnds(c, With(c, q))
    BY <1>3 DEF q
  <2> QED BY <1>1, <2>2, <2>3, EndPlaces
<1>4. ASSUME NEW s \in Split, OpensPane(c, s) PROVE PlacedInductive'
  <2>1. s \in Seen' \ Seen /\ cmd[c].pc = "open"
    BY <1>4, LedgerAssumption DEF OpensPane, Seen, At
  <2>2. CASE SavesAndEnds(c, With(c, [Own(c) EXCEPT !.status = "failed"]))
    BY <1>3, <2>1, <2>2
  <2>3. CASE Saves(c, With(c, [Own(c) EXCEPT !.surface = s]), "boot")
    <3> DEFINE q == [Own(c) EXCEPT !.surface = s]
               k == [cmd[c] EXCEPT !.pc = "boot", !.rows = With(c, q)]
    <3>1. q.name = Own(c).name /\ q.role = Own(c).role /\ q.surface = s
      BY <2>1, CommandFacts DEF Row
    <3>2. cmd' = [cmd EXCEPT ![c] = k] /\ ledger' = With(c, q)
      BY <2>3, CommandFacts DEF Saves
    <3>3. k.rows = With(c, q) /\ k.caller = cmd[c].caller
      BY CommandFacts DEF CommandState
    <3> HIDE DEF q, k
    <3>4. Placed(With(c, q), Seen')
      BY <1>1, <2>1, <3>1, CommandFacts, ChangedPlaced DEF With
    <3> QED BY <1>1, <3>2, <3>3, <3>4, CommandFacts, CommandPlaces
  <2> QED BY <1>4, <2>2, <2>3 DEF OpensPane
<1>5. CASE OpensNothing(c)
  BY <1>3, <1>5 DEF OpensNothing, At
<1>6. CASE Boots(c)
  BY <1>3, <1>6 DEF Boots, At
<1> QED
  BY <1>2, <1>4, <1>5, <1>6

(* A row whose status changes keeps its surface. *)
LEMMA MarkedPlaced ==
    ASSUME NEW rows, Rules(rows), NEW seen, Placed(rows, seen), NEW r \in rows, NEW q,
           q.name = r.name, q.role = r.role, q.surface = r.surface
    PROVE  Placed((rows \ {r}) \cup {q}, seen)
<1>1. Named(rows, r.name) = {r}
  BY DEF Rules, KeepsRules, Named
<1> QED
  BY <1>1, ChangedPlaced

LEMMA StatusPlaces ==
    ASSUME SpawnInductive, PlacedInductive, NEW c \in Command, StatusSaves(c)
    PROVE  PlacedInductive'
<1> DEFINE rows == cmd[c].rows
<1>1. /\ Seen' = Seen /\ open' \subseteq Seen'
      /\ rows \in SUBSET Row /\ Rules(rows) /\ Placed(rows, Seen) /\ Placed(ledger, Seen)
  BY CommandFacts DEF StatusSaves, Seen, CommandState
<1>2. CASE Ends(c) /\ UNCHANGED ledger
  <2>1. SavesAndEnds(c, ledger)
    BY <1>2 DEF SavesAndEnds
  <2> QED BY <1>1, <2>1, EndPlaces
<1>3. ASSUME NEW r \in rows, SavesAndEnds(c, (rows \ {r}) \cup {Turned(r)})
      PROVE  PlacedInductive'
  <2>1. Turned(r).name = r.name /\ Turned(r).role = r.role /\ Turned(r).surface = r.surface
    BY <1>1, MarkedRow
  <2>2. Placed((rows \ {r}) \cup {Turned(r)}, Seen')
    BY <1>1, <2>1, MarkedPlaced
  <2> QED BY <1>1, <1>3, <2>2, EndPlaces
<1> QED
  BY <1>2, <1>3 DEF StatusSaves, Bound

LEMMA OthersPlace ==
    ASSUME SpawnInductive, PlacedInductive,
           \/ \E c \in Command, r \in ledger : ReleaseIdle(c, r)
           \/ \E r \in ledger : MarksStatus(r)
           \/ \E s \in open : PaneCloses(s)
           \/ UNCHANGED vars
    PROVE  PlacedInductive'
<1>1. ASSUME NEW c \in Command, NEW r \in ledger, ReleaseIdle(c, r) PROVE PlacedInductive'
  <2> DEFINE q == [r EXCEPT !.status = "idle"]
             rows == (ledger \ {r}) \cup {q}
  <2>1. Seen' = Seen /\ open' \subseteq Seen'
    BY <1>1 DEF ReleaseIdle, Seen, PlacedInductive
  <2>2. q.name = r.name /\ q.role = r.role /\ q.surface = r.surface
    BY MarkedRow DEF SpawnInductive, TypeOK
  <2>3. SavesAndEnds(c, rows)
    BY <1>1 DEF ReleaseIdle
  <2> HIDE DEF q
  <2>4. Placed(rows, Seen')
    BY <2>1, <2>2, MarkedPlaced DEF SpawnInductive, PlacedInductive
  <2> HIDE DEF rows
  <2> QED BY <2>1, <2>3, <2>4, EndPlaces
<1>2. ASSUME NEW r \in ledger, MarksStatus(r) PROVE PlacedInductive'
  <2>1. Turned(r).name = r.name /\ Turned(r).role = r.role /\ Turned(r).surface = r.surface
    BY MarkedRow DEF SpawnInductive, TypeOK
  <2>2. Placed(ledger', Seen)
    BY <1>2, <2>1, MarkedPlaced DEF MarksStatus, SpawnInductive, PlacedInductive
  <2> QED BY <1>2, <2>2 DEF MarksStatus, PlacedInductive, Seen
<1>3. CASE \E s \in open : PaneCloses(s)
  BY <1>3 DEF PaneCloses, PlacedInductive, Seen
<1>4. CASE UNCHANGED vars
  BY <1>4 DEF vars, PlacedInductive, Seen
<1> QED
  BY <1>1, <1>2, <1>3, <1>4

LEMMA StepPlaces == SpawnInductive /\ PlacedInductive /\ [Next]_vars => PlacedInductive'
<1> SUFFICES ASSUME SpawnInductive, PlacedInductive, [Next]_vars PROVE PlacedInductive'
  OBVIOUS
<1>1. ASSUME NEW c \in Command, CommandStep(c) PROVE PlacedInductive'
  <2>1. CASE \E r \in ledger : ReleaseIdle(c, r) \/ ReleaseCloses(c, r)
    BY <2>1, CopyStepPlaces, OthersPlace
  <2>2. CASE GatePasses(c)
    BY <2>2, GatePlaces
  <2>3. CASE GateLoads(c) \/ ReconcileLoads(c) \/ StatusLoads(c) \/ Reconciles(c)
             \/ DoesNotSpawn(c) \/ ReleaseSaves(c)
    BY <2>3, CopyStepPlaces
  <2>4. CASE \/ \E kind \in Kind, n \in Name : Registers(c, kind[1], kind[2], n)
             \/ (\E s \in Split : OpensPane(c, s)) \/ OpensNothing(c) \/ Boots(c)
    BY <2>4, SpawnPlaces
  <2>5. CASE StatusSaves(c)
    BY <2>5, StatusPlaces
  <2> QED
    BY <1>1, <2>1, <2>2, <2>3, <2>4, <2>5 DEF CommandStep
<1> QED
  BY <1>1, CopyStepPlaces, OthersPlace DEF Next

(* A surface has one row at most, whatever commands run at the same time   *)
(* and whatever fails: a pane that is found by its surface is the right    *)
(* one, and a specialist's pane is never the hub's (find_by_surface,       *)
(* ensure_orchestrator).                                                   *)
THEOREM OneRowPerSurface == Spec => []SurfacesUnique
<1>1. Init => PlacedInductive
  BY DEF Init, PlacedInductive, Placed, Seen, Rest
<1>2. PlacedInductive => SurfacesUnique
  BY DEF PlacedInductive, Placed, SurfacesUnique
<1> QED
  BY <1>1, <1>2, InitIsSound, StepKeeps, StepPlaces, PTL DEF Spec
===============================================================================
