--------------------------- MODULE EditSagaProofs ---------------------------
(***************************************************************************)
(* The edit saga implements AtomicEdits, its records can be undone, and    *)
(* what it leaves wrong in the index is visible to the next sync.          *)
(***************************************************************************)
EXTENDS EditSaga, TLAPS

(***************************************************************************)
(* The inductive invariant.                                                *)
(***************************************************************************)

Idle      == pc \in {"closed", "ready"}
Recording == pc \in {"persist", "persist_sources", "record"}
Undoing   == pc \in {"restore", "load"}

(* The tokens minted so far are 1..Used.                                   *)
Used == MaxSagas - left["sagas"]

(* The process has a saga's locals while it runs one, and its token is the *)
(* last one that was minted.                                               *)
InSaga ==
  /\ left["sagas"] <= MaxSagas
  /\ Idle => saga = NoSaga
  /\ ~Idle => saga.kind # "none" /\ saga.token = Used /\ saga.token \in Tokens
Kinds ==
  /\ Recording => saga.kind \in {"edit", "undo"}
  /\ pc = "load_old" => saga.kind = "undo"
  /\ saga.kind = "undo" => saga.of \in Tokens

(* A token has no record before its saga is done, and its artifacts come   *)
(* before the record.                                                      *)
Minted ==
  /\ \A t \in Tokens : t > Used => records[t] = "none"
  /\ ~Idle => records[saga.token] = "none"
Stored ==
  /\ RecordsUsable
  /\ pc = "record" => undoStore[saga.token].whole

(* Each file that a compensation must restore is on the list of those      *)
(* written, and it has an original.                                        *)
Covered ==
  /\ DOMAIN saga.originals = Touched /\ saga.written \subseteq Touched
  /\ pc = "write" => saga.todo \subseteq Touched /\ Touched \ saga.todo \subseteq saga.written
  /\ pc \notin {"closed", "ready", "write"} /\ ~Undoing => saga.written = Touched
  /\ pc = "load" => saga.written = {}

Ledger  == InSaga /\ Minted /\ Stored
Control == Ledger /\ Kinds /\ Covered

(* A file of the saga is old or new, and which one is known at each step.  *)
OldOrNew(f) ==
  /\ disk[f] \in {saga.originals[f], saga.new[f]}
  /\ pc = "write" /\ f \in saga.todo => disk[f] = saga.originals[f]
  /\ pc = "write" /\ f \notin saga.todo => disk[f] = saga.new[f]
  /\ Undoing /\ f \notin saga.written /\ ~saga.failed => disk[f] = saga.originals[f]
  /\ pc # "write" /\ ~Undoing => disk[f] = saga.new[f]

(* The index of an undo that is not recorded yet is exact, but for files   *)
(* that users wrote.                                                       *)
Exact ==
  Recording /\ saga.kind = "undo" => \A f \in Files \ saga.disturbed : graph[f] = Layer(disk[f])

Tree == (\A f \in Touched : OldOrNew(f)) /\ Exact

(* The graph has the nodes that the rows of these files list.              *)
InStep(S) == \A f \in S : graph[f] = Layer(cache[f])

(* A file is marked before its nodes are replaced.                         *)
Marks == pc \in {"graph", "meta"} => saga.todo \subseteq dirty
Commits ==
  /\ pc \in {"write", "load_old", "mark", "graph", "meta"} => ~saga.committed
  /\ pc = "check" \/ Recording => saga.committed
  /\ pc = "meta" => saga.parsed \in [saga.todo -> Contents]

(* Until the sidecar is committed, the snapshot is in step with its rows   *)
(* if the graph was when the saga began.                                   *)
Anchored ==
  ~Idle /\ ~saga.committed =>
    /\ paired => saga.paired
    /\ saga.paired => \A f \in Files : saga.snapshot[f] = Layer(cache[f])

(* What paired means: graph and rows differ only in dirty files, and only  *)
(* between the commits of a re-index and the compensation or death of a    *)
(* saga that did not come to the second one.                               *)
Between == pc \in {"closed", "meta"} \/ (Undoing /\ ~saga.committed)
Paired ==
  paired => 
    /\ InStep(Files \ dirty)
    /\ ~Between => InStep(Files)
    /\ pc = "meta" => \A f \in Files : graph[f] = IF f \in saga.todo THEN Layer(saga.parsed[f]) ELSE Layer(cache[f])

Pairing == Marks /\ Commits /\ Anchored /\ Paired

EditInv == TypeOK /\ Control /\ Tree /\ Pairing

(***************************************************************************)
(* Types.                                                                  *)
(***************************************************************************)

Steps == {"closed", "ready", "write", "load_old", "mark", "graph", "meta", "check", "persist",
          "persist_sources", "record", "restore", "load"}
Bounds == {"sagas", "writes", "faults"}

LEMMA TreesType == \A S \in SUBSET Files : [S -> Contents] \subseteq Trees
  BY DEF Trees

LEMMA TreeDomain == \A t \in Trees : DOMAIN t \subseteq Files /\ t \in [DOMAIN t -> Contents]
  BY DEF Trees

LEMMA LayerType == \A c \in Contents : Layer(c) \in SUBSET Contents
  BY DEF Layer

LEMMA EmptyTypes == NoTree \in Trees /\ Empty \in Graphs /\ NoSaga \in Sagas /\ NoEntry \in Entries
  <1>1. NoTree \in [{} -> Contents] BY DEF NoTree
  <1>2. NoTree \in Trees BY <1>1, TreesType
  <1>3. Empty \in Graphs BY DEF Empty, Graphs
  <1>4. 0 \in 0..MaxSagas BY EditAssumption
  <1> QED BY <1>2, <1>3, <1>4 DEF NoSaga, Sagas, NoEntry, Entries

LEMMA SpendType ==
  ASSUME TypeOK, NEW k \in Bounds, Spend(k)
  PROVE  /\ left' \in [Bounds -> Nat] /\ left[k] > 0
         /\ left'["sagas"] = IF k = "sagas" THEN left["sagas"] - 1 ELSE left["sagas"]
  <1>1. left \in [Bounds -> Nat] BY DEF TypeOK, Bounds
  <1>2. left[k] \in Nat /\ left[k] > 0 BY <1>1 DEF Spend
  <1>3. left[k] - 1 \in Nat BY <1>2
  <1> QED BY <1>1, <1>2, <1>3 DEF Spend, Bounds

(* A step within a saga changes these fields of its locals and no other.   *)
Moved(todo, parsed, written, failed, committed, disturbed) ==
  /\ saga' \in Sagas
  /\ saga'.kind = saga.kind /\ saga'.token = saga.token /\ saga'.of = saga.of /\ saga'.new = saga.new
  /\ saga'.originals = saga.originals /\ saga'.snapshot = saga.snapshot /\ saga'.paired = saga.paired
  /\ saga'.todo = todo /\ saga'.parsed = parsed /\ saga'.written = written /\ saga'.failed = failed
  /\ saga'.committed = committed /\ saga'.disturbed = disturbed

Kept == Moved(saga.todo, saga.parsed, saga.written, saga.failed, saga.committed, saga.disturbed)

LEMMA KeptSaga == TypeOK /\ saga' = saga => Kept
  BY DEF TypeOK, Kept, Moved

LEMMA MovedDisturbed ==
  ASSUME TypeOK, NEW S \in SUBSET Files, saga' = [saga EXCEPT !.disturbed = S]
  PROVE  Moved(saga.todo, saga.parsed, saga.written, saga.failed, saga.committed, S)
  BY DEF TypeOK, Sagas, Moved

LEMMA MovedTodo ==
  ASSUME TypeOK, NEW S \in SUBSET Files, saga' = [saga EXCEPT !.todo = S]
  PROVE  Moved(S, saga.parsed, saga.written, saga.failed, saga.committed, saga.disturbed)
  BY DEF TypeOK, Sagas, Moved

LEMMA MovedWrite ==
  ASSUME TypeOK, NEW S \in SUBSET Files, NEW T \in SUBSET Files, saga' = [saga EXCEPT !.todo = S, !.written = T]
  PROVE  Moved(S, saga.parsed, T, saga.failed, saga.committed, saga.disturbed)
  BY DEF TypeOK, Sagas, Moved

LEMMA MovedWritten ==
  ASSUME TypeOK, NEW S \in SUBSET Files, saga' = [saga EXCEPT !.written = S]
  PROVE  Moved(saga.todo, saga.parsed, S, saga.failed, saga.committed, saga.disturbed)
  BY DEF TypeOK, Sagas, Moved

LEMMA MovedFailed ==
  ASSUME TypeOK, NEW S \in SUBSET Files, saga' = [saga EXCEPT !.written = S, !.failed = TRUE]
  PROVE  Moved(saga.todo, saga.parsed, S, TRUE, saga.committed, saga.disturbed)
  BY DEF TypeOK, Sagas, Moved

LEMMA MovedParsed ==
  ASSUME TypeOK, NEW t \in Trees, saga' = [saga EXCEPT !.parsed = t]
  PROVE  Moved(saga.todo, t, saga.written, saga.failed, saga.committed, saga.disturbed)
  BY DEF TypeOK, Sagas, Moved

LEMMA MovedCommit ==
  ASSUME TypeOK, saga' = [saga EXCEPT !.todo = {}, !.parsed = NoTree, !.committed = TRUE]
  PROVE  Moved({}, NoTree, saga.written, saga.failed, TRUE, saga.disturbed)
  BY EmptyTypes DEF TypeOK, Sagas, Moved

(* What a request begins with.                                             *)
Begun(new) ==
  /\ saga' \in Sagas
  /\ saga'.kind # "none" /\ saga'.token = Used' /\ (saga'.kind = "undo" => saga'.of \in Tokens)
  /\ saga'.new = new /\ saga'.todo = DOMAIN new /\ saga'.written \in {{}, DOMAIN new}
  /\ saga'.originals = [f \in DOMAIN new |-> disk[f]]
  /\ saga'.snapshot = graph /\ saga'.paired = paired
  /\ saga'.failed = FALSE /\ saga'.committed = FALSE /\ saga'.disturbed = {}

(* A new token is the next one.                                            *)
LEMMA NextToken ==
  ASSUME TypeOK, left["sagas"] <= MaxSagas, Spend("sagas")
  PROVE  /\ left' \in [Bounds -> Nat] /\ left'["sagas"] <= MaxSagas
         /\ mintUndoToken = Used' /\ Used' = Used + 1 /\ Used \in Nat /\ Used' \in Tokens /\ Used' \in 0..MaxSagas
  <1>1. left' \in [Bounds -> Nat] /\ left["sagas"] > 0 /\ left'["sagas"] = left["sagas"] - 1
    BY SpendType DEF Bounds
  <1>2. left["sagas"] \in Nat /\ left'["sagas"] \in Nat BY <1>1 DEF TypeOK, Bounds
  <1>3. MaxSagas \in Nat BY EditAssumption
  <1> QED BY <1>1, <1>2, <1>3 DEF mintUndoToken, Used, Tokens

LEMMA AnchorsType ==
  ASSUME TypeOK, NEW t \in Trees
  PROVE  [f \in DOMAIN t |-> disk[f]] \in Trees
  <1>1. DOMAIN t \in SUBSET Files BY TreeDomain
  <1>2. [f \in DOMAIN t |-> disk[f]] \in [DOMAIN t -> Contents] BY <1>1 DEF TypeOK
  <1> QED BY <1>1, <1>2, TreesType

LEMMA EditBegins ==
  ASSUME TypeOK, left["sagas"] <= MaxSagas, applyBatch
  PROVE  \E new \in Trees : Begun(new)
  <1>1. Spend("sagas") BY DEF applyBatch
  <1>2. mintUndoToken = Used' /\ Used' \in 0..MaxSagas BY <1>1, NextToken
  <1>3. PICK S \in SUBSET Files \ {{}}, k \in {"bare", "edit"} : \E new \in [S -> Contents] :
          saga' = [NoSaga EXCEPT !.kind = k, !.token = mintUndoToken, !.new = new, !.todo = S,
                                 !.originals = [f \in S |-> disk[f]], !.snapshot = graph, !.paired = paired]
    BY DEF applyBatch
  <1>4. PICK new \in [S -> Contents] :
          saga' = [NoSaga EXCEPT !.kind = k, !.token = mintUndoToken, !.new = new, !.todo = S,
                                 !.originals = [f \in S |-> disk[f]], !.snapshot = graph, !.paired = paired]
    BY <1>3
  <1>5. new \in Trees /\ DOMAIN new = S BY TreesType
  <1>6. [f \in S |-> disk[f]] \in Trees BY <1>5, AnchorsType
  <1>7. saga' \in Sagas /\ saga' = [NoSaga EXCEPT !.kind = k, !.token = Used', !.new = new, !.todo = S,
                                    !.originals = [f \in S |-> disk[f]], !.snapshot = graph, !.paired = paired]
    BY <1>2, <1>4, <1>5, <1>6, EmptyTypes DEF Sagas, TypeOK
  <1>8. Begun(new) BY <1>5, <1>7 DEF Begun, NoSaga
  <1> QED BY <1>5, <1>8

LEMMA UndoBegins ==
  ASSUME TypeOK, left["sagas"] <= MaxSagas, NEW t \in Tokens, Undo(t)
  PROVE  Begun(undoStore[t].sources) /\ undoStore[t].sources \in Trees
  <1> DEFINE src == undoStore[t].sources
  <1>1. Spend("sagas") BY DEF Undo
  <1>2. mintUndoToken = Used' /\ Used' \in 0..MaxSagas BY <1>1, NextToken
  <1>3. saga' = [NoSaga EXCEPT !.kind = "undo", !.token = Used', !.of = t, !.new = src, !.todo = DOMAIN src,
                               !.written = DOMAIN src, !.originals = [f \in DOMAIN src |-> disk[f]],
                               !.snapshot = graph, !.paired = paired]
    BY <1>2 DEF Undo
  <1>4. src \in Trees BY DEF TypeOK, Entries
  <1>5. DOMAIN src \in SUBSET Files BY <1>4, TreeDomain
  <1>6. [f \in DOMAIN src |-> disk[f]] \in Trees BY <1>4, AnchorsType
  <1>7. t \in 0..MaxSagas BY EditAssumption DEF Tokens
  <1> HIDE DEF src
  <1>8. saga' \in Sagas BY <1>2, <1>3, <1>4, <1>5, <1>6, <1>7, EmptyTypes DEF Sagas, TypeOK
  <1>9. Begun(src) BY <1>3, <1>8 DEF Begun, NoSaga
  <1> QED BY <1>4, <1>9 DEF src

(***************************************************************************)
(* Frames.                                                                 *)
(***************************************************************************)

(* Nothing is begun or recorded.                                           *)
LEMMA LedgerFrame ==
  ASSUME Ledger, left'["sagas"] = left["sagas"], records' = records,
         \A t \in Tokens : undoStore[t].whole => undoStore'[t].whole,
         pc' = "record" => undoStore'[saga'.token].whole,
         \/ saga' = NoSaga /\ Idle'
         \/ ~Idle /\ ~Idle' /\ saga'.token = saga.token /\ saga'.kind = saga.kind
  PROVE  Ledger'
  <1>1. Used' = Used BY DEF Used
  <1>2. InSaga' BY <1>1 DEF Ledger, InSaga
  <1>3. Minted' BY <1>1 DEF Ledger, Minted
  <1>4. Stored' BY DEF Ledger, Stored, RecordsUsable
  <1> QED BY <1>2, <1>3, <1>4 DEF Ledger

LEMMA AtRest ==
  ASSUME saga' = NoSaga, Idle'
  PROVE  Kinds' /\ Covered' /\ Tree' /\ Marks' /\ Commits' /\ Anchored'
  <1>1. /\ pc' \in {"closed", "ready"} /\ saga'.kind = "none" /\ saga'.new = NoTree /\ saga'.originals = NoTree
        /\ saga'.written = {} /\ DOMAIN NoTree = {}
    BY DEF Idle, NoSaga, NoTree
  <1>2. Kinds' /\ Marks' /\ Commits' /\ Anchored'
    BY <1>1 DEF Kinds, Marks, Commits, Anchored, Idle, Recording
  <1>3. Covered' BY <1>1 DEF Covered, Touched, Undoing
  <1>4. Tree' BY <1>1 DEF Tree, Touched, Exact, Recording
  <1> QED BY <1>2, <1>3, <1>4

(* A step after which no saga runs, and which records nothing.             *)
LEMMA Rests ==
  ASSUME EditInv, TypeOK', saga' = NoSaga, Idle', left'["sagas"] = left["sagas"],
         records' = records, undoStore' = undoStore, Paired'
  PROVE  EditInv'
  <1>1. Ledger' BY LedgerFrame DEF EditInv, Control, Idle
  <1> QED BY <1>1, AtRest DEF EditInv, Control, Pairing

(* A step of a saga that stays what it is and records nothing.             *)
LEMMA GoesOn ==
  ASSUME EditInv, TypeOK', ~Idle, ~Idle', saga'.token = saga.token, saga'.kind = saga.kind,
         left'["sagas"] = left["sagas"], records' = records, undoStore' = undoStore,
         pc' # "record", Kinds', Covered', Tree', Pairing'
  PROVE  EditInv'
  <1>1. Ledger' BY LedgerFrame DEF EditInv, Control
  <1> QED BY <1>1 DEF EditInv, Control

LEMMA FaultSpent ==
  ASSUME TypeOK, Spend("faults") \/ Spend("writes") \/ UNCHANGED left
  PROVE  left' \in [Bounds -> Nat] /\ left'["sagas"] = left["sagas"]
  BY SpendType DEF TypeOK, Bounds

(***************************************************************************)
(* The environment and the life of the process.                            *)
(***************************************************************************)

LEMMA UserWritesStep ==
  ASSUME EditInv, NEW f \in Files, NEW c \in Contents, UserWrites(f, c)
  PROVE  EditInv'
  <1> USE DEF UserWrites, sidecar, audit, ghosts
  <1>0. /\ TypeOK /\ Ledger /\ Kinds /\ Covered /\ Tree /\ Pairing
        /\ pc' = pc /\ graph' = graph /\ cache' = cache /\ dirty' = dirty /\ paired' = paired
        /\ disk' = [disk EXCEPT ![f] = c] /\ f \notin Touched
    BY DEF EditInv, Control
  <1>1. left' \in [Bounds -> Nat] /\ left'["sagas"] = left["sagas"] BY <1>0, FaultSpent
  <1>2. saga' \in Sagas
    <2>1. CASE Idle BY <1>0, <2>1 DEF Idle, TypeOK
    <2>2. CASE ~Idle
      <3>1. saga.disturbed \cup {f} \in SUBSET Files BY <1>0 DEF TypeOK, Sagas
      <3> QED BY <1>0, <2>2, <3>1, MovedDisturbed DEF Idle, Moved
    <2> QED BY <2>1, <2>2
  <1>3. TypeOK' BY <1>0, <1>1, <1>2 DEF TypeOK, Bounds
  <1>4. CASE Idle
    <2>1. saga' = saga /\ saga = NoSaga /\ Idle' BY <1>0, <1>4 DEF Idle, Ledger, InSaga
    <2>2. Paired' BY <1>0, <1>4, <2>1 DEF Pairing, Paired, InStep, Between, Undoing, Idle
    <2> QED BY <1>1, <1>3, <2>1, <2>2, Rests
  <1>5. CASE ~Idle
    <2>1. saga.disturbed \cup {f} \in SUBSET Files BY <1>0 DEF TypeOK, Sagas
    <2>2. Moved(saga.todo, saga.parsed, saga.written, saga.failed, saga.committed, saga.disturbed \cup {f})
      BY <1>0, <1>5, <2>1, MovedDisturbed DEF Idle
    <2>3. Kinds' /\ Covered'
      BY <1>0, <2>2 DEF Kinds, Covered, Recording, Undoing, Touched, Moved
    <2>4. \A g \in Touched : disk'[g] = disk[g] /\ g \in Touched' BY <1>0, <2>2 DEF TypeOK, Touched, Moved
    <2>5. \A g \in Touched' : OldOrNew(g)' BY <1>0, <2>2, <2>4 DEF Tree, OldOrNew, Undoing, Moved, Touched
    <2>6. Exact' 
      <3>1. \A g \in Files \ (saga.disturbed \cup {f}) : disk'[g] = disk[g] BY <1>0 DEF TypeOK
      <3> QED BY <1>0, <2>2, <3>1 DEF Tree, Exact, Recording, Moved
    <2>7. Pairing'
      BY <1>0, <1>5, <2>2 DEF Pairing, Marks, Commits, Anchored, Paired, InStep, Between, Undoing, Recording, Idle, Moved
    <2>8. Tree' BY <2>5, <2>6 DEF Tree
    <2>9. ~Idle' /\ saga'.token = saga.token /\ saga'.kind = saga.kind BY <1>0, <1>5, <2>2 DEF Idle, Moved
    <2>10. Ledger'
      <3>1. \A t \in Tokens : undoStore[t].whole => undoStore'[t].whole OBVIOUS
      <3>2. pc' = "record" => undoStore'[saga'.token].whole BY <1>0, <2>9 DEF Ledger, Stored
      <3> QED BY <1>0, <1>1, <1>5, <2>9, <3>1, <3>2, LedgerFrame
    <2> QED BY <1>3, <2>3, <2>7, <2>8, <2>10 DEF EditInv, Control
  <1> QED BY <1>4, <1>5

LEMMA ClientStep ==
  ASSUME EditInv, makeEditorClient
  PROVE  EditInv'
  <1> USE DEF makeEditorClient, Goto, audit
  <1>0. TypeOK /\ InSaga BY DEF EditInv, Control, Ledger
  <1>1. graph' \in Graphs BY <1>0, LayerType DEF TypeOK, Graphs
  <1>2. TypeOK' BY <1>0, <1>1 DEF TypeOK
  <1>3. saga' = NoSaga /\ Idle' BY <1>0 DEF InSaga, Idle
  <1>4. Paired' BY <1>0 DEF Paired, InStep, TypeOK
  <1> QED BY <1>2, <1>3, <1>4, Rests

LEMMA CloseStep ==
  ASSUME EditInv, Close
  PROVE  EditInv'
  <1> USE DEF Close, Goto, audit, sidecar, ghosts
  <1>0. TypeOK /\ InSaga /\ Paired BY DEF EditInv, Control, Ledger, Pairing
  <1>1. TypeOK' BY <1>0 DEF TypeOK
  <1>2. saga' = NoSaga /\ Idle' BY <1>0 DEF InSaga, Idle
  <1>3. Paired' BY <1>0 DEF Paired, InStep, Between
  <1> QED BY <1>1, <1>2, <1>3, Rests

LEMMA DieStep ==
  ASSUME EditInv, Die
  PROVE  EditInv'
  <1> USE DEF Die, Goto, audit, sidecar
  <1>0. TypeOK /\ Paired BY DEF EditInv, Pairing
  <1>1. left' \in [Bounds -> Nat] /\ left'["sagas"] = left["sagas"] BY <1>0, FaultSpent
  <1>2. TypeOK' BY <1>0, <1>1, EmptyTypes DEF TypeOK, Bounds
  <1>3. saga' = NoSaga /\ Idle' BY DEF Idle
  <1>4. Paired' BY <1>0 DEF Paired, InStep, Between
  <1> QED BY <1>1, <1>2, <1>3, <1>4, Rests

(***************************************************************************)
(* The steps of a saga.                                                    *)
(***************************************************************************)

LEMMA BeginStep ==
  ASSUME EditInv, NEW new \in Trees, Begun(new), pc = "ready", Spend("sagas"), pc' = "write",
         UNCHANGED <<disk, graph, sidecar, audit, ghosts>>
  PROVE  EditInv'
  <1> USE DEF sidecar, audit, ghosts
  <1>0. TypeOK /\ Ledger /\ Pairing /\ left["sagas"] <= MaxSagas
    BY DEF EditInv, Control, Ledger, InSaga
  <1>1. /\ left' \in [Bounds -> Nat] /\ left'["sagas"] <= MaxSagas
        /\ Used' = Used + 1 /\ Used \in Nat /\ Used' \in Tokens
    BY <1>0, NextToken
  <1>2. TypeOK' BY <1>0, <1>1 DEF TypeOK, Begun, Bounds
  <1>3. Ledger'
    <2>1. InSaga' BY <1>1 DEF InSaga, Begun, Idle
    <2>2. \A t \in Tokens : t > Used => records[t] = "none" BY <1>0 DEF Ledger, Minted
    <2>3. Minted' BY <1>1, <2>2 DEF Minted, Begun, Tokens
    <2>4. Stored' BY <1>0 DEF Ledger, Stored, RecordsUsable
    <2> QED BY <2>1, <2>3, <2>4 DEF Ledger
  <1>4. Touched' = DOMAIN new /\ DOMAIN new \subseteq Files BY TreeDomain DEF Touched, Begun
  <1>5. Kinds' BY DEF Kinds, Begun, Recording
  <1>6. Covered' BY <1>4 DEF Covered, Begun, Undoing
  <1>7. Tree'
    <2>1. ASSUME NEW f \in Touched' PROVE OldOrNew(f)'
      BY <1>4 DEF OldOrNew, Begun, Undoing
    <2> QED BY <2>1 DEF Tree, Exact, Recording
  <1>8. Pairing'
    <2>1. paired => InStep(Files) /\ InStep(Files \ dirty) 
      BY <1>0 DEF Pairing, Paired, Between, Undoing
    <2>2. Marks' /\ Commits' BY DEF Marks, Commits, Recording, Begun
    <2>3. Anchored' BY <2>1 DEF Anchored, Begun, InStep
    <2>4. Paired' BY <2>1 DEF Paired, InStep
    <2> QED BY <2>2, <2>3, <2>4 DEF Pairing
  <1> QED BY <1>2, <1>3, <1>5, <1>6, <1>7, <1>8 DEF EditInv, Control

LEMMA applyBatchStep == ASSUME EditInv, applyBatch PROVE EditInv'
  <1>1. \E new \in Trees : Begun(new) BY EditBegins DEF EditInv, Control, Ledger, InSaga
  <1> QED BY <1>1, BeginStep DEF applyBatch, Goto

LEMMA UndoStep == ASSUME EditInv, NEW t \in Tokens, Undo(t) PROVE EditInv'
  <1>1. Begun(undoStore[t].sources) /\ undoStore[t].sources \in Trees
    BY UndoBegins DEF EditInv, Control, Ledger, InSaga
  <1> QED BY <1>1, BeginStep DEF Undo, Goto

LEMMA WriteStep ==
  ASSUME EditInv, NEW f \in Files, writeFileAtomic(f)
  PROVE  EditInv'
  <1> USE DEF writeFileAtomic, Goto, sidecar, audit, ghosts
  <1>0. /\ TypeOK /\ Kinds /\ Covered /\ Tree /\ Pairing /\ pc = "write" /\ f \in saga.todo /\ f \in Touched
        /\ graph' = graph /\ cache' = cache /\ dirty' = dirty /\ paired' = paired
        /\ saga.new \in Trees /\ Touched \subseteq Files
    BY TreeDomain DEF EditInv, Control, Covered, TypeOK, Sagas, Touched
  <1>1. left' \in [Bounds -> Nat] /\ left'["sagas"] = left["sagas"] BY <1>0, FaultSpent
  <1>2. saga.todo \in SUBSET Files /\ saga.written \in SUBSET Files BY <1>0 DEF TypeOK, Sagas
  <1>3. ASSUME disk' = [disk EXCEPT ![f] = saga.new[f]], pc' = pc,
               saga' = [saga EXCEPT !.todo = @ \ {f}, !.written = @ \cup {f}]
        PROVE  EditInv'
    <2>1. saga.todo \ {f} \in SUBSET Files /\ saga.written \cup {f} \in SUBSET Files BY <1>2
    <2>2. Moved(saga.todo \ {f}, saga.parsed, saga.written \cup {f}, saga.failed, saga.committed, saga.disturbed)
      BY <1>0, <1>3, <2>1, MovedWrite
    <2>3. saga.new[f] \in Contents BY <1>0, TreeDomain DEF Touched
    <2>4. TypeOK' BY <1>0, <1>1, <1>3, <2>2, <2>3 DEF TypeOK, Moved, Bounds
    <2>5. Touched' = Touched BY <2>2 DEF Touched, Moved
    <2>6. Kinds' BY <1>0, <1>3, <2>2 DEF Kinds, Moved, Recording
    <2>7. Covered' BY <1>0, <1>3, <2>2, <2>5 DEF Covered, Moved, Undoing
    <2>8. Tree'
      <3>1. ASSUME NEW g \in Touched PROVE OldOrNew(g)'
        <4>1. OldOrNew(g) BY <1>0 DEF Tree
        <4>2. CASE g = f
          <5>1. disk'[g] = saga.new[g] BY <1>0, <1>3, <4>2 DEF TypeOK
          <5> QED BY <1>0, <1>3, <2>2, <4>2, <5>1 DEF OldOrNew, Moved, Undoing
        <4>3. CASE g # f
          <5>1. disk'[g] = disk[g] BY <1>0, <1>3, <4>3 DEF TypeOK
          <5> QED BY <1>0, <1>3, <2>2, <4>1, <4>3, <5>1 DEF OldOrNew, Moved, Undoing
        <4> QED BY <4>2, <4>3
      <3> QED BY <1>0, <1>3, <2>5, <3>1 DEF Tree, Exact, Recording
    <2>9. Pairing'
      <3>1. Marks' /\ Commits' BY <1>0, <1>3, <2>2 DEF Pairing, Marks, Commits, Recording, Moved
      <3>2. Anchored' BY <1>0, <1>3, <2>2 DEF Pairing, Anchored, Moved, Idle
      <3>3. Paired' BY <1>0, <1>3 DEF Pairing, Paired, InStep, Between, Undoing
      <3> QED BY <3>1, <3>2, <3>3 DEF Pairing
    <2>10. ~Idle /\ ~Idle' /\ saga'.token = saga.token /\ saga'.kind = saga.kind BY <1>0, <1>3, <2>2 DEF Idle, Moved
    <2> QED BY <1>0, <1>1, <1>3, <2>4, <2>6, <2>7, <2>8, <2>9, <2>10, GoesOn
  <1>4. ASSUME Spend("faults"), saga' = [saga EXCEPT !.written = @ \cup {f}], pc' = "restore", disk' = disk
        PROVE  EditInv'
    <2>1. saga.written \cup {f} \in SUBSET Files BY <1>2
    <2>2. Moved(saga.todo, saga.parsed, saga.written \cup {f}, saga.failed, saga.committed, saga.disturbed)
      BY <1>0, <1>4, <2>1, MovedWritten
    <2>3. TypeOK' BY <1>0, <1>1, <1>4, <2>2 DEF TypeOK, Moved, Bounds
    <2>4. Touched' = Touched BY <2>2 DEF Touched, Moved
    <2>5. Kinds' BY <1>0, <1>4, <2>2 DEF Kinds, Moved, Recording
    <2>6. Covered' BY <1>0, <1>4, <2>2, <2>4 DEF Covered, Moved, Undoing
    <2>7. Tree'
      <3>1. ASSUME NEW g \in Touched PROVE OldOrNew(g)'
        <4>1. OldOrNew(g) BY <1>0 DEF Tree
        <4> QED BY <1>0, <1>4, <2>2, <4>1 DEF OldOrNew, Moved, Undoing, Covered
      <3> QED BY <1>0, <1>4, <2>4, <3>1 DEF Tree, Exact, Recording
    <2>8. Pairing'
      <3>1. Marks' /\ Commits' BY <1>0, <1>4, <2>2 DEF Pairing, Marks, Commits, Recording, Moved
      <3>2. Anchored' BY <1>0, <1>4, <2>2 DEF Pairing, Anchored, Moved, Idle
      <3>3. Paired' BY <1>0, <1>4 DEF Pairing, Paired, InStep, Between, Undoing
      <3> QED BY <3>1, <3>2, <3>3 DEF Pairing
    <2>9. ~Idle /\ ~Idle' /\ saga'.token = saga.token /\ saga'.kind = saga.kind BY <1>0, <1>4, <2>2 DEF Idle, Moved
    <2> QED BY <1>0, <1>1, <1>4, <2>3, <2>5, <2>6, <2>7, <2>8, <2>9, GoesOn
  <1> QED BY <1>3, <1>4

(* A step that only goes on to the next one, to the compensation or from   *)
(* the files to the graph.                                                 *)
LEMMA Jumps ==
  ASSUME EditInv, UNCHANGED <<disk, graph, sidecar, audit, saga, whole>>,
         Spend("faults") \/ UNCHANGED left, paired' = paired,
         \/ pc = "write" /\ saga.todo = {} /\ pc' = IF saga.kind = "undo" THEN "load_old" ELSE "mark"
         \/ pc \in {"load_old", "mark", "graph", "meta", "check"} /\ pc' = "restore"
         \/ Recording /\ pc' = "restore"
         \/ pc = "restore" /\ saga.written = {} /\ pc' = "load"
  PROVE  EditInv'
  <1> USE DEF sidecar, audit
  <1>0. TypeOK /\ Kinds /\ Covered /\ Tree /\ Pairing BY DEF EditInv, Control
  <1>1. left' \in [Bounds -> Nat] /\ left'["sagas"] = left["sagas"] BY <1>0, FaultSpent
  <1>2. TypeOK' BY <1>0, <1>1 DEF TypeOK, Bounds
  <1>3. ~Idle /\ ~Idle' BY DEF Idle, Recording
  <1>4. Touched' = Touched BY DEF Touched
  <1>5. Kinds' BY <1>0 DEF Kinds, Recording
  <1>6. Covered' BY <1>0, <1>4 DEF Covered, Undoing, Recording
  <1>7. Tree'
    <2>1. ASSUME NEW g \in Touched PROVE OldOrNew(g)'
      <3>1. OldOrNew(g) BY <1>0 DEF Tree
      <3> QED BY <1>0, <2>1, <3>1 DEF OldOrNew, Undoing, Covered, Recording
    <2> QED BY <1>4, <2>1 DEF Tree, Exact, Recording
  <1>8. Pairing'
    <2>1. Marks' /\ Commits' BY <1>0 DEF Pairing, Marks, Commits, Recording
    <2>2. Anchored' BY <1>0, <1>3 DEF Pairing, Anchored
    <2>3. Paired' BY <1>0 DEF Pairing, Paired, InStep, Between, Undoing, Commits, Recording
    <2> QED BY <2>1, <2>2, <2>3 DEF Pairing
  <1> QED BY <1>1, <1>2, <1>3, <1>5, <1>6, <1>7, <1>8, GoesOn

LEMMA AllWrittenStep == EditInv /\ AllWritten => EditInv'
  BY Jumps DEF AllWritten, Goto, ghosts

LEMMA AllRestoredStep == EditInv /\ AllRestored => EditInv'
  BY Jumps DEF AllRestored, Goto, ghosts

LEMMA StepFailsStep == EditInv /\ StepFails => EditInv'
  BY Jumps DEF StepFails, Goto, ghosts

LEMMA LoadOldStep ==
  ASSUME EditInv, LoadOldSnapshot
  PROVE  EditInv'
  <1> USE DEF LoadOldSnapshot, Goto, sidecar, audit
  <1>0. TypeOK /\ Kinds /\ Covered /\ Tree /\ Pairing BY DEF EditInv, Control
  <1>1. undoStore[saga.of] \in Entries BY <1>0 DEF Kinds, TypeOK
  <1>2. TypeOK' BY <1>0, <1>1 DEF TypeOK, Entries
  <1>3. ~Idle /\ ~Idle' /\ Touched' = Touched BY DEF Idle, Touched
  <1>4. Kinds' BY <1>0 DEF Kinds, Recording
  <1>5. Covered' BY <1>0, <1>3 DEF Covered, Undoing
  <1>6. Tree'
    <2>1. ASSUME NEW g \in Touched PROVE OldOrNew(g)'
      BY <1>0, <2>1 DEF Tree, OldOrNew, Undoing
    <2> QED BY <1>3, <2>1 DEF Tree, Exact, Recording
  <1>7. Pairing' BY <1>0, <1>3 DEF Pairing, Marks, Commits, Anchored, Paired, Recording
  <1> QED BY <1>2, <1>3, <1>4, <1>5, <1>6, <1>7, GoesOn

LEMMA MarkStep ==
  ASSUME EditInv, MarkDirty
  PROVE  EditInv'
  <1> USE DEF MarkDirty, Goto, audit, ghosts
  <1>0. TypeOK /\ Kinds /\ Covered /\ Tree /\ Pairing BY DEF EditInv, Control
  <1>1. PICK more \in SUBSET Files :
          dirty' = dirty \cup Touched \cup more /\ saga' = [saga EXCEPT !.todo = Touched \cup more]
    BY DEF Marked
  <1>2. Touched \subseteq Files BY <1>0, TreeDomain DEF Touched, TypeOK, Sagas
  <1>3. Moved(Touched \cup more, saga.parsed, saga.written, saga.failed, saga.committed, saga.disturbed)
    BY <1>0, <1>1, <1>2, MovedTodo
  <1>4. TypeOK' BY <1>0, <1>1, <1>2, <1>3 DEF TypeOK, Moved
  <1>5. ~Idle /\ ~Idle' /\ Touched' = Touched BY <1>3 DEF Idle, Touched, Moved
  <1>6. Kinds' BY <1>0, <1>3 DEF Kinds, Recording, Moved
  <1>7. Covered' BY <1>0, <1>3, <1>5 DEF Covered, Undoing, Moved
  <1>8. Tree'
    <2>1. ASSUME NEW g \in Touched PROVE OldOrNew(g)'
      BY <1>0, <1>3, <2>1 DEF Tree, OldOrNew, Undoing, Moved
    <2> QED BY <1>5, <2>1 DEF Tree, Exact, Recording
  <1>9. Pairing'
    <2>1. Marks' /\ Commits' BY <1>0, <1>1, <1>3 DEF Pairing, Marks, Commits, Recording, Moved
    <2>2. Anchored' BY <1>0, <1>3, <1>5 DEF Pairing, Anchored, Moved
    <2>3. Paired' BY <1>0, <1>1 DEF Pairing, Paired, InStep, Between, Undoing
    <2> QED BY <2>1, <2>2, <2>3 DEF Pairing
  <1>10. saga'.token = saga.token /\ saga'.kind = saga.kind BY <1>3 DEF Moved
  <1> QED BY <1>4, <1>5, <1>6, <1>7, <1>8, <1>9, <1>10, GoesOn

LEMMA CommitGraphStep ==
  ASSUME EditInv, CommitGraph
  PROVE  EditInv'
  <1> USE DEF CommitGraph, Goto, sidecar, audit, ghosts
  <1>0. TypeOK /\ Kinds /\ Covered /\ Tree /\ Pairing BY DEF EditInv, Control
  <1>1. CASE \E f \in saga.todo : disk[f] \in Broken
    BY <1>1, Jumps
  <1>2. CASE ~\E f \in saga.todo : disk[f] \in Broken
    <2>1. /\ graph' = [f \in Files |-> IF f \in saga.todo THEN (graph[f] \ Layer(cache[f])) \cup Layer(disk[f])
                                       ELSE graph[f]]
          /\ saga' = [saga EXCEPT !.parsed = [f \in saga.todo |-> disk[f]]]
          /\ pc' = "meta"
      BY <1>2
    <2>2. saga.todo \in SUBSET Files BY <1>0 DEF TypeOK, Sagas
    <2>3. [f \in saga.todo |-> disk[f]] \in [saga.todo -> Contents] BY <1>0, <2>2 DEF TypeOK
    <2>4. [f \in saga.todo |-> disk[f]] \in Trees BY <2>2, <2>3, TreesType
    <2>5. Moved(saga.todo, [f \in saga.todo |-> disk[f]], saga.written, saga.failed, saga.committed, saga.disturbed)
      BY <1>0, <2>1, <2>4, MovedParsed
    <2>6. graph' \in Graphs BY <1>0, <2>1, LayerType DEF TypeOK, Graphs
    <2>7. TypeOK' BY <1>0, <2>1, <2>5, <2>6 DEF TypeOK, Moved
    <2>8. ~Idle /\ ~Idle' /\ Touched' = Touched BY <2>1, <2>5 DEF Idle, Touched, Moved
    <2>9. Kinds' BY <1>0, <2>1, <2>5 DEF Kinds, Recording, Moved
    <2>10. Covered' BY <1>0, <2>1, <2>5, <2>8 DEF Covered, Undoing, Moved
    <2>11. Tree'
      <3>1. ASSUME NEW g \in Touched PROVE OldOrNew(g)'
        BY <1>0, <2>1, <2>5, <3>1 DEF Tree, OldOrNew, Undoing, Moved
      <3> QED BY <2>1, <2>8, <3>1 DEF Tree, Exact, Recording
    <2>12. Pairing'
      <3>1. Marks' BY <1>0, <2>1, <2>5 DEF Pairing, Marks, Moved
      <3>2. Commits' BY <1>0, <2>1, <2>3, <2>5 DEF Pairing, Commits, Recording, Moved
      <3>3. Anchored' BY <1>0, <2>5, <2>8 DEF Pairing, Anchored, Moved
      <3>4. ASSUME paired PROVE \A f \in Files : graph'[f] = IF f \in saga.todo THEN Layer(disk[f]) ELSE Layer(cache[f])
        <4>1. \A f \in Files : graph[f] = Layer(cache[f])
          BY <1>0, <3>4 DEF Pairing, Paired, InStep, Between, Undoing
        <4> QED BY <2>1, <4>1
      <3>5. saga.todo \subseteq dirty BY <1>0 DEF Pairing, Marks
      <3>6. saga'.todo = saga.todo /\ \A f \in saga.todo : saga'.parsed[f] = disk[f] BY <2>5 DEF Moved
      <3>7. paired' = paired /\ cache' = cache /\ dirty' = dirty OBVIOUS
      <3>8. ASSUME paired PROVE InStep(Files \ dirty)' BY <3>4, <3>5, <3>7, <3>8 DEF InStep
      <3>9. Between' BY <2>1 DEF Between
      <3>10. ASSUME paired
             PROVE  \A f \in Files : graph'[f] = IF f \in saga'.todo THEN Layer(saga'.parsed[f]) ELSE Layer(cache'[f])
        BY <3>4, <3>6, <3>7, <3>10
      <3>11. Paired' BY ONLY <3>7, <3>8, <3>9, <3>10 DEF Paired
      <3> QED BY <3>1, <3>2, <3>3, <3>11 DEF Pairing
    <2>13. saga'.token = saga.token /\ saga'.kind = saga.kind BY <2>5 DEF Moved
    <2> QED BY <2>1, <2>7, <2>8, <2>9, <2>10, <2>11, <2>12, <2>13, GoesOn
  <1> QED BY <1>1, <1>2

LEMMA CommitSidecarStep ==
  ASSUME EditInv, CommitSidecar
  PROVE  EditInv'
  <1> USE DEF CommitSidecar, Goto, audit, ghosts
  <1>0. TypeOK /\ Kinds /\ Covered /\ Tree /\ Pairing BY DEF EditInv, Control
  <1>1. Moved({}, NoTree, saga.written, saga.failed, TRUE, saga.disturbed) BY <1>0, MovedCommit
  <1>2. saga.parsed \in [saga.todo -> Contents] BY <1>0 DEF Pairing, Commits
  <1>3. TypeOK' BY <1>0, <1>1, <1>2 DEF TypeOK, Moved
  <1>4. ~Idle /\ ~Idle' /\ Touched' = Touched BY <1>1 DEF Idle, Touched, Moved
  <1>5. Kinds' BY <1>0, <1>1 DEF Kinds, Recording, Moved
  <1>6. Covered' BY <1>0, <1>1, <1>4 DEF Covered, Undoing, Moved
  <1>7. Tree'
    <2>1. ASSUME NEW g \in Touched PROVE OldOrNew(g)'
      BY <1>0, <1>1, <2>1 DEF Tree, OldOrNew, Undoing, Moved
    <2> QED BY <1>4, <2>1 DEF Tree, Exact, Recording
  <1>8. Pairing'
    <2>1. Marks' /\ Commits' BY <1>1 DEF Marks, Commits, Recording, Moved
    <2>2. Anchored' BY <1>1 DEF Anchored, Moved
    <2>3. Paired'
      <3>1. ASSUME paired PROVE \A f \in Files : graph[f] = Layer(cache'[f])
        BY <1>0, <3>1 DEF Pairing, Paired
      <3> QED BY <3>1 DEF Paired, InStep
    <2> QED BY <2>1, <2>2, <2>3 DEF Pairing
  <1>9. saga'.token = saga.token /\ saga'.kind = saga.kind BY <1>1 DEF Moved
  <1> QED BY <1>3, <1>4, <1>5, <1>6, <1>7, <1>8, <1>9, GoesOn

LEMMA CheckStep ==
  ASSUME EditInv, ConsistencyCheck
  PROVE  EditInv'
  <1> USE DEF ConsistencyCheck, Goto, sidecar, audit
  <1>0. TypeOK /\ Kinds /\ Covered /\ Tree /\ Pairing BY DEF EditInv, Control
  <1>1. CASE ~Check
    <2>1. paired' = paired BY <1>0, <1>1 DEF TypeOK
    <2> QED BY <1>1, <2>1, Jumps
  <1>2. CASE Check
    <2>1. paired' => InStep(Files)'
      <3>1. paired => InStep(Files) BY <1>0 DEF Pairing, Paired, Between, Undoing
      <3>2. cache = disk => InStep(Files) BY <1>2 DEF Check, InStep
      <3> QED BY <1>2, <3>1, <3>2 DEF InStep
    <2>2. paired' => InStep(Files \ dirty)' BY <2>1 DEF InStep
    <2>3. paired' \in BOOLEAN BY <1>0 DEF TypeOK
    <2>4. CASE saga.kind = "bare"
      <3>1. pc' = "ready" /\ saga' = NoSaga BY <1>2, <2>4
      <3>2. TypeOK' BY <1>0, <2>3, <3>1, EmptyTypes DEF TypeOK
      <3>3. Paired' BY <2>1, <2>2, <3>1 DEF Paired
      <3> QED BY <3>1, <3>2, <3>3, Rests DEF Idle
    <2>5. CASE saga.kind # "bare"
      <3>1. pc' = "persist" /\ saga' = saga BY <1>2, <2>5
      <3>2. TypeOK' BY <1>0, <2>3, <3>1 DEF TypeOK
      <3>3. ~Idle /\ ~Idle' /\ Touched' = Touched BY <3>1 DEF Idle, Touched
      <3>4. Kinds'
        <4>1. saga.kind # "none" BY <3>3 DEF EditInv, Control, Ledger, InSaga
        <4>2. saga.kind \in {"edit", "undo"} BY <1>0, <2>5, <4>1 DEF TypeOK, Sagas
        <4> QED BY <1>0, <3>1, <4>2 DEF Kinds, Recording
      <3>5. Covered' BY <1>0, <3>1, <3>3 DEF Covered, Undoing
      <3>6. Tree'
        <4>1. ASSUME NEW g \in Touched PROVE OldOrNew(g)'
          BY <1>0, <3>1, <4>1 DEF Tree, OldOrNew, Undoing
        <4>2. Exact' BY <1>2, <3>1 DEF Exact, Check
        <4> QED BY <3>3, <4>1, <4>2 DEF Tree
      <3>7. saga.committed BY <1>0 DEF Pairing, Commits
      <3>8. Marks' /\ Commits' /\ Anchored' BY <3>1, <3>7 DEF Marks, Commits, Anchored
      <3>9. Paired' BY <2>1, <2>2, <3>1 DEF Paired
      <3>10. Pairing' BY <3>8, <3>9 DEF Pairing
      <3> QED BY <3>1, <3>2, <3>3, <3>4, <3>5, <3>6, <3>10, GoesOn
    <2> QED BY <2>4, <2>5
  <1> QED BY <1>1, <1>2

(* The steps of the change record leave tree and index alone.              *)
LEMMA RecordingFrame ==
  ASSUME EditInv, Recording, Recording', saga' = saga, UNCHANGED <<disk, graph, sidecar, ghosts>>
  PROVE  Kinds' /\ Covered' /\ Tree' /\ Pairing'
  <1> USE DEF sidecar, ghosts
  <1>0. Kinds /\ Covered /\ Tree /\ Pairing BY DEF EditInv, Control
  <1>1. pc \in {"persist", "persist_sources", "record"} /\ pc' \in {"persist", "persist_sources", "record"}
    BY DEF Recording
  <1>2. Touched' = Touched BY DEF Touched
  <1>3. Kinds' BY <1>0, <1>1 DEF Kinds
  <1>4. Covered' BY <1>0, <1>1, <1>2 DEF Covered, Undoing
  <1>5. ASSUME NEW g \in Touched PROVE OldOrNew(g)' BY <1>0, <1>1, <1>5 DEF Tree, OldOrNew, Undoing
  <1>6. Exact' BY <1>0 DEF Tree, Exact
  <1>7. Tree' BY <1>2, <1>5, <1>6 DEF Tree
  <1>8. Marks' /\ Commits' BY <1>0, <1>1 DEF Pairing, Marks, Commits
  <1>9. Anchored' BY <1>0, <1>1 DEF Pairing, Anchored, Idle
  <1>10. Paired' BY <1>0, <1>1 DEF Pairing, Paired, InStep, Between, Undoing
  <1> QED BY <1>3, <1>4, <1>7, <1>8, <1>9, <1>10 DEF Pairing

LEMMA NotRecordedStep ==
  ASSUME EditInv, Recording, NotRecorded, UNCHANGED <<disk, graph, sidecar, ghosts>>
  PROVE  EditInv'
  <1> USE DEF NotRecorded, Goto, sidecar, ghosts, audit
  <1>0. TypeOK /\ Pairing BY DEF EditInv
  <1>1. CASE saga.kind = "undo" BY <1>1, Jumps
  <1>2. CASE saga.kind # "undo"
    <2>1. pc' = "ready" /\ saga' = NoSaga BY <1>2
    <2>2. left' \in [Bounds -> Nat] /\ left'["sagas"] = left["sagas"] BY <1>0, FaultSpent
    <2>3. TypeOK' BY <1>0, <2>1, <2>2, EmptyTypes DEF TypeOK, Bounds
    <2>4. Paired' BY <1>0, <2>1 DEF Pairing, Paired, InStep, Between, Undoing, Recording
    <2> QED BY <2>1, <2>2, <2>3, <2>4, Rests DEF Idle
  <1> QED BY <1>1, <1>2

LEMMA PersistStep ==
  ASSUME EditInv, persistUndoArtifacts
  PROVE  EditInv'
  <1> USE DEF persistUndoArtifacts, Goto
  <1>0. TypeOK /\ Ledger /\ Recording BY DEF EditInv, Control, Recording
  <1>1. CASE NotRecorded BY <1>0, <1>1, NotRecordedStep
  <1>2. CASE ~NotRecorded
    <2>1. /\ undoStore' = [undoStore EXCEPT ![saga.token].snapshot = saga.snapshot]
          /\ pc' = "persist_sources" /\ records' = records /\ saga' = saga /\ left' = left
      BY <1>2
    <2>2. ~Idle /\ ~Idle' /\ Recording' /\ saga.token \in Tokens
      BY <1>0, <2>1 DEF Idle, Recording, Ledger, InSaga
    <2>3. undoStore'[saga.token] = [undoStore[saga.token] EXCEPT !.snapshot = saga.snapshot]
      BY <1>0, <2>1, <2>2 DEF TypeOK
    <2>4. undoStore[saga.token] \in Entries /\ saga.snapshot \in Graphs BY <1>0, <2>2 DEF TypeOK, Sagas
    <2>5. undoStore'[saga.token] \in Entries /\ undoStore'[saga.token].whole = undoStore[saga.token].whole
      BY <2>3, <2>4 DEF Entries
    <2>6. \A t \in Tokens : undoStore[t].whole => undoStore'[t].whole BY <1>0, <2>1, <2>5 DEF TypeOK
    <2>7. undoStore' \in [Tokens -> Entries] BY <1>0, <2>1, <2>3, <2>5 DEF TypeOK
    <2>8. TypeOK' BY <1>0, <2>1, <2>7 DEF TypeOK, sidecar, ghosts
    <2>9. Ledger' BY <1>0, <2>1, <2>2, <2>6, LedgerFrame
    <2> QED BY <1>0, <2>1, <2>2, <2>8, <2>9, RecordingFrame DEF EditInv, Control
  <1> QED BY <1>1, <1>2

LEMMA PersistSourcesStep ==
  ASSUME EditInv, persistUndoSources
  PROVE  EditInv'
  <1> USE DEF persistUndoSources, Goto
  <1>0. TypeOK /\ Ledger /\ Recording BY DEF EditInv, Control, Recording
  <1>1. CASE NotRecorded BY <1>0, <1>1, NotRecordedStep
  <1>2. CASE ~NotRecorded
    <2>1. /\ undoStore' = [undoStore EXCEPT ![saga.token].sources = saga.originals, ![saga.token].whole = TRUE]
          /\ pc' = "record" /\ records' = records /\ saga' = saga /\ left' = left
      BY <1>2
    <2>2. ~Idle /\ ~Idle' /\ Recording' /\ saga.token \in Tokens
      BY <1>0, <2>1 DEF Idle, Recording, Ledger, InSaga
    <2>3. undoStore'[saga.token] = [undoStore[saga.token] EXCEPT !.sources = saga.originals, !.whole = TRUE]
      BY <1>0, <2>1, <2>2 DEF TypeOK
    <2>4. undoStore[saga.token] \in Entries /\ saga.originals \in Trees BY <1>0, <2>2 DEF TypeOK, Sagas
    <2>5. undoStore'[saga.token] \in Entries /\ undoStore'[saga.token].whole = TRUE
      BY <2>3, <2>4 DEF Entries
    <2>6. \A t \in Tokens : t # saga.token => undoStore'[t] = undoStore[t] BY <1>0, <2>1 DEF TypeOK
    <2>7. \A t \in Tokens : undoStore[t].whole => undoStore'[t].whole BY <2>5, <2>6
    <2>8. undoStore' \in [Tokens -> Entries] BY <1>0, <2>1, <2>5, <2>6 DEF TypeOK
    <2>9. TypeOK' BY <1>0, <2>1, <2>8 DEF TypeOK, sidecar, ghosts
    <2>10. Ledger' BY <1>0, <2>1, <2>2, <2>5, <2>7, LedgerFrame
    <2> QED BY <1>0, <2>1, <2>2, <2>9, <2>10, RecordingFrame DEF EditInv, Control
  <1> QED BY <1>1, <1>2

LEMMA RecordStep ==
  ASSUME EditInv, record
  PROVE  EditInv'
  <1> USE DEF record, Goto
  <1>0. TypeOK /\ Ledger /\ Kinds /\ Recording /\ Pairing BY DEF EditInv, Control, Recording
  <1>1. CASE NotRecorded BY <1>0, <1>1, NotRecordedStep
  <1>2. CASE ~NotRecorded
    <2>1. /\ records' = [records EXCEPT ![saga.token] = saga.kind]
          /\ pc' = "ready" /\ saga' = NoSaga /\ undoStore' = undoStore /\ left' = left
      BY <1>2
    <2>2. saga.token = Used /\ saga.token \in Tokens /\ saga.kind \in {"edit", "undo"}
      BY <1>0 DEF Ledger, InSaga, Idle, Recording, Kinds
    <2>3. TypeOK' BY <1>0, <2>1, <2>2, EmptyTypes DEF TypeOK, sidecar, ghosts
    <2>4. \A t \in Tokens : t # saga.token => records'[t] = records[t] BY <1>0, <2>1 DEF TypeOK
    <2>5. Idle' /\ Used' = Used /\ Used \in Int BY <2>1, <2>2 DEF Idle, Used, Tokens
    <2>6. Ledger'
      <3>1. InSaga' BY <1>0, <2>1, <2>5 DEF Ledger, InSaga
      <3>2. Minted' BY <1>0, <2>2, <2>4, <2>5 DEF Ledger, Minted, Tokens
      <3>3. Stored' BY <1>0, <2>1, <2>4 DEF Ledger, Stored, RecordsUsable
      <3> QED BY <3>1, <3>2, <3>3 DEF Ledger
    <2>7. Paired' BY <1>0, <2>1 DEF Pairing, Paired, InStep, Between, Undoing, Recording, sidecar, ghosts
    <2> QED BY <2>1, <2>3, <2>5, <2>6, <2>7, AtRest DEF EditInv, Control, Pairing
  <1> QED BY <1>1, <1>2

LEMMA RestoreStep ==
  ASSUME EditInv, NEW f \in Files, RestoreFile(f)
  PROVE  EditInv'
  <1> USE DEF RestoreFile, sidecar, audit, ghosts
  <1>0. /\ TypeOK /\ Kinds /\ Covered /\ Tree /\ Pairing /\ pc = "restore" /\ pc' = "restore" /\ f \in Touched
        /\ graph' = graph /\ cache' = cache /\ dirty' = dirty /\ paired' = paired
    BY DEF EditInv, Control, Covered
  <1>1. left' \in [Bounds -> Nat] /\ left'["sagas"] = left["sagas"] BY <1>0, FaultSpent
  <1>2. saga.written \ {f} \in SUBSET Files BY <1>0 DEF TypeOK, Sagas
  <1>3. \E b \in BOOLEAN :
          /\ Moved(saga.todo, saga.parsed, saga.written \ {f}, b, saga.committed, saga.disturbed)
          /\ \/ b = saga.failed /\ disk' = [disk EXCEPT ![f] = saga.originals[f]]
             \/ b = TRUE /\ disk' = disk
    <2>1. saga.failed \in BOOLEAN BY <1>0 DEF TypeOK, Sagas
    <2> QED BY <1>0, <1>2, <2>1, MovedWritten, MovedFailed
  <1>4. PICK b \in BOOLEAN :
          /\ Moved(saga.todo, saga.parsed, saga.written \ {f}, b, saga.committed, saga.disturbed)
          /\ \/ b = saga.failed /\ disk' = [disk EXCEPT ![f] = saga.originals[f]]
             \/ b = TRUE /\ disk' = disk
    BY <1>3
  <1>5. saga.originals[f] \in Contents
    <2>1. saga.originals \in Trees /\ f \in DOMAIN saga.originals BY <1>0 DEF TypeOK, Sagas, Covered
    <2> QED BY <2>1, TreeDomain
  <1>6. TypeOK' BY <1>0, <1>1, <1>4, <1>5 DEF TypeOK, Moved, Bounds
  <1>7. ~Idle /\ ~Idle' /\ Touched' = Touched BY <1>0, <1>4 DEF Idle, Touched, Moved
  <1>8. Kinds' BY <1>0, <1>4 DEF Kinds, Recording, Moved
  <1>9. Covered' BY <1>0, <1>4, <1>7 DEF Covered, Undoing, Moved
  <1>10. Tree'
    <2>1. ASSUME NEW g \in Touched PROVE OldOrNew(g)'
      <3>1. OldOrNew(g) BY <1>0 DEF Tree
      <3>2. CASE disk'[g] = disk[g] /\ (g # f \/ b = TRUE)
        BY <1>0, <1>4, <3>1, <3>2 DEF OldOrNew, Moved, Undoing
      <3>3. CASE g = f /\ disk'[g] = saga.originals[g]
        BY <1>0, <1>4, <3>3 DEF OldOrNew, Moved, Undoing
      <3>4. disk \in [Files -> Contents] BY <1>0 DEF TypeOK
      <3>5. CASE b = TRUE /\ disk' = disk BY <3>2, <3>5
      <3>6. CASE disk' = [disk EXCEPT ![f] = saga.originals[f]]
        <4>1. disk'[f] = saga.originals[f] BY <3>4, <3>6
        <4>2. g # f => disk'[g] = disk[g] BY <3>4, <3>6
        <4>3. CASE g = f
          <5>1. disk'[g] = saga.originals[g] BY <4>1, <4>3
          <5> QED BY <3>3, <4>3, <5>1
        <4>4. CASE g # f
          <5>1. disk'[g] = disk[g] BY <4>2, <4>4
          <5> QED BY <3>2, <4>4, <5>1
        <4> QED BY <4>3, <4>4
      <3> QED BY <1>4, <3>5, <3>6
    <2> QED BY <1>0, <1>7, <2>1 DEF Tree, Exact, Recording
  <1>11. Pairing'
    <2>1. Marks' /\ Commits' BY <1>0 DEF Marks, Commits, Recording
    <2>2. Anchored' BY <1>0, <1>4, <1>7 DEF Pairing, Anchored, Moved
    <2>3. Paired' BY <1>0, <1>4 DEF Pairing, Paired, InStep, Between, Undoing, Moved
    <2> QED BY <2>1, <2>2, <2>3 DEF Pairing
  <1>12. saga'.token = saga.token /\ saga'.kind = saga.kind BY <1>4 DEF Moved
  <1> QED BY <1>0, <1>1, <1>6, <1>7, <1>8, <1>9, <1>10, <1>11, <1>12, GoesOn

LEMMA LoadSnapshotStep ==
  ASSUME EditInv, LoadSnapshot
  PROVE  EditInv'
  <1> USE DEF LoadSnapshot, Goto, sidecar, audit
  <1>0. TypeOK /\ Pairing /\ pc = "load" /\ pc' = "ready" /\ saga' = NoSaga /\ cache' = cache
    BY DEF EditInv
  <1>1. left' \in [Bounds -> Nat] /\ left'["sagas"] = left["sagas"] BY <1>0, FaultSpent
  <1>2. saga.snapshot \in Graphs /\ {saga.failed, saga.paired, saga.committed} \subseteq BOOLEAN
    BY <1>0 DEF TypeOK, Sagas
  <1>3. TypeOK' BY <1>0, <1>1, <1>2, EmptyTypes DEF TypeOK, Bounds, Restored
  <1>4. ~saga.committed /\ saga.paired => \A f \in Files : saga.snapshot[f] = Layer(cache[f])
    BY <1>0 DEF Pairing, Anchored, Idle
  <1>5. paired' => \A f \in Files : graph'[f] = Layer(cache[f])
    <2>1. CASE graph' = Restored /\ paired' = (saga.paired /\ ~saga.committed)
      BY <1>4, <2>1 DEF Restored
    <2>2. CASE graph' = graph /\ paired' = (paired /\ graph = saga.snapshot)
      <3>1. CASE saga.committed
        BY <1>0, <2>2, <3>1 DEF Pairing, Paired, Between, Undoing, InStep
      <3>2. CASE ~saga.committed
        <4>1. paired => saga.paired BY <1>0, <3>2 DEF Pairing, Anchored, Idle
        <4> QED BY <1>4, <2>2, <3>2, <4>1
      <3> QED BY <3>1, <3>2
    <2> QED BY <2>1, <2>2
  <1>6. Paired' BY <1>0, <1>5 DEF Paired, InStep
  <1> QED BY <1>0, <1>1, <1>3, <1>6, Rests DEF Idle

LEMMA EditStep == EditInv /\ [Next]_vars => EditInv'
  <1> SUFFICES ASSUME EditInv, [Next]_vars PROVE EditInv' OBVIOUS
  <1>1. CASE UNCHANGED vars
    BY <1>1 DEF vars, EditInv, TypeOK, Control, Ledger, InSaga, Minted, Stored, RecordsUsable, Kinds, Covered, Tree,
       OldOrNew, Exact, Pairing, Marks, Commits, Anchored, Paired, InStep, Between, Idle, Recording, Undoing, Used,
       Touched
  <1> QED BY <1>1, UserWritesStep, ClientStep, CloseStep, DieStep, applyBatchStep, UndoStep, WriteStep, RestoreStep,
             AllWrittenStep, LoadOldStep, MarkStep, CommitGraphStep, CommitSidecarStep, CheckStep, PersistStep,
             PersistSourcesStep, RecordStep, AllRestoredStep, LoadSnapshotStep, StepFailsStep
      DEF Next, Step

LEMMA EditInit == Init => EditInv
  <1> SUFFICES ASSUME Init PROVE EditInv OBVIOUS
  <1> USE DEF Init
  <1>1. graph \in Graphs BY LayerType DEF Graphs
  <1>2. left \in [Bounds -> Nat] /\ left["sagas"] = MaxSagas
    <2>1. left = [k \in Bounds |-> left[k]] BY DEF Bounds
    <2>2. \A k \in Bounds : left[k] \in Nat BY EditAssumption DEF Bounds
    <2> QED BY <2>1, <2>2
  <1>3. TypeOK BY <1>1, <1>2, EmptyTypes DEF TypeOK, Bounds
  <1>4. Ledger
    <2>1. InSaga BY <1>2, EditAssumption DEF InSaga, Idle
    <2> QED BY <2>1 DEF Ledger, Minted, Stored, RecordsUsable, Idle
  <1>5. Touched = {} /\ saga.kind = "none" /\ saga.written = {} /\ DOMAIN saga.originals = {}
    BY DEF Touched, NoSaga, NoTree
  <1>6. Kinds /\ Covered /\ Tree BY <1>5 DEF Kinds, Covered, Tree, Exact, Recording, Undoing
  <1>7. Pairing BY DEF Pairing, Marks, Commits, Anchored, Paired, InStep, Between, Recording, Idle
  <1> QED BY <1>3, <1>4, <1>6, <1>7 DEF EditInv, Control

(***************************************************************************)
(* The refinement.                                                         *)
(***************************************************************************)

LEMMA SeenIdle ==
  ASSUME saga = NoSaga, Idle
  PROVE  /\ SeenFiles = [f \in Files |-> disk[f]] /\ SeenIndex = graph /\ SeenRequest = Edits!None
         /\ ~Undecided
  <1>1. saga.kind = "none" /\ ~Undecided BY DEF NoSaga, Undecided, Idle
  <1> QED BY <1>1 DEF SeenFiles, SeenIndex, SeenRequest, Edits!None

LEMMA SeenIdleNext ==
  ASSUME saga' = NoSaga, Idle'
  PROVE  /\ SeenFiles' = [f \in Files |-> disk'[f]] /\ SeenIndex' = graph' /\ SeenRequest' = Edits!None
         /\ ~Undecided'
  <1>1. saga'.kind = "none" /\ ~Undecided' BY DEF NoSaga, Undecided, Idle
  <1> QED BY <1>1 DEF SeenFiles, SeenIndex, SeenRequest, Edits!None

(* A request that is not decided yet.                                      *)
LEMMA SeenPending ==
  ASSUME EditInv, Undecided
  PROVE  /\ SeenRequest = [id |-> saga.token, touched |-> Touched, new |-> saga.new,
                           disturbed |-> saga.disturbed, state |-> "pending"]
         /\ SeenIndex = saga.snapshot
         /\ SeenFiles = [f \in Files |-> IF f \in Touched THEN saga.originals[f] ELSE disk[f]]
         /\ SeenRequest # Edits!None
  <1>1. saga.kind # "none" BY DEF EditInv, Control, Ledger, InSaga, Undecided, Idle
  <1> QED BY <1>1 DEF SeenFiles, SeenIndex, SeenRequest, Edits!None

(* An edit that has passed its check.                                      *)
LEMMA SeenAccepted ==
  ASSUME EditInv, ~Idle, ~Undecided
  PROVE  /\ SeenRequest = [id |-> saga.token, touched |-> Touched, new |-> saga.new,
                           disturbed |-> {}, state |-> "accepted"]
         /\ SeenIndex = graph
         /\ SeenFiles = [f \in Files |-> disk[f]]
         /\ SeenRequest # Edits!None
  <1>1. saga.kind # "none" BY DEF EditInv, Control, Ledger, InSaga
  <1> QED BY <1>1 DEF SeenFiles, SeenIndex, SeenRequest, Edits!None

(* A client sees nothing of the steps of a saga.                           *)
SameSeen ==
  SeenFiles' = SeenFiles /\ SeenIndex' = SeenIndex /\ SeenRequest' = SeenRequest /\ SeenLog' = SeenLog /\ whole' = whole

LEMMA SeenSame ==
  ASSUME Undecided, Undecided', records' = records, whole' = whole,
         saga'.kind = saga.kind, saga'.token = saga.token, saga'.new = saga.new, saga'.originals = saga.originals,
         saga'.snapshot = saga.snapshot, saga'.disturbed = saga.disturbed,
         \A f \in Files : f \notin Touched => disk'[f] = disk[f]
  PROVE  SameSeen
  <1>1. Touched' = Touched BY DEF Touched
  <1>2. SeenFiles' = SeenFiles BY <1>1 DEF SeenFiles
  <1>3. SeenRequest' = SeenRequest BY <1>1 DEF SeenRequest
  <1> QED BY <1>2, <1>3 DEF SameSeen, SeenIndex, SeenLog

Implements == Edits!Next \/ SameSeen

LEMMA QuietSteps ==
  ASSUME EditInv,
         \/ (\E f \in Files : writeFileAtomic(f) \/ RestoreFile(f)) \/ AllWritten \/ LoadOldSnapshot \/ MarkDirty
         \/ CommitGraph \/ CommitSidecar \/ AllRestored \/ StepFails
  PROVE  SameSeen
  <1>0. TypeOK /\ Covered BY DEF EditInv, Control
  <1>1. Undecided /\ Undecided' /\ records' = records /\ whole' = whole
    BY DEF writeFileAtomic, RestoreFile, AllWritten, LoadOldSnapshot, MarkDirty, CommitGraph, CommitSidecar,
           AllRestored, StepFails, Goto, Undecided, audit, ghosts
  <1>2. \A f \in Files : f \notin Touched => disk'[f] = disk[f]
    BY <1>0 DEF writeFileAtomic, RestoreFile, AllWritten, LoadOldSnapshot, MarkDirty, CommitGraph, CommitSidecar,
           AllRestored, StepFails, TypeOK, Covered
  <1>3. /\ saga'.kind = saga.kind /\ saga'.token = saga.token /\ saga'.new = saga.new
        /\ saga'.originals = saga.originals /\ saga'.snapshot = saga.snapshot /\ saga'.disturbed = saga.disturbed
    <2>1. saga \in Sagas BY <1>0 DEF TypeOK
    <2> QED BY <2>1 DEF Sagas, writeFileAtomic, RestoreFile, AllWritten, LoadOldSnapshot, MarkDirty, CommitGraph,
                        CommitSidecar, AllRestored, StepFails
  <1> QED BY <1>1, <1>2, <1>3, SeenSame

LEMMA AskStep ==
  ASSUME EditInv, NEW new \in Trees, Begun(new), pc = "ready", Spend("sagas"), pc' = "write",
         UNCHANGED <<disk, graph, sidecar, audit, ghosts>>
  PROVE  Edits!Ask
  <1>0. TypeOK /\ Ledger /\ left["sagas"] <= MaxSagas /\ saga = NoSaga /\ Idle
    BY DEF EditInv, Control, Ledger, InSaga, Idle
  <1>1. Used' = Used + 1 /\ Used \in Nat /\ Used' \in Tokens BY <1>0, NextToken
  <1>2. Used' \notin SeenLog BY <1>0, <1>1 DEF SeenLog, Ledger, Minted
  <1>3. Touched' = DOMAIN new /\ Touched' \in SUBSET Files /\ new \in [DOMAIN new -> Contents]
    BY TreeDomain DEF Begun, Touched
  <1>4. Undecided' BY DEF Undecided
  <1>5. SeenRequest' = [id |-> Used', touched |-> DOMAIN new, new |-> new, disturbed |-> {}, state |-> "pending"]
    BY <1>3, <1>4 DEF SeenRequest, Begun
  <1>6. SeenFiles' = SeenFiles
    <2>1. SeenFiles = [f \in Files |-> disk[f]] BY <1>0, SeenIdle
    <2>2. \A f \in DOMAIN new : saga'.originals[f] = disk[f] BY DEF Begun
    <2> QED BY <1>3, <1>4, <2>1, <2>2 DEF SeenFiles
  <1>7. SeenIndex' = SeenIndex /\ SeenRequest = Edits!None BY <1>0, <1>4, SeenIdle DEF SeenIndex, Begun
  <1>8. SeenLog' = SeenLog /\ whole' = whole BY DEF SeenLog, audit, ghosts
  <1> QED BY <1>1, <1>2, <1>3, <1>5, <1>6, <1>7, <1>8 DEF Edits!Ask

LEMMA EndsTorn ==
  ASSUME EditInv, ~Idle, saga' = NoSaga, Idle', whole' = FALSE, disk' = disk, records' = records
  PROVE  Edits!Tear
  <1>0. TypeOK /\ Tree BY DEF EditInv
  <1>1. /\ SeenFiles' = [f \in Files |-> disk[f]] /\ SeenRequest' = Edits!None
    BY SeenIdleNext
  <1>2. /\ SeenRequest # Edits!None /\ SeenRequest.touched = Touched /\ SeenRequest.new = saga.new
        /\ \A f \in Files : SeenFiles[f] = IF Undecided /\ f \in Touched THEN saga.originals[f] ELSE disk[f]
    BY SeenPending, SeenAccepted DEF SeenFiles
  <1>3. \A f \in Touched : disk[f] \in {saga.originals[f], saga.new[f]} BY <1>0 DEF Tree, OldOrNew
  <1>4. \A f \in Files : SeenFiles'[f] = SeenFiles[f] \/ (f \in SeenRequest.touched /\ SeenFiles'[f] = SeenRequest.new[f])
    BY <1>1, <1>2, <1>3
  <1>5. SeenLog' = SeenLog BY DEF SeenLog
  <1> QED BY <1>1, <1>2, <1>4, <1>5 DEF Edits!Tear

LEMMA UserSeen ==
  ASSUME EditInv, NEW f \in Files, NEW c \in Contents, UserWrites(f, c)
  PROVE  Edits!UserWrites(f)
  <1> USE DEF UserWrites, audit, ghosts
  <1>0. TypeOK /\ pc' = pc /\ graph' = graph /\ f \notin Touched /\ disk' = [disk EXCEPT ![f] = c]
    BY DEF EditInv
  <1>1. disk' = [g \in Files |-> IF g = f THEN c ELSE disk[g]] BY <1>0 DEF TypeOK
  <1>2. SeenLog' = SeenLog /\ whole' = whole BY DEF SeenLog
  <1>3. CASE Idle
    <2>1. saga = NoSaga /\ saga' = NoSaga /\ Idle'
      BY <1>0, <1>3 DEF EditInv, Control, Ledger, InSaga, Idle
    <2>2. /\ SeenFiles = [g \in Files |-> disk[g]] /\ SeenIndex = graph /\ SeenRequest = Edits!None
          /\ SeenFiles' = [g \in Files |-> disk'[g]] /\ SeenIndex' = graph' /\ SeenRequest' = Edits!None
      BY <1>3, <2>1, SeenIdle, SeenIdleNext
    <2>3. SeenFiles' = [SeenFiles EXCEPT ![f] = c] BY <1>1, <2>2
    <2>4. SeenRequest.touched = {} /\ SeenRequest.state # "pending" BY <2>2 DEF Edits!None
    <2> QED BY <1>0, <1>2, <2>2, <2>3, <2>4 DEF Edits!UserWrites
  <1>4. CASE ~Idle
    <2>1. saga.disturbed \cup {f} \in SUBSET Files BY <1>0 DEF TypeOK, Sagas
    <2>2. Moved(saga.todo, saga.parsed, saga.written, saga.failed, saga.committed, saga.disturbed \cup {f})
      BY <1>0, <1>4, <2>1, MovedDisturbed DEF Idle
    <2>3. Touched' = Touched /\ Undecided' = Undecided BY <1>0, <2>2 DEF Touched, Undecided, Moved
    <2>4. \A g \in Files : SeenFiles'[g] = IF g = f THEN c ELSE SeenFiles[g]
      BY <1>0, <1>1, <2>2, <2>3 DEF SeenFiles, Moved
    <2>5. SeenFiles' = [SeenFiles EXCEPT ![f] = c]
      <3>1. SeenFiles' = [g \in Files |-> SeenFiles'[g]] /\ SeenFiles = [g \in Files |-> SeenFiles[g]] BY DEF SeenFiles
      <3> QED BY <2>4, <3>1
    <2>6. SeenIndex' = SeenIndex BY <1>0, <2>2, <2>3 DEF SeenIndex, Moved
    <2>7. saga.kind # "none" BY <1>4 DEF EditInv, Control, Ledger, InSaga
    <2>8. CASE Undecided
      <3>1. SeenRequest = [id |-> saga.token, touched |-> Touched, new |-> saga.new,
                           disturbed |-> saga.disturbed, state |-> "pending"]
        BY <2>8, SeenPending
      <3>2. SeenRequest' = [id |-> saga.token, touched |-> Touched, new |-> saga.new,
                            disturbed |-> saga.disturbed \cup {f}, state |-> "pending"]
        BY <2>2, <2>3, <2>7, <2>8 DEF SeenRequest, Moved
      <3>3. SeenRequest' = [SeenRequest EXCEPT !.disturbed = @ \cup {f}] /\ SeenRequest.state = "pending"
            /\ f \notin SeenRequest.touched
        BY <1>0, <3>1, <3>2
      <3> QED BY <1>0, <1>2, <2>5, <2>6, <3>3 DEF Edits!UserWrites
    <2>9. CASE ~Undecided
      <3>1. SeenRequest.state = "accepted" BY <1>4, <2>9, SeenAccepted
      <3>2. SeenRequest' = SeenRequest BY <2>2, <2>3, <2>7, <2>9 DEF SeenRequest, Moved
      <3> QED BY <1>0, <1>2, <2>5, <2>6, <3>1, <3>2 DEF Edits!UserWrites
    <2> QED BY <2>8, <2>9
  <1> QED BY <1>3, <1>4

LEMMA ClientSeen ==
  ASSUME EditInv, makeEditorClient
  PROVE  Edits!FullPass
  <1> USE DEF makeEditorClient, Goto, audit
  <1>1. saga = NoSaga /\ Idle /\ saga' = NoSaga /\ Idle' BY DEF EditInv, Control, Ledger, InSaga, Idle
  <1>2. /\ SeenFiles = [f \in Files |-> disk[f]] /\ SeenRequest = Edits!None
        /\ SeenFiles' = [f \in Files |-> disk[f]] /\ SeenIndex' = graph' /\ SeenRequest' = Edits!None
    BY <1>1, SeenIdle, SeenIdleNext
  <1>3. SeenIndex' = Edits!Exact(SeenFiles) BY <1>2 DEF Edits!Exact
  <1>4. SeenLog' = SeenLog BY DEF SeenLog
  <1> QED BY <1>2, <1>3, <1>4 DEF Edits!FullPass

LEMMA RestSeen ==
  ASSUME EditInv, Idle, Idle', saga' = NoSaga, UNCHANGED <<disk, graph, records, whole>>
  PROVE  SameSeen
  <1>1. saga = NoSaga BY DEF EditInv, Control, Ledger, InSaga
  <1> QED BY <1>1, SeenIdle, SeenIdleNext DEF SameSeen, SeenLog

LEMMA DieSeen ==
  ASSUME EditInv, Die
  PROVE  Implements
  <1> USE DEF Die, Goto, audit
  <1>0. saga' = NoSaga /\ Idle' /\ TypeOK BY DEF Idle, EditInv
  <1>1. CASE pc = "ready"
    <2>1. Idle /\ whole' = whole BY <1>0, <1>1 DEF Idle, TypeOK
    <2> QED BY <1>0, <2>1, RestSeen DEF Implements
  <1>2. CASE pc # "ready"
    <2>1. ~Idle /\ whole' = FALSE BY <1>2 DEF Idle
    <2> QED BY <1>0, <2>1, EndsTorn DEF Implements, Edits!Next
  <1> QED BY <1>1, <1>2

(* An accepted edit or undo: the new files are on disk, and the index is   *)
(* exact but for files that users wrote.                                   *)
LEMMA Accepts ==
  ASSUME EditInv, Undecided, ~Undecided', pc \notin {"write", "restore", "load"},
         UNCHANGED <<disk, graph, whole>>,
         \A f \in Files \ saga.disturbed : graph[f] = Layer(disk[f]),
         \/ SeenRequest' = [SeenRequest EXCEPT !.state = "accepted", !.disturbed = {}] /\ SeenLog' = SeenLog
         \/ SeenRequest' = Edits!None /\ SeenLog' \in {SeenLog, SeenLog \cup {SeenRequest.id}}
  PROVE  Edits!Accept
  <1>0. TypeOK /\ Tree /\ ~Undoing BY DEF EditInv, Undoing
  <1>1. /\ SeenRequest = [id |-> saga.token, touched |-> Touched, new |-> saga.new,
                          disturbed |-> saga.disturbed, state |-> "pending"]
        /\ SeenFiles = [f \in Files |-> IF f \in Touched THEN saga.originals[f] ELSE disk[f]]
    BY SeenPending
  <1>2. SeenRequest.touched = Touched /\ SeenRequest.new = saga.new /\ SeenRequest.disturbed = saga.disturbed
        /\ SeenRequest.state = "pending"
    BY <1>1
  <1>3. SeenFiles' = [f \in Files |-> disk[f]] /\ SeenIndex' = graph BY DEF SeenFiles, SeenIndex
  <1>4. \A f \in Touched : disk[f] = saga.new[f] BY <1>0 DEF Tree, OldOrNew
  <1>5. SeenFiles' = [f \in Files |-> IF f \in SeenRequest.touched THEN SeenRequest.new[f] ELSE SeenFiles[f]]
    BY <1>1, <1>2, <1>3, <1>4
  <1>6. SeenIndex' \in [Files -> SUBSET Contents] BY <1>0, <1>3 DEF TypeOK, Graphs
  <1>7. \A f \in Files \ SeenRequest.disturbed : SeenIndex'[f] = Layer(SeenFiles'[f]) BY <1>2, <1>3
  <1> QED BY <1>2, <1>5, <1>6, <1>7 DEF Edits!Accept

LEMMA CheckSeen ==
  ASSUME EditInv, ConsistencyCheck
  PROVE  Implements
  <1> USE DEF ConsistencyCheck, Goto, audit
  <1>0. TypeOK /\ Undecided /\ SeenLog' = SeenLog BY DEF EditInv, Undecided, SeenLog
  <1>1. CASE ~Check \/ saga.kind = "undo"
    <2>1. Undecided' /\ saga' = saga BY <1>1 DEF Undecided
    <2>2. SameSeen BY <1>0, <2>1, SeenSame
    <2> QED BY <2>2 DEF Implements
  <1>2. CASE Check /\ saga.kind # "undo"
    <2>1. \A f \in Files \ saga.disturbed : graph[f] = Layer(disk[f]) BY <1>2 DEF Check
    <2>2. CASE saga.kind = "bare"
      <3>1. saga' = NoSaga /\ Idle' BY <1>2, <2>2 DEF Idle
      <3>2. SeenRequest' = Edits!None /\ ~Undecided' BY <3>1, SeenIdleNext
      <3>3. Edits!Accept BY <1>0, <2>1, <3>2, Accepts
      <3> QED BY <3>3 DEF Implements, Edits!Next
    <2>3. CASE saga.kind # "bare"
      <3>1. pc' = "persist" /\ saga' = saga BY <1>2, <2>3
      <3>2. ~Undecided' /\ Touched' = Touched BY <1>2, <3>1 DEF Undecided, Touched
      <3>3. saga.kind # "none" BY DEF EditInv, Control, Ledger, InSaga, Idle
      <3>4. SeenRequest' = [SeenRequest EXCEPT !.state = "accepted", !.disturbed = {}]
        <4>1. SeenRequest = [id |-> saga.token, touched |-> Touched, new |-> saga.new,
                             disturbed |-> saga.disturbed, state |-> "pending"]
          BY <1>0, SeenPending
        <4> DEFINE none == {}
        <4>2. SeenRequest' = [id |-> saga.token, touched |-> Touched, new |-> saga.new,
                              disturbed |-> none, state |-> "accepted"]
          BY <3>1, <3>2, <3>3 DEF SeenRequest
        <4> HIDE DEF none
        <4>3. SeenRequest' = [SeenRequest EXCEPT !.state = "accepted", !.disturbed = none]
          <5> DEFINE s == [id |-> saga.token, touched |-> Touched, new |-> saga.new,
                           disturbed |-> saga.disturbed, state |-> "accepted"]
          <5>1. [SeenRequest EXCEPT !.state = "accepted"] = s BY ONLY <4>1
          <5>2. [s EXCEPT !.disturbed = none] = SeenRequest' BY ONLY <4>2
          <5> QED BY ONLY <5>1, <5>2
        <4> QED BY <4>3 DEF none
      <3>5. Edits!Accept BY <1>0, <2>1, <3>2, <3>4, Accepts
      <3> QED BY <3>5 DEF Implements, Edits!Next
    <2> QED BY <2>2, <2>3
  <1> QED BY <1>1, <1>2

(* The steps of the change record.                                         *)
LEMMA RecordSeen ==
  ASSUME EditInv, persistUndoArtifacts \/ persistUndoSources \/ record
  PROVE  Implements
  <1>0. /\ TypeOK /\ Tree /\ Recording /\ ~Idle /\ UNCHANGED <<disk, graph, whole>>
        /\ Undecided <=> saga.kind = "undo"
    BY DEF EditInv, Recording, Idle, Undecided, persistUndoArtifacts, persistUndoSources, record, sidecar, ghosts
  <1>1. CASE NotRecorded
    <2>1. SeenLog' = SeenLog /\ records' = records BY <1>1 DEF NotRecorded, audit, SeenLog
    <2>2. CASE saga.kind = "undo"
      <3>1. saga' = saga /\ Undecided' BY <1>1, <2>2 DEF NotRecorded, Goto, Undecided
      <3>2. SameSeen BY <1>0, <2>1, <2>2, <3>1, SeenSame
      <3> QED BY <3>2 DEF Implements
    <2>3. CASE saga.kind # "undo"
      <3>1. saga' = NoSaga /\ Idle' BY <1>1, <2>3 DEF NotRecorded, Goto, Idle
      <3>2. /\ SeenFiles' = [f \in Files |-> disk'[f]] /\ SeenIndex' = graph' /\ SeenRequest' = Edits!None
        BY <3>1, SeenIdleNext
      <3>3. SeenRequest.state = "accepted" /\ SeenIndex = graph /\ SeenFiles = [f \in Files |-> disk[f]]
        BY <1>0, <2>3, SeenAccepted
      <3>4. Edits!Record BY <1>0, <2>1, <3>2, <3>3 DEF Edits!Record
      <3> QED BY <3>4 DEF Implements, Edits!Next
    <2> QED BY <2>2, <2>3
  <1>2. CASE ~NotRecorded /\ pc # "record"
    <2>1. saga' = saga /\ records' = records /\ pc' \in {"persist_sources", "record"}
      BY <1>2 DEF persistUndoArtifacts, persistUndoSources, record, Goto
    <2>2. Undecided' = Undecided /\ Touched' = Touched BY <1>0, <2>1 DEF Undecided, Recording, Touched
    <2>3. SameSeen BY <1>0, <2>1, <2>2 DEF SameSeen, SeenFiles, SeenIndex, SeenRequest, SeenLog
    <2> QED BY <2>3 DEF Implements
  <1>3. CASE ~NotRecorded /\ pc = "record"
    <2>1. saga' = NoSaga /\ Idle' /\ records' = [records EXCEPT ![saga.token] = saga.kind]
      BY <1>3 DEF persistUndoArtifacts, persistUndoSources, record, Goto, Idle
    <2>2. saga.token \in Tokens /\ saga.kind \in {"edit", "undo"}
      BY <1>0 DEF EditInv, Control, Ledger, InSaga, Kinds
    <2>3. SeenLog' = SeenLog \cup {saga.token}
      <3>1. \A t \in Tokens : records'[t] = IF t = saga.token THEN saga.kind ELSE records[t]
        BY <1>0, <2>1 DEF TypeOK
      <3> QED BY <2>2, <3>1 DEF SeenLog
    <2>4. /\ SeenFiles' = [f \in Files |-> disk'[f]] /\ SeenIndex' = graph' /\ SeenRequest' = Edits!None
          /\ ~Undecided'
      BY <2>1, SeenIdleNext
    <2>5. SeenRequest.id = saga.token BY <1>0, SeenPending, SeenAccepted
    <2>6. CASE saga.kind = "undo"
      <3>1. \A f \in Files \ saga.disturbed : graph[f] = Layer(disk[f]) BY <1>0, <2>6 DEF Tree, Exact
      <3>2. Edits!Accept BY <1>0, <1>3, <2>3, <2>4, <2>5, <2>6, <3>1, Accepts
      <3> QED BY <3>2 DEF Implements, Edits!Next
    <2>7. CASE saga.kind # "undo"
      <3>1. SeenRequest.state = "accepted" /\ SeenIndex = graph /\ SeenFiles = [f \in Files |-> disk[f]]
        BY <1>0, <2>7, SeenAccepted
      <3>2. Edits!Record BY <1>0, <2>3, <2>4, <2>5, <3>1 DEF Edits!Record
      <3> QED BY <3>2 DEF Implements, Edits!Next
    <2> QED BY <2>6, <2>7
  <1> QED BY <1>1, <1>2, <1>3

LEMMA LoadSeen ==
  ASSUME EditInv, LoadSnapshot
  PROVE  Implements
  <1> USE DEF LoadSnapshot, Goto, audit
  <1>0. /\ TypeOK /\ Tree /\ Covered /\ ~Idle /\ Undecided /\ Undoing
        /\ saga' = NoSaga /\ Idle' /\ disk' = disk /\ records' = records
    BY DEF EditInv, Control, Idle, Undecided, Undoing
  <1>1. CASE whole' = FALSE BY <1>0, <1>1, EndsTorn DEF Implements, Edits!Next
  <1>2. CASE whole' # FALSE
    <2>1. graph' = saga.snapshot /\ whole' = whole /\ saga.failed = FALSE
      BY <1>0, <1>2 DEF Restored, TypeOK, Sagas
    <2>2. \A f \in Touched : disk[f] = saga.originals[f]
      BY <1>0, <2>1 DEF Tree, OldOrNew, Covered
    <2>3. /\ SeenFiles' = [f \in Files |-> disk[f]] /\ SeenIndex' = graph' /\ SeenRequest' = Edits!None
      BY <1>0, SeenIdleNext
    <2>4. /\ SeenRequest.state = "pending" /\ SeenIndex = saga.snapshot
          /\ SeenFiles = [f \in Files |-> IF f \in Touched THEN saga.originals[f] ELSE disk[f]]
      BY <1>0, SeenPending
    <2>5. SeenFiles' = SeenFiles BY <2>2, <2>3, <2>4
    <2>6. SeenLog' = SeenLog BY DEF SeenLog
    <2>7. Edits!Reject BY <2>1, <2>3, <2>4, <2>5, <2>6 DEF Edits!Reject
    <2> QED BY <2>7 DEF Implements, Edits!Next
  <1> QED BY <1>1, <1>2

LEMMA EditsStep == EditInv /\ [Next]_vars => [Edits!Next]_(Edits!avars)
  <1> SUFFICES ASSUME EditInv, [Next]_vars PROVE Implements BY DEF Implements, SameSeen, Edits!avars
  <1>1. CASE UNCHANGED vars
    BY <1>1 DEF vars, Implements, SameSeen, SeenFiles, SeenIndex, SeenRequest, SeenLog, Undecided, Touched
  <1>2. CASE applyBatch
    <2>1. \E new \in Trees : Begun(new) BY <1>2, EditBegins DEF EditInv, Control, Ledger, InSaga
    <2> QED BY <1>2, <2>1, AskStep DEF applyBatch, Goto, Implements, Edits!Next
  <1>3. ASSUME NEW t \in Tokens, Undo(t) PROVE Implements
    <2>1. Begun(undoStore[t].sources) /\ undoStore[t].sources \in Trees
      BY <1>3, UndoBegins DEF EditInv, Control, Ledger, InSaga
    <2> QED BY <1>3, <2>1, AskStep DEF Undo, Goto, Implements, Edits!Next
  <1>4. ASSUME NEW f \in Files, NEW c \in Contents, UserWrites(f, c) PROVE Implements
    BY <1>4, UserSeen DEF Implements, Edits!Next
  <1>5. CASE makeEditorClient BY <1>5, ClientSeen DEF Implements, Edits!Next
  <1>6. CASE Close
    <2>1. saga = NoSaga /\ Idle /\ Idle' BY <1>6 DEF Close, Goto, Idle, EditInv, Control, Ledger, InSaga
    <2>2. saga' = NoSaga /\ UNCHANGED <<disk, graph, records, whole>> BY <1>6, <2>1 DEF Close, audit, ghosts
    <2> QED BY <2>1, <2>2, RestSeen DEF Implements
  <1> QED BY <1>1, <1>2, <1>3, <1>4, <1>5, <1>6, DieSeen, QuietSteps, CheckSeen, RecordSeen, LoadSeen
      DEF Next, Step, Implements

LEMMA EditsInit == Init => Edits!Init
  <1> SUFFICES ASSUME Init PROVE Edits!Init OBVIOUS
  <1>1. saga = NoSaga /\ Idle BY DEF Init, Idle
  <1>2. SeenFiles = [f \in Files |-> disk[f]] /\ SeenIndex = graph /\ SeenRequest = Edits!None BY <1>1, SeenIdle
  <1>3. SeenFiles \in [Files -> Contents] /\ SeenIndex = Edits!Exact(SeenFiles)
    BY <1>2 DEF Init, Edits!Exact
  <1>4. SeenLog = {} BY DEF Init, SeenLog
  <1> QED BY <1>2, <1>3, <1>4 DEF Init, Edits!Init

(***************************************************************************)
(* Theorems.                                                               *)
(***************************************************************************)

(* A record has its artifacts wherever the process dies: a token that a    *)
(* user holds can be undone.                                               *)
THEOREM EditRecordsUsable == Spec => []RecordsUsable
  <1>1. EditInv => RecordsUsable BY DEF EditInv, Control, Ledger, Stored
  <1> QED BY <1>1, EditInit, EditStep, PTL DEF Spec

(* While graph and sidecar are paired, a file whose index is wrong drifts  *)
(* from its cache row or is marked dirty, whichever step failed and        *)
(* wherever the process died.                                              *)
THEOREM EditRepairable == Spec => []Repairable
  <1>1. EditInv => Repairable
    BY DEF EditInv, Pairing, Paired, InStep, Repairable, SilentlyStale
  <1> QED BY <1>1, EditInit, EditStep, PTL DEF Spec

(* The saga implements AtomicEdits: an edit of several files or an undo    *)
(* happens in one step and with an exact index, or not at all, unless the  *)
(* process dies or a compensation fails.                                   *)
THEOREM EditAtomic == Spec => Atomic
  BY EditInit, EditStep, EditsInit, EditsStep, PTL DEF Spec, Atomic, Edits!Spec
=============================================================================
