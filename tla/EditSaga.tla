------------------------------ MODULE EditSaga ------------------------------
(***************************************************************************)
(* The edit saga: an edit of several files, or its undo, that writes the   *)
(* files one by one, re-indexes them, compares the index with a full pass  *)
(* and records the change; any error is compensated by restoring the files *)
(* and loading a snapshot of the graph.  The process may die between any   *)
(* two steps, and users write files meanwhile.                             *)
(*                                                                         *)
(* A file's content is one value, and so is its share of the graph: graph  *)
(* holds the contents whose nodes are in the store.  A re-index removes    *)
(* the nodes that the sidecar's row lists, that is, of the content that    *)
(* the row was made from.                                                  *)
(***************************************************************************)
EXTENDS Integers

CONSTANTS
  Files, Contents,
  Broken,      \* contents that do not parse
  MaxSagas,    \* bound on the edits and undos; each has an undo token
  MaxWrites,   \* bound on the writes of users
  MaxFaults    \* bound on the errors and deaths

ASSUME EditAssumption ==
  /\ Broken \subseteq Contents
  /\ {MaxSagas, MaxWrites, MaxFaults} \subseteq Nat

VARIABLES
  disk,      \* source files
  graph,     \* graph store: contents whose nodes it has, per file
  cache,     \* sidecar: the content of the file's cache row
  dirty,     \* sidecar: dirty files
  undoStore, \* <metaDir>/undo/<token>/: pre-edit.snapshot and sources.json
  records,   \* table change_record: the kind of the edit of each token
  pc,        \* the next step of the process
  saga,      \* the locals of Apply, applyBatch and Undo
  whole,     \* has no saga been torn since the last full pass?
  paired,    \* are the graph's nodes those that the sidecar's rows list?
  left       \* what remains of the environment's bounds

vars == <<disk, graph, cache, dirty, undoStore, records, pc, saga, whole, paired, left>>
sidecar == <<cache, dirty>>
audit == <<undoStore, records>>
ghosts == <<whole, paired>>

Tokens   == 1..MaxSagas
Trees    == UNION {[S -> Contents] : S \in SUBSET Files}
Graphs   == [Files -> SUBSET Contents]
Layer(c) == {c} \ Broken
NoTree   == [f \in {} |-> f]
Empty    == [f \in Files |-> {}]
NoSaga   == [kind |-> "none", token |-> 0, of |-> 0, new |-> NoTree, originals |-> NoTree, snapshot |-> Empty,
             todo |-> {}, parsed |-> NoTree, written |-> {}, failed |-> FALSE,
             paired |-> TRUE, committed |-> FALSE, disturbed |-> {}]
Entries  == [snapshot : Graphs, sources : Trees, whole : BOOLEAN]
Sagas    == [kind : {"none", "bare", "edit", "undo"}, token : 0..MaxSagas, of : 0..MaxSagas, new : Trees,
             originals : Trees, snapshot : Graphs, todo : SUBSET Files, parsed : Trees,
             written : SUBSET Files, failed : BOOLEAN, paired : BOOLEAN, committed : BOOLEAN,
             disturbed : SUBSET Files]
NoEntry  == [snapshot |-> Empty, sources |-> NoTree, whole |-> FALSE]

Touched == DOMAIN saga.new

(* Every variable has its type.                                            *)
TypeOK ==
  /\ disk \in [Files -> Contents] /\ cache \in [Files -> Contents]
  /\ graph \in Graphs /\ dirty \subseteq Files
  /\ undoStore \in [Tokens -> Entries]
  /\ records \in [Tokens -> {"none", "edit", "undo"}]
  /\ pc \in {"closed", "ready", "write", "load_old", "mark", "graph", "meta", "check", "persist",
             "persist_sources", "record", "restore", "load"}
  /\ saga \in Sagas
  /\ whole \in BOOLEAN /\ paired \in BOOLEAN
  /\ left \in [{"sagas", "writes", "faults"} -> Nat]

Init ==
  /\ disk \in [Files -> Contents \ Broken] /\ cache = disk
  /\ graph = [f \in Files |-> Layer(disk[f])] /\ dirty = {}
  /\ undoStore = [t \in Tokens |-> NoEntry] /\ records = [t \in Tokens |-> "none"]
  /\ pc = "closed" /\ saga = NoSaga /\ whole = TRUE /\ paired = TRUE
  /\ left = [sagas |-> MaxSagas, writes |-> MaxWrites, faults |-> MaxFaults]

Spend(kind) == left[kind] > 0 /\ left' = [left EXCEPT ![kind] = @ - 1]
Goto(s) == pc' = s

(***************************************************************************)
(* The environment.                                                        *)
(***************************************************************************)

(* A user who writes a file of a running saga loses the change to it.      *)
UserWrites(f, c) ==
  /\ c # disk[f]
  /\ f \notin Touched
  /\ Spend("writes")
  /\ disk' = [disk EXCEPT ![f] = c]
  /\ saga' = IF pc \in {"closed", "ready"} THEN saga ELSE [saga EXCEPT !.disturbed = @ \cup {f}]
  /\ UNCHANGED <<graph, sidecar, audit, pc, ghosts>>

(* makeEditorClient runs a full pass, which takes over the whole tree.     *)
makeEditorClient ==
  /\ pc = "closed"
  /\ graph' = [f \in Files |-> Layer(disk[f])]
  /\ cache' = disk /\ dirty' = {} /\ whole' = TRUE /\ paired' = TRUE
  /\ Goto("ready")
  /\ UNCHANGED <<disk, audit, saga, left>>

(* The command is done.                                                    *)
Close ==
  /\ pc = "ready"
  /\ Goto("closed")
  /\ UNCHANGED <<disk, graph, sidecar, audit, saga, ghosts, left>>

Die ==
  /\ pc # "closed"
  /\ Spend("faults")
  /\ Goto("closed") /\ saga' = NoSaga
  /\ whole' = (whole /\ pc = "ready")
  /\ UNCHANGED <<disk, graph, sidecar, audit, paired>>

(***************************************************************************)
(* Apply and applyBatch.                                                   *)
(***************************************************************************)

(* A token is random, that is, a new one.                                  *)
mintUndoToken == MaxSagas - left'["sagas"]

(* The originals and the snapshot are taken before any write.  A bare edit *)
(* (Apply, inline, safe delete) is not recorded.                           *)
applyBatch ==
  /\ pc = "ready" /\ Spend("sagas")
  /\ \E S \in SUBSET Files \ {{}}, k \in {"bare", "edit"} : \E new \in [S -> Contents] :
       /\ \A f \in S : new[f] # disk[f]
       /\ saga' = [NoSaga EXCEPT !.kind = k, !.token = mintUndoToken, !.new = new, !.todo = S,
                                 !.originals = [f \in S |-> disk[f]], !.snapshot = graph,
                                 !.paired = paired]
  /\ Goto("write")
  /\ UNCHANGED <<disk, graph, sidecar, audit, ghosts>>

(* Temporary file and rename: a file has its old or its new content.  A    *)
(* failed write is compensated as if it had been made.                     *)
writeFileAtomic(f) ==
  /\ pc = "write" /\ f \in saga.todo
  /\ \/ /\ disk' = [disk EXCEPT ![f] = saga.new[f]]
        /\ saga' = [saga EXCEPT !.todo = @ \ {f}, !.written = @ \cup {f}]
        /\ UNCHANGED <<pc, left>>
     \/ /\ Spend("faults")
        /\ saga' = [saga EXCEPT !.written = @ \cup {f}]
        /\ Goto("restore")
        /\ UNCHANGED disk
  /\ UNCHANGED <<graph, sidecar, audit, ghosts>>

AllWritten ==
  /\ pc = "write" /\ saga.todo = {}
  /\ Goto(IF saga.kind = "undo" THEN "load_old" ELSE "mark")
  /\ UNCHANGED <<disk, graph, sidecar, audit, saga, ghosts, left>>

(* Mutant of Marked: no file is marked.                                    *)
MarkedNot(S) == {}

Marked(S) == S

(* IngestChangedWithProvenance, phase 1: dependents of the files are       *)
(* re-indexed with them.                                                   *)
MarkDirty ==
  /\ pc = "mark"
  /\ \E more \in SUBSET Files :
       /\ dirty' = dirty \cup Marked(Touched \cup more)
       /\ saga' = [saga EXCEPT !.todo = Touched \cup more]
  /\ Goto("graph")
  /\ UNCHANGED <<disk, graph, cache, audit, ghosts, left>>

(* Phase 2 commits the graph before the sidecar.  One file that does not   *)
(* parse fails the pass.                                                   *)
CommitGraph ==
  /\ pc = "graph"
  /\ IF \E f \in saga.todo : disk[f] \in Broken
       THEN Goto("restore") /\ UNCHANGED <<graph, saga>>
       ELSE /\ graph' = [f \in Files |-> IF f \in saga.todo THEN (graph[f] \ Layer(cache[f])) \cup Layer(disk[f])
                                         ELSE graph[f]]
            /\ saga' = [saga EXCEPT !.parsed = [f \in saga.todo |-> disk[f]]]
            /\ Goto("meta")
  /\ UNCHANGED <<disk, sidecar, audit, ghosts, left>>

CommitSidecar ==
  /\ pc = "meta"
  /\ cache' = [f \in Files |-> IF f \in saga.todo THEN saga.parsed[f] ELSE cache[f]]
  /\ dirty' = dirty \ saga.todo
  /\ saga' = [saga EXCEPT !.todo = {}, !.parsed = NoTree, !.committed = TRUE]
  /\ Goto("check")
  /\ UNCHANGED <<disk, graph, audit, ghosts, left>>

(* An error of the snapshot's load, the re-index or the check.             *)
StepFails ==
  /\ pc \in {"load_old", "mark", "graph", "meta", "check"}
  /\ Spend("faults")
  /\ Goto("restore")
  /\ UNCHANGED <<disk, graph, sidecar, audit, saga, ghosts>>

(* Mutant of Check: only the files of the saga are compared.               *)
CheckTouched == \A f \in Touched : graph[f] = Layer(disk[f])

(* parserChecker: the graph must be what a full pass makes of the tree.    *)
Check == \A f \in Files : graph[f] = Layer(disk[f])

ConsistencyCheck ==
  /\ pc = "check"
  /\ IF ~Check THEN Goto("restore") /\ UNCHANGED saga
     ELSE IF saga.kind = "bare" THEN Goto("ready") /\ saga' = NoSaga
     ELSE Goto("persist") /\ UNCHANGED saga
  /\ paired' = (paired \/ (Check /\ cache = disk))
  /\ UNCHANGED <<disk, graph, sidecar, audit, whole, left>>

(***************************************************************************)
(* The change record.                                                      *)
(***************************************************************************)

(* An edit that cannot be recorded stays; an undo is compensated.          *)
NotRecorded ==
  /\ Spend("faults")
  /\ IF saga.kind = "undo" THEN Goto("restore") /\ UNCHANGED saga
                           ELSE Goto("ready") /\ saga' = NoSaga
  /\ UNCHANGED audit

(* Mutant of persistUndoArtifacts: the row comes first.                    *)
persistUndoArtifactsLate ==
  /\ pc = "persist"
  /\ \/ /\ undoStore' = [undoStore EXCEPT ![saga.token].snapshot = saga.snapshot]
        /\ records' = [records EXCEPT ![saga.token] = saga.kind]
        /\ Goto("persist_sources")
        /\ UNCHANGED <<saga, left>>
     \/ NotRecorded
  /\ UNCHANGED <<disk, graph, sidecar, ghosts>>

persistUndoArtifacts ==
  /\ pc = "persist"
  /\ \/ /\ undoStore' = [undoStore EXCEPT ![saga.token].snapshot = saga.snapshot]
        /\ Goto("persist_sources")
        /\ UNCHANGED <<records, saga, left>>
     \/ NotRecorded
  /\ UNCHANGED <<disk, graph, sidecar, ghosts>>

persistUndoSources ==
  /\ pc = "persist_sources"
  /\ \/ /\ undoStore' = [undoStore EXCEPT ![saga.token].sources = saga.originals, ![saga.token].whole = TRUE]
        /\ Goto("record")
        /\ UNCHANGED <<records, saga, left>>
     \/ NotRecorded
  /\ UNCHANGED <<disk, graph, sidecar, ghosts>>

record ==
  /\ pc = "record"
  /\ \/ /\ records' = [records EXCEPT ![saga.token] = saga.kind]
        /\ Goto("ready") /\ saga' = NoSaga
        /\ UNCHANGED <<undoStore, left>>
     \/ NotRecorded
  /\ UNCHANGED <<disk, graph, sidecar, ghosts>>

(***************************************************************************)
(* Undo and compensation.                                                  *)
(***************************************************************************)

(* The anchors are the current files and graph.  Nothing compares the      *)
(* files with what the edit left.                                          *)
Undo(t) ==
  /\ pc = "ready" /\ records[t] = "edit" /\ undoStore[t].whole /\ Spend("sagas")
  /\ LET sources == undoStore[t].sources
     IN  saga' = [NoSaga EXCEPT !.kind = "undo", !.token = mintUndoToken, !.of = t, !.new = sources,
                                !.todo = DOMAIN sources, !.written = DOMAIN sources,
                                !.originals = [f \in DOMAIN sources |-> disk[f]], !.snapshot = graph,
                                !.paired = paired]
  /\ Goto("write")
  /\ UNCHANGED <<disk, graph, sidecar, audit, ghosts>>

(* The snapshot from before the edit, with what it has of other files.     *)
LoadOldSnapshot ==
  /\ pc = "load_old"
  /\ graph' = undoStore[saga.of].snapshot
  /\ paired' = FALSE
  /\ Goto("mark")
  /\ UNCHANGED <<disk, sidecar, audit, saga, whole, left>>

(* compensate restores what it can and goes on after an error.             *)
RestoreFile(f) ==
  /\ pc = "restore" /\ f \in saga.written
  /\ \/ disk' = [disk EXCEPT ![f] = saga.originals[f]] /\ UNCHANGED left
        /\ saga' = [saga EXCEPT !.written = @ \ {f}]
     \/ UNCHANGED disk /\ Spend("faults")
        /\ saga' = [saga EXCEPT !.written = @ \ {f}, !.failed = TRUE]
  /\ UNCHANGED <<graph, sidecar, audit, pc, ghosts>>

AllRestored ==
  /\ pc = "restore" /\ saga.written = {}
  /\ Goto("load")
  /\ UNCHANGED <<disk, graph, sidecar, audit, saga, ghosts, left>>

(* Mutant of Restored: the graph is not compensated.                       *)
RestoredNot == graph

Restored == saga.snapshot

LoadSnapshot ==
  /\ pc = "load"
  /\ \/ /\ graph' = Restored
        /\ whole' = (whole /\ ~saga.failed)
        /\ paired' = (saga.paired /\ ~saga.committed)
        /\ UNCHANGED left
     \/ /\ Spend("faults")
        /\ whole' = FALSE /\ paired' = (paired /\ graph = saga.snapshot)
        /\ UNCHANGED graph
  /\ Goto("ready") /\ saga' = NoSaga
  /\ UNCHANGED <<disk, sidecar, audit>>

(***************************************************************************)
(* Specification.                                                          *)
(***************************************************************************)

Step ==
  \/ (\E f \in Files : writeFileAtomic(f) \/ RestoreFile(f))
  \/ AllWritten \/ LoadOldSnapshot \/ MarkDirty \/ CommitGraph \/ CommitSidecar \/ ConsistencyCheck
  \/ persistUndoArtifacts \/ persistUndoSources \/ record \/ AllRestored \/ LoadSnapshot

Next ==
  \/ \E f \in Files, c \in Contents : UserWrites(f, c)
  \/ makeEditorClient \/ Close \/ Die \/ applyBatch \/ (\E t \in Tokens : Undo(t))
  \/ Step \/ StepFails

Spec == Init /\ [][Next]_vars

(***************************************************************************)
(* Properties.                                                             *)
(***************************************************************************)

(* An edit counts once its check has passed, an undo once it is recorded.  *)
Undecided ==
  /\ pc \notin {"closed", "ready"}
  /\ saga.kind = "undo" \/ pc \notin {"persist", "persist_sources", "record"}

(* What a client sees: the tree and the index from before the request      *)
(* until it is decided.                                                    *)
SeenFiles == [f \in Files |-> IF Undecided /\ f \in Touched THEN saga.originals[f] ELSE disk[f]]
SeenIndex == IF Undecided THEN saga.snapshot ELSE graph
SeenRequest ==
  IF saga.kind = "none" THEN [id |-> 0, touched |-> {}, new |-> <<>>, disturbed |-> {}, state |-> "none"]
  ELSE [id |-> saga.token, touched |-> Touched, new |-> saga.new,
        disturbed |-> IF Undecided THEN saga.disturbed ELSE {},
        state |-> IF Undecided THEN "pending" ELSE "accepted"]
SeenLog == {t \in Tokens : records[t] # "none"}

Edits == INSTANCE AtomicEdits WITH
  Ids <- Tokens, files <- SeenFiles, index <- SeenIndex, request <- SeenRequest, log <- SeenLog, whole <- whole

(* Refinement: an edit of several files and an undo are atomic, and the    *)
(* index of an accepted one is exact, whichever step fails and whatever    *)
(* users write to other files meanwhile; only a death or a failed          *)
(* compensation tears one, and then each file is old or new.               *)
Atomic == Edits!Spec

(* A record has its artifacts: a token that a user holds can always be     *)
(* undone, also when the process died while it made the record.            *)
RecordsUsable == \A t \in Tokens : records[t] # "none" => undoStore[t].whole

(* The index of a file is not that of its content, and nothing tells.      *)
SilentlyStale(f) == graph[f] # Layer(disk[f]) /\ cache[f] = disk[f] /\ f \notin dirty

(* Wherever the process dies and whichever step fails, the next sync looks *)
(* at every file whose index is wrong: the file drifts from its cache row  *)
(* or is marked dirty.  So it is as long as no snapshot has been loaded    *)
(* over re-indexes that the sidecar has committed, and no re-index that it *)
(* has not committed was left in the graph by a load that failed.          *)
Repairable == paired => \A f \in Files : ~SilentlyStale(f)
=============================================================================
