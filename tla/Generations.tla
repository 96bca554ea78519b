---------------------------- MODULE Generations -----------------------------
(***************************************************************************)
(* Embedding generations in the SQLite sidecar: processes that build a     *)
(* staging generation row by row under the cross-process ingest lock and   *)
(* publish it in one transaction, and processes that reload the active     *)
(* generation without the lock.  Every statement or transaction is a step, *)
(* and a process may die between any two.                                  *)
(*                                                                         *)
(* A row is the document it was embedded from, hash and vector alike.  The *)
(* fingerprint is the graph identity, the embedder being fixed; identity 0 *)
(* is the fingerprint of a migrated v1 generation.                         *)
(***************************************************************************)
EXTENDS Integers, FiniteSets

CONSTANTS
  Procs,       \* processes, each with a store handle of its own
  Nodes,       \* declarations that may have a vector
  Texts,       \* the documents they are embedded from
  NoRow,       \* no row
  NoSpan,      \* the declaration has no document: it is excluded
  Unreadable,  \* its file cannot be read: the build fails
  Nobody,      \* nobody holds the ingest lock
  MaxGraph,    \* bound on the graph's identities
  GraphNodes,  \* [0..MaxGraph -> SUBSET Nodes]: the declarations of a graph
  MaxBuilds,   \* bound on the builds, each of which takes one id
  MaxEdits,    \* bound on the edits of a document
  MaxFaults    \* bound on the errors and deaths of processes

ASSUME GenerationsAssumption ==
  /\ Texts # {} /\ NoRow \notin Texts /\ {NoSpan, Unreadable} \cap (Texts \cup {NoRow}) = {}
  /\ NoSpan # Unreadable
  /\ Nobody \notin Procs /\ IsFiniteSet(Nodes)
  /\ {MaxGraph, MaxBuilds, MaxEdits, MaxFaults} \subseteq Nat /\ MaxGraph > 0
  /\ GraphNodes \in [0..MaxGraph -> SUBSET Nodes]

VARIABLES
  graph,    \* graph metadata index.commit_generation
  text,     \* the document of each declaration on disk
  legacy,   \* does the sidecar have a v1 vectors table?
  gens,     \* table generations
  rows,     \* table generation_rows
  lock,     \* the holder of the ingest lock
  live,     \* liveBuilds of each process's store
  pc,       \* the next step of each process
  build,    \* the build of each process, or the fingerprint it reloads for
  loaded,   \* the rows a process reloaded into its index
  left      \* what remains of the environment's bounds

vars == <<graph, text, legacy, gens, rows, lock, live, pc, build, loaded, left>>
sidecar == <<gens, rows>>

Ids    == 0..MaxBuilds   \* id 0 is the v1 generation's
NoRows == [n \in Nodes |-> NoRow]
NoGen  == [state |-> "none", graph |-> -1, count |-> 0, excluded |-> {}]
NoBuild == [id |-> -1, stale |-> -1, graph |-> -1, todo |-> {}, excluded |-> {}]
NoLoad  == [id |-> -1, rows |-> NoRows]

Steps == {"idle", "open", "migrate", "lock", "snapshot", "probe", "discard", "discard_rows", "insert",
          "embed", "commit", "abort", "release", "reload", "reload_id", "reload_rows", "serving"}

RowSets   == [Nodes -> Texts \cup {NoRow}]
GenStates == [state : {"none", "staging", "active", "old"}, graph : -1..MaxGraph,
              count : 0..Cardinality(Nodes), excluded : SUBSET Nodes]
BuildStates == [id : -1..MaxBuilds, stale : -1..MaxBuilds, graph : -1..MaxGraph,
                todo : SUBSET Nodes, excluded : SUBSET Nodes]
LoadStates == [id : -1..MaxBuilds, rows : RowSets]

HasRow(r) == {n \in Nodes : r[n] # NoRow}

(* Every variable has its type; the indexes of the table allow one staging *)
(* and one active row.                                                     *)
TypeOK ==
  /\ graph \in 1..MaxGraph
  /\ text \in [Nodes -> Texts \cup {NoSpan, Unreadable}]
  /\ legacy \in BOOLEAN
  /\ gens \in [Ids -> GenStates]
  /\ \A s \in {"staging", "active"} : Cardinality({i \in Ids : gens[i].state = s}) <= 1
  /\ rows \in [Ids -> RowSets]
  /\ lock \in Procs \cup {Nobody}
  /\ live \in [Procs -> SUBSET Ids]
  /\ pc \in [Procs -> Steps]
  /\ build \in [Procs -> BuildStates]
  /\ loaded \in [Procs -> LoadStates]
  /\ left \in [{"builds", "edits", "faults"} -> Nat]

Init ==
  /\ graph = 1
  /\ text \in [Nodes -> Texts]
  /\ legacy \in BOOLEAN
  /\ gens = [i \in Ids |-> NoGen] /\ rows = [i \in Ids |-> NoRows]
  /\ lock = Nobody
  /\ live = [p \in Procs |-> {}]
  /\ pc = [p \in Procs |-> "idle"]
  /\ build = [p \in Procs |-> NoBuild]
  /\ loaded = [p \in Procs |-> NoLoad]
  /\ left = [builds |-> MaxBuilds, edits |-> MaxEdits, faults |-> MaxFaults]

Goto(p, s) == pc' = [pc EXCEPT ![p] = s]
Spend(kind) == left[kind] > 0 /\ left' = [left EXCEPT ![kind] = @ - 1]

WithState(s) == {i \in Ids : gens[i].state = s}

(* Active's answer for the fingerprint of graph g.  check: is the graph    *)
(* store asked whether the declarations still exist?                       *)
ActiveState(g, check) ==
  LET a == CHOOSE i \in WithState("active") : TRUE
  IN  IF WithState("active") = {} THEN "missing"
      ELSE IF gens[a].graph # g THEN "stale"
      ELSE IF Cardinality(HasRow(rows[a])) # gens[a].count THEN "corrupt"
      ELSE IF check /\ ~(HasRow(rows[a]) \subseteq GraphNodes[graph]) THEN "corrupt"
      ELSE "ready"

(***************************************************************************)
(* The environment.                                                        *)
(***************************************************************************)

(* A sync moves the graph under the ingest lock.                           *)
SyncRepo ==
  /\ lock = Nobody /\ graph < MaxGraph
  /\ graph' = graph + 1
  /\ UNCHANGED <<text, legacy, sidecar, lock, live, pc, build, loaded, left>>

EditDocument(n) ==
  /\ Spend("edits")
  /\ text' \in {[text EXCEPT ![n] = t] : t \in (Texts \cup {NoSpan, Unreadable}) \ {text[n]}}
  /\ UNCHANGED <<graph, legacy, sidecar, lock, live, pc, build, loaded>>

(* A process dies: the operating system frees its lock, SQLite rolls its   *)
(* transaction back, the staging generation stays.                         *)
Die(p) ==
  /\ pc[p] # "idle"
  /\ Spend("faults")
  /\ Goto(p, "idle")
  /\ lock' = IF lock = p THEN Nobody ELSE lock
  /\ live' = [live EXCEPT ![p] = {}]
  /\ build' = [build EXCEPT ![p] = NoBuild]
  /\ loaded' = [loaded EXCEPT ![p] = NoLoad]
  /\ UNCHANGED <<graph, text, legacy, sidecar>>

(***************************************************************************)
(* Opening a store migrates a v1 table, if there is one.                   *)
(***************************************************************************)

(* A process starts.  A reload reads the graph identity before it opens    *)
(* the store.                                                              *)
StartProcess(p) ==
  /\ pc[p] = "idle"
  /\ Goto(p, "open")
  /\ build' = [build EXCEPT ![p] = [NoBuild EXCEPT !.graph = graph]]
  /\ UNCHANGED <<graph, text, legacy, sidecar, lock, live, loaded, left>>

(* A build draws a random id, one that was never used.                     *)
NewBuild(p) ==
  /\ Spend("builds")
  /\ build' = [build EXCEPT ![p] = [NoBuild EXCEPT !.id = MaxBuilds - left'["builds"]]]
  /\ Goto(p, "lock")

(* The store is open, for a build or for a reload.                         *)
Opened(p) ==
  \/ NewBuild(p)
  \/ Goto(p, "reload") /\ UNCHANGED <<build, left>>

(* The count of v1 generations is read outside the migration transaction.  *)
OpenSQLiteGenerationStore(p) ==
  /\ pc[p] = "open"
  /\ IF legacy /\ gens[0] = NoGen THEN Goto(p, "migrate") /\ UNCHANGED <<build, left>> ELSE Opened(p)
  /\ UNCHANGED <<graph, text, legacy, sidecar, lock, live, loaded>>

(* Mutant of MigrateFromLegacyVectors: a second migration is let through.  *)
MigrateFromLegacyVectorsAgain(p) ==
  /\ pc[p] = "migrate"
  /\ gens' = [gens EXCEPT ![0] = [state |-> "active", graph |-> 0,
                                  count |-> Cardinality(GraphNodes[0]), excluded |-> {}]]
  /\ rows' = [rows EXCEPT ![0] = [n \in Nodes |-> IF n \in GraphNodes[0] THEN CHOOSE t \in Texts : TRUE ELSE NoRow]]
  /\ Opened(p)
  /\ UNCHANGED <<graph, text, legacy, lock, live, loaded>>

(* One transaction.  Another process's migration makes it fail on the      *)
(* primary key, and the open with it.                                      *)
MigrateFromLegacyVectors(p) ==
  /\ pc[p] = "migrate"
  /\ IF gens[0] # NoGen \/ WithState("active") # {}
       THEN Goto(p, "idle") /\ build' = [build EXCEPT ![p] = NoBuild] /\ UNCHANGED <<sidecar, left>>
       ELSE /\ gens' = [gens EXCEPT ![0] = [state |-> "active", graph |-> 0,
                                            count |-> Cardinality(GraphNodes[0]), excluded |-> {}]]
            /\ rows' = [rows EXCEPT ![0] =
                 [n \in Nodes |-> IF n \in GraphNodes[0] THEN CHOOSE t \in Texts : TRUE ELSE NoRow]]
            /\ Opened(p)
  /\ UNCHANGED <<graph, text, legacy, lock, live, loaded>>

(***************************************************************************)
(* BuildSemanticGeneration and GenerateAndPersist.                         *)
(***************************************************************************)

(* Mutant of acquireIngestLock: the lock is not waited for.                *)
acquireIngestLockAlways(p) ==
  /\ pc[p] = "lock"
  /\ lock' = p
  /\ Goto(p, "snapshot")
  /\ UNCHANGED <<graph, text, legacy, sidecar, live, build, loaded, left>>

acquireIngestLock(p) ==
  /\ pc[p] = "lock" /\ lock = Nobody
  /\ lock' = p
  /\ Goto(p, "snapshot")
  /\ UNCHANGED <<graph, text, legacy, sidecar, live, build, loaded, left>>

(* The nodes and the graph identity are read under the lock.               *)
BuildSemanticGeneration(p) ==
  /\ pc[p] = "snapshot"
  /\ build' = [build EXCEPT ![p] = [@ EXCEPT !.graph = graph, !.todo = GraphNodes[graph]]]
  /\ Goto(p, "probe")
  /\ UNCHANGED <<graph, text, legacy, sidecar, lock, live, loaded, left>>

(* A staging row of this handle is a build in progress; any other is taken *)
(* for one of a dead process.                                              *)
BeginProbe(p) ==
  /\ pc[p] = "probe"
  /\ IF WithState("staging") = {} THEN Goto(p, "insert") /\ UNCHANGED build
     ELSE \E i \in WithState("staging") :
            IF i \in live[p] THEN Goto(p, "release") /\ UNCHANGED build
            ELSE Goto(p, "discard") /\ build' = [build EXCEPT ![p].stale = i]
  /\ UNCHANGED <<graph, text, legacy, sidecar, lock, live, loaded, left>>

BeginDiscard(p) ==
  /\ pc[p] = "discard"
  /\ gens' = [gens EXCEPT ![build[p].stale] = IF @.state = "staging" THEN NoGen ELSE @]
  /\ Goto(p, "discard_rows")
  /\ UNCHANGED <<graph, text, legacy, rows, lock, live, build, loaded, left>>

(* The rows go whatever became of the generation.                          *)
BeginDiscardRows(p) ==
  /\ pc[p] = "discard_rows"
  /\ rows' = [rows EXCEPT ![build[p].stale] = NoRows]
  /\ Goto(p, "insert")
  /\ UNCHANGED <<graph, text, legacy, gens, lock, live, build, loaded, left>>

(* The index of staging rows refuses a second one.                         *)
BeginInsert(p) ==
  /\ pc[p] = "insert"
  /\ LET id == build[p].id
     IN  IF WithState("staging") # {} THEN Goto(p, "release") /\ UNCHANGED <<gens, live>>
         ELSE /\ gens' = [gens EXCEPT ![id] = [NoGen EXCEPT !.state = "staging", !.graph = build[p].graph]]
              /\ live' = [live EXCEPT ![p] = @ \cup {id}]
              /\ Goto(p, "embed")
  /\ UNCHANGED <<graph, text, legacy, rows, lock, build, loaded, left>>

(* One declaration: excluded, a coverage failure, or a row, carried over   *)
(* from the active generation when its document is the same.               *)
EmbedNode(p, n) ==
  /\ pc[p] = "embed" /\ n \in build[p].todo
  /\ CASE text[n] = Unreadable -> Goto(p, "abort") /\ UNCHANGED <<rows, build>>
       [] text[n] = NoSpan -> /\ build' = [build EXCEPT ![p].todo = @ \ {n}, ![p].excluded = @ \cup {n}]
                              /\ UNCHANGED <<rows, pc>>
       [] OTHER -> /\ build' = [build EXCEPT ![p].todo = @ \ {n}]
                   /\ rows' = [rows EXCEPT ![build[p].id][n] = text[n]]
                   /\ UNCHANGED pc
  /\ UNCHANGED <<graph, text, legacy, gens, lock, live, loaded, left>>

(* Admission, the embedder, an upsert or the attestation before the commit *)
(* fails.                                                                  *)
EmbedFails(p) ==
  /\ pc[p] = "embed"
  /\ Spend("faults")
  /\ Goto(p, "abort")
  /\ UNCHANGED <<graph, text, legacy, sidecar, lock, live, build, loaded>>

(* The generation that build p makes of its staging row.                   *)
Promoted(p) ==
  [state |-> "active", graph |-> build[p].graph, excluded |-> build[p].excluded,
   count |-> Cardinality(HasRow(rows[build[p].id]))]

(* Mutant of Promote: the generation that is replaced loses its rows.      *)
PromotePruning(p) ==
  /\ gens' = [i \in Ids |-> IF i = build[p].id THEN Promoted(p)
                            ELSE IF gens[i].state = "active" THEN [gens[i] EXCEPT !.state = "old"] ELSE gens[i]]
  /\ rows' = [i \in Ids |-> IF gens[i].state = "active" THEN NoRows ELSE rows[i]]

Promote(p) ==
  /\ gens' = [i \in Ids |-> IF i = build[p].id THEN Promoted(p)
                            ELSE IF gens[i].state = "active" THEN [gens[i] EXCEPT !.state = "old"] ELSE gens[i]]
  /\ UNCHANGED rows

(* One transaction demotes the active generation and promotes the staging  *)
(* row, or does neither: the row is gone, or there is an error.  A failed  *)
(* build keeps its entry in liveBuilds.                                    *)
Commit(p) ==
  /\ pc[p] = "embed" /\ build[p].todo = {}
  /\ \/ /\ gens[build[p].id].state = "staging"
        /\ Promote(p)
        /\ live' = [live EXCEPT ![p] = @ \ {build[p].id}]
        /\ UNCHANGED left
     \/ /\ gens[build[p].id].state # "staging" \/ left["faults"] > 0
        /\ left' = IF gens[build[p].id].state = "staging"
                     THEN [left EXCEPT !["faults"] = @ - 1] ELSE left
        /\ UNCHANGED <<sidecar, live>>
  /\ Goto(p, "release")
  /\ UNCHANGED <<graph, text, legacy, lock, build, loaded>>

(* The rows go unconditionally, the row of the generation if it is staging.*)
(* The error of an abort that fails is ignored.                            *)
Abort(p) ==
  /\ pc[p] = "abort"
  /\ LET id == build[p].id
     IN  \/ /\ rows' = [rows EXCEPT ![id] = NoRows]
            /\ gens' = [gens EXCEPT ![id] = IF @.state = "staging" THEN NoGen ELSE @]
            /\ live' = [live EXCEPT ![p] = @ \ {id}]
            /\ UNCHANGED left
         \/ Spend("faults") /\ UNCHANGED <<sidecar, live>>
  /\ Goto(p, "release")
  /\ UNCHANGED <<graph, text, legacy, lock, build, loaded>>

(* Mutant of Unlock: an early return keeps the lock.                       *)
UnlockCommitted(p) == IF gens[build[p].id].state = "active" THEN Nobody ELSE lock

Unlock(p) == Nobody

(* The lock is freed however the build ended.  The process exits, or the   *)
(* handle is used for another build.                                       *)
Release(p) ==
  /\ pc[p] = "release"
  /\ lock' = Unlock(p)
  /\ \/ NewBuild(p) /\ UNCHANGED live
     \/ /\ Goto(p, "idle")
        /\ live' = [live EXCEPT ![p] = {}]
        /\ build' = [build EXCEPT ![p] = NoBuild]
        /\ UNCHANGED left
  /\ UNCHANGED <<graph, text, legacy, sidecar, loaded>>

(***************************************************************************)
(* A reload takes no lock: a build may publish between any two of its      *)
(* reads.  A call of Active is one step, since it reads one generation     *)
(* whose rows do not change (Publishes, below).                            *)
(***************************************************************************)

Exit(p) == Goto(p, "idle") /\ build' = [build EXCEPT ![p] = NoBuild] /\ loaded' = [loaded EXCEPT ![p] = NoLoad]

(* The index stays empty unless the state is ready.                        *)
loadSemanticState(p) ==
  /\ pc[p] = "reload"
  /\ IF ActiveState(build[p].graph, TRUE) = "ready"
       THEN Goto(p, "reload_id") /\ UNCHANGED <<build, loaded>>
       ELSE Exit(p)
  /\ UNCHANGED <<graph, text, legacy, sidecar, lock, live, left>>

(* A second call of Active gives the id to load; its state is not looked   *)
(* at, only corrupt comes with an error.                                   *)
reloadActive(p) ==
  /\ pc[p] = "reload_id"
  /\ IF ActiveState(build[p].graph, FALSE) \in {"ready", "stale"}
       THEN /\ loaded' = [loaded EXCEPT ![p].id = CHOOSE i \in WithState("active") : TRUE]
            /\ Goto(p, "reload_rows")
            /\ UNCHANGED build
       ELSE Exit(p)
  /\ UNCHANGED <<graph, text, legacy, sidecar, lock, live, left>>

reloadRows(p) ==
  /\ pc[p] = "reload_rows"
  /\ loaded' = [loaded EXCEPT ![p].rows = rows[loaded[p].id]]
  /\ Goto(p, "serving")
  /\ UNCHANGED <<graph, text, legacy, sidecar, lock, live, build, left>>

StopServing(p) ==
  /\ pc[p] = "serving"
  /\ Exit(p)
  /\ UNCHANGED <<graph, text, legacy, sidecar, lock, live, left>>

(***************************************************************************)
(* Specification.                                                          *)
(***************************************************************************)

Open(p) == OpenSQLiteGenerationStore(p) \/ MigrateFromLegacyVectors(p)
Begin(p) == BeginProbe(p) \/ BeginDiscard(p) \/ BeginDiscardRows(p) \/ BeginInsert(p)
GenerateAndPersist(p) ==
  Begin(p) \/ (\E n \in Nodes : EmbedNode(p, n)) \/ Commit(p) \/ Abort(p)
Build(p) == acquireIngestLock(p) \/ BuildSemanticGeneration(p) \/ GenerateAndPersist(p) \/ Release(p)
Reload(p) == loadSemanticState(p) \/ reloadActive(p) \/ reloadRows(p)

Next ==
  \/ SyncRepo
  \/ \E n \in Nodes : EditDocument(n)
  \/ \E p \in Procs : Die(p) \/ StartProcess(p) \/ Open(p) \/ Build(p) \/ EmbedFails(p)
                          \/ Reload(p) \/ StopServing(p)

(* A process that runs is scheduled.  The number of builds is bounded, so  *)
(* that the polling of a busy lock comes to an end.                        *)
Fairness == \A p \in Procs : WF_vars(Open(p) \/ Build(p) \/ Reload(p))

Spec == Init /\ [][Next]_vars /\ Fairness

(***************************************************************************)
(* Properties.                                                             *)
(***************************************************************************)

Published ==
  IF WithState("active") = {} THEN [graph |-> -1, rows |-> NoRows, excluded |-> {}]
  ELSE LET a == CHOOSE i \in WithState("active") : TRUE
       IN  [graph |-> gens[a].graph, rows |-> rows[a], excluded |-> gens[a].excluded]

Catalog == INSTANCE VectorCatalog WITH published <- Published

(* Refinement: whatever processes, errors and deaths come together, the    *)
(* active generation is replaced in one step by a complete one of no older *)
(* graph, and its rows do not change while it is active.  Begin deletes    *)
(* the rows of a staging generation it probed before, in statements of     *)
(* their own: only the ingest lock keeps that generation from being        *)
(* published in between.                                                   *)
Publishes == Catalog!Spec

(* A reload reads the id and the rows of a generation in two steps and     *)
(* without the lock; a build that replaces that generation in between      *)
(* leaves its rows where they are, so that the index is never a partial    *)
(* one.                                                                    *)
ServesWhole ==
  \A p \in Procs : pc[p] = "serving" =>
    LET g == gens[loaded[p].id] IN HasRow(loaded[p].rows) = GraphNodes[g.graph] \ g.excluded

(* A build that waits for the ingest lock gets it and ends, after any      *)
(* error or death of the other processes.                                  *)
BuildTerminates == \A p \in Procs : (pc[p] = "lock") ~> (pc[p] \in {"release", "idle"})
=============================================================================
