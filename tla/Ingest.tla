------------------------------- MODULE Ingest -------------------------------
(***************************************************************************)
(* Index passes over two durable stores that cannot commit together: the   *)
(* graph database and the meta sidecar (content cache, reverse             *)
(* dependencies, dirty rows, full-pass marker and generations).            *)
(*                                                                         *)
(* A pass is a sequence of steps, one per durable transaction or per read  *)
(* of the working tree; a crash or an I/O error may fall between any two.  *)
(* A graph batch is durable when its step ends.  The sidecar transaction   *)
(* of a pass is the volatile variable tx until its commit step.            *)
(***************************************************************************)
EXTENDS IndexGraph

CONSTANTS
  Starts,         \* [tree, budget]: where the program may start, and how often the environment then acts
  Edits,          \* <<path, from, to>>: changes users make to the tree
  Quiet           \* no edit falls between the steps of a pass

Kinds == {"edit", "fault", "wipe", "upgrade", "rebuild", "watch", "build"}

ASSUME IngestAssumption ==
  /\ Starts \subseteq [tree : Trees, budget : [Kinds -> Nat]]
  /\ Edits \subseteq Paths \X (Contents \cup {Absent}) \X (Contents \cup {Absent})
  /\ Quiet \in BOOLEAN

VARIABLES
  disk,       \* the working tree
  graph,      \* graph database: nodes, edges, confirmed edges
  graphGen,   \* graph metadata index.full_ingest_generation, 0 if missing
  commitGen,  \* graph metadata index.commit_generation, 0 if missing
  cache,      \* sidecar file_content_cache
  rdeps,      \* sidecar reverse_deps, by directory
  dirty,      \* sidecar dirty_units
  marker,     \* sidecar full_pass_in_progress, 0 if missing
  metaGen,    \* sidecar full_pass_generation, 0 if missing
  stamped,    \* does the sidecar's semantics stamp match this binary?
  vectors,    \* the active semantic generation: graph identity and nodes
  session,    \* is a session with a watcher open?
  pc,         \* the next step of the running pass
  why,        \* who runs it
  walked,     \* the tree the pass walked
  parsed,     \* the contents the pass parsed, Absent where a read failed
  work,       \* the changed paths, then ingestChanged's toProcess
  gen,        \* the full pass's generation
  tx,         \* the open sidecar transaction
  left        \* what remains of the budget

graphVars == <<graph, graphGen, commitGen>>
metaVars  == <<cache, rdeps, dirty, marker, metaGen, stamped>>
passVars  == <<pc, why, walked, parsed, work, gen, tx>>
vars      == <<disk, graphVars, metaVars, vectors, session, passVars, left>>

NoRow   == [hash |-> Absent, ids |-> {}, links |-> FALSE]
NoTree  == [p \in Paths |-> Absent]
NoCache == [p \in Paths |-> NoRow]
NoDeps  == [d \in Dirs |-> {}]
NoTx    == [cache |-> NoCache, rdeps |-> NoDeps, dirty |-> {}]

Rows  == [hash : Contents \cup {Absent}, ids : SUBSET Nodes, links : BOOLEAN]
Metas == [cache : [Paths -> Rows], rdeps : [Dirs -> SUBSET Paths], dirty : SUBSET Paths]

FullSteps == {"full_walk", "full_parse", "full_mark", "full_gen", "full_write", "full_link",
              "full_resolve", "full_commit", "full_bump", "full_certify"}
IncSteps  == {"inc_walk", "inc_mark", "inc_bump", "inc_write", "inc_purge", "inc_link",
              "inc_sweep", "inc_resolve", "inc_commit"}

(* Generations are random 128-bit tokens compared only for equality: a     *)
(* fresh one is any value that no variable holds.                          *)
Generations == 0..7

Fresh == CHOOSE g \in 1..7 : g \notin {graphGen, commitGen, marker, metaGen, vectors.gen, gen}

(* The state of every variable, by store.                                  *)
TypeOK ==
  /\ disk \in Trees
  /\ graph \in Graphs
  /\ graphGen \in Generations /\ commitGen \in Generations
  /\ cache \in [Paths -> Rows]
  /\ rdeps \in [Dirs -> SUBSET Paths]
  /\ dirty \subseteq Paths
  /\ marker \in Generations /\ metaGen \in Generations
  /\ stamped \in BOOLEAN
  /\ vectors \in [gen : Generations, nodes : SUBSET Nodes]
  /\ session \in BOOLEAN
  /\ pc \in {"idle", "recover", "probe"} \cup FullSteps \cup IncSteps
  /\ why \in {"none", "sync", "recover", "delta", "watch", "rebuild"}
  /\ walked \in Trees /\ parsed \in Trees
  /\ work \subseteq Paths
  /\ gen \in Generations
  /\ tx \in Metas
  /\ left \in [Kinds -> Nat]

Init ==
  /\ \E s \in Starts : disk = s.tree /\ left = s.budget
  /\ graph = EmptyGraph /\ graphGen = 0 /\ commitGen = 0
  /\ cache = NoCache /\ rdeps = NoDeps /\ dirty = {}
  /\ marker = 0 /\ metaGen = 0 /\ stamped = FALSE
  /\ vectors = [gen |-> 0, nodes |-> {}]
  /\ session = FALSE
  /\ pc = "idle" /\ why = "none"
  /\ walked = NoTree /\ parsed = NoTree /\ work = {} /\ gen = 0 /\ tx = NoTx

(***************************************************************************)
(* Reads of the sidecar.                                                   *)
(***************************************************************************)
Cached == {p \in Paths : cache[p].hash # Absent}

CanWarmStart ==
  /\ Cached # {}
  /\ marker = 0
  /\ metaGen # 0
  /\ graphGen = metaGen
  /\ stamped

(* Added, modified and deleted paths alike.                                *)
DriftSet == {p \in Paths : disk[p] # cache[p].hash}

(* Mutant of dependentsOf: the importers of p's directory are forgotten.   *)
dependentsOfNoImporters(p) ==
  IF cache[p].links THEN {q \in Paths \ {p} : cache[q].links /\ DirOf[q] = DirOf[p]} ELSE {}

(* The files whose edges a change of p may move: the files that import     *)
(* p's directory, and if p's cached row is linkable the other linkable     *)
(* files of its directory.                                                 *)
dependentsOf(p) ==
  rdeps[DirOf[p]] \cup
    (IF cache[p].links
       THEN {q \in Paths \ {p} : cache[q].links /\ DirOf[q] = DirOf[p]}
       ELSE {})

(* The loop that adds dependents ranges over the set it extends, and Go    *)
(* leaves open whether an entry added meanwhile is visited.  visited is    *)
(* any set that contains the changed paths and is reachable from them.     *)
Cascades(changed) ==
  LET Deps(S) == UNION {dependentsOf(p) : p \in S}
      Grounded(V) == \A W \in SUBSET V : changed \subseteq W /\ V \cap Deps(W) \subseteq W => W = V
  IN  {changed \cup Deps(V) : V \in {U \in SUBSET Paths : changed \subseteq U /\ Grounded(U)}}

(***************************************************************************)
(* Effects of a pass on the graph.  new is the tree of parsed contents,    *)
(* Absent for a path the pass does not commit.                             *)
(***************************************************************************)

(* Mutant of Drops: a node that another file also mints is deleted.        *)
DropsShared(p, new) == cache[p].ids \ NodesOf(p, new[p])

(* What commitParsed deletes for p: cached nodes that the new parse does   *)
(* not reproduce and no other committed row lists.                         *)
Drops(p, new) ==
  {n \in cache[p].ids \ NodesOf(p, new[p]) : \A q \in Paths \ {p} : n \notin cache[q].ids}

(* commitParsed over the paths in walk order.  A skipped file commits      *)
(* nothing.  A node deleted for one path stays if a later path puts it.    *)
CommitParsed(new) ==
  LET files   == {p \in Paths : Parses(new[p])}
      dropped == UNION {Drops(p, new) : p \in files}
      lost    == {n \in dropped : \A p, q \in files :
                    n \in Drops(p, new) /\ n \in NodesOf(q, new[q]) => Rank[q] < Rank[p]}
  IN  [Without(graph, dropped) EXCEPT !.nodes = (graph.nodes \cup TreeNodes(new)) \ lost]

(* Mutant of CachePut: the hash of the file now, not of the parsed bytes.  *)
CachePutReread(rows, new) ==
  [p \in Paths |-> IF new[p] = Absent
                     THEN rows[p]
                     ELSE [hash |-> disk[p], ids |-> NodesOf(p, new[p]), links |-> HasLinks(new[p])]]

CachePut(rows, new) ==
  [p \in Paths |-> IF new[p] = Absent
                     THEN rows[p]
                     ELSE [hash |-> new[p], ids |-> NodesOf(p, new[p]), links |-> HasLinks(new[p])]]

(* Mutant of UpdateReverseDeps: importing directories in place of files.   *)
UpdateReverseDepsByDir(rows, nodes, new) ==
  [d \in Dirs |-> {DirOf[p] : p \in {q \in Paths : Parses(new[q]) /\ d \in Facts[new[q]].imports}}]

(* Reverse dependencies of the committed files, by the directories their   *)
(* imports name, where the committed nodes populate that directory.        *)
UpdateReverseDeps(rows, nodes, new) ==
  [d \in Dirs |->
     {p \in rows[d] : new[p] = Absent}
       \cup {p \in Paths : Parses(new[p]) /\ d \in Facts[new[p]].imports /\ hasDir(nodes, d)}]

(* Mutant of LinkFiles: the old edges of a relinked file stay.             *)
LinkFilesAdding(g, new) ==
  LET files == {p \in Paths : Parses(new[p])}
  IN  [ nodes |-> g.nodes \cup (UNION {Externals(g.nodes, new[p]) : p \in files}),
        edges |-> g.edges \cup (UNION {LinkEdges(g.nodes, p, new[p]) : p \in files}),
        conf  |-> {e \in g.conf : \A p \in files : e[1] # FileNode(p)} ]

(* linkFiles: the edges of the committed files are deleted and resolved    *)
(* again; a put edge carries the heuristic tier.                           *)
LinkFiles(g, new) ==
  LET files == {p \in Paths : Parses(new[p])}
      kept  == {e \in g.edges : \A p \in files : e[1] # FileNode(p)}
  IN  [ nodes |-> g.nodes \cup (UNION {Externals(g.nodes, new[p]) : p \in files}),
        edges |-> kept \cup (UNION {LinkEdges(g.nodes, p, new[p]) : p \in files}),
        conf  |-> g.conf \cap kept ]

SweepOrphanExternalNodes(g) ==
  Without(g, {n \in g.nodes : n.kind = "external" /\ \A e \in g.edges : n # e[1] /\ n # e[2]})

(* typeresolvePass reads every walked file again; one that cannot be read  *)
(* skips the pass.  Stale confirmed edges go only where the directory was  *)
(* checked.                                                                *)
TypeResolve(g) ==
  LET tree    == [p \in Paths |-> IF walked[p] = Absent THEN Absent ELSE disk[p]]
      skipped == ~Semantic \/ \E p \in Paths : walked[p] # Absent /\ disk[p] = Absent
      fresh   == Confirmed(g.nodes, tree)
      checked == {d \in Dirs : ~Degraded(tree, d) /\ \E p \in Paths : DirOf[p] = d /\ tree[p] # Absent}
      stale   == {e \in g.conf \ fresh : DirOf[e[1].path] \in checked}
  IN  IF skipped THEN g
      ELSE [g EXCEPT !.edges = (@ \ stale) \cup fresh, !.conf = (@ \ stale) \cup fresh]

(***************************************************************************)
(* Control of a pass.                                                      *)
(***************************************************************************)
Spend(kind) == left[kind] > 0 /\ left' = [left EXCEPT ![kind] = @ - 1]

Goto(step) == pc' = step /\ UNCHANGED why

(* The pass is over and its memory gone.                                   *)
Rest ==
  /\ pc' = "idle" /\ why' = "none"
  /\ walked' = NoTree /\ parsed' = NoTree /\ work' = {} /\ gen' = 0 /\ tx' = NoTx

(* An error of a step of a sync before its full pass falls back to the     *)
(* full pass; any other error is returned to the caller.  The open batch   *)
(* and tx roll back; committed graph batches stay.                         *)
Fail ==
  IF pc \in FullSteps \/ why = "watch"
    THEN Rest
    ELSE /\ pc' = "full_walk" /\ why' = "sync"
         /\ walked' = NoTree /\ parsed' = NoTree /\ work' = {} /\ gen' = 0 /\ tx' = NoTx

(* Each file of units is read again some time between the walk and the     *)
(* commit: it has its walked content or the present one, or is gone.       *)
Reread(units) ==
  \E old \in SUBSET {p \in units : walked[p] # disk[p]} :
    parsed' = [p \in Paths |-> IF p \notin units THEN Absent
                               ELSE IF p \in old THEN walked[p] ELSE disk[p]]

(***************************************************************************)
(* SyncRepo: recovery, then a warm start or a full pass.                   *)
(***************************************************************************)
StartSync ==
  /\ pc = "idle"
  /\ pc' = "recover" /\ why' = "sync"
  /\ UNCHANGED <<disk, graphVars, metaVars, vectors, session, walked, parsed, work, gen, tx, left>>

(* Mutant of RecoverWithRoot: dirty rows are left for a later sync.        *)
RecoverWithRootIdle ==
  /\ pc = "recover"
  /\ Goto("probe")
  /\ UNCHANGED <<disk, graphVars, metaVars, vectors, session, walked, parsed, work, gen, tx, left>>

RecoverWithRoot ==
  /\ pc = "recover"
  /\ \/ dirty = {} /\ Goto("probe") /\ UNCHANGED work
     \/ dirty # {} /\ pc' = "inc_walk" /\ why' = "recover" /\ work' = dirty
  /\ UNCHANGED <<disk, graphVars, metaVars, vectors, session, walked, parsed, gen, tx, left>>

warmOrFullIngest ==
  /\ pc = "probe"
  /\ \/ /\ ~CanWarmStart
        /\ Goto("full_walk")
        /\ UNCHANGED <<session, walked, parsed, work, gen, tx>>
     \/ /\ CanWarmStart /\ DriftSet = {}
        /\ Rest
        /\ session' = TRUE
     \/ /\ CanWarmStart /\ DriftSet # {}
        /\ pc' = "inc_walk" /\ why' = "delta" /\ work' = DriftSet
        /\ UNCHANGED <<session, walked, parsed, gen, tx>>
  /\ UNCHANGED <<disk, graphVars, metaVars, vectors, left>>

RebuildRepo ==
  /\ pc = "idle"
  /\ Spend("rebuild")
  /\ pc' = "full_walk" /\ why' = "rebuild"
  /\ UNCHANGED <<disk, graphVars, metaVars, vectors, session, walked, parsed, work, gen, tx>>

(* The watcher applies the paths of one batch of notifications, or the     *)
(* drift its reconcile loop found.                                         *)
ApplyChangedParsed ==
  /\ pc = "idle" /\ session
  /\ Spend("watch")
  /\ work' \in SUBSET Paths \ {{}}
  /\ pc' = "inc_walk" /\ why' = "watch"
  /\ UNCHANGED <<disk, graphVars, metaVars, vectors, session, walked, parsed, gen, tx>>

(***************************************************************************)
(* IngestAll, the full pass.                                               *)
(***************************************************************************)
FullWalk ==
  /\ pc = "full_walk"
  /\ walked' = disk
  /\ Goto("full_parse")
  /\ UNCHANGED <<disk, graphVars, metaVars, vectors, session, parsed, work, gen, tx, left>>

FullParse ==
  /\ pc = "full_parse"
  /\ Reread({p \in Paths : walked[p] # Absent})
  /\ Goto("full_mark")
  /\ UNCHANGED <<disk, graphVars, metaVars, vectors, session, walked, work, gen, tx, left>>

(* beginFullPass: the marker, then the graph's generation.                 *)
FullMark ==
  /\ pc = "full_mark"
  /\ gen' = Fresh /\ marker' = gen'
  /\ Goto("full_gen")
  /\ UNCHANGED <<disk, graphVars, cache, rdeps, dirty, metaGen, stamped, vectors, session,
                 walked, parsed, work, tx, left>>

FullGen ==
  /\ pc = "full_gen"
  /\ graphGen' = gen
  /\ Goto("full_write")
  /\ UNCHANGED <<disk, graph, commitGen, metaVars, vectors, session, walked, parsed, work, gen, tx, left>>

(* Mutant of FullWrite: no purge of what the pass did not produce.         *)
FullWriteNoPurge ==
  /\ pc = "full_write"
  /\ graph' = CommitParsed(parsed)
  /\ tx' = [ cache |-> CachePut(NoCache, parsed),
             rdeps |-> UpdateReverseDeps(NoDeps, graph'.nodes, parsed),
             dirty |-> {} ]
  /\ Goto("full_link")
  /\ UNCHANGED <<disk, graphGen, commitGen, metaVars, vectors, session, walked, parsed, work, gen, left>>

(* The write batch: every parsed file, then the purge of each node that    *)
(* the store held before and the pass did not produce.  The reverse        *)
(* dependencies are derived after it.                                      *)
FullWrite ==
  /\ pc = "full_write"
  /\ graph' = Without(CommitParsed(parsed), graph.nodes \ TreeNodes(parsed))
  /\ tx' = [ cache |-> CachePut(NoCache, parsed),
             rdeps |-> UpdateReverseDeps(NoDeps, graph'.nodes, parsed),
             dirty |-> {} ]
  /\ Goto("full_link")
  /\ UNCHANGED <<disk, graphGen, commitGen, metaVars, vectors, session, walked, parsed, work, gen, left>>

FullLink ==
  /\ pc = "full_link"
  /\ graph' = LinkFiles(graph, parsed)
  /\ Goto("full_resolve")
  /\ UNCHANGED <<disk, graphGen, commitGen, metaVars, vectors, session, walked, parsed, work, gen, tx, left>>

FullResolve ==
  /\ pc = "full_resolve"
  /\ graph' = TypeResolve(graph)
  /\ Goto("full_commit")
  /\ UNCHANGED <<disk, graphGen, commitGen, metaVars, vectors, session, walked, parsed, work, gen, tx, left>>

FullCommit ==
  /\ pc = "full_commit"
  /\ cache' = tx.cache /\ rdeps' = tx.rdeps /\ dirty' = tx.dirty
  /\ stamped' = TRUE
  /\ Goto("full_bump")
  /\ UNCHANGED <<disk, graphVars, marker, metaGen, vectors, session, walked, parsed, work, gen, tx, left>>

(* finishFullPass: the graph's identity, then the certificate.             *)
FullBump ==
  /\ pc = "full_bump"
  /\ commitGen' = Fresh
  /\ Goto("full_certify")
  /\ UNCHANGED <<disk, graph, graphGen, metaVars, vectors, session, walked, parsed, work, gen, tx, left>>

FullCertify ==
  /\ pc = "full_certify"
  /\ marker = gen
  /\ metaGen' = gen /\ marker' = 0
  /\ Rest
  /\ session' = (session \/ why = "sync")
  /\ UNCHANGED <<disk, graphVars, cache, rdeps, dirty, stamped, vectors, left>>

(***************************************************************************)
(* ingestChanged, the incremental pass.                                    *)
(***************************************************************************)
IncWalk ==
  /\ pc = "inc_walk"
  /\ walked' = disk
  /\ work' \in Cascades(work)
  /\ Goto("inc_mark")
  /\ UNCHANGED <<disk, graphVars, metaVars, vectors, session, parsed, gen, tx, left>>

(* Mutant of IncMark: the dirty rows of Phase 1 are not committed.         *)
IncMarkLost ==
  /\ pc = "inc_mark"
  /\ Goto("inc_bump")
  /\ UNCHANGED <<disk, graphVars, metaVars, vectors, session, walked, parsed, work, gen, tx, left>>

(* Phase 1: the dirty rows commit on their own.                            *)
IncMark ==
  /\ pc = "inc_mark"
  /\ dirty' = dirty \cup {p \in work : walked[p] # Absent}
  /\ Goto("inc_bump")
  /\ UNCHANGED <<disk, graphVars, cache, rdeps, marker, metaGen, stamped, vectors, session,
                 walked, parsed, work, gen, tx, left>>

(* Mutant of IncBump: an incremental pass keeps the graph's identity.      *)
IncBumpSkipped ==
  /\ pc = "inc_bump"
  /\ Goto("inc_write")
  /\ UNCHANGED <<disk, graphVars, metaVars, vectors, session, walked, parsed, work, gen, tx, left>>

IncBump ==
  /\ pc = "inc_bump"
  /\ commitGen' = Fresh
  /\ Goto("inc_write")
  /\ UNCHANGED <<disk, graph, graphGen, metaVars, vectors, session, walked, parsed, work, gen, tx, left>>

(* Phase 2: the write batch, then the reverse dependencies.  A file whose  *)
(* read failed keeps its row and its dirty flag.                           *)
IncWrite ==
  /\ pc = "inc_write"
  /\ Reread({p \in work : walked[p] # Absent})
  /\ graph' = CommitParsed(parsed')
  /\ tx' = [ cache |-> CachePut(cache, parsed'),
             rdeps |-> UpdateReverseDeps(rdeps, graph'.nodes, parsed'),
             dirty |-> {p \in dirty : parsed'[p] = Absent} ]
  /\ Goto("inc_purge")
  /\ UNCHANGED <<disk, graphGen, commitGen, metaVars, vectors, session, walked, work, gen, left>>

(* Mutant of IncPurge: the rows of deleted files go, their nodes stay.     *)
IncPurgeRowsOnly ==
  /\ pc = "inc_purge"
  /\ LET gone == {p \in Paths : tx.cache[p].hash # Absent /\ walked[p] = Absent}
     IN  tx' = [tx EXCEPT !.cache = [p \in Paths |-> IF p \in gone THEN NoRow ELSE @[p]],
                          !.dirty = @ \ gone]
  /\ Goto("inc_link")
  /\ UNCHANGED <<disk, graphVars, metaVars, vectors, session, walked, parsed, work, gen, left>>

(* removeFileTx for every cached path that the walk did not find.          *)
IncPurge ==
  /\ pc = "inc_purge"
  /\ LET gone == {p \in Paths : tx.cache[p].hash # Absent /\ walked[p] = Absent}
         kept == UNION {tx.cache[p].ids : p \in Paths \ gone}
     IN  /\ graph' = Without(graph, (UNION {cache[p].ids : p \in gone}) \ kept)
         /\ tx' = [tx EXCEPT !.cache = [p \in Paths |-> IF p \in gone THEN NoRow ELSE @[p]],
                             !.dirty = @ \ gone]
  /\ Goto("inc_link")
  /\ UNCHANGED <<disk, graphGen, commitGen, metaVars, vectors, session, walked, parsed, work, gen, left>>

IncLink ==
  /\ pc = "inc_link"
  /\ graph' = LinkFiles(graph, parsed)
  /\ Goto("inc_sweep")
  /\ UNCHANGED <<disk, graphGen, commitGen, metaVars, vectors, session, walked, parsed, work, gen, tx, left>>

(* Mutant of IncSweep: orphaned external nodes stay.                       *)
IncSweepSkipped ==
  /\ pc = "inc_sweep"
  /\ Goto("inc_resolve")
  /\ UNCHANGED <<disk, graphVars, metaVars, vectors, session, walked, parsed, work, gen, tx, left>>

IncSweep ==
  /\ pc = "inc_sweep"
  /\ graph' = SweepOrphanExternalNodes(graph)
  /\ Goto("inc_resolve")
  /\ UNCHANGED <<disk, graphGen, commitGen, metaVars, vectors, session, walked, parsed, work, gen, tx, left>>

(* A processed file with a syntax error fails the pass after its node and  *)
(* link batches are durable.                                               *)
IncResolve ==
  /\ pc = "inc_resolve"
  /\ LET broken == \E p \in Paths : parsed[p] # Absent /\ Facts[parsed[p]].outcome = "error"
     IN  \/ /\ ~broken
            /\ graph' = TypeResolve(graph)
            /\ Goto("inc_commit")
            /\ UNCHANGED <<walked, parsed, work, gen, tx>>
         \/ /\ broken
            /\ Fail
            /\ UNCHANGED graph
  /\ UNCHANGED <<disk, graphGen, commitGen, metaVars, vectors, session, left>>

IncCommit ==
  /\ pc = "inc_commit"
  /\ cache' = tx.cache /\ rdeps' = tx.rdeps /\ dirty' = tx.dirty
  /\ \/ /\ why = "recover"
        /\ pc' = "probe" /\ why' = "sync"
        /\ walked' = NoTree /\ parsed' = NoTree /\ work' = {} /\ gen' = 0 /\ tx' = NoTx
        /\ UNCHANGED session
     \/ /\ why \in {"delta", "watch"}
        /\ Rest
        /\ session' = TRUE
  /\ UNCHANGED <<disk, graphVars, marker, metaGen, stamped, vectors, left>>

(***************************************************************************)
(* Everything else that acts on the stores or the tree.                    *)
(***************************************************************************)

(* The identity that semantic vectors are built for and reloaded against.  *)
graphGeneration == IF commitGen # 0 THEN commitGen ELSE graphGen

(* BuildSemanticGeneration holds the ingest lock, which a sync and a       *)
(* rebuild hold too and a watcher does not.                                *)
BuildSemanticGeneration ==
  /\ pc = "idle" \/ why = "watch"
  /\ Spend("build")
  /\ vectors' = [gen |-> graphGeneration, nodes |-> graph.nodes]
  /\ UNCHANGED <<disk, graphVars, metaVars, session, passVars>>

EditDisk ==
  /\ Quiet => pc = "idle"
  /\ Spend("edit")
  /\ \E e \in Edits : disk[e[1]] = e[2] /\ disk' = [disk EXCEPT ![e[1]] = e[3]]
  /\ UNCHANGED <<graphVars, metaVars, vectors, session, passVars>>

(* The process dies; both stores keep what is committed.                   *)
Crash ==
  /\ pc # "idle"
  /\ Spend("fault")
  /\ Rest
  /\ session' = FALSE
  /\ UNCHANGED <<disk, graphVars, metaVars, vectors>>

(* The step returns an error instead of taking effect.                     *)
StepError ==
  /\ pc # "idle"
  /\ Spend("fault")
  /\ Fail
  /\ UNCHANGED <<disk, graphVars, metaVars, vectors, session>>

(* One of the two database files is lost.                                  *)
LoseStore ==
  /\ pc = "idle"
  /\ Spend("wipe")
  /\ session' = FALSE
  /\ \/ /\ graph' = EmptyGraph /\ graphGen' = 0 /\ commitGen' = 0
        /\ UNCHANGED metaVars
     \/ /\ cache' = NoCache /\ rdeps' = NoDeps /\ dirty' = {}
        /\ marker' = 0 /\ metaGen' = 0 /\ stamped' = FALSE
        /\ UNCHANGED graphVars
  /\ UNCHANGED <<disk, vectors, passVars>>

(* A new binary, or a new ignore configuration, means other semantics.     *)
Upgrade ==
  /\ pc = "idle"
  /\ Spend("upgrade")
  /\ stamped' = FALSE /\ session' = FALSE
  /\ UNCHANGED <<disk, graphVars, cache, rdeps, dirty, marker, metaGen, vectors, passVars>>

FullPass == FullWalk \/ FullParse \/ FullMark \/ FullGen \/ FullWrite \/ FullLink
              \/ FullResolve \/ FullCommit \/ FullBump \/ FullCertify

IncPass == IncWalk \/ IncMark \/ IncBump \/ IncWrite \/ IncPurge \/ IncLink
             \/ IncSweep \/ IncResolve \/ IncCommit

Sync == StartSync \/ RecoverWithRoot \/ warmOrFullIngest \/ FullPass \/ IncPass

Environment == RebuildRepo \/ ApplyChangedParsed \/ BuildSemanticGeneration \/ EditDisk
                 \/ Crash \/ StepError \/ LoseStore \/ Upgrade

Next == Sync \/ Environment

Spec == Init /\ [][Next]_vars

(* A pass that runs goes on, and syncs keep being invoked: every session   *)
(* opens with one.                                                         *)
FairSpec == Spec /\ WF_vars(Sync)

(***************************************************************************)
(* Properties.                                                             *)
(***************************************************************************)
(* When a sync would report "up to date" (certified stores, no dirty row,  *)
(* no drift) the graph is the one a first full pass over the tree builds,  *)
(* whatever passes, faults and edits led there.                            *)
IndexMatchesReference ==
  pc \in {"idle", "probe"} /\ CanWarmStart /\ dirty = {} /\ DriftSet = {} => graph = FullGraph(disk)

(* A full pass rebuilds the reference graph from any leftover state: when  *)
(* the linker has run, the graph is the one it builds from the parsed      *)
(* contents in an empty store.                                             *)
FullPassConverges == pc = "full_resolve" => graph = LinkedGraph(parsed)

(* No edge of the graph database dangles: between any two batches, both    *)
(* ends of every edge are stored, although batches delete nodes that other *)
(* files' edges end in and the linker adds edges from a later read.        *)
NoDanglingEdges == \A e \in graph.edges : e[1] \in graph.nodes /\ e[2] \in graph.nodes

Own(nodes, p) == {n \in nodes : n.path = p}

(* The dirty rows name every file whose nodes in the graph differ from the *)
(* ones its cache row lists, once the stores are certified and no pass     *)
(* runs: recovery needs nothing else to know what an interrupted           *)
(* incremental pass touched.                                               *)
DirtyRecordsTornFiles ==
  pc = "idle" /\ CanWarmStart =>
    \A p \in Paths \ dirty : Own(graph.nodes, p) = Own(cache[p].ids, p)

(* Vectors that reload as ready were built from the nodes of the graph     *)
(* they are served with.                                                   *)
SemanticReady ==
  pc = "idle" /\ CanWarmStart /\ vectors.gen # 0 /\ vectors.gen = graphGeneration =>
    vectors.nodes = graph.nodes

(* No semantic build runs beside a watcher's pass.                         *)
ExclusiveBuilds == [][why = "watch" => UNCHANGED vectors]_vars

(* Nobody edits the tree.                                                  *)
TreeAtRest == [][UNCHANGED disk]_vars

(* Users delete no file, change none that recovery has yet to visit, and   *)
(* none between the walk of an incremental pass and its dirty rows.        *)
OrderlyEdits ==
  [][\A p \in Paths : disk'[p] # disk[p] =>
       disk'[p] # Absent /\ p \notin dirty /\ pc # "inc_mark"]_vars

UpToDate == CanWarmStart /\ dirty = {} /\ DriftSet = {} /\ graph = FullGraph(disk)

(* Once edits and faults stop, repeated syncs bring the index to the tree  *)
(* and keep it there.                                                      *)
Converges == <>[]UpToDate
=============================================================================
