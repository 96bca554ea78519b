---------------------------- MODULE IngestProofs ----------------------------
(***************************************************************************)
(* Proofs about Ingest for every value of its constants.                   *)
(***************************************************************************)
EXTENDS Ingest, TLAPS

(***************************************************************************)
(* Types of the operators on graphs.                                       *)
(***************************************************************************)

(* The parser and the linker mint well-formed nodes only.                  *)
LEMMA NodeTypes ==
  /\ \A p \in Paths : FileNode(p) \in Nodes
  /\ \A p \in Paths, n \in Names : SymbolNode(p, n) \in Nodes
  /\ \A k \in Packages : PackageNode(k) \in Nodes
  /\ \A d \in Dirs, n \in Names : ExternalNode(d, n) \in Nodes
  BY DEF FileNode, SymbolNode, PackageNode, ExternalNode, Node, Nodes

(* What a parsed content says is well formed.                              *)
LEMMA FactTypes ==
  ASSUME NEW c \in Contents \cup {Absent}, Parses(c)
  PROVE  /\ c \in Contents
         /\ Facts[c].defs \subseteq Names /\ Facts[c].bare \subseteq Names
         /\ Facts[c].sels \subseteq Dirs \X Names
         /\ Facts[c].imports \subseteq Dirs
         /\ Facts[c].package \in Packages \cup {None}
  <1>1. c \in Contents BY DEF Parses
  <1>2. Facts[c] \in ParseFacts BY <1>1, GraphAssumption
  <1> QED BY <1>1, <1>2 DEF ParseFacts

LEMMA NodesOfType ==
  ASSUME NEW p \in Paths, NEW c \in Contents \cup {Absent}
  PROVE  NodesOf(p, c) \subseteq Nodes
  BY NodeTypes, FactTypes DEF NodesOf

LEMMA TreeNodesType ==
  ASSUME NEW tree \in Trees
  PROVE  TreeNodes(tree) \subseteq Nodes
  BY NodesOfType DEF TreeNodes, Trees

LEMMA WithoutType ==
  ASSUME NEW g \in Graphs, NEW gone
  PROVE  Without(g, gone) \in Graphs
  BY DEF Without, Graphs

LEMMA SameDirType ==
  ASSUME NEW nodes, NEW d, NEW n \in Names
  PROVE  sameDir(nodes, d, n) \subseteq Nodes
  BY NodeTypes DEF sameDir, Declarers

LEMMA ExternalsType ==
  ASSUME NEW nodes, NEW c \in Contents \cup {Absent}, Parses(c)
  PROVE  Externals(nodes, c) \subseteq Nodes
  <1>1. Facts[c].sels \subseteq Dirs \X Names BY FactTypes
  <1> QED BY <1>1, NodeTypes DEF Externals

LEMMA TargetsType ==
  ASSUME NEW nodes, NEW p \in Paths, NEW c \in Contents \cup {Absent}, Parses(c)
  PROVE  Targets(nodes, p, c) \subseteq Nodes
  <1>1. \A n \in Facts[c].bare : sameDir(nodes, DirOf[p], n) \subseteq Nodes
    BY FactTypes, SameDirType
  <1>2. \A x \in Facts[c].sels : sameDir(nodes, x[1], x[2]) \subseteq Nodes
    <2>1. Facts[c].sels \subseteq Dirs \X Names BY FactTypes
    <2> QED BY <2>1, SameDirType
  <1>3. Externals(nodes, c) \subseteq Nodes BY ExternalsType
  <1>4. {FileNode(q) : q \in {r \in Paths \ {p} : /\ DirOf[r] \in Facts[c].imports
                                                 /\ FileNode(r) \in nodes}} \subseteq Nodes
    BY NodeTypes
  <1>5. UNION {sameDir(nodes, DirOf[p], n) : n \in Facts[c].bare} \subseteq Nodes BY <1>1
  <1>6. UNION {sameDir(nodes, x[1], x[2]) : x \in Facts[c].sels} \subseteq Nodes BY <1>2
  <1> QED BY <1>3, <1>4, <1>5, <1>6 DEF Targets

LEMMA LinkEdgesType ==
  ASSUME NEW nodes, NEW p \in Paths, NEW c \in Contents \cup {Absent}, Parses(c)
  PROVE  LinkEdges(nodes, p, c) \subseteq Nodes \X Nodes
  BY TargetsType, NodeTypes DEF LinkEdges

LEMMA DeclarationType ==
  ASSUME NEW tree, NEW d, NEW n \in Names
  PROVE  Declaration(tree, d, n) \subseteq Nodes
  BY NodeTypes DEF Declaration, Declarers

LEMMA ConfirmedType ==
  ASSUME NEW nodes, NEW tree \in Trees
  PROVE  Confirmed(nodes, tree) \subseteq Nodes \X Nodes
  <1> SUFFICES ASSUME NEW p \in Paths, Parses(tree[p]), NEW t \in Uses(tree, p)
               PROVE  <<FileNode(p), t>> \in Nodes \X Nodes
    BY DEF Confirmed
  <1>1. tree[p] \in Contents \cup {Absent} BY DEF Trees
  <1>2. Facts[tree[p]].bare \subseteq Names /\ Facts[tree[p]].sels \subseteq Dirs \X Names
    BY <1>1, FactTypes
  <1>3. t \in Nodes BY <1>2, DeclarationType DEF Uses
  <1> QED BY <1>3, NodeTypes

(***************************************************************************)
(* Types of the effects of a pass.                                         *)
(***************************************************************************)
LEMMA FreshType ==
  /\ Fresh \in 1..7
  /\ Fresh # graphGen /\ Fresh # commitGen /\ Fresh # marker /\ Fresh # metaGen
  /\ Fresh # vectors.gen /\ Fresh # gen
  <1>1. \E g \in 1..7 : g \notin {graphGen, commitGen, marker, metaGen, vectors.gen, gen}
    OBVIOUS
  <1> QED BY <1>1 DEF Fresh

LEMMA CommitParsedType ==
  ASSUME graph \in Graphs, NEW new \in Trees
  PROVE  CommitParsed(new) \in Graphs
  <1> DEFINE files   == {p \in Paths : Parses(new[p])}
             dropped == UNION {Drops(p, new) : p \in files}
             lost    == {n \in dropped : \A p, q \in files :
                           n \in Drops(p, new) /\ n \in NodesOf(q, new[q]) => Rank[q] < Rank[p]}
  <1>1. Without(graph, dropped) \in Graphs BY WithoutType
  <1>2. (graph.nodes \cup TreeNodes(new)) \ lost \in SUBSET Nodes BY TreeNodesType DEF Graphs
  <1>3. CommitParsed(new) = [Without(graph, dropped) EXCEPT !.nodes = (graph.nodes \cup TreeNodes(new)) \ lost]
    BY DEF CommitParsed
  <1> HIDE DEF files, dropped, lost
  <1> QED BY <1>1, <1>2, <1>3 DEF Graphs

LEMMA CachePutType ==
  ASSUME NEW rows \in [Paths -> Rows], NEW new \in Trees
  PROVE  CachePut(rows, new) \in [Paths -> Rows]
  <1> SUFFICES ASSUME NEW p \in Paths
               PROVE  CachePut(rows, new)[p] \in Rows
    BY DEF CachePut
  <1>1. new[p] \in Contents \cup {Absent} BY DEF Trees
  <1>2. NodesOf(p, new[p]) \in SUBSET Nodes BY <1>1, NodesOfType
  <1>3. HasLinks(new[p]) \in BOOLEAN BY DEF HasLinks, Parses
  <1> QED BY <1>1, <1>2, <1>3 DEF CachePut, Rows

LEMMA UpdateReverseDepsType ==
  ASSUME NEW rows \in [Dirs -> SUBSET Paths], NEW nodes, NEW new
  PROVE  UpdateReverseDeps(rows, nodes, new) \in [Dirs -> SUBSET Paths]
  BY DEF UpdateReverseDeps

LEMMA LinkFilesType ==
  ASSUME NEW g \in Graphs, NEW new \in Trees
  PROVE  LinkFiles(g, new) \in Graphs
  <1> DEFINE files == {p \in Paths : Parses(new[p])}
             kept  == {e \in g.edges : \A p \in files : e[1] # FileNode(p)}
             exts  == UNION {Externals(g.nodes, new[p]) : p \in files}
             links == UNION {LinkEdges(g.nodes, p, new[p]) : p \in files}
  <1>1. \A p \in files : new[p] \in Contents \cup {Absent} /\ Parses(new[p]) BY DEF Trees
  <1>2. exts \subseteq Nodes BY <1>1, ExternalsType
  <1>3. links \subseteq Nodes \X Nodes BY <1>1, LinkEdgesType
  <1>4. kept \subseteq Nodes \X Nodes BY DEF Graphs
  <1>5. LinkFiles(g, new) = [nodes |-> g.nodes \cup exts, edges |-> kept \cup links, conf |-> g.conf \cap kept]
    BY DEF LinkFiles
  <1> HIDE DEF files, kept, exts, links
  <1> QED BY <1>2, <1>3, <1>4, <1>5 DEF Graphs

LEMMA TypeResolveType ==
  ASSUME NEW g \in Graphs, disk \in Trees
  PROVE  TypeResolve(g) \in Graphs
  <1> DEFINE tree    == [p \in Paths |-> IF walked[p] = Absent THEN Absent ELSE disk[p]]
             skipped == ~Semantic \/ \E p \in Paths : walked[p] # Absent /\ disk[p] = Absent
             fresh   == Confirmed(g.nodes, tree)
             checked == {d \in Dirs : ~Degraded(tree, d) /\ \E p \in Paths : DirOf[p] = d /\ tree[p] # Absent}
             stale   == {e \in g.conf \ fresh : DirOf[e[1].path] \in checked}
  <1>1. tree \in Trees BY DEF Trees
  <1>2. fresh \subseteq Nodes \X Nodes BY <1>1, ConfirmedType
  <1>3. TypeResolve(g) = IF skipped THEN g
                         ELSE [g EXCEPT !.edges = (@ \ stale) \cup fresh, !.conf = (@ \ stale) \cup fresh]
    BY DEF TypeResolve
  <1> HIDE DEF tree, skipped, fresh, checked, stale
  <1>4. CASE skipped BY <1>3, <1>4
  <1>5. CASE ~skipped
    <2>1. TypeResolve(g) = [g EXCEPT !.edges = (g.edges \ stale) \cup fresh, !.conf = (g.conf \ stale) \cup fresh]
      BY <1>3, <1>5
    <2> QED BY <1>2, <2>1 DEF Graphs
  <1> QED BY <1>4, <1>5

LEMMA CascadesType ==
  ASSUME TypeOK, NEW S \in Cascades(work)
  PROVE  S \subseteq Paths
  <1>1. \A p \in Paths : dependentsOf(p) \subseteq Paths
    BY GraphAssumption DEF TypeOK, dependentsOf
  <1>2. work \subseteq Paths BY DEF TypeOK
  <1>3. \A V \in SUBSET Paths : UNION {dependentsOf(p) : p \in V} \subseteq Paths BY <1>1
  <1>4. PICK V \in SUBSET Paths : S = work \cup (UNION {dependentsOf(p) : p \in V})
    BY DEF Cascades
  <1> QED BY <1>2, <1>3, <1>4

LEMMA RereadType ==
  ASSUME NEW units, Reread(units), walked \in Trees, disk \in Trees
  PROVE  parsed' \in Trees
  BY DEF Reread, Trees

LEMMA EmptyTypes ==
  /\ NoTree \in Trees
  /\ NoRow \in Rows
  /\ NoCache \in [Paths -> Rows]
  /\ NoDeps \in [Dirs -> SUBSET Paths]
  /\ NoTx \in Metas
  /\ EmptyGraph \in Graphs
  BY DEF NoTree, Trees, NoRow, Rows, NoCache, NoDeps, NoTx, Metas, EmptyGraph, Graphs

LEMMA RestType == ASSUME Rest PROVE
  /\ pc' = "idle" /\ why' = "none"
  /\ walked' \in Trees /\ parsed' \in Trees /\ work' \subseteq Paths
  /\ gen' \in Generations /\ tx' \in Metas
  BY EmptyTypes DEF Rest, Generations

LEMMA FailType == ASSUME Fail PROVE
  /\ pc' \in {"idle", "full_walk"} /\ why' \in {"none", "sync"}
  /\ walked' \in Trees /\ parsed' \in Trees /\ work' \subseteq Paths
  /\ gen' \in Generations /\ tx' \in Metas
  BY RestType, EmptyTypes DEF Fail, Generations

LEMMA SpendType ==
  ASSUME NEW k \in Kinds, Spend(k), left \in [Kinds -> Nat]
  PROVE  left' \in [Kinds -> Nat]
  <1>1. left[k] - 1 \in Nat BY DEF Spend
  <1> QED BY <1>1 DEF Spend

(* Every variable stays in its type: TypeOK is inductive.                  *)
LEMMA TypeOKStep == TypeOK /\ [Next]_vars => TypeOK'
  <1> SUFFICES ASSUME TypeOK, [Next]_vars PROVE TypeOK'
    OBVIOUS
  <1> USE DEF Goto
  <1>1. CASE StartSync
    BY <1>1
    DEF StartSync, TypeOK, graphVars, metaVars, passVars
  <1>2. CASE RecoverWithRoot
    BY <1>2
    DEF RecoverWithRoot, TypeOK, graphVars, metaVars, passVars, IncSteps
  <1>3. CASE warmOrFullIngest
    BY <1>3, RestType
    DEF warmOrFullIngest, TypeOK, graphVars, metaVars, passVars, FullSteps, IncSteps, DriftSet
  <1>4. CASE RebuildRepo
    BY <1>4, SpendType
    DEF RebuildRepo, TypeOK, graphVars, metaVars, passVars, Kinds, FullSteps
  <1>5. CASE ApplyChangedParsed
    BY <1>5, SpendType
    DEF ApplyChangedParsed, TypeOK, graphVars, metaVars, passVars, Kinds, IncSteps
  <1>6. CASE FullWalk
    BY <1>6
    DEF FullWalk, TypeOK, graphVars, metaVars, passVars, FullSteps
  <1>7. CASE FullParse
    BY <1>7, RereadType
    DEF FullParse, TypeOK, graphVars, metaVars, passVars, FullSteps
  <1>8. CASE FullMark
    BY <1>8, FreshType
    DEF FullMark, TypeOK, graphVars, metaVars, passVars, FullSteps, Generations
  <1>9. CASE FullGen
    BY <1>9
    DEF FullGen, TypeOK, graphVars, metaVars, passVars, FullSteps
  <1>10. CASE FullWrite
    <2>1. CommitParsed(parsed) \in Graphs BY CommitParsedType DEF TypeOK
    <2>2. graph' \in Graphs BY <1>10, <2>1, WithoutType DEF FullWrite
    <2>3. tx' \in Metas
      BY <1>10, EmptyTypes, CachePutType, UpdateReverseDepsType DEF FullWrite, TypeOK, Metas
    <2> QED BY <1>10, <2>2, <2>3 DEF FullWrite, TypeOK, metaVars, FullSteps
  <1>11. CASE FullLink
    BY <1>11, LinkFilesType
    DEF FullLink, TypeOK, graphVars, metaVars, passVars, FullSteps
  <1>12. CASE FullResolve
    BY <1>12, TypeResolveType
    DEF FullResolve, TypeOK, graphVars, metaVars, passVars, FullSteps
  <1>13. CASE FullCommit
    BY <1>13
    DEF FullCommit, TypeOK, graphVars, metaVars, passVars, FullSteps, Metas
  <1>14. CASE FullBump
    BY <1>14, FreshType
    DEF FullBump, TypeOK, graphVars, metaVars, passVars, FullSteps, Generations
  <1>15. CASE FullCertify
    BY <1>15, RestType
    DEF FullCertify, TypeOK, graphVars, metaVars, passVars, Generations
  <1>16. CASE IncWalk
    BY <1>16, CascadesType
    DEF IncWalk, TypeOK, graphVars, metaVars, passVars, IncSteps
  <1>17. CASE IncMark
    BY <1>17
    DEF IncMark, TypeOK, graphVars, metaVars, passVars, IncSteps
  <1>18. CASE IncBump
    BY <1>18, FreshType
    DEF IncBump, TypeOK, graphVars, metaVars, passVars, IncSteps, Generations
  <1>19. CASE IncWrite
    <2>1. parsed' \in Trees BY <1>19, RereadType DEF IncWrite, TypeOK
    <2>2. graph' \in Graphs BY <1>19, <2>1, CommitParsedType DEF IncWrite, TypeOK
    <2>3. tx' \in Metas
      BY <1>19, <2>1, CachePutType, UpdateReverseDepsType DEF IncWrite, TypeOK, Metas
    <2> QED BY <1>19, <2>1, <2>2, <2>3 DEF IncWrite, TypeOK, metaVars, IncSteps
  <1>20. CASE IncPurge
    <2>1. graph' \in Graphs BY <1>20, WithoutType DEF IncPurge, TypeOK
    <2>2. tx' \in Metas
      <3>1. PICK gone \in SUBSET Paths :
              tx' = [tx EXCEPT !.cache = [p \in Paths |-> IF p \in gone THEN NoRow ELSE tx.cache[p]],
                               !.dirty = tx.dirty \ gone]
        BY <1>20 DEF IncPurge
      <3> QED BY <3>1, EmptyTypes DEF TypeOK, Metas
    <2> QED BY <1>20, <2>1, <2>2 DEF IncPurge, TypeOK, metaVars, IncSteps
  <1>21. CASE IncLink
    BY <1>21, LinkFilesType
    DEF IncLink, TypeOK, graphVars, metaVars, passVars, IncSteps
  <1>22. CASE IncSweep
    BY <1>22, WithoutType
    DEF IncSweep, TypeOK, graphVars, metaVars, passVars, IncSteps, SweepOrphanExternalNodes
  <1>23. CASE IncResolve
    BY <1>23, TypeResolveType, FailType
    DEF IncResolve, TypeOK, graphVars, metaVars, passVars, IncSteps, FullSteps
  <1>24. CASE IncCommit
    <2>1. tx.cache \in [Paths -> Rows] /\ tx.rdeps \in [Dirs -> SUBSET Paths] /\ tx.dirty \subseteq Paths
      BY DEF TypeOK, Metas
    <2>2. /\ pc' \in {"idle", "probe"} /\ why' \in {"none", "sync"} /\ session' \in BOOLEAN
          /\ walked' \in Trees /\ parsed' \in Trees /\ work' \subseteq Paths
          /\ gen' \in Generations /\ tx' \in Metas
      <3>1. 0 \in Generations BY DEF Generations
      <3>2. CASE why = "recover" BY <1>24, <3>1, <3>2, EmptyTypes DEF IncCommit, TypeOK
      <3>3. CASE why # "recover" BY <1>24, <3>3, RestType DEF IncCommit
      <3> QED BY <3>2, <3>3
    <2> QED BY <1>24, <2>1, <2>2 DEF IncCommit, TypeOK, graphVars
  <1>25. CASE BuildSemanticGeneration
    BY <1>25, SpendType
    DEF BuildSemanticGeneration, TypeOK, graphVars, metaVars, passVars, Kinds, Generations, graphGeneration, Graphs
  <1>26. CASE EditDisk
    <2>1. PICK e \in Edits : disk' = [disk EXCEPT ![e[1]] = e[3]] BY <1>26 DEF EditDisk
    <2>2. e[1] \in Paths /\ e[3] \in Contents \cup {Absent} BY IngestAssumption
    <2>3. disk' \in Trees BY <2>1, <2>2 DEF TypeOK, Trees
    <2> QED BY <1>26, <2>3, SpendType DEF EditDisk, TypeOK, Kinds, graphVars, metaVars, passVars
  <1>27. CASE Crash
    BY <1>27, RestType, SpendType
    DEF Crash, TypeOK, graphVars, metaVars, passVars, Kinds
  <1>28. CASE StepError
    BY <1>28, FailType, SpendType
    DEF StepError, TypeOK, graphVars, metaVars, passVars, Kinds, FullSteps
  <1>29. CASE LoseStore
    <2>1. left' \in [Kinds -> Nat] /\ session' \in BOOLEAN
      BY <1>29, SpendType DEF LoseStore, TypeOK, Kinds
    <2>2. 0 \in Generations BY DEF Generations
    <2>3. CASE graph' = EmptyGraph /\ graphGen' = 0 /\ commitGen' = 0 /\ UNCHANGED metaVars
      BY <1>29, <2>1, <2>2, <2>3, EmptyTypes DEF LoseStore, TypeOK, metaVars, passVars
    <2>4. CASE /\ cache' = NoCache /\ rdeps' = NoDeps /\ dirty' = {}
               /\ marker' = 0 /\ metaGen' = 0 /\ stamped' = FALSE
               /\ UNCHANGED graphVars
      BY <1>29, <2>1, <2>2, <2>4, EmptyTypes DEF LoseStore, TypeOK, graphVars, passVars
    <2> QED BY <1>29, <2>3, <2>4 DEF LoseStore
  <1>30. CASE Upgrade
    BY <1>30, SpendType
    DEF Upgrade, TypeOK, graphVars, metaVars, passVars, Kinds
  <1>31. CASE UNCHANGED vars
    BY <1>31 DEF vars, TypeOK, graphVars, metaVars, passVars
  <1> QED
    BY <1>1, <1>2, <1>3, <1>4, <1>5, <1>6, <1>7, <1>8, <1>9, <1>10, <1>11, <1>12, <1>13, <1>14, <1>15, <1>16, <1>17, <1>18, <1>19, <1>20, <1>21, <1>22, <1>23, <1>24, <1>25, <1>26, <1>27, <1>28, <1>29, <1>30, <1>31
    DEF Next, Sync, Environment, FullPass, IncPass

LEMMA TypeOKInit == Init => TypeOK
  <1> SUFFICES ASSUME Init PROVE TypeOK
    OBVIOUS
  <1>1. 0 \in Generations BY DEF Generations
  <1>2. disk \in Trees /\ left \in [Kinds -> Nat] BY IngestAssumption DEF Init
  <1> QED BY <1>1, <1>2, EmptyTypes DEF Init, TypeOK

(* Type correctness of every reachable state.                              *)
THEOREM TypeCorrect == Spec => []TypeOK
  BY TypeOKInit, TypeOKStep, PTL DEF Spec

(***************************************************************************)
(* Vectors that reload as ready belong to the graph they are served with,  *)
(* provided that no semantic build runs beside a watcher's pass.           *)
(***************************************************************************)

(* The identity moves before an incremental pass writes and before a full  *)
(* pass certifies; until then the full pass's marker is open.              *)
Bumped == {"inc_write", "inc_purge", "inc_link", "inc_sweep", "inc_resolve", "inc_commit", "full_certify"}
Marked == {"full_gen", "full_write", "full_link", "full_resolve", "full_commit", "full_bump", "full_certify"}

IdentityMoved == pc \in Bumped => commitGen # 0 /\ vectors.gen # commitGen
MarkerOpen    == pc \in Marked => marker # 0

(* Vectors under the graph's identity hold its nodes, unless the stores    *)
(* are in a state that no warm start accepts.                              *)
Matching ==
  vectors.gen # 0 /\ vectors.gen = graphGeneration =>
    vectors.nodes = graph.nodes \/ marker # 0 \/ metaGen = 0 \/ metaGen # graphGen

SemanticInv == TypeOK /\ IdentityMoved /\ MarkerOpen /\ Matching

LEMMA SemanticInit == Init => SemanticInv
  BY TypeOKInit DEF Init, SemanticInv, IdentityMoved, MarkerOpen, Matching, Bumped, Marked

LEMMA SemanticStep ==
  SemanticInv /\ [Next]_vars /\ [why = "watch" => UNCHANGED vectors]_vars => SemanticInv'
  <1> SUFFICES ASSUME SemanticInv, [Next]_vars, [why = "watch" => UNCHANGED vectors]_vars
               PROVE  SemanticInv'
    OBVIOUS
  <1>t. TypeOK' BY TypeOKStep DEF SemanticInv
  <1> USE <1>t DEF Goto, graphVars, metaVars, passVars,
                   SemanticInv, IdentityMoved, MarkerOpen, Matching, graphGeneration, Bumped, Marked
  <1>1. CASE StartSync BY <1>1 DEF StartSync
  <1>2. CASE RecoverWithRoot BY <1>2 DEF RecoverWithRoot
  <1>3. CASE warmOrFullIngest BY <1>3 DEF warmOrFullIngest, Rest
  <1>4. CASE RebuildRepo BY <1>4 DEF RebuildRepo
  <1>5. CASE ApplyChangedParsed BY <1>5 DEF ApplyChangedParsed
  <1>6. CASE FullWalk BY <1>6 DEF FullWalk
  <1>7. CASE FullParse BY <1>7 DEF FullParse
  <1>8. CASE FullMark BY <1>8, FreshType DEF FullMark
  <1>9. CASE FullGen BY <1>9 DEF FullGen
  <1>10. CASE FullWrite BY <1>10 DEF FullWrite
  <1>11. CASE FullLink BY <1>11 DEF FullLink
  <1>12. CASE FullResolve BY <1>12 DEF FullResolve
  <1>13. CASE FullCommit BY <1>13 DEF FullCommit
  <1>14. CASE FullBump BY <1>14, FreshType DEF FullBump
  <1>15. CASE FullCertify BY <1>15 DEF FullCertify, Rest
  <1>16. CASE IncWalk BY <1>16 DEF IncWalk
  <1>17. CASE IncMark BY <1>17 DEF IncMark
  <1>18. CASE IncBump BY <1>18, FreshType DEF IncBump
  <1>19. CASE IncWrite BY <1>19 DEF IncWrite
  <1>20. CASE IncPurge BY <1>20 DEF IncPurge
  <1>21. CASE IncLink BY <1>21 DEF IncLink
  <1>22. CASE IncSweep BY <1>22 DEF IncSweep
  <1>23. CASE IncResolve BY <1>23 DEF IncResolve, Fail, Rest
  <1>24. CASE IncCommit BY <1>24 DEF IncCommit, Rest
  <1>25. CASE BuildSemanticGeneration BY <1>25 DEF BuildSemanticGeneration, vars
  <1>26. CASE EditDisk BY <1>26 DEF EditDisk
  <1>27. CASE Crash BY <1>27 DEF Crash, Rest
  <1>28. CASE StepError BY <1>28 DEF StepError, Fail, Rest
  <1>29. CASE LoseStore BY <1>29 DEF LoseStore
  <1>30. CASE Upgrade BY <1>30 DEF Upgrade
  <1>31. CASE UNCHANGED vars BY <1>31 DEF vars
  <1> QED
    BY <1>1, <1>2, <1>3, <1>4, <1>5, <1>6, <1>7, <1>8, <1>9, <1>10, <1>11, <1>12, <1>13, <1>14, <1>15, <1>16, <1>17, <1>18, <1>19, <1>20, <1>21, <1>22, <1>23, <1>24, <1>25, <1>26, <1>27, <1>28, <1>29, <1>30, <1>31
    DEF Next, Sync, Environment, FullPass, IncPass

LEMMA SemanticInvImplies == SemanticInv => SemanticReady
  BY DEF SemanticInv, Matching, SemanticReady, CanWarmStart

(* Semantic vectors are ready only for the graph they were built from: the *)
(* order in which passes write the graph, its identity and the marker      *)
(* leaves no window, whatever crashes, errors, edits and lost stores.      *)
THEOREM SemanticVectorsFresh == Spec /\ ExclusiveBuilds => []SemanticReady
  <1>1. Spec /\ ExclusiveBuilds => []SemanticInv
    BY SemanticInit, SemanticStep, PTL DEF Spec, ExclusiveBuilds
  <1> QED BY <1>1, SemanticInvImplies, PTL

(***************************************************************************)
(* Facts about nodes and edges.                                            *)
(***************************************************************************)
LEMMA NodesOfPath ==
  ASSUME NEW p \in Paths, NEW c \in Contents \cup {Absent}, NEW n \in NodesOf(p, c)
  PROVE  n.path = p \/ n.kind = "package"
  BY DEF NodesOf, FileNode, SymbolNode, PackageNode, Node

LEMMA FileNodeOwner ==
  ASSUME NEW p \in Paths, NEW q \in Paths, NEW c \in Contents \cup {Absent}, FileNode(p) \in NodesOf(q, c)
  PROVE  p = q /\ Parses(c)
  BY DEF NodesOf, FileNode, SymbolNode, PackageNode, Node

LEMMA SameDirIn ==
  ASSUME NEW nodes, NEW d, NEW n
  PROVE  sameDir(nodes, d, n) \subseteq nodes
  BY DEF sameDir, Declarers

LEMMA TargetsIn ==
  ASSUME NEW nodes, NEW p, NEW c
  PROVE  Targets(nodes, p, c) \subseteq nodes \cup Externals(nodes, c)
  <1>1. UNION {sameDir(nodes, DirOf[p], n) : n \in Facts[c].bare} \subseteq nodes BY SameDirIn
  <1>2. UNION {sameDir(nodes, x[1], x[2]) : x \in Facts[c].sels} \subseteq nodes BY SameDirIn
  <1> QED BY <1>1, <1>2 DEF Targets

(* Closed graphs: edges run between stored nodes and start at a file, and  *)
(* confirmed edges are edges.                                              *)
Closed(g) ==
  /\ g.conf \subseteq g.edges
  /\ \A e \in g.edges : /\ e[1] \in g.nodes /\ e[2] \in g.nodes
                        /\ \E p \in Paths : e[1] = FileNode(p)

LEMMA WithoutClosed ==
  ASSUME NEW g, Closed(g), NEW gone
  PROVE  Closed(Without(g, gone))
  BY DEF Closed, Without

LEMMA CommitParsedClosed ==
  ASSUME graph \in Graphs, Closed(graph), NEW new \in Trees
  PROVE  Closed(CommitParsed(new))
  <1> DEFINE files   == {p \in Paths : Parses(new[p])}
             dropped == UNION {Drops(p, new) : p \in files}
             lost    == {n \in dropped : \A p, q \in files :
                           n \in Drops(p, new) /\ n \in NodesOf(q, new[q]) => Rank[q] < Rank[p]}
             kept    == Without(graph, dropped)
  <1>1. CommitParsed(new) = [kept EXCEPT !.nodes = (graph.nodes \cup TreeNodes(new)) \ lost]
    BY DEF CommitParsed
  <1>2. Closed(kept) BY WithoutClosed
  <1>3. kept.nodes = graph.nodes \ dropped BY DEF Without
  <1>4. lost \subseteq dropped OBVIOUS
  <1>5. kept \in Graphs BY WithoutType
  <1> HIDE DEF files, dropped, lost, kept
  <1>6. kept.nodes \subseteq (graph.nodes \cup TreeNodes(new)) \ lost BY <1>3, <1>4
  <1> QED BY <1>1, <1>2, <1>5, <1>6 DEF Closed, Graphs

LEMMA LinkFilesClosed ==
  ASSUME NEW g, Closed(g), NEW new,
         \A p \in Paths : Parses(new[p]) => FileNode(p) \in g.nodes
  PROVE  Closed(LinkFiles(g, new))
  <1> DEFINE files == {p \in Paths : Parses(new[p])}
             kept  == {e \in g.edges : \A p \in files : e[1] # FileNode(p)}
             exts  == UNION {Externals(g.nodes, new[p]) : p \in files}
             links == UNION {LinkEdges(g.nodes, p, new[p]) : p \in files}
  <1>1. LinkFiles(g, new) = [nodes |-> g.nodes \cup exts, edges |-> kept \cup links, conf |-> g.conf \cap kept]
    BY DEF LinkFiles
  <1>2. \A e \in links : /\ e[1] \in g.nodes /\ e[2] \in g.nodes \cup exts
                         /\ \E p \in Paths : e[1] = FileNode(p)
    <2> SUFFICES ASSUME NEW p \in files, NEW e \in LinkEdges(g.nodes, p, new[p])
                 PROVE  e[1] = FileNode(p) /\ e[2] \in g.nodes \cup Externals(g.nodes, new[p])
      OBVIOUS
    <2>1. PICK t \in Targets(g.nodes, p, new[p]) : e = <<FileNode(p), t>> BY DEF LinkEdges
    <2> QED BY <2>1, TargetsIn
  <1>3. \A e \in kept : e[1] \in g.nodes /\ e[2] \in g.nodes /\ \E p \in Paths : e[1] = FileNode(p)
    BY DEF Closed
  <1> HIDE DEF files, kept, exts, links
  <1> QED BY <1>1, <1>2, <1>3 DEF Closed

LEMMA ConfirmedIn ==
  ASSUME NEW nodes, NEW tree, NEW e \in Confirmed(nodes, tree)
  PROVE  e[1] \in nodes /\ e[2] \in nodes /\ \E p \in Paths : e[1] = FileNode(p)
  BY DEF Confirmed

LEMMA TypeResolveClosed ==
  ASSUME NEW g \in Graphs, Closed(g)
  PROVE  Closed(TypeResolve(g))
  <1> DEFINE tree    == [p \in Paths |-> IF walked[p] = Absent THEN Absent ELSE disk[p]]
             skipped == ~Semantic \/ \E p \in Paths : walked[p] # Absent /\ disk[p] = Absent
             fresh   == Confirmed(g.nodes, tree)
             checked == {d \in Dirs : ~Degraded(tree, d) /\ \E p \in Paths : DirOf[p] = d /\ tree[p] # Absent}
             stale   == {e \in g.conf \ fresh : DirOf[e[1].path] \in checked}
  <1>1. TypeResolve(g) = IF skipped THEN g
                         ELSE [g EXCEPT !.edges = (@ \ stale) \cup fresh, !.conf = (@ \ stale) \cup fresh]
    BY DEF TypeResolve
  <1>2. \A e \in fresh : e[1] \in g.nodes /\ e[2] \in g.nodes /\ \E p \in Paths : e[1] = FileNode(p)
    BY ConfirmedIn
  <1> HIDE DEF tree, skipped, fresh, checked, stale
  <1>3. CASE skipped BY <1>1, <1>3
  <1>4. CASE ~skipped
    <2>1. TypeResolve(g) = [g EXCEPT !.edges = (g.edges \ stale) \cup fresh, !.conf = (g.conf \ stale) \cup fresh]
      BY <1>1, <1>4
    <2> QED BY <1>2, <2>1 DEF Closed, Graphs
  <1> QED BY <1>3, <1>4

(***************************************************************************)
(* The structural invariant.                                               *)
(***************************************************************************)

(* A cache row of p lists only nodes that some content of p yields.        *)
Yields(p) == UNION {NodesOf(p, c) : c \in Contents}
RowsParsed(rows) == \A p \in Paths : rows[p].ids \subseteq Yields(p)

(* The linker and the purge find the file nodes of the parsed files.       *)
FilesStored ==
  pc \in {"full_link", "inc_purge", "inc_link"} =>
    \A p \in Paths : Parses(parsed[p]) => FileNode(p) \in graph.nodes

PurgeReady ==
  pc = "inc_purge" =>
    \A p \in Paths : parsed[p] # Absent => walked[p] # Absent /\ tx.cache[p].ids = NodesOf(p, parsed[p])

StructInv ==
  TypeOK /\ Closed(graph) /\ RowsParsed(cache) /\ RowsParsed(tx.cache) /\ FilesStored /\ PurgeReady

LEMMA YieldsPath ==
  ASSUME NEW p \in Paths, NEW n \in Yields(p)
  PROVE  n.path = p \/ n.kind = "package"
  BY NodesOfPath DEF Yields

LEMMA RowsParsedEmpty == RowsParsed(NoCache) /\ RowsParsed(NoTx.cache)
  BY DEF RowsParsed, NoCache, NoTx, NoRow

LEMMA RowsParsedPut ==
  ASSUME NEW rows, RowsParsed(rows), NEW new \in Trees
  PROVE  RowsParsed(CachePut(rows, new))
  BY DEF RowsParsed, CachePut, Yields, Trees

LEMMA CommitParsedFiles ==
  ASSUME RowsParsed(cache), NEW new \in Trees, NEW p \in Paths, Parses(new[p])
  PROVE  FileNode(p) \in CommitParsed(new).nodes
  <1> DEFINE files   == {q \in Paths : Parses(new[q])}
             dropped == UNION {Drops(q, new) : q \in files}
             lost    == {n \in dropped : \A q, r \in files :
                           n \in Drops(q, new) /\ n \in NodesOf(r, new[r]) => Rank[r] < Rank[q]}
  <1>1. FileNode(p) \in NodesOf(p, new[p]) BY DEF NodesOf
  <1>2. FileNode(p) \in TreeNodes(new) BY <1>1 DEF TreeNodes
  <1>3. FileNode(p) \notin dropped
    <2> SUFFICES ASSUME NEW q \in files, FileNode(p) \in Drops(q, new) PROVE FALSE
      OBVIOUS
    <2>1. FileNode(p) \in Yields(q) BY DEF Drops, RowsParsed
    <2>2. FileNode(p).path = p /\ FileNode(p).kind = "file" BY DEF FileNode, Node
    <2>3. p = q BY <2>1, <2>2, YieldsPath
    <2> QED BY <1>1, <2>3 DEF Drops
  <1>4. CommitParsed(new).nodes = (graph.nodes \cup TreeNodes(new)) \ lost BY DEF CommitParsed, Without
  <1>5. lost \subseteq dropped OBVIOUS
  <1> HIDE DEF files, dropped, lost
  <1> QED BY <1>2, <1>3, <1>4, <1>5

LEMMA StructInit == Init => StructInv
  <1> SUFFICES ASSUME Init PROVE StructInv
    OBVIOUS
  <1>1. Closed(EmptyGraph) BY DEF Closed, EmptyGraph
  <1> QED BY <1>1, TypeOKInit, RowsParsedEmpty DEF Init, StructInv, FilesStored, PurgeReady

LEMMA StructStep == StructInv /\ [Next]_vars => StructInv'
  <1> SUFFICES ASSUME StructInv, [Next]_vars PROVE StructInv'
    OBVIOUS
  <1>t. TypeOK' BY TypeOKStep DEF StructInv
  <1> USE <1>t DEF Goto, graphVars, metaVars, passVars, StructInv, FilesStored, PurgeReady
  <1>1. CASE StartSync BY <1>1 DEF StartSync
  <1>2. CASE RecoverWithRoot BY <1>2 DEF RecoverWithRoot
  <1>3. CASE warmOrFullIngest BY <1>3, RowsParsedEmpty DEF warmOrFullIngest, Rest
  <1>4. CASE RebuildRepo BY <1>4 DEF RebuildRepo
  <1>5. CASE ApplyChangedParsed BY <1>5 DEF ApplyChangedParsed
  <1>6. CASE FullWalk BY <1>6 DEF FullWalk
  <1>7. CASE FullParse BY <1>7 DEF FullParse
  <1>8. CASE FullMark BY <1>8 DEF FullMark
  <1>9. CASE FullGen BY <1>9 DEF FullGen
  <1>10. CASE FullWrite
    <2>1. parsed \in Trees /\ graph \in Graphs BY DEF TypeOK
    <2>2. Closed(graph') BY <1>10, <2>1, CommitParsedClosed, WithoutClosed DEF FullWrite
    <2>3. \A p \in Paths : Parses(parsed[p]) => FileNode(p) \in graph'.nodes
      <3> SUFFICES ASSUME NEW p \in Paths, Parses(parsed[p]) PROVE FileNode(p) \in graph'.nodes
        OBVIOUS
      <3>1. FileNode(p) \in CommitParsed(parsed).nodes BY <2>1, CommitParsedFiles
      <3>2. FileNode(p) \in TreeNodes(parsed) BY DEF TreeNodes, NodesOf
      <3> QED BY <1>10, <3>1, <3>2 DEF FullWrite, Without
    <2>4. RowsParsed(tx'.cache) BY <1>10, <2>1, RowsParsedEmpty, RowsParsedPut DEF FullWrite
    <2> QED BY <1>10, <2>2, <2>3, <2>4 DEF FullWrite
  <1>11. CASE FullLink
    <2>1. Closed(graph') BY <1>11, LinkFilesClosed DEF FullLink
    <2> QED BY <1>11, <2>1 DEF FullLink
  <1>12. CASE FullResolve
    <2>1. Closed(graph') BY <1>12, TypeResolveClosed DEF FullResolve, TypeOK
    <2> QED BY <1>12, <2>1 DEF FullResolve
  <1>13. CASE FullCommit BY <1>13 DEF FullCommit
  <1>14. CASE FullBump BY <1>14 DEF FullBump
  <1>15. CASE FullCertify BY <1>15, RowsParsedEmpty DEF FullCertify, Rest
  <1>16. CASE IncWalk BY <1>16 DEF IncWalk
  <1>17. CASE IncMark BY <1>17 DEF IncMark
  <1>18. CASE IncBump BY <1>18 DEF IncBump
  <1>19. CASE IncWrite
    <2>1. parsed' \in Trees /\ graph \in Graphs BY <1>19, RereadType DEF IncWrite, TypeOK
    <2>2. Closed(graph') BY <1>19, <2>1, CommitParsedClosed DEF IncWrite
    <2>3. \A p \in Paths : Parses(parsed'[p]) => FileNode(p) \in graph'.nodes
      BY <1>19, <2>1, CommitParsedFiles DEF IncWrite
    <2>4. RowsParsed(tx'.cache) BY <1>19, <2>1, RowsParsedPut DEF IncWrite
    <2>5. \A p \in Paths : parsed'[p] # Absent => walked'[p] # Absent
      BY <1>19 DEF IncWrite, Reread
    <2>6. \A p \in Paths : parsed'[p] # Absent => tx'.cache[p].ids = NodesOf(p, parsed'[p])
      BY <1>19 DEF IncWrite, CachePut
    <2> QED BY <1>19, <2>2, <2>3, <2>4, <2>5, <2>6 DEF IncWrite
  <1>20. CASE IncPurge
    <2> DEFINE gone == {p \in Paths : tx.cache[p].hash # Absent /\ walked[p] = Absent}
               kept == UNION {tx.cache[p].ids : p \in Paths \ gone}
               cut  == (UNION {cache[p].ids : p \in gone}) \ kept
    <2>1. /\ graph' = Without(graph, cut)
          /\ tx' = [tx EXCEPT !.cache = [p \in Paths |-> IF p \in gone THEN NoRow ELSE tx.cache[p]],
                              !.dirty = tx.dirty \ gone]
      BY <1>20 DEF IncPurge
    <2>2. Closed(graph') BY <2>1, WithoutClosed
    <2>3. \A p \in Paths : Parses(parsed[p]) => FileNode(p) \in graph'.nodes
      <3> SUFFICES ASSUME NEW p \in Paths, Parses(parsed[p]) PROVE FileNode(p) \in graph'.nodes
        OBVIOUS
      <3>1. parsed[p] # Absent BY DEF Parses
      <3>2. p \notin gone /\ FileNode(p) \in tx.cache[p].ids BY <1>20, <3>1 DEF IncPurge, NodesOf
      <3>3. FileNode(p) \in graph.nodes /\ FileNode(p) \notin cut BY <1>20, <3>2 DEF IncPurge
      <3> QED BY <2>1, <3>3 DEF Without
    <2>4. RowsParsed(tx'.cache)
      <3>1. tx'.cache = [p \in Paths |-> IF p \in gone THEN NoRow ELSE tx.cache[p]]
        BY <2>1 DEF TypeOK, Metas
      <3> QED BY <3>1 DEF RowsParsed, NoRow
    <2> QED BY <1>20, <2>2, <2>3, <2>4 DEF IncPurge
  <1>21. CASE IncLink
    <2>1. Closed(graph') BY <1>21, LinkFilesClosed DEF IncLink
    <2> QED BY <1>21, <2>1 DEF IncLink
  <1>22. CASE IncSweep
    <2>1. Closed(graph') BY <1>22, WithoutClosed DEF IncSweep, SweepOrphanExternalNodes
    <2> QED BY <1>22, <2>1 DEF IncSweep
  <1>23. CASE IncResolve
    <2>1. Closed(graph') BY <1>23, TypeResolveClosed DEF IncResolve, TypeOK
    <2> QED BY <1>23, <2>1, RowsParsedEmpty DEF IncResolve, Fail, Rest
  <1>24. CASE IncCommit BY <1>24, RowsParsedEmpty DEF IncCommit, Rest
  <1>25. CASE BuildSemanticGeneration BY <1>25 DEF BuildSemanticGeneration
  <1>26. CASE EditDisk BY <1>26 DEF EditDisk
  <1>27. CASE Crash BY <1>27, RowsParsedEmpty DEF Crash, Rest
  <1>28. CASE StepError BY <1>28, RowsParsedEmpty DEF StepError, Fail, Rest
  <1>29. CASE LoseStore
    <2>1. Closed(EmptyGraph) BY DEF Closed, EmptyGraph
    <2> QED BY <1>29, <2>1, RowsParsedEmpty DEF LoseStore
  <1>30. CASE Upgrade BY <1>30 DEF Upgrade
  <1>31. CASE UNCHANGED vars BY <1>31 DEF vars
  <1> QED
    BY <1>1, <1>2, <1>3, <1>4, <1>5, <1>6, <1>7, <1>8, <1>9, <1>10, <1>11, <1>12, <1>13, <1>14, <1>15, <1>16, <1>17, <1>18, <1>19, <1>20, <1>21, <1>22, <1>23, <1>24, <1>25, <1>26, <1>27, <1>28, <1>29, <1>30, <1>31
    DEF Next, Sync, Environment, FullPass, IncPass

(* Referential integrity of the graph database, between any two batches of *)
(* any pass.                                                               *)
THEOREM ReferentialIntegrity == Spec => []NoDanglingEdges
  <1>1. StructInv => NoDanglingEdges BY DEF StructInv, Closed, NoDanglingEdges
  <1> QED BY <1>1, StructInit, StructStep, PTL DEF Spec

(***************************************************************************)
(* Convergence of the full pass.                                           *)
(***************************************************************************)

(* No file mints a node that it shares with another file's parse, as in    *)
(* every language but Java and Kotlin.                                     *)
NoPackages == \A c \in Contents : Facts[c].package = None

LEMMA OwnNodes ==
  ASSUME NoPackages, NEW p \in Paths, NEW c \in Contents \cup {Absent}, NEW n \in NodesOf(p, c)
  PROVE  n.path = p
  <1>1. c \in Contents /\ Facts[c].package = None BY DEF NoPackages, NodesOf, Parses
  <1> QED BY <1>1 DEF NodesOf, FileNode, SymbolNode, Node

(* No node of the new tree is lost: what one file's commit deletes no      *)
(* other file's commit puts.                                               *)
LEMMA CommitParsedKeeps ==
  ASSUME NoPackages, RowsParsed(cache), NEW new \in Trees
  PROVE  TreeNodes(new) \subseteq CommitParsed(new).nodes /\ CommitParsed(new).nodes \subseteq graph.nodes \cup TreeNodes(new)
  <1> DEFINE files   == {p \in Paths : Parses(new[p])}
             dropped == UNION {Drops(p, new) : p \in files}
             lost    == {n \in dropped : \A p, q \in files :
                           n \in Drops(p, new) /\ n \in NodesOf(q, new[q]) => Rank[q] < Rank[p]}
  <1>1. CommitParsed(new).nodes = (graph.nodes \cup TreeNodes(new)) \ lost BY DEF CommitParsed, Without
  <1>2. TreeNodes(new) \cap dropped = {}
    <2> SUFFICES ASSUME NEW q \in Paths, NEW n \in NodesOf(q, new[q]), NEW p \in files, n \in Drops(p, new)
                 PROVE  FALSE
      BY DEF TreeNodes
    <2>1. new[q] \in Contents \cup {Absent} BY DEF Trees
    <2>2. n.path = q BY <2>1, OwnNodes
    <2>3. PICK c \in Contents : n \in NodesOf(p, c) BY DEF Drops, RowsParsed, Yields
    <2>4. n.path = p BY <2>3, OwnNodes
    <2> QED BY <2>2, <2>4 DEF Drops
  <1>3. lost \subseteq dropped OBVIOUS
  <1> HIDE DEF files, dropped, lost
  <1> QED BY <1>1, <1>2, <1>3

(* The linker over a closed graph that holds the nodes of the tree and no  *)
(* others builds the reference graph: no old edge survives it.             *)
LEMMA LinkFilesReference ==
  ASSUME NEW g, Closed(g), NEW new \in Trees, g.nodes = TreeNodes(new)
  PROVE  LinkFiles(g, new) = LinkedGraph(new)
  <1> DEFINE files == {p \in Paths : Parses(new[p])}
             kept  == {e \in g.edges : \A p \in files : e[1] # FileNode(p)}
  <1>1. kept = {}
    <2> SUFFICES ASSUME NEW e \in kept PROVE FALSE
      OBVIOUS
    <2>1. PICK p \in Paths : e[1] = FileNode(p) BY DEF Closed
    <2>2. PICK q \in Paths : FileNode(p) \in NodesOf(q, new[q]) BY <2>1 DEF Closed, TreeNodes
    <2>3. new[q] \in Contents \cup {Absent} BY DEF Trees
    <2>4. p \in files BY <2>2, <2>3, FileNodeOwner
    <2> QED BY <2>1, <2>4
  <1> HIDE DEF kept
  <1>2. LinkFiles(g, new) =
          [ nodes |-> g.nodes \cup (UNION {Externals(g.nodes, new[p]) : p \in files}),
            edges |-> kept \cup (UNION {LinkEdges(g.nodes, p, new[p]) : p \in files}),
            conf  |-> g.conf \cap kept ]
    BY DEF LinkFiles, kept
  <1>3. LinkedGraph(new) =
          [ nodes |-> g.nodes \cup (UNION {Externals(g.nodes, new[p]) : p \in files}),
            edges |-> UNION {LinkEdges(g.nodes, p, new[p]) : p \in files},
            conf  |-> {} ]
    BY DEF LinkedGraph
  <1> HIDE DEF files
  <1> QED BY <1>1, <1>2, <1>3

(* After the write batch the graph holds the nodes of the parsed tree and  *)
(* no others.                                                              *)
Purged == pc = "full_link" => graph.nodes = TreeNodes(parsed)

FullInv == StructInv /\ Purged /\ FullPassConverges

LEMMA FullStep == NoPackages /\ FullInv /\ [Next]_vars => FullInv'
  <1> SUFFICES ASSUME NoPackages, FullInv, [Next]_vars PROVE FullInv'
    OBVIOUS
  <1>s. StructInv' BY StructStep DEF FullInv
  <1> USE <1>s DEF Goto, FullInv, Purged, FullPassConverges
  <1>1. CASE FullWrite
    <2>1. parsed \in Trees /\ RowsParsed(cache) BY DEF StructInv, TypeOK
    <2>2. graph'.nodes = CommitParsed(parsed).nodes \ (graph.nodes \ TreeNodes(parsed))
      BY <1>1 DEF FullWrite, Without
    <2>3. graph'.nodes = TreeNodes(parsed) BY <2>1, <2>2, CommitParsedKeeps
    <2> QED BY <1>1, <2>3 DEF FullWrite
  <1>2. CASE FullLink
    <2>1. graph' = LinkedGraph(parsed)
      BY <1>2, LinkFilesReference DEF FullLink, StructInv, TypeOK
    <2> QED BY <1>2, <2>1 DEF FullLink
  <1>3. CASE BuildSemanticGeneration \/ EditDisk \/ UNCHANGED vars
    BY <1>3 DEF BuildSemanticGeneration, EditDisk, passVars, graphVars, vars
  <1>4. CASE StartSync \/ RecoverWithRoot \/ warmOrFullIngest \/ RebuildRepo \/ ApplyChangedParsed
    BY <1>4 DEF StartSync, RecoverWithRoot, warmOrFullIngest, RebuildRepo, ApplyChangedParsed, Rest
  <1>5. CASE FullWalk \/ FullParse \/ FullMark \/ FullGen \/ FullResolve
    BY <1>5 DEF FullWalk, FullParse, FullMark, FullGen, FullResolve
  <1>6. CASE FullCommit \/ FullBump \/ FullCertify
    BY <1>6 DEF FullCommit, FullBump, FullCertify, Rest
  <1>7. CASE IncWalk \/ IncMark \/ IncBump \/ IncWrite \/ IncPurge \/ IncLink \/ IncSweep
    BY <1>7 DEF IncWalk, IncMark, IncBump, IncWrite, IncPurge, IncLink, IncSweep
  <1>8. CASE IncResolve \/ IncCommit \/ Crash \/ StepError
    BY <1>8 DEF IncResolve, IncCommit, Crash, StepError, Fail, Rest
  <1>9. CASE LoseStore \/ Upgrade BY <1>9 DEF LoseStore, Upgrade, passVars
  <1> QED BY <1>1, <1>2, <1>3, <1>4, <1>5, <1>6, <1>7, <1>8, <1>9
        DEF Next, Sync, Environment, FullPass, IncPass

(* The full pass of IngestAll converges: where no file mints a shared      *)
(* package node, a full pass rebuilds the reference graph of the contents  *)
(* it parsed from whatever faults, torn passes and lost stores left in     *)
(* the two databases.                                                      *)
THEOREM FullPassRebuilds == NoPackages /\ Spec => []FullPassConverges
  <1> SUFFICES ASSUME NoPackages PROVE Spec => []FullPassConverges
    OBVIOUS
  <1>1. Init => FullInv BY StructInit DEF Init, FullInv, Purged, FullPassConverges
  <1>2. FullInv /\ [Next]_vars => FullInv' BY FullStep
  <1>3. FullInv => FullPassConverges BY DEF FullInv
  <1> QED BY <1>1, <1>2, <1>3, PTL DEF Spec

(***************************************************************************)
(* A tree at rest: faults, lost stores, upgrades, rebuilds and watcher     *)
(* batches alone never make an index wrong that counts as up to date.      *)
(***************************************************************************)

(* The rows that a full pass over a tree commits.                          *)
RowFor(p, c)  == [hash |-> c, ids |-> NodesOf(p, c), links |-> HasLinks(c)]
RowsFor(tree) == [p \in Paths |-> RowFor(p, tree[p])]

(* A graph of the tree that lacks at most what the semantic resolver adds. *)
Linked(g, tree) ==
  /\ g.nodes = LinkedGraph(tree).nodes
  /\ LinkedGraph(tree).edges \subseteq g.edges
  /\ g.edges \subseteq FullGraph(tree).edges
  /\ g.conf \subseteq FullGraph(tree).conf

(* What was read of a tree, and of nothing else.                           *)
ReadOf(new, tree) == \A p \in Paths : new[p] # Absent => new[p] = tree[p]

(* The linker resolves nothing to an external node.                        *)
LEMMA ExternalsApart ==
  ASSUME NEW nodes, NEW more, nodes \subseteq more, \A n \in more \ nodes : n.kind = "external"
  PROVE  /\ \A c : Externals(more, c) = Externals(nodes, c)
         /\ \A p, c : LinkEdges(more, p, c) = LinkEdges(nodes, p, c)
  <1>1. \A q, n : SymbolNode(q, n).kind = "symbol" /\ FileNode(q).kind = "file"
    BY DEF SymbolNode, FileNode, Node
  <1>2. \A q, n : SymbolNode(q, n) \in more <=> SymbolNode(q, n) \in nodes BY <1>1
  <1>3. \A q : FileNode(q) \in more <=> FileNode(q) \in nodes BY <1>1
  <1>4. \A d, n : Declarers(more, d, n) = Declarers(nodes, d, n) BY <1>2 DEF Declarers
  <1>5. \A d, n : sameDir(more, d, n) = sameDir(nodes, d, n) BY <1>4 DEF sameDir
  <1>6. ASSUME NEW c PROVE Externals(more, c) = Externals(nodes, c) BY <1>5 DEF Externals
  <1>7. ASSUME NEW p, NEW c PROVE Targets(more, p, c) = Targets(nodes, p, c)
    <2>1. UNION {sameDir(more, DirOf[p], n) : n \in Facts[c].bare}
            = UNION {sameDir(nodes, DirOf[p], n) : n \in Facts[c].bare}
      BY <1>5
    <2>2. UNION {sameDir(more, x[1], x[2]) : x \in Facts[c].sels}
            = UNION {sameDir(nodes, x[1], x[2]) : x \in Facts[c].sels}
      BY <1>5
    <2>3. {r \in Paths \ {p} : DirOf[r] \in Facts[c].imports /\ FileNode(r) \in more}
            = {r \in Paths \ {p} : DirOf[r] \in Facts[c].imports /\ FileNode(r) \in nodes}
      BY <1>3
    <2> QED BY <1>6, <2>1, <2>2, <2>3 DEF Targets
  <1> QED BY <1>6, <1>7 DEF LinkEdges

(* The parts of the reference graph.                                       *)
LEMMA ReferenceParts ==
  ASSUME NEW tree \in Trees
  PROVE  /\ LinkedGraph(tree).nodes
              = TreeNodes(tree) \cup UNION {Externals(TreeNodes(tree), tree[p]) : p \in {q \in Paths : Parses(tree[q])}}
         /\ LinkedGraph(tree).edges
              = UNION {LinkEdges(TreeNodes(tree), p, tree[p]) : p \in {q \in Paths : Parses(tree[q])}}
         /\ LinkedGraph(tree).conf = {}
         /\ FullGraph(tree).nodes = LinkedGraph(tree).nodes
         /\ FullGraph(tree).conf = (IF Semantic THEN Confirmed(TreeNodes(tree), tree) ELSE {})
         /\ FullGraph(tree).edges = LinkedGraph(tree).edges \cup FullGraph(tree).conf
         /\ FullGraph(tree) = [ nodes |-> LinkedGraph(tree).nodes,
                                edges |-> LinkedGraph(tree).edges \cup FullGraph(tree).conf,
                                conf  |-> FullGraph(tree).conf ]
  <1>1. /\ LinkedGraph(tree).nodes
              = TreeNodes(tree) \cup UNION {Externals(TreeNodes(tree), tree[p]) : p \in {q \in Paths : Parses(tree[q])}}
        /\ LinkedGraph(tree).edges
              = UNION {LinkEdges(TreeNodes(tree), p, tree[p]) : p \in {q \in Paths : Parses(tree[q])}}
        /\ LinkedGraph(tree).conf = {}
        /\ LinkedGraph(tree) = [ nodes |-> LinkedGraph(tree).nodes, edges |-> LinkedGraph(tree).edges, conf |-> {} ]
    BY DEF LinkedGraph
  <1> DEFINE l == LinkedGraph(tree)
             c == IF Semantic THEN Confirmed(TreeNodes(tree), tree) ELSE {}
  <1>2. FullGraph(tree) = [l EXCEPT !.edges = @ \cup c, !.conf = c] BY DEF FullGraph
  <1> HIDE DEF l, c
  <1>3. FullGraph(tree) = [nodes |-> l.nodes, edges |-> l.edges \cup c, conf |-> c] BY <1>1, <1>2 DEF l
  <1>4. FullGraph(tree).nodes = l.nodes /\ FullGraph(tree).conf = c /\ FullGraph(tree).edges = l.edges \cup c BY <1>3
  <1> QED BY <1>1, <1>3, <1>4 DEF l, c

LEMMA ReferenceExternals ==
  ASSUME NEW tree \in Trees
  PROVE  /\ TreeNodes(tree) \subseteq LinkedGraph(tree).nodes
         /\ \A n \in TreeNodes(tree) : n.kind # "external"
         /\ \A n \in LinkedGraph(tree).nodes \ TreeNodes(tree) : n.kind = "external" /\ n.path = None
  <1>1. \A p \in Paths : \A n \in NodesOf(p, tree[p]) : n.kind # "external"
    BY DEF NodesOf, FileNode, SymbolNode, PackageNode, Node
  <1>2. \A c : \A n \in Externals(TreeNodes(tree), c) : n.kind = "external" /\ n.path = None
    BY DEF Externals, ExternalNode, Node
  <1>3. \A n \in TreeNodes(tree) : n.kind # "external" BY <1>1 DEF TreeNodes
  <1>4. TreeNodes(tree) \subseteq LinkedGraph(tree).nodes BY ReferenceParts
  <1>5. ASSUME NEW n \in LinkedGraph(tree).nodes, n \notin TreeNodes(tree)
        PROVE  n.kind = "external" /\ n.path = None
    <2>1. \E p \in Paths : n \in Externals(TreeNodes(tree), tree[p]) BY <1>5, ReferenceParts
    <2> QED BY <1>2, <2>1
  <1> QED BY <1>3, <1>4, <1>5

(* The linked graph itself is one.                                         *)
LEMMA LinkedReference ==
  ASSUME NEW tree \in Trees
  PROVE  Linked(LinkedGraph(tree), tree) /\ Linked(FullGraph(tree), tree)
  BY ReferenceParts DEF Linked

(* The resolver yields edges between nodes of the tree.                    *)
LEMMA ConfirmedApart ==
  ASSUME NEW tree \in Trees, NEW nodes, TreeNodes(tree) \subseteq nodes
  PROVE  Confirmed(nodes, tree) = Confirmed(TreeNodes(tree), tree)
  <1> DEFINE base == TreeNodes(tree)
             uses == UNION { {<<FileNode(p), t>> : t \in Uses(tree, p)}
                             : p \in {q \in Paths : Parses(tree[q]) /\ ~Degraded(tree, DirOf[q])} }
  <1>1. uses \subseteq base \X base
    <2> SUFFICES ASSUME NEW p \in Paths, Parses(tree[p]), NEW t \in Uses(tree, p)
                 PROVE  FileNode(p) \in base /\ t \in base
      OBVIOUS
    <2>1. FileNode(p) \in base BY DEF TreeNodes, NodesOf
    <2>2. \A d, n : Declaration(tree, d, n) \subseteq base BY DEF Declaration, Declarers
    <2>3. t \in base BY <2>2 DEF Uses
    <2> QED BY <2>1, <2>3
  <1>2. Confirmed(nodes, tree) = uses \cap (nodes \X nodes) /\ Confirmed(base, tree) = uses \cap (base \X base)
    BY DEF Confirmed
  <1> HIDE DEF base, uses
  <1>3. base \subseteq nodes BY DEF base
  <1>4. base \X base \subseteq nodes \X nodes BY <1>3
  <1> QED BY <1>1, <1>2, <1>4 DEF base

(* The semantic resolver completes a linked graph.                         *)
LEMMA ResolveCompletes ==
  ASSUME disk \in Trees, walked = disk, NEW g \in Graphs, Linked(g, disk)
  PROVE  TypeResolve(g) = FullGraph(disk)
  <1> DEFINE tree    == [p \in Paths |-> IF walked[p] = Absent THEN Absent ELSE disk[p]]
             skipped == ~Semantic \/ \E p \in Paths : walked[p] # Absent /\ disk[p] = Absent
             fresh   == Confirmed(g.nodes, tree)
             checked == {d \in Dirs : ~Degraded(tree, d) /\ \E p \in Paths : DirOf[p] = d /\ tree[p] # Absent}
             stale   == {e \in g.conf \ fresh : DirOf[e[1].path] \in checked}
  <1>1. TypeResolve(g) = IF skipped THEN g
                         ELSE [g EXCEPT !.edges = (@ \ stale) \cup fresh, !.conf = (@ \ stale) \cup fresh]
    BY DEF TypeResolve
  <1>2. tree = disk BY DEF Trees
  <1>3. skipped <=> ~Semantic OBVIOUS
  <1>4. g = [nodes |-> g.nodes, edges |-> g.edges, conf |-> g.conf] BY DEF Graphs
  <1>5. CASE ~Semantic
    <2>1. g.conf = {} /\ g.edges = LinkedGraph(disk).edges BY <1>5, ReferenceParts DEF Linked
    <2>2. FullGraph(disk) = [nodes |-> g.nodes, edges |-> g.edges, conf |-> g.conf]
      BY <1>5, <2>1, ReferenceParts DEF Linked
    <2> QED BY <1>1, <1>3, <1>4, <1>5, <2>2
  <1>6. CASE Semantic
    <2>1. TreeNodes(disk) \subseteq g.nodes BY ReferenceExternals DEF Linked
    <2>2. fresh = Confirmed(TreeNodes(disk), disk) BY <1>2, <2>1, ConfirmedApart
    <2>3. fresh = FullGraph(disk).conf BY <1>6, <2>2, ReferenceParts
    <2>4. stale \subseteq g.conf \ fresh OBVIOUS
    <2> HIDE DEF tree, skipped, fresh, checked, stale
    <2>5. g.conf \subseteq fresh BY <2>3 DEF Linked
    <2>6. stale = {} BY <2>4, <2>5
    <2>7. TypeResolve(g) = [nodes |-> g.nodes, edges |-> (g.edges \ stale) \cup fresh, conf |-> (g.conf \ stale) \cup fresh]
      BY <1>1, <1>3, <1>4, <1>6
    <2>8. (g.edges \ stale) \cup fresh = LinkedGraph(disk).edges \cup FullGraph(disk).conf
      BY <2>3, <2>6, ReferenceParts DEF Linked
    <2>9. (g.conf \ stale) \cup fresh = FullGraph(disk).conf BY <2>3, <2>5, <2>6
    <2> QED BY <2>7, <2>8, <2>9, ReferenceParts DEF Linked
  <1> QED BY <1>5, <1>6

(* The commit of files that are as their rows say deletes nothing.         *)
LEMMA CommitParsedAdds ==
  ASSUME graph \in Graphs, NEW new \in Trees, ReadOf(new, disk),
         \A p \in Paths : cache[p] \in {NoRow, RowFor(p, disk[p])}
  PROVE  CommitParsed(new) = [graph EXCEPT !.nodes = graph.nodes \cup TreeNodes(new)]
  <1> DEFINE files   == {p \in Paths : Parses(new[p])}
             dropped == UNION {Drops(p, new) : p \in files}
             lost    == {n \in dropped : \A p, q \in files :
                           n \in Drops(p, new) /\ n \in NodesOf(q, new[q]) => Rank[q] < Rank[p]}
  <1>1. dropped = {}
    <2> SUFFICES ASSUME NEW p \in files, NEW n \in Drops(p, new) PROVE FALSE
      OBVIOUS
    <2>1. new[p] = disk[p] BY DEF ReadOf, Parses
    <2>2. n \in cache[p].ids /\ n \notin NodesOf(p, disk[p]) BY <2>1 DEF Drops
    <2>3. cache[p].ids \subseteq NodesOf(p, disk[p]) BY DEF NoRow, RowFor
    <2> QED BY <2>2, <2>3
  <1>2. lost = {} BY <1>1
  <1>3. CommitParsed(new) = [Without(graph, dropped) EXCEPT !.nodes = (graph.nodes \cup TreeNodes(new)) \ lost]
    BY DEF CommitParsed
  <1> HIDE DEF files, dropped, lost
  <1>4. Without(graph, {}) = graph BY DEF Without, Graphs
  <1> QED BY <1>1, <1>2, <1>3, <1>4

LEMMA TreeNodesOfRead ==
  ASSUME NEW tree \in Trees, NEW new \in Trees, ReadOf(new, tree)
  PROVE  TreeNodes(new) \subseteq TreeNodes(tree)
  BY DEF TreeNodes, NodesOf, ReadOf, Parses

(* The linker keeps a graph linked.                                        *)
LEMMA LinkFilesLinked ==
  ASSUME NEW tree \in Trees, NEW new \in Trees, ReadOf(new, tree), NEW g \in Graphs, Linked(g, tree)
  PROVE  Linked(LinkFiles(g, new), tree)
  <1> DEFINE base  == TreeNodes(tree)
             all   == {p \in Paths : Parses(tree[p])}
             files == {p \in Paths : Parses(new[p])}
             kept  == {e \in g.edges : \A p \in files : e[1] # FileNode(p)}
             exts  == UNION {Externals(g.nodes, new[p]) : p \in files}
             links == UNION {LinkEdges(g.nodes, p, new[p]) : p \in files}
  <1>1. LinkFiles(g, new) = [nodes |-> g.nodes \cup exts, edges |-> kept \cup links, conf |-> g.conf \cap kept]
    BY DEF LinkFiles
  <1>2. files \subseteq all /\ \A p \in files : new[p] = tree[p] BY DEF ReadOf, Parses
  <1>3. /\ \A c : Externals(g.nodes, c) = Externals(base, c)
        /\ \A p, c : LinkEdges(g.nodes, p, c) = LinkEdges(base, p, c)
    BY ReferenceExternals, ExternalsApart DEF Linked
  <1>4. exts \subseteq g.nodes
    <2>1. exts \subseteq UNION {Externals(base, tree[p]) : p \in all} BY <1>2, <1>3
    <2> QED BY <2>1, ReferenceParts DEF Linked
  <1>5. LinkedGraph(tree).edges = UNION {LinkEdges(base, p, tree[p]) : p \in all} BY ReferenceParts
  <1>6. links \subseteq LinkedGraph(tree).edges BY <1>2, <1>3, <1>5
  <1>7. LinkedGraph(tree).edges \subseteq kept \cup links
    <2> SUFFICES ASSUME NEW p \in all, NEW e \in LinkEdges(base, p, tree[p]) PROVE e \in kept \cup links
      BY <1>5
    <2>1. e \in g.edges BY <1>5 DEF Linked
    <2>2. e[1] = FileNode(p) BY DEF LinkEdges
    <2>3. CASE p \in files BY <1>2, <1>3, <2>3
    <2>4. CASE p \notin files
      <3>1. \A q \in files : FileNode(q) # FileNode(p) BY <2>4 DEF FileNode, Node
      <3> QED BY <2>1, <2>2, <3>1
    <2> QED BY <2>3, <2>4
  <1>8. kept \subseteq g.edges OBVIOUS
  <1>9. LinkedGraph(tree).edges \subseteq FullGraph(tree).edges BY ReferenceParts
  <1> HIDE DEF base, all, files, kept, exts, links
  <1>10. g.nodes \cup exts = g.nodes BY <1>4
  <1> QED BY <1>1, <1>6, <1>7, <1>8, <1>9, <1>10 DEF Linked

(* Without files to link it changes nothing.                               *)
LEMMA LinkFilesNone ==
  ASSUME NEW new, \A p \in Paths : new[p] = Absent, NEW g \in Graphs, Closed(g)
  PROVE  LinkFiles(g, new) = g
  <1>1. {p \in Paths : Parses(new[p])} = {} BY DEF Parses
  <1>2. LinkFiles(g, new) = [nodes |-> g.nodes, edges |-> g.edges, conf |-> g.conf \cap g.edges]
    BY <1>1 DEF LinkFiles
  <1>3. g.conf \cap g.edges = g.conf BY DEF Closed
  <1> QED BY <1>2, <1>3 DEF Graphs

(* No external node of a linked graph is an orphan.                        *)
LEMMA SweepKeepsLinked ==
  ASSUME NEW tree \in Trees, NEW g \in Graphs, Linked(g, tree)
  PROVE  SweepOrphanExternalNodes(g) = g
  <1> DEFINE gone == {n \in g.nodes : n.kind = "external" /\ \A e \in g.edges : n # e[1] /\ n # e[2]}
  <1>1. gone = {}
    <2> SUFFICES ASSUME NEW n \in g.nodes, n.kind = "external", \A e \in g.edges : n # e[2]
                 PROVE  FALSE
      OBVIOUS
    <2>1. n \in LinkedGraph(tree).nodes /\ n \notin TreeNodes(tree) BY ReferenceExternals DEF Linked
    <2>2. PICK p \in Paths : Parses(tree[p]) /\ n \in Externals(TreeNodes(tree), tree[p])
      BY <2>1, ReferenceParts
    <2>3. n \in Targets(TreeNodes(tree), p, tree[p]) BY <2>2 DEF Targets
    <2>4. <<FileNode(p), n>> \in LinkEdges(TreeNodes(tree), p, tree[p]) BY <2>3 DEF LinkEdges
    <2>5. <<FileNode(p), n>> \in g.edges BY <2>2, <2>4, ReferenceParts DEF Linked
    <2> QED BY <2>5
  <1>2. SweepOrphanExternalNodes(g) = Without(g, gone) BY DEF SweepOrphanExternalNodes
  <1> HIDE DEF gone
  <1>3. Without(g, {}) = g BY DEF Without, Graphs
  <1> QED BY <1>1, <1>2, <1>3

LEMMA AbsentRow == \A p : RowFor(p, Absent) = NoRow
  BY DEF RowFor, NoRow, NodesOf, HasLinks, Parses

LEMMA CachePutRows ==
  ASSUME NEW tree \in Trees, NEW new \in Trees, ReadOf(new, tree), NEW rows
  PROVE  \A p \in Paths : CachePut(rows, new)[p] = IF new[p] = Absent THEN rows[p] ELSE RowFor(p, tree[p])
  BY DEF CachePut, ReadOf, RowFor

LEMMA CachePutTree ==
  ASSUME NEW tree \in Trees
  PROVE  CachePut(NoCache, tree) = RowsFor(tree)
  <1>1. \A p \in Paths : (IF tree[p] = Absent THEN NoCache[p] ELSE RowFor(p, tree[p])) = RowFor(p, tree[p])
    BY AbsentRow DEF NoCache
  <1>2. CachePut(NoCache, tree) = [p \in Paths |-> IF tree[p] = Absent THEN NoCache[p] ELSE RowFor(p, tree[p])]
    BY DEF CachePut, RowFor
  <1> QED BY <1>1, <1>2 DEF RowsFor

(* The steps of the incremental pass between its dirty rows and its        *)
(* commit.                                                                 *)
IncMarked  == {"inc_bump", "inc_write"}
IncWritten == {"inc_purge", "inc_link", "inc_sweep", "inc_resolve", "inc_commit"}

(* What a pass has read is the tree, and the files that it replaces are    *)
(* marked dirty before.                                                    *)
ReadsTree ==
  /\ pc \in (FullSteps \ {"full_walk"}) \cup (IncSteps \ {"inc_walk"}) => walked = disk
  /\ pc \in FullSteps \ {"full_walk", "full_parse"} => parsed = disk
  /\ pc \in IncMarked => \A p \in work : disk[p] # Absent => p \in dirty
  /\ pc \in IncWritten => ReadOf(parsed, disk) /\ \A p \in Paths : parsed[p] # Absent => p \in dirty

(* Cache rows are missing or right, whatever stores were lost.             *)
RowsRight ==
  /\ \A p \in Paths : cache[p] \in {NoRow, RowFor(p, disk[p])}
  /\ pc \in IncWritten => \A p \in Paths : tx.cache[p] \in {cache[p], RowFor(p, disk[p])}
  /\ pc \in {"full_link", "full_resolve", "full_commit"} => tx.cache = RowsFor(disk)
  /\ pc \in {"full_bump", "full_certify"} => cache = RowsFor(disk)

(* The marker of a full pass holds its generation until it certifies it.   *)
MarkerHeld ==
  /\ pc \in Marked => marker = gen /\ gen # 0
  /\ pc \in Marked \ {"full_gen"} => graphGen = gen

(* How far the full pass is.                                               *)
FullProgress ==
  /\ MarkerHeld
  /\ pc = "full_link" => graph.nodes = TreeNodes(disk)
  /\ pc = "full_resolve" => graph = LinkedGraph(disk)
  /\ pc \in {"full_commit", "full_bump", "full_certify"} => graph = FullGraph(disk)

(* What the certificate certifies: an incremental pass over it leaves the  *)
(* graph linked at each step, and whole where no row is dirty.             *)
Certified == marker = 0 /\ metaGen # 0 /\ graphGen = metaGen

Certificate ==
  Certified =>
    /\ cache = RowsFor(disk)
    /\ Linked(graph, disk)
    /\ dirty = {} \/ pc = "inc_commit" => graph = FullGraph(disk)

RestInv == StructInv /\ ReadsTree /\ RowsRight /\ FullProgress /\ Certificate

LEMMA RestInit == Init => RestInv
  <1> SUFFICES ASSUME Init PROVE RestInv
    OBVIOUS
  <1>1. \A p \in Paths : cache[p] = NoRow BY DEF Init, NoCache
  <1> QED BY <1>1, StructInit
      DEF Init, RestInv, ReadsTree, RowsRight, FullProgress, MarkerHeld, Certificate, Certified, FullSteps, IncSteps,
          IncMarked, IncWritten, Marked

(* A step that leaves the stores and rests, or goes to a step where no     *)
(* pass has read anything yet, keeps the invariant.                        *)
Unread == {"idle", "recover", "probe", "full_walk", "inc_walk"}

LEMMA RestReturns ==
  ASSUME RestInv, StructInv', UNCHANGED <<disk, graphVars, metaVars>>, pc' \in Unread
  PROVE  RestInv'
  BY DEF RestInv, ReadsTree, RowsRight, FullProgress, MarkerHeld, Certificate, Certified, FullSteps, IncSteps,
         IncMarked, IncWritten, Marked, Unread, graphVars, metaVars

LEMMA RestFull ==
  ASSUME RestInv, StructInv', UNCHANGED disk, FullPass
  PROVE  RestInv'
  <1> USE DEF RestInv, Goto
  <1>t. disk \in Trees /\ graph \in Graphs BY DEF StructInv, TypeOK
  <1>1. CASE FullWalk
    BY <1>1 DEF FullWalk, ReadsTree, RowsRight, FullProgress, MarkerHeld, Certificate, Certified, FullSteps, IncSteps,
                IncMarked, IncWritten, Marked, graphVars, metaVars
  <1>2. CASE FullParse
    <2>1. walked = disk BY <1>2 DEF FullParse, ReadsTree, FullSteps
    <2>2. parsed' = disk
      <3>1. PICK old \in SUBSET {p \in Paths : walked[p] # Absent /\ walked[p] # disk[p]} :
              parsed' = [p \in Paths |-> IF p \notin {q \in Paths : walked[q] # Absent} THEN Absent
                                         ELSE IF p \in old THEN walked[p] ELSE disk[p]]
        BY <1>2 DEF FullParse, Reread
      <3>2. \A p \in Paths : parsed'[p] = disk[p] BY <2>1, <3>1
      <3> QED BY <1>t, <3>1, <3>2 DEF Trees
    <2> QED BY <1>2, <2>1, <2>2
        DEF FullParse, ReadsTree, RowsRight, FullProgress, MarkerHeld, Certificate, Certified, FullSteps, IncSteps,
            IncMarked, IncWritten, Marked, graphVars, metaVars
  <1>3. CASE FullMark
    <2>1. gen' \in 1..7 /\ marker' = gen' BY <1>3, FreshType DEF FullMark, StructInv
    <2>2. marker' # 0 BY <2>1
    <2> QED BY <1>3, <2>1, <2>2
        DEF FullMark, ReadsTree, RowsRight, FullProgress, MarkerHeld, Certificate, Certified, FullSteps, IncSteps,
            IncMarked, IncWritten, Marked, graphVars
  <1>4. CASE FullGen
    BY <1>4 DEF FullGen, ReadsTree, RowsRight, FullProgress, MarkerHeld, Certificate, Certified, FullSteps, IncSteps,
                IncMarked, IncWritten, Marked, metaVars
  <1>5. CASE FullWrite
    <2>1. parsed = disk BY <1>5 DEF FullWrite, ReadsTree, FullSteps
    <2>2. tx'.cache = RowsFor(disk) BY <1>5, <1>t, <2>1, CachePutTree DEF FullWrite
    <2>3. CommitParsed(disk) = [graph EXCEPT !.nodes = graph.nodes \cup TreeNodes(disk)]
      BY <1>t, CommitParsedAdds DEF ReadOf, RowsRight
    <2>4. CommitParsed(disk).nodes = graph.nodes \cup TreeNodes(disk) BY <1>t, <2>3 DEF Graphs
    <2>5. graph'.nodes = CommitParsed(disk).nodes \ (graph.nodes \ TreeNodes(disk))
      BY <1>5, <2>1 DEF FullWrite, Without
    <2>6. graph'.nodes = TreeNodes(disk) BY <2>4, <2>5
    <2> QED BY <1>5, <2>2, <2>6
        DEF FullWrite, ReadsTree, RowsRight, FullProgress, MarkerHeld, Certificate, Certified, FullSteps, IncSteps,
            IncMarked, IncWritten, Marked, metaVars
  <1>6. CASE FullLink
    <2>1. parsed = disk /\ graph.nodes = TreeNodes(disk)
      BY <1>6 DEF FullLink, ReadsTree, FullSteps, FullProgress
    <2>2. graph' = LinkedGraph(disk) BY <1>6, <1>t, <2>1, LinkFilesReference DEF FullLink, StructInv
    <2> QED BY <1>6, <2>2
        DEF FullLink, ReadsTree, RowsRight, FullProgress, MarkerHeld, Certificate, Certified, FullSteps, IncSteps,
            IncMarked, IncWritten, Marked, metaVars
  <1>7. CASE FullResolve
    <2>1. walked = disk /\ graph = LinkedGraph(disk)
      BY <1>7 DEF FullResolve, ReadsTree, FullSteps, FullProgress
    <2>2. graph' = FullGraph(disk) BY <1>7, <1>t, <2>1, LinkedReference, ResolveCompletes DEF FullResolve
    <2> QED BY <1>7, <2>2
        DEF FullResolve, ReadsTree, RowsRight, FullProgress, MarkerHeld, Certificate, Certified, FullSteps, IncSteps,
            IncMarked, IncWritten, Marked, metaVars
  <1>8. CASE FullCommit
    <2>1. cache' = RowsFor(disk) BY <1>8 DEF FullCommit, RowsRight
    <2>2. \A p \in Paths : cache'[p] = RowFor(p, disk[p]) BY <2>1 DEF RowsFor
    <2> QED BY <1>8, <2>1, <2>2
        DEF FullCommit, ReadsTree, RowsRight, FullProgress, MarkerHeld, Certificate, Certified, FullSteps, IncSteps,
            IncMarked, IncWritten, Marked, graphVars
  <1>9. CASE FullBump
    BY <1>9 DEF FullBump, ReadsTree, RowsRight, FullProgress, MarkerHeld, Certificate, Certified, FullSteps, IncSteps,
                IncMarked, IncWritten, Marked, metaVars
  <1>10. CASE FullCertify
    <2>1. /\ graph = FullGraph(disk) /\ cache = RowsFor(disk) /\ graphGen = gen /\ gen # 0
      BY <1>10 DEF FullCertify, FullProgress, MarkerHeld, RowsRight, Marked
    <2>2. Linked(graph, disk) BY <1>t, <2>1, LinkedReference
    <2> QED BY <1>10, <2>1, <2>2
        DEF FullCertify, Rest, ReadsTree, RowsRight, FullProgress, MarkerHeld, Certificate, Certified, FullSteps, IncSteps,
            IncMarked, IncWritten, Marked, graphVars
  <1> QED BY <1>1, <1>2, <1>3, <1>4, <1>5, <1>6, <1>7, <1>8, <1>9, <1>10 DEF FullPass

(* A step of an incremental pass over certified stores.                    *)
LEMMA RestIncrement ==
  ASSUME RestInv, StructInv', UNCHANGED disk, IncPass
  PROVE  RestInv'
  <1> USE DEF RestInv, Goto
  <1>t. disk \in Trees /\ graph \in Graphs /\ parsed \in Trees /\ parsed' \in Trees /\ graph' \in Graphs
        /\ work \subseteq Paths
    BY DEF StructInv, TypeOK
  <1>1. CASE IncWalk
    BY <1>1 DEF IncWalk, ReadsTree, RowsRight, FullProgress, MarkerHeld, Certificate, Certified, FullSteps, IncSteps,
                IncMarked, IncWritten, Marked, graphVars, metaVars
  <1>2. CASE IncMark
    <2>1. walked = disk BY <1>2 DEF IncMark, ReadsTree, IncSteps
    <2>2. \A p \in work : disk[p] # Absent => p \in dirty' BY <1>2, <2>1 DEF IncMark
    <2>3. dirty' = {} => dirty = {} BY <1>2 DEF IncMark
    <2> QED BY <1>2, <2>2, <2>3
        DEF IncMark, ReadsTree, RowsRight, FullProgress, MarkerHeld, Certificate, Certified, FullSteps, IncSteps,
            IncMarked, IncWritten, Marked, graphVars
  <1>3. CASE IncBump
    BY <1>3 DEF IncBump, ReadsTree, RowsRight, FullProgress, MarkerHeld, Certificate, Certified, FullSteps, IncSteps,
                IncMarked, IncWritten, Marked, metaVars
  <1>4. CASE IncWrite
    <2>1. walked = disk BY <1>4 DEF IncWrite, ReadsTree, IncSteps
    <2>2. /\ \A p \in Paths : parsed'[p] # Absent => p \in work /\ parsed'[p] = disk[p]
      <3>1. PICK old \in SUBSET {p \in work : walked[p] # Absent /\ walked[p] # disk[p]} :
              parsed' = [p \in Paths |-> IF p \notin {q \in work : walked[q] # Absent} THEN Absent
                                         ELSE IF p \in old THEN walked[p] ELSE disk[p]]
        BY <1>4 DEF IncWrite, Reread
      <3> QED BY <2>1, <3>1
    <2>3. ReadOf(parsed', disk) BY <2>2 DEF ReadOf
    <2>4. \A p \in Paths : parsed'[p] # Absent => p \in dirty BY <1>4, <2>2 DEF IncWrite, ReadsTree, IncMarked
    <2>5. \A p \in Paths : tx'.cache[p] \in {cache[p], RowFor(p, disk[p])}
      <3>1. tx'.cache = CachePut(cache, parsed') BY <1>4 DEF IncWrite
      <3> QED BY <1>t, <2>3, <3>1, CachePutRows
    <2>6. ASSUME Linked(graph, disk) PROVE graph' = graph
      <3>1. graph' = [graph EXCEPT !.nodes = graph.nodes \cup TreeNodes(parsed')]
        BY <1>4, <1>t, <2>3, CommitParsedAdds DEF IncWrite, RowsRight
      <3>2. TreeNodes(parsed') \subseteq graph.nodes
        BY <1>t, <2>3, <2>6, TreeNodesOfRead, ReferenceExternals DEF Linked
      <3>3. graph.nodes \cup TreeNodes(parsed') = graph.nodes BY <3>2
      <3> QED BY <1>t, <3>1, <3>3 DEF Graphs
    <2>7. /\ pc' = "inc_purge" /\ walked' = walked /\ UNCHANGED <<graphGen, metaVars>> BY <1>4 DEF IncWrite
    <2>8. pc = "inc_write" BY <1>4 DEF IncWrite
    <2> QED BY <2>1, <2>3, <2>4, <2>5, <2>6, <2>7, <2>8
        DEF ReadsTree, RowsRight, FullProgress, MarkerHeld, Certificate, Certified, FullSteps, IncSteps,
            IncMarked, IncWritten, Marked, metaVars
  <1>5. CASE IncPurge
    <2> DEFINE gone == {p \in Paths : tx.cache[p].hash # Absent /\ walked[p] = Absent}
               kept == UNION {tx.cache[p].ids : p \in Paths \ gone}
    <2>1. walked = disk /\ pc = "inc_purge" BY <1>5 DEF IncPurge, ReadsTree, IncSteps
    <2>2. gone = {}
      <3> SUFFICES ASSUME NEW p \in Paths, disk[p] = Absent PROVE tx.cache[p].hash = Absent
        BY <2>1
      <3>1. tx.cache[p] = NoRow BY <2>1, AbsentRow DEF RowsRight, IncWritten
      <3> QED BY <3>1 DEF NoRow
    <2>3. /\ graph' = Without(graph, (UNION {cache[p].ids : p \in gone}) \ kept)
          /\ tx' = [tx EXCEPT !.cache = [p \in Paths |-> IF p \in gone THEN NoRow ELSE @[p]], !.dirty = @ \ gone]
      BY <1>5 DEF IncPurge
    <2> HIDE DEF gone, kept
    <2>4. (UNION {cache[p].ids : p \in gone}) \ kept = {} BY <2>2
    <2>5. graph' = graph BY <1>t, <2>3, <2>4 DEF Without, Graphs
    <2>6. \A p \in Paths : tx'.cache[p] = tx.cache[p]
      <3>1. tx \in Metas BY DEF StructInv, TypeOK
      <3>2. tx'.cache = [p \in Paths |-> IF p \in gone THEN NoRow ELSE tx.cache[p]] BY <2>3, <3>1 DEF Metas
      <3> QED BY <2>2, <3>2
    <2>7. pc' = "inc_link" /\ UNCHANGED <<walked, parsed, graphGen, metaVars>> BY <1>5 DEF IncPurge
    <2> QED BY <2>1, <2>5, <2>6, <2>7
        DEF ReadsTree, RowsRight, FullProgress, MarkerHeld, Certificate, Certified, FullSteps, IncSteps,
            IncMarked, IncWritten, Marked, metaVars
  <1>6. CASE IncLink
    <2>1. ReadOf(parsed, disk) /\ \A p \in Paths : parsed[p] # Absent => p \in dirty
      BY <1>6 DEF IncLink, ReadsTree, IncWritten
    <2>2. Linked(graph, disk) => Linked(graph', disk) BY <1>6, <1>t, <2>1, LinkFilesLinked DEF IncLink
    <2>3. dirty = {} => graph' = graph BY <1>6, <1>t, <2>1, LinkFilesNone DEF IncLink, StructInv
    <2> QED BY <1>6, <2>2, <2>3
        DEF IncLink, ReadsTree, RowsRight, FullProgress, MarkerHeld, Certificate, Certified, FullSteps, IncSteps,
            IncMarked, IncWritten, Marked, metaVars
  <1>7. CASE IncSweep
    <2>1. Linked(graph, disk) => graph' = graph BY <1>7, <1>t, SweepKeepsLinked DEF IncSweep
    <2> QED BY <1>7, <2>1
        DEF IncSweep, ReadsTree, RowsRight, FullProgress, MarkerHeld, Certificate, Certified, FullSteps, IncSteps,
            IncMarked, IncWritten, Marked, metaVars
  <1>8. CASE IncResolve
    <2>1. CASE pc' = "inc_commit"
      <3>1. pc = "inc_resolve" /\ graph' = TypeResolve(graph) /\ UNCHANGED <<walked, parsed, work, gen, tx>>
        BY <1>8, <2>1 DEF IncResolve, Fail, Rest
      <3>2. Linked(graph, disk) => graph' = FullGraph(disk)
        BY <1>t, <3>1, ResolveCompletes DEF ReadsTree, IncSteps
      <3>3. Linked(FullGraph(disk), disk) BY <1>t, LinkedReference
      <3>4. UNCHANGED <<graphGen, metaVars>> BY <1>8 DEF IncResolve
      <3> QED BY <2>1, <3>1, <3>2, <3>3, <3>4
          DEF ReadsTree, RowsRight, FullProgress, MarkerHeld, Certificate, Certified, FullSteps, IncSteps,
              IncMarked, IncWritten, Marked, metaVars
    <2>2. CASE pc' # "inc_commit"
      <3>1. pc' \in Unread /\ UNCHANGED <<graphVars, metaVars>>
        BY <1>8, <2>2 DEF IncResolve, Fail, Rest, Unread, graphVars
      <3> QED BY <3>1, RestReturns
    <2> QED BY <2>1, <2>2
  <1>9. CASE IncCommit
    <2>1. \A p \in Paths : cache'[p] \in {cache[p], RowFor(p, disk[p])}
      BY <1>9 DEF IncCommit, RowsRight, IncWritten
    <2>2. \A p \in Paths : cache'[p] \in {NoRow, RowFor(p, disk[p])} BY <2>1 DEF RowsRight
    <2>3. ASSUME cache = RowsFor(disk) PROVE cache' = RowsFor(disk)
      <3>1. \A p \in Paths : cache'[p] = RowFor(p, disk[p]) BY <2>1, <2>3 DEF RowsFor
      <3>2. cache' \in [Paths -> Rows] BY DEF StructInv, TypeOK
      <3> QED BY <3>1, <3>2 DEF RowsFor
    <2>4. pc = "inc_commit" /\ pc' \in {"idle", "probe"} /\ UNCHANGED <<graphVars, marker, metaGen>>
      BY <1>9 DEF IncCommit, Rest
    <2> QED BY <2>2, <2>3, <2>4
        DEF ReadsTree, RowsRight, FullProgress, MarkerHeld, Certificate, Certified, FullSteps, IncSteps,
            IncMarked, IncWritten, Marked, graphVars
  <1> QED BY <1>1, <1>2, <1>3, <1>4, <1>5, <1>6, <1>7, <1>8, <1>9 DEF IncPass

LEMMA RestStep == RestInv /\ [Next]_vars /\ [UNCHANGED disk]_vars => RestInv'
  <1> SUFFICES ASSUME RestInv, [Next]_vars, [UNCHANGED disk]_vars PROVE RestInv'
    OBVIOUS
  <1>s. StructInv' BY StructStep DEF RestInv
  <1>d. UNCHANGED disk BY DEF vars
  <1>1. CASE FullPass BY <1>1, <1>s, <1>d, RestFull
  <1>2. CASE IncPass BY <1>2, <1>s, <1>d, RestIncrement
  <1>3. CASE StartSync \/ RecoverWithRoot \/ warmOrFullIngest \/ RebuildRepo \/ ApplyChangedParsed
    <2>1. pc' \in Unread /\ UNCHANGED <<disk, graphVars, metaVars>>
      BY <1>3 DEF StartSync, RecoverWithRoot, warmOrFullIngest, RebuildRepo, ApplyChangedParsed, Goto, Rest, Unread
    <2> QED BY <1>s, <2>1, RestReturns
  <1>4. CASE Crash \/ StepError
    <2>1. pc' \in Unread /\ UNCHANGED <<disk, graphVars, metaVars>>
      BY <1>4 DEF Crash, StepError, Fail, Rest, Unread
    <2> QED BY <1>s, <2>1, RestReturns
  <1>5. CASE BuildSemanticGeneration \/ EditDisk \/ UNCHANGED vars
    <2>1. UNCHANGED <<disk, graphVars, metaVars, passVars>>
      BY <1>5, <1>d DEF BuildSemanticGeneration, EditDisk, vars
    <2> QED BY <1>s, <2>1
        DEF RestInv, ReadsTree, RowsRight, FullProgress, MarkerHeld, Certificate, Certified, FullSteps, IncSteps,
            IncMarked, IncWritten, Marked, graphVars, metaVars, passVars
  <1>6. CASE Upgrade
    <2>1. pc = "idle" /\ UNCHANGED <<disk, graphVars, cache, rdeps, dirty, marker, metaGen, passVars>>
      BY <1>6 DEF Upgrade
    <2> QED BY <1>s, <2>1
        DEF RestInv, ReadsTree, RowsRight, FullProgress, MarkerHeld, Certificate, Certified, FullSteps, IncSteps,
            IncMarked, IncWritten, Marked, graphVars, passVars
  <1>7. CASE LoseStore
    <2>1. pc' = "idle" BY <1>7 DEF LoseStore, passVars
    <2>2. graphGen' = 0 \/ metaGen' = 0 BY <1>7 DEF LoseStore
    <2>3. cache' = cache \/ cache' = NoCache BY <1>7 DEF LoseStore, metaVars
    <2>4. \A p \in Paths : cache'[p] \in {NoRow, RowFor(p, disk[p])} BY <2>3 DEF RestInv, RowsRight, NoCache
    <2>5. ~Certified' BY <2>2 DEF Certified
    <2> QED BY <1>s, <1>d, <2>1, <2>4, <2>5
        DEF RestInv, ReadsTree, RowsRight, FullProgress, MarkerHeld, Certificate, FullSteps, IncSteps,
            IncMarked, IncWritten, Marked
  <1> QED BY <1>1, <1>2, <1>3, <1>4, <1>5, <1>6, <1>7 DEF Next, Sync, Environment

(* Where nobody edits the tree, no crash, I/O error, lost store, upgrade,  *)
(* rebuild or batch of spurious notifications leads to a state where       *)
(* SyncRepo reports "up to date" over a graph other than the reference.    *)
THEOREM FaultsKeepIndex == Spec /\ TreeAtRest => []IndexMatchesReference
  <1>1. RestInv => IndexMatchesReference
    BY DEF RestInv, Certificate, Certified, IndexMatchesReference, CanWarmStart
  <1> QED BY <1>1, RestInit, RestStep, PTL DEF Spec, TreeAtRest

(***************************************************************************)
(* The dirty rows are the record of what interrupted passes touched.       *)
(***************************************************************************)

(* No content breaches a bound of the parser.                              *)
NoBounds == \A c \in Contents : Facts[c].outcome # "bound"

LEMMA OwnTree ==
  ASSUME NoPackages, NEW new \in Trees, NEW p \in Paths
  PROVE  Own(TreeNodes(new), p) = NodesOf(p, new[p])
  <1>1. \A q \in Paths : \A n \in NodesOf(q, new[q]) : n.path = q BY OwnNodes DEF Trees
  <1> QED BY <1>1 DEF Own, TreeNodes

(* A commit replaces the nodes of a parsed file that its row lists, and no *)
(* other file's.                                                           *)
LEMMA OwnCommit ==
  ASSUME NoPackages, RowsParsed(cache), NEW new \in Trees, NEW p \in Paths
  PROVE  Own(CommitParsed(new).nodes, p) =
           IF Parses(new[p])
             THEN (Own(graph.nodes, p) \cup NodesOf(p, new[p])) \ (cache[p].ids \ NodesOf(p, new[p]))
             ELSE Own(graph.nodes, p)
  <1> DEFINE files   == {q \in Paths : Parses(new[q])}
             dropped == UNION {Drops(q, new) : q \in files}
             lost    == {n \in dropped : \A q, r \in files :
                           n \in Drops(q, new) /\ n \in NodesOf(r, new[r]) => Rank[r] < Rank[q]}
  <1>1. \A q \in Paths : \A n \in cache[q].ids : n.path = q
    <2> SUFFICES ASSUME NEW q \in Paths, NEW n \in cache[q].ids PROVE n.path = q
      OBVIOUS
    <2>1. PICK c \in Contents : n \in NodesOf(q, c) BY DEF RowsParsed, Yields
    <2> QED BY <2>1, OwnNodes
  <1>2. \A q \in Paths : \A n \in NodesOf(q, new[q]) : n.path = q BY OwnNodes DEF Trees
  <1>3. \A q \in Paths : Drops(q, new) = cache[q].ids \ NodesOf(q, new[q]) BY <1>1 DEF Drops
  <1>4. lost = dropped
    <2> SUFFICES ASSUME NEW n, NEW q \in files, NEW r \in files, n \in Drops(q, new), n \in NodesOf(r, new[r])
                 PROVE  FALSE
      OBVIOUS
    <2>1. n.path = q /\ n.path = r BY <1>1, <1>2, <1>3
    <2> QED BY <1>3, <2>1
  <1>5. CommitParsed(new).nodes = (graph.nodes \cup TreeNodes(new)) \ dropped BY <1>4 DEF CommitParsed, Without
  <1>6. \A n : n.path = p => (n \in dropped <=> p \in files /\ n \in cache[p].ids \ NodesOf(p, new[p]))
    BY <1>1, <1>3
  <1>7. \A n : n.path = p => (n \in TreeNodes(new) <=> n \in NodesOf(p, new[p]))
    BY <1>2 DEF TreeNodes
  <1>8. p \notin files => NodesOf(p, new[p]) = {} BY DEF NodesOf
  <1>9. p \in files <=> Parses(new[p]) OBVIOUS
  <1> HIDE DEF files, dropped, lost
  <1>10. CASE Parses(new[p]) BY <1>1, <1>2, <1>5, <1>6, <1>7, <1>9, <1>10 DEF Own
  <1>11. CASE ~Parses(new[p]) BY <1>5, <1>6, <1>7, <1>8, <1>9, <1>11 DEF Own
  <1> QED BY <1>10, <1>11

LEMMA OwnLink ==
  ASSUME NEW g, NEW new, NEW p \in Paths
  PROVE  Own(LinkFiles(g, new).nodes, p) = Own(g.nodes, p)
  <1> DEFINE exts == UNION {Externals(g.nodes, new[q]) : q \in {r \in Paths : Parses(new[r])}}
  <1>1. LinkFiles(g, new).nodes = g.nodes \cup exts BY DEF LinkFiles
  <1>2. \A n \in exts : n.path = None BY DEF Externals, ExternalNode, Node
  <1>3. p # None BY GraphAssumption
  <1> HIDE DEF exts
  <1> QED BY <1>1, <1>2, <1>3 DEF Own

(* External nodes have no path.                                            *)
Pathless(g) == \A n \in g.nodes : n.kind = "external" => n.path = None

LEMMA OwnSweep ==
  ASSUME NEW g, Pathless(g), NEW p \in Paths
  PROVE  Own(SweepOrphanExternalNodes(g).nodes, p) = Own(g.nodes, p)
  <1>1. p # None BY GraphAssumption
  <1> QED BY <1>1 DEF Own, SweepOrphanExternalNodes, Without, Pathless

LEMMA ResolveNodes ==
  ASSUME NEW g \in Graphs
  PROVE  TypeResolve(g).nodes = g.nodes
  <1> DEFINE tree    == [p \in Paths |-> IF walked[p] = Absent THEN Absent ELSE disk[p]]
             skipped == ~Semantic \/ \E p \in Paths : walked[p] # Absent /\ disk[p] = Absent
             fresh   == Confirmed(g.nodes, tree)
             checked == {d \in Dirs : ~Degraded(tree, d) /\ \E p \in Paths : DirOf[p] = d /\ tree[p] # Absent}
             stale   == {e \in g.conf \ fresh : DirOf[e[1].path] \in checked}
  <1>1. TypeResolve(g) = IF skipped THEN g
                         ELSE [g EXCEPT !.edges = (@ \ stale) \cup fresh, !.conf = (@ \ stale) \cup fresh]
    BY DEF TypeResolve
  <1> HIDE DEF tree, skipped, fresh, checked, stale
  <1> QED BY <1>1 DEF Graphs

LEMMA PathlessEffects ==
  ASSUME graph \in Graphs, Pathless(graph)
  PROVE  /\ \A new \in Trees : Pathless(CommitParsed(new))
         /\ \A gone : Pathless(Without(graph, gone))
         /\ \A new \in Trees : Pathless(LinkFiles(graph, new))
         /\ Pathless(SweepOrphanExternalNodes(graph))
         /\ Pathless(TypeResolve(graph))
  <1>1. ASSUME NEW new \in Trees PROVE Pathless(CommitParsed(new))
    <2>1. CommitParsed(new).nodes \subseteq graph.nodes \cup TreeNodes(new) BY DEF CommitParsed, Without
    <2>2. \A n \in TreeNodes(new) : n.kind # "external"
      BY DEF TreeNodes, NodesOf, FileNode, SymbolNode, PackageNode, Node
    <2> QED BY <2>1, <2>2 DEF Pathless
  <1>2. \A gone : Pathless(Without(graph, gone)) BY DEF Pathless, Without
  <1>3. ASSUME NEW new \in Trees PROVE Pathless(LinkFiles(graph, new))
    <2> DEFINE exts == UNION {Externals(graph.nodes, new[q]) : q \in {r \in Paths : Parses(new[r])}}
    <2>1. LinkFiles(graph, new).nodes = graph.nodes \cup exts BY DEF LinkFiles
    <2>2. \A n \in exts : n.path = None BY DEF Externals, ExternalNode, Node
    <2> HIDE DEF exts
    <2> QED BY <2>1, <2>2 DEF Pathless
  <1>4. Pathless(SweepOrphanExternalNodes(graph)) BY <1>2 DEF SweepOrphanExternalNodes
  <1>5. Pathless(TypeResolve(graph)) BY ResolveNodes DEF Pathless
  <1> QED BY <1>1, <1>2, <1>3, <1>4, <1>5

(* Only files of the tree have been read or have a row.                    *)
Present ==
  /\ \A p \in Paths : disk[p] = Absent => cache[p].hash = Absent /\ walked[p] = Absent /\ parsed[p] = Absent
  /\ pc \in IncSteps \ {"inc_walk"} => \A p \in Paths : cache[p].hash # Absent => walked[p] # Absent

(* What the incremental pass has read is on disk still, for it is dirty.   *)
ReadsMarked ==
  /\ pc = "inc_mark" => walked = disk
  /\ pc \in IncMarked => \A p \in work : walked[p] # Absent => p \in dirty /\ walked[p] = disk[p]
  /\ pc \in IncWritten => \A p \in Paths :
       /\ parsed[p] # Absent => p \in dirty /\ parsed[p] = disk[p] /\ walked[p] # Absent
       /\ tx.cache[p] = (IF parsed[p] = Absent THEN cache[p] ELSE RowFor(p, disk[p]))
       /\ parsed[p] = Absent /\ p \in dirty => p \in tx.dirty
       /\ Certified /\ Parses(parsed[p]) => Own(graph.nodes, p) = NodesOf(p, disk[p])
  /\ pc = "inc_commit" => \A p \in Paths : parsed[p] # Absent => Parses(parsed[p])

(* The rows and the nodes that the full pass writes are those of what it   *)
(* has parsed.                                                             *)
FullWrites ==
  /\ pc \in {"full_link", "full_resolve", "full_commit"} => tx.cache = RowsFor(parsed)
  /\ pc \in {"full_bump", "full_certify"} => cache = RowsFor(parsed)
  /\ pc \in Marked \ {"full_gen", "full_write"} =>
       \A p \in Paths : Own(graph.nodes, p) = NodesOf(p, parsed[p])

(* The nodes of a file are those of its row or, where it is dirty, those   *)
(* of the file as it is.                                                   *)
Recorded ==
  Certified =>
    \A p \in Paths : \/ Own(graph.nodes, p) = cache[p].ids
                     \/ p \in dirty /\ Own(graph.nodes, p) = NodesOf(p, disk[p])

RecordInv ==
  FullInv /\ MarkerHeld /\ Pathless(graph) /\ Present /\ ReadsMarked /\ FullWrites /\ Recorded

LEMMA RecordInit == Init => RecordInv
  <1> SUFFICES ASSUME Init PROVE RecordInv
    OBVIOUS
  <1>1. FullInv BY StructInit DEF Init, FullInv, Purged, FullPassConverges
  <1>2. Pathless(graph) BY DEF Init, Pathless, EmptyGraph
  <1>3. Present BY DEF Init, Present, NoCache, NoRow, NoTree, IncSteps
  <1>4. ReadsMarked /\ FullWrites /\ MarkerHeld /\ Recorded
    BY DEF Init, ReadsMarked, FullWrites, MarkerHeld, Recorded, Certified, IncMarked, IncWritten, Marked
  <1> QED BY <1>1, <1>2, <1>3, <1>4 DEF RecordInv

(* A step that leaves the stores and returns from a pass, or starts one.   *)
LEMMA RecordReturns ==
  ASSUME RecordInv, FullInv', UNCHANGED <<disk, graphVars, metaVars>>, pc' \in Unread,
         walked' \in {walked, NoTree}, parsed' \in {parsed, NoTree}
  PROVE  RecordInv'
  <1>1. \A p \in Paths : disk[p] = Absent => walked'[p] = Absent /\ parsed'[p] = Absent
    BY DEF RecordInv, Present, NoTree
  <1>2. Present' BY <1>1 DEF RecordInv, Present, IncSteps, Unread, metaVars
  <1>3. ReadsMarked' /\ FullWrites' /\ MarkerHeld'
    BY DEF ReadsMarked, FullWrites, MarkerHeld, IncMarked, IncWritten, Marked, Unread
  <1>4. Recorded' /\ Pathless(graph)' BY DEF RecordInv, Recorded, Certified, Pathless, graphVars, metaVars
  <1> QED BY <1>2, <1>3, <1>4 DEF RecordInv

LEMMA RereadPresent ==
  ASSUME NEW units \in SUBSET Paths, Reread(units), NEW p \in Paths
  PROVE  /\ parsed'[p] \in {Absent, walked[p], disk[p]}
         /\ p \notin units => parsed'[p] = Absent
         /\ p \in units /\ walked[p] = disk[p] => parsed'[p] = disk[p]
  <1>1. PICK old \in SUBSET {q \in units : walked[q] # disk[q]} :
          parsed' = [q \in Paths |-> IF q \notin units THEN Absent
                                     ELSE IF q \in old THEN walked[q] ELSE disk[q]]
    BY DEF Reread
  <1> QED BY <1>1

LEMMA RecordFull ==
  ASSUME NoPackages, RecordInv, FullInv', UNCHANGED disk, FullPass
  PROVE  RecordInv'
  <1> USE DEF RecordInv, Goto
  <1>t. disk \in Trees /\ graph \in Graphs /\ parsed \in Trees BY DEF FullInv, StructInv, TypeOK
  <1>1. CASE FullWalk
    BY <1>1 DEF FullWalk, MarkerHeld, Pathless, Present, ReadsMarked, FullWrites, Recorded, Certified, IncSteps,
                IncMarked, IncWritten, Marked, graphVars, metaVars
  <1>2. CASE FullParse
    <2>1. \A p \in Paths : parsed'[p] \in {Absent, walked[p], disk[p]}
      BY <1>2, RereadPresent DEF FullParse
    <2>2. \A p \in Paths : disk[p] = Absent => parsed'[p] = Absent BY <2>1 DEF Present
    <2> QED BY <1>2, <2>2
        DEF FullParse, MarkerHeld, Pathless, Present, ReadsMarked, FullWrites, Recorded, Certified, IncSteps,
            IncMarked, IncWritten, Marked, graphVars, metaVars
  <1>3. CASE FullMark
    <2>1. gen' \in 1..7 /\ marker' = gen' BY <1>3, FreshType DEF FullMark, FullInv, StructInv
    <2>2. marker' # 0 BY <2>1
    <2> QED BY <1>3, <2>1, <2>2
        DEF FullMark, MarkerHeld, Pathless, Present, ReadsMarked, FullWrites, Recorded, Certified, IncSteps,
            IncMarked, IncWritten, Marked, graphVars
  <1>4. CASE FullGen
    BY <1>4 DEF FullGen, MarkerHeld, Pathless, Present, ReadsMarked, FullWrites, Recorded, Certified, IncSteps,
                IncMarked, IncWritten, Marked, metaVars
  <1>5. CASE FullWrite
    <2>1. tx'.cache = RowsFor(parsed) BY <1>5, <1>t, CachePutTree DEF FullWrite
    <2>2. graph'.nodes = TreeNodes(parsed) BY <1>5 DEF FullWrite, FullInv, Purged
    <2>3. \A p \in Paths : Own(graph'.nodes, p) = NodesOf(p, parsed[p]) BY <1>t, <2>2, OwnTree
    <2>4. Pathless(graph')
      <3>1. graph'.nodes \subseteq CommitParsed(parsed).nodes BY <1>5 DEF FullWrite, Without
      <3> QED BY <1>t, <3>1, PathlessEffects DEF Pathless
    <2>5. /\ pc = "full_write" /\ pc' = "full_link"
          /\ UNCHANGED <<graphGen, cache, dirty, marker, metaGen, walked, parsed, work, gen>>
      BY <1>5 DEF FullWrite, metaVars
    <2>6. marker # 0 BY <2>5 DEF MarkerHeld, Marked
    <2> QED BY <2>1, <2>3, <2>4, <2>5, <2>6
        DEF MarkerHeld, Present, ReadsMarked, FullWrites, Recorded, Certified, IncSteps,
            IncMarked, IncWritten, Marked
  <1>6. CASE FullLink
    <2>1. \A p \in Paths : Own(graph'.nodes, p) = Own(graph.nodes, p) BY <1>6, OwnLink DEF FullLink
    <2>2. Pathless(graph') BY <1>6, <1>t, PathlessEffects DEF FullLink
    <2> QED BY <1>6, <2>1, <2>2
        DEF FullLink, MarkerHeld, Present, ReadsMarked, FullWrites, Recorded, Certified, IncSteps,
            IncMarked, IncWritten, Marked, metaVars
  <1>7. CASE FullResolve
    <2>1. graph'.nodes = graph.nodes BY <1>7, <1>t, ResolveNodes DEF FullResolve
    <2> QED BY <1>7, <2>1
        DEF FullResolve, MarkerHeld, Pathless, Present, ReadsMarked, FullWrites, Recorded, Certified, IncSteps,
            IncMarked, IncWritten, Marked, metaVars
  <1>8. CASE FullCommit
    <2>1. cache' = RowsFor(parsed) BY <1>8 DEF FullCommit, FullWrites
    <2>2. \A p \in Paths : cache'[p].hash = parsed[p] BY <2>1 DEF RowsFor, RowFor
    <2>3. marker # 0 BY <1>8 DEF FullCommit, MarkerHeld, Marked
    <2> QED BY <1>8, <2>1, <2>2, <2>3
        DEF FullCommit, MarkerHeld, Pathless, Present, ReadsMarked, FullWrites, Recorded, Certified, IncSteps,
            IncMarked, IncWritten, Marked, graphVars
  <1>9. CASE FullBump
    BY <1>9 DEF FullBump, MarkerHeld, Pathless, Present, ReadsMarked, FullWrites, Recorded, Certified, IncSteps,
                IncMarked, IncWritten, Marked, metaVars
  <1>10. CASE FullCertify
    <2>1. \A p \in Paths : Own(graph.nodes, p) = cache[p].ids
      BY <1>10 DEF FullCertify, FullWrites, Marked, RowsFor, RowFor
    <2>2. \A p \in Paths : walked'[p] = Absent /\ parsed'[p] = Absent BY <1>10 DEF FullCertify, Rest, NoTree
    <2> QED BY <1>10, <2>1, <2>2
        DEF FullCertify, Rest, MarkerHeld, Pathless, Present, ReadsMarked, FullWrites, Recorded, IncSteps,
            IncMarked, IncWritten, Marked, graphVars
  <1> QED BY <1>1, <1>2, <1>3, <1>4, <1>5, <1>6, <1>7, <1>8, <1>9, <1>10 DEF FullPass

LEMMA RecordIncrement ==
  ASSUME NoPackages, NoBounds, RecordInv, FullInv', UNCHANGED disk, IncPass
  PROVE  RecordInv'
  <1> USE DEF RecordInv, Goto
  <1>t. /\ disk \in Trees /\ graph \in Graphs /\ parsed \in Trees /\ parsed' \in Trees /\ work \subseteq Paths
        /\ RowsParsed(cache)
    BY DEF FullInv, StructInv, TypeOK
  <1>1. CASE IncWalk
    BY <1>1 DEF IncWalk, MarkerHeld, Pathless, Present, ReadsMarked, FullWrites, Recorded, Certified, IncSteps,
                IncMarked, IncWritten, Marked, graphVars, metaVars
  <1>2. CASE IncMark
    <2>1. walked = disk BY <1>2 DEF IncMark, ReadsMarked
    <2>2. \A p \in work : walked[p] # Absent => p \in dirty' BY <1>2 DEF IncMark
    <2>3. dirty \subseteq dirty' BY <1>2 DEF IncMark
    <2> QED BY <1>2, <2>1, <2>2, <2>3
        DEF IncMark, MarkerHeld, Pathless, Present, ReadsMarked, FullWrites, Recorded, Certified, IncSteps,
            IncMarked, IncWritten, Marked, graphVars
  <1>3. CASE IncBump
    BY <1>3 DEF IncBump, MarkerHeld, Pathless, Present, ReadsMarked, FullWrites, Recorded, Certified, IncSteps,
                IncMarked, IncWritten, Marked, metaVars
  <1>4. CASE IncWrite
    <2> DEFINE units == {p \in work : walked[p] # Absent}
    <2>1. Reread(units) /\ units \in SUBSET Paths BY <1>4, <1>t DEF IncWrite
    <2>2. \A p \in units : p \in dirty /\ walked[p] = disk[p] BY <1>4 DEF IncWrite, ReadsMarked, IncMarked
    <2>3. \A p \in units : walked[p] # Absent OBVIOUS
    <2> HIDE DEF units
    <2>4. ASSUME NEW p \in Paths
          PROVE  /\ parsed'[p] # Absent => p \in dirty /\ parsed'[p] = disk[p] /\ walked[p] # Absent
                 /\ disk[p] = Absent => parsed'[p] = Absent
      BY <2>1, <2>2, <2>3, RereadPresent DEF Present
    <2>5. ReadOf(parsed', disk) BY <2>4 DEF ReadOf
    <2>6. /\ graph' = CommitParsed(parsed')
          /\ tx'.cache = CachePut(cache, parsed')
          /\ tx'.dirty = {p \in dirty : parsed'[p] = Absent}
          /\ pc = "inc_write" /\ pc' = "inc_purge"
          /\ UNCHANGED <<graphGen, cache, dirty, marker, metaGen, walked, work, gen>>
      BY <1>4 DEF IncWrite, metaVars
    <2>7. \A p \in Paths : tx'.cache[p] = IF parsed'[p] = Absent THEN cache[p] ELSE RowFor(p, disk[p])
      BY <1>t, <2>5, <2>6, CachePutRows
    <2>8. \A p \in Paths : ~Parses(parsed'[p]) => Own(graph'.nodes, p) = Own(graph.nodes, p)
      BY <1>t, <2>6, OwnCommit
    <2>9. ASSUME Certified, NEW p \in Paths, Parses(parsed'[p])
          PROVE  Own(graph'.nodes, p) = NodesOf(p, disk[p])
      <3>1. parsed'[p] = disk[p] BY <2>4, <2>9 DEF Parses
      <3>2. Own(graph'.nodes, p) =
              (Own(graph.nodes, p) \cup NodesOf(p, disk[p])) \ (cache[p].ids \ NodesOf(p, disk[p]))
        BY <1>t, <2>6, <2>9, <3>1, OwnCommit
      <3>3. Own(graph.nodes, p) \in {cache[p].ids, NodesOf(p, disk[p])} BY <2>9 DEF Recorded
      <3> QED BY <3>2, <3>3
    <2>10. Recorded'
      <3> SUFFICES ASSUME Certified, NEW p \in Paths
                   PROVE  \/ Own(graph'.nodes, p) = cache[p].ids
                          \/ p \in dirty /\ Own(graph'.nodes, p) = NodesOf(p, disk[p])
        BY <2>6 DEF Recorded, Certified
      <3>1. CASE Parses(parsed'[p]) BY <2>4, <2>9, <3>1 DEF Parses
      <3>2. CASE ~Parses(parsed'[p]) BY <2>8, <3>2 DEF Recorded
      <3> QED BY <3>1, <3>2
    <2>11. Pathless(graph') BY <1>t, <2>6, PathlessEffects
    <2>12. ReadsMarked'
      <3>1. Certified' => Certified BY <2>6 DEF Certified
      <3>2. ASSUME NEW p \in Paths, parsed'[p] = Absent, p \in dirty PROVE p \in tx'.dirty BY <2>6, <3>2
      <3> QED BY <2>4, <2>6, <2>7, <2>9, <3>1, <3>2 DEF ReadsMarked, IncMarked, IncWritten
    <2>13. Present' BY <2>4, <2>6 DEF Present, IncSteps
    <2>14. FullWrites' /\ MarkerHeld' BY <2>6 DEF FullWrites, MarkerHeld, Marked
    <2> QED BY <2>10, <2>11, <2>12, <2>13, <2>14
  <1>5. CASE IncPurge
    <2> DEFINE gone == {p \in Paths : tx.cache[p].hash # Absent /\ walked[p] = Absent}
               kept == UNION {tx.cache[p].ids : p \in Paths \ gone}
    <2>1. pc = "inc_purge" BY <1>5 DEF IncPurge
    <2>2. gone = {}
      <3> SUFFICES ASSUME NEW p \in Paths, walked[p] = Absent PROVE tx.cache[p].hash = Absent
        OBVIOUS
      <3>1. parsed[p] = Absent BY <2>1 DEF ReadsMarked, IncWritten
      <3>2. tx.cache[p] = cache[p] BY <2>1, <3>1 DEF ReadsMarked, IncWritten
      <3> QED BY <2>1, <3>2 DEF Present, IncSteps
    <2>3. /\ graph' = Without(graph, (UNION {cache[p].ids : p \in gone}) \ kept)
          /\ tx' = [tx EXCEPT !.cache = [p \in Paths |-> IF p \in gone THEN NoRow ELSE @[p]], !.dirty = @ \ gone]
      BY <1>5 DEF IncPurge
    <2> HIDE DEF gone, kept
    <2>4. (UNION {cache[p].ids : p \in gone}) \ kept = {} BY <2>2
    <2>5. graph' = graph BY <1>t, <2>3, <2>4 DEF Without, Graphs
    <2>6. tx'.dirty = tx.dirty /\ \A p \in Paths : tx'.cache[p] = tx.cache[p]
      <3>1. tx \in Metas BY DEF FullInv, StructInv, TypeOK
      <3>2. tx'.cache = [p \in Paths |-> IF p \in gone THEN NoRow ELSE tx.cache[p]] BY <2>3, <3>1 DEF Metas
      <3>3. tx'.dirty = tx.dirty \ gone BY <2>3, <3>1 DEF Metas
      <3> QED BY <2>2, <3>2, <3>3
    <2>7. pc' = "inc_link" /\ UNCHANGED <<graphGen, cache, dirty, marker, metaGen, walked, parsed, work, gen>>
      BY <1>5 DEF IncPurge, metaVars
    <2> QED BY <2>1, <2>5, <2>6, <2>7
        DEF MarkerHeld, Pathless, Present, ReadsMarked, FullWrites, Recorded, Certified, IncSteps,
            IncMarked, IncWritten, Marked
  <1>6. CASE IncLink
    <2>1. \A p \in Paths : Own(graph'.nodes, p) = Own(graph.nodes, p) BY <1>6, OwnLink DEF IncLink
    <2>2. Pathless(graph') BY <1>6, <1>t, PathlessEffects DEF IncLink
    <2> QED BY <1>6, <2>1, <2>2
        DEF IncLink, MarkerHeld, Present, ReadsMarked, FullWrites, Recorded, Certified, IncSteps,
            IncMarked, IncWritten, Marked, metaVars
  <1>7. CASE IncSweep
    <2>1. \A p \in Paths : Own(graph'.nodes, p) = Own(graph.nodes, p) BY <1>7, OwnSweep DEF IncSweep
    <2>2. Pathless(graph') BY <1>7, <1>t, PathlessEffects DEF IncSweep
    <2> QED BY <1>7, <2>1, <2>2
        DEF IncSweep, MarkerHeld, Present, ReadsMarked, FullWrites, Recorded, Certified, IncSteps,
            IncMarked, IncWritten, Marked, metaVars
  <1>8. CASE IncResolve
    <2>1. CASE pc' = "inc_commit"
      <3>1. /\ pc = "inc_resolve" /\ graph' = TypeResolve(graph)
            /\ UNCHANGED <<walked, parsed, work, gen, tx, graphGen, metaVars>>
            /\ \A p \in Paths : parsed[p] # Absent => Facts[parsed[p]].outcome # "error"
        BY <1>8, <2>1 DEF IncResolve, Fail, Rest
      <3>2. graph'.nodes = graph.nodes BY <1>t, <3>1, ResolveNodes
      <3>3. ASSUME NEW p \in Paths, parsed[p] # Absent PROVE Parses(parsed[p])
        <4>1. parsed[p] \in Contents BY <1>t, <3>3 DEF Trees
        <4>2. Facts[parsed[p]] \in ParseFacts BY <4>1, GraphAssumption
        <4>3. Facts[parsed[p]].outcome \in {"ok", "error", "bound"} BY <4>2 DEF ParseFacts
        <4> QED BY <3>1, <3>3, <4>1, <4>3 DEF NoBounds, Parses
      <3> QED BY <2>1, <3>1, <3>2, <3>3
          DEF MarkerHeld, Pathless, Present, ReadsMarked, FullWrites, Recorded, Certified, IncSteps,
              IncMarked, IncWritten, Marked, metaVars
    <2>2. CASE pc' # "inc_commit"
      <3>1. /\ pc' \in Unread /\ UNCHANGED <<graphVars, metaVars>>
            /\ walked' \in {walked, NoTree} /\ parsed' \in {parsed, NoTree}
        BY <1>8, <2>2 DEF IncResolve, Fail, Rest, Unread, graphVars
      <3> QED BY <3>1, RecordReturns
    <2> QED BY <2>1, <2>2
  <1>9. CASE IncCommit
    <2>1. /\ pc = "inc_commit" /\ pc' \in {"idle", "probe"} /\ UNCHANGED <<graphVars, marker, metaGen>>
          /\ cache' = tx.cache /\ dirty' = tx.dirty
          /\ walked' = NoTree /\ parsed' = NoTree
      BY <1>9 DEF IncCommit, Rest
    <2>2. ASSUME NEW p \in Paths, disk[p] = Absent PROVE cache'[p].hash = Absent
      <3>1. parsed[p] = Absent BY <2>2 DEF Present
      <3>2. cache'[p] = cache[p] BY <2>1, <3>1 DEF ReadsMarked, IncWritten
      <3> QED BY <2>2, <3>2 DEF Present
    <2>3. Present' BY <2>1, <2>2 DEF Present, IncSteps, NoTree
    <2>4. ASSUME Certified, NEW p \in Paths
          PROVE  \/ Own(graph.nodes, p) = cache'[p].ids
                 \/ p \in dirty' /\ Own(graph.nodes, p) = NodesOf(p, disk[p])
      <3>1. CASE parsed[p] = Absent
        <4>1. cache'[p] = cache[p] /\ (p \in dirty => p \in dirty')
          BY <2>1, <3>1 DEF ReadsMarked, IncWritten
        <4> QED BY <2>4, <4>1 DEF Recorded
      <3>2. CASE parsed[p] # Absent
        <4>1. Parses(parsed[p]) BY <2>1, <3>2 DEF ReadsMarked
        <4>2. Own(graph.nodes, p) = NodesOf(p, disk[p]) BY <2>1, <2>4, <4>1 DEF ReadsMarked, IncWritten
        <4>3. cache'[p] = RowFor(p, disk[p]) BY <2>1, <3>2 DEF ReadsMarked, IncWritten
        <4> QED BY <4>2, <4>3 DEF RowFor
      <3> QED BY <3>1, <3>2
    <2>5. Recorded' BY <2>1, <2>4 DEF Recorded, Certified, graphVars
    <2>6. ReadsMarked' /\ FullWrites' /\ MarkerHeld'
      BY <2>1 DEF ReadsMarked, FullWrites, MarkerHeld, IncMarked, IncWritten, Marked
    <2>7. Pathless(graph') BY <2>1 DEF graphVars
    <2> QED BY <2>3, <2>5, <2>6, <2>7
  <1> QED BY <1>1, <1>2, <1>3, <1>4, <1>5, <1>6, <1>7, <1>8, <1>9 DEF IncPass

(* An edit that OrderlyEdits admits.                                       *)
LEMMA RecordEdit ==
  ASSUME RecordInv, FullInv', UNCHANGED <<graphVars, metaVars, passVars>>,
         \A p \in Paths : disk'[p] # disk[p] => disk'[p] # Absent /\ p \notin dirty /\ pc # "inc_mark"
  PROVE  RecordInv'
  <1>1. /\ UNCHANGED <<graph, graphGen, cache, dirty, marker, metaGen, pc, walked, parsed, work, gen, tx>>
        /\ disk \in Trees /\ disk' \in Trees
    BY DEF graphVars, metaVars, passVars, RecordInv, FullInv, StructInv, TypeOK
  <1>2. \A p \in dirty : p \in Paths => disk'[p] = disk[p] OBVIOUS
  <1>3. pc = "inc_mark" => disk' = disk BY <1>1 DEF Trees
  <1>4. Present' BY <1>1 DEF RecordInv, Present
  <1>5. ReadsMarked'
    <2>1. work \subseteq Paths BY DEF RecordInv, FullInv, StructInv, TypeOK
    <2>2. pc \in IncWritten => \A p \in Paths :
            /\ parsed[p] # Absent => p \in dirty /\ parsed[p] = disk'[p] /\ walked[p] # Absent
            /\ tx.cache[p] = (IF parsed[p] = Absent THEN cache[p] ELSE RowFor(p, disk'[p]))
            /\ parsed[p] = Absent /\ p \in dirty => p \in tx.dirty
            /\ Certified /\ Parses(parsed[p]) => Own(graph.nodes, p) = NodesOf(p, disk'[p])
      <3> SUFFICES ASSUME pc \in IncWritten, NEW p \in Paths
                   PROVE  /\ parsed[p] # Absent => p \in dirty /\ parsed[p] = disk'[p] /\ walked[p] # Absent
                          /\ tx.cache[p] = (IF parsed[p] = Absent THEN cache[p] ELSE RowFor(p, disk'[p]))
                          /\ parsed[p] = Absent /\ p \in dirty => p \in tx.dirty
                          /\ Certified /\ Parses(parsed[p]) => Own(graph.nodes, p) = NodesOf(p, disk'[p])
        OBVIOUS
      <3>1. parsed[p] # Absent => disk'[p] = disk[p] BY <1>2 DEF RecordInv, ReadsMarked
      <3>2. Parses(parsed[p]) => parsed[p] # Absent BY DEF Parses
      <3> QED BY <3>1, <3>2 DEF RecordInv, ReadsMarked
    <2>3. pc \in IncMarked => \A p \in work : walked[p] # Absent => p \in dirty /\ walked[p] = disk'[p]
      BY <1>2, <2>1 DEF RecordInv, ReadsMarked
    <2>4. Certified' <=> Certified BY <1>1 DEF Certified
    <2> QED BY <1>1, <1>3, <2>2, <2>3, <2>4 DEF RecordInv, ReadsMarked
  <1>6. FullWrites' /\ MarkerHeld' BY <1>1 DEF RecordInv, FullWrites, MarkerHeld
  <1>7. Recorded' /\ Pathless(graph)' BY <1>1, <1>2 DEF RecordInv, Recorded, Certified, Pathless
  <1> QED BY <1>4, <1>5, <1>6, <1>7 DEF RecordInv

LEMMA RecordStep ==
  ASSUME NoPackages, NoBounds
  PROVE  RecordInv /\ [Next]_vars
           /\ [\A p \in Paths : disk'[p] # disk[p] => disk'[p] # Absent /\ p \notin dirty /\ pc # "inc_mark"]_vars
         => RecordInv'
  <1> SUFFICES ASSUME RecordInv, [Next]_vars,
                      [\A p \in Paths : disk'[p] # disk[p] =>
                         disk'[p] # Absent /\ p \notin dirty /\ pc # "inc_mark"]_vars
               PROVE  RecordInv'
    OBVIOUS
  <1>f. FullInv' BY FullStep DEF RecordInv
  <1>e. \A p \in Paths : disk'[p] # disk[p] => disk'[p] # Absent /\ p \notin dirty /\ pc # "inc_mark"
    BY DEF vars
  <1>1. CASE FullPass
    <2>1. UNCHANGED disk
      BY <1>1 DEF FullPass, FullWalk, FullParse, FullMark, FullGen, FullWrite, FullLink, FullResolve,
                  FullCommit, FullBump, FullCertify
    <2> QED BY <1>1, <1>f, <2>1, RecordFull
  <1>2. CASE IncPass
    <2>1. UNCHANGED disk
      BY <1>2 DEF IncPass, IncWalk, IncMark, IncBump, IncWrite, IncPurge, IncLink, IncSweep, IncResolve, IncCommit
    <2> QED BY <1>2, <1>f, <2>1, RecordIncrement
  <1>3. CASE StartSync \/ RecoverWithRoot \/ warmOrFullIngest \/ RebuildRepo \/ ApplyChangedParsed
    <2>1. /\ pc' \in Unread /\ UNCHANGED <<disk, graphVars, metaVars>>
          /\ walked' \in {walked, NoTree} /\ parsed' \in {parsed, NoTree}
      BY <1>3 DEF StartSync, RecoverWithRoot, warmOrFullIngest, RebuildRepo, ApplyChangedParsed, Goto, Rest, Unread
    <2> QED BY <1>f, <2>1, RecordReturns
  <1>4. CASE Crash \/ StepError
    <2>1. /\ pc' \in Unread /\ UNCHANGED <<disk, graphVars, metaVars>>
          /\ walked' \in {walked, NoTree} /\ parsed' \in {parsed, NoTree}
      BY <1>4 DEF Crash, StepError, Fail, Rest, Unread
    <2> QED BY <1>f, <2>1, RecordReturns
  <1>5. CASE BuildSemanticGeneration \/ EditDisk \/ UNCHANGED vars
    <2>1. UNCHANGED <<graphVars, metaVars, passVars>> BY <1>5 DEF BuildSemanticGeneration, EditDisk, vars
    <2> QED BY <1>e, <1>f, <2>1, RecordEdit
  <1>6. CASE Upgrade
    <2>1. UNCHANGED <<disk, graphVars, cache, rdeps, dirty, marker, metaGen, passVars>> BY <1>6 DEF Upgrade
    <2> QED BY <1>f, <2>1
        DEF RecordInv, MarkerHeld, Pathless, Present, ReadsMarked, FullWrites, Recorded, Certified,
            graphVars, passVars
  <1>7. CASE LoseStore
    <2>1. pc' = "idle" /\ UNCHANGED <<disk, walked, parsed>> BY <1>7 DEF LoseStore, passVars
    <2>2. ~Certified'
      <3>1. graphGen' = 0 \/ metaGen' = 0 BY <1>7 DEF LoseStore
      <3> QED BY <3>1 DEF Certified
    <2>3. cache' = cache \/ cache' = NoCache BY <1>7 DEF LoseStore, metaVars
    <2>4. Present' BY <2>1, <2>3 DEF RecordInv, Present, IncSteps, NoCache, NoRow
    <2>5. graph' = graph \/ graph' = EmptyGraph BY <1>7 DEF LoseStore, graphVars
    <2>6. Pathless(graph') BY <2>5 DEF RecordInv, Pathless, EmptyGraph
    <2>7. ReadsMarked' /\ FullWrites' /\ MarkerHeld' /\ Recorded'
      BY <2>1, <2>2 DEF ReadsMarked, FullWrites, MarkerHeld, Recorded, IncMarked, IncWritten, Marked
    <2> QED BY <1>f, <2>4, <2>6, <2>7 DEF RecordInv
  <1> QED BY <1>1, <1>2, <1>3, <1>4, <1>5, <1>6, <1>7 DEF Next, Sync, Environment

(* The dirty_units rows that RecoverWithRoot reads name every file whose   *)
(* stored nodes differ from its cache row, after any interleaving of       *)
(* passes, faults, lost stores and edits that delete no file and change    *)
(* none that is dirty, where every content parses within its bounds and    *)
(* no file mints a shared package node.                                    *)
THEOREM DirtyRowsSuffice == NoPackages /\ NoBounds /\ Spec /\ OrderlyEdits => []DirtyRecordsTornFiles
  <1> SUFFICES ASSUME NoPackages, NoBounds PROVE Spec /\ OrderlyEdits => []DirtyRecordsTornFiles
    OBVIOUS
  <1>1. RecordInv => DirtyRecordsTornFiles
    <2> SUFFICES ASSUME RecordInv, CanWarmStart, NEW p \in Paths, p \notin dirty
                 PROVE  Own(graph.nodes, p) = Own(cache[p].ids, p)
      BY DEF DirtyRecordsTornFiles
    <2>1. Own(graph.nodes, p) = cache[p].ids BY DEF RecordInv, Recorded, Certified, CanWarmStart
    <2>2. \A n \in cache[p].ids : n.path = p BY <2>1 DEF Own
    <2> QED BY <2>1, <2>2 DEF Own
  <1>2. RecordInv /\ [Next]_vars
          /\ [\A p \in Paths : disk'[p] # disk[p] => disk'[p] # Absent /\ p \notin dirty /\ pc # "inc_mark"]_vars
        => RecordInv'
    BY RecordStep
  <1> QED BY <1>1, <1>2, RecordInit, PTL DEF Spec, OrderlyEdits

=============================================================================
