------------------------- MODULE GenerationsProofs --------------------------
(***************************************************************************)
(* The generation store implements VectorCatalog, and a process serves     *)
(* nothing but a whole generation.                                         *)
(***************************************************************************)
EXTENDS Generations, FiniteSetTheorems, TLAPS

(***************************************************************************)
(* The inductive invariant.                                                *)
(***************************************************************************)

Before   == {"lock", "snapshot", "probe", "discard", "discard_rows", "insert"}
Building == Before \cup {"embed", "abort", "release"}
Held     == Building \ {"lock"}
Finished == {"active", "old"}

(* The ids drawn so far are 1..Used.                                       *)
Used == MaxBuilds - left["builds"]

(* A build has an id of its own.                                           *)
Bounded == left["builds"] <= MaxBuilds
Distinct ==
  \A p, q \in Procs : p # q /\ pc[p] \in Building /\ pc[q] \in Building => build[p].id # build[q].id

(* There is nothing under an id that was not drawn; a v1 generation is     *)
(* never staging; at most one generation is staging, and one active.       *)
Fresh == \A i \in Ids : i > Used => gens[i] = NoGen /\ rows[i] = NoRows
NoLegacyStaging == gens[0].state # "staging"
Unique == \A s \in {"staging", "active"} : \A i, j \in Ids : gens[i].state = s /\ gens[j].state = s => i = j

(* A generation that was published is whole, and of no later graph.        *)
WholeGen(i) ==
  /\ gens[i].graph \in 0..graph
  /\ HasRow(rows[i]) = GraphNodes[gens[i].graph] \ gens[i].excluded
Whole == \A i \in Ids : gens[i].state \in Finished => WholeGen(i)

Store == Bounded /\ Fresh /\ NoLegacyStaging /\ Unique /\ Whole

(* What each process relies on at its next step.                           *)
Locked(p) == pc[p] \in Held => lock = p
Drawn(p)  == pc[p] \in Building => build[p].id \in 1..Used
Blank(p)  == pc[p] \in Before => gens[build[p].id] = NoGen /\ rows[build[p].id] = NoRows
Planned(p) ==
  /\ pc[p] \in Before => build[p].excluded = {}
  /\ pc[p] \in Before \ {"lock", "snapshot"} => build[p].graph = graph /\ build[p].todo = GraphNodes[graph]
Discards(p) ==
  /\ pc[p] = "discard" => build[p].stale \in 1..MaxBuilds /\ gens[build[p].stale].state = "staging"
  /\ pc[p] = "discard_rows" => build[p].stale \in 1..MaxBuilds /\ gens[build[p].stale] = NoGen
Embeds(p) ==
  /\ pc[p] \in {"embed", "abort"} => gens[build[p].id].state = "staging"
  /\ pc[p] = "embed" =>
       /\ build[p].graph = graph /\ build[p].todo \subseteq GraphNodes[graph]
       /\ build[p].todo \cap build[p].excluded = {}
       /\ HasRow(rows[build[p].id]) = GraphNodes[graph] \ (build[p].todo \cup build[p].excluded)
Loads(p) ==
  /\ pc[p] \in {"reload_rows", "serving"} => loaded[p].id \in Ids /\ gens[loaded[p].id].state \in Finished
  /\ pc[p] = "serving" => loaded[p].rows = rows[loaded[p].id]

ProcOK(p) == Locked(p) /\ Drawn(p) /\ Blank(p) /\ Planned(p) /\ Discards(p) /\ Embeds(p) /\ Loads(p)

GenerationsInv == TypeOK /\ Store /\ Distinct /\ \A p \in Procs : ProcOK(p)

(***************************************************************************)
(* Types.                                                                  *)
(***************************************************************************)

(* TypeOK but for the two indexes, which Unique states without counting.   *)
Shape ==
  /\ graph \in 1..MaxGraph
  /\ text \in [Nodes -> Texts \cup {NoSpan, Unreadable}]
  /\ legacy \in BOOLEAN
  /\ gens \in [Ids -> GenStates]
  /\ rows \in [Ids -> RowSets]
  /\ lock \in Procs \cup {Nobody}
  /\ live \in [Procs -> SUBSET Ids]
  /\ pc \in [Procs -> Steps]
  /\ build \in [Procs -> BuildStates]
  /\ loaded \in [Procs -> LoadStates]
  /\ left \in [{"builds", "edits", "faults"} -> Nat]

LEMMA IdsFinite == IsFiniteSet(Ids)
  BY GenerationsAssumption, FS_Interval DEF Ids

LEMMA AtMostOneGen ==
  ASSUME NEW S \in SUBSET Ids, \A i, j \in S : i = j
  PROVE  Cardinality(S) <= 1
  <1>1. CASE S = {} BY <1>1, FS_EmptySet
  <1>2. CASE S # {}
    <2>1. PICK i : S = {i} BY <1>2
    <2> QED BY <2>1, FS_Singleton
  <1> QED BY <1>1, <1>2

LEMMA ShapeUnique == Shape /\ Unique => TypeOK
  <1> SUFFICES ASSUME Shape, Unique PROVE TypeOK OBVIOUS
  <1>1. ASSUME NEW s \in {"staging", "active"} PROVE Cardinality({i \in Ids : gens[i].state = s}) <= 1
    BY AtMostOneGen DEF Unique
  <1> QED BY <1>1 DEF Shape, TypeOK

LEMMA ShapeUniqueNext == Shape' /\ Unique' => TypeOK'
  <1> SUFFICES ASSUME Shape', Unique' PROVE TypeOK' OBVIOUS
  <1>1. ASSUME NEW s \in {"staging", "active"} PROVE Cardinality({i \in Ids : gens'[i].state = s}) <= 1
    BY AtMostOneGen DEF Unique
  <1> QED BY <1>1 DEF Shape, TypeOK

LEMMA NodesCount ==
  ASSUME NEW S \in SUBSET Nodes
  PROVE  Cardinality(S) \in 0..Cardinality(Nodes)
  <1>1. IsFiniteSet(Nodes) BY GenerationsAssumption
  <1>2. IsFiniteSet(S) /\ Cardinality(S) <= Cardinality(Nodes) BY <1>1, FS_Subset
  <1>3. Cardinality(S) \in Nat /\ Cardinality(Nodes) \in Nat BY <1>1, <1>2, FS_CardinalityType
  <1> QED BY <1>2, <1>3

LEMMA EmptyTypes ==
  NoRows \in RowSets /\ NoGen \in GenStates /\ NoBuild \in BuildStates /\ NoLoad \in LoadStates
  <1>1. NoRows \in RowSets BY DEF NoRows, RowSets
  <1>2. -1 \in -1..MaxGraph /\ -1 \in -1..MaxBuilds /\ 0 \in 0..Cardinality(Nodes)
    <2>1. MaxGraph \in Nat /\ MaxBuilds \in Nat BY GenerationsAssumption
    <2>2. Cardinality({}) \in 0..Cardinality(Nodes) BY NodesCount
    <2>3. Cardinality({}) = 0 BY FS_EmptySet
    <2> QED BY <2>1, <2>2, <2>3
  <1> QED BY <1>1, <1>2 DEF NoGen, GenStates, NoBuild, BuildStates, NoLoad, LoadStates

LEMMA Bounds ==
  /\ 0..MaxBuilds = Ids /\ Ids \subseteq -1..MaxBuilds /\ 1..MaxBuilds \subseteq Ids
  /\ 0..MaxGraph \subseteq -1..MaxGraph /\ 1..MaxGraph \subseteq 0..MaxGraph
  /\ 0 \in Ids /\ 0 \in 0..MaxGraph
  BY GenerationsAssumption DEF Ids

LEMMA GraphNodesType == ASSUME NEW g \in 0..MaxGraph PROVE GraphNodes[g] \subseteq Nodes
  BY GenerationsAssumption

LEMMA BuildFields ==
  ASSUME NEW b \in BuildStates
  PROVE  /\ \A i \in -1..MaxBuilds : [b EXCEPT !.id = i] \in BuildStates /\ [b EXCEPT !.stale = i] \in BuildStates
         /\ \A g \in -1..MaxGraph : [b EXCEPT !.graph = g] \in BuildStates
         /\ \A g \in -1..MaxGraph : \A S \in SUBSET Nodes : [b EXCEPT !.graph = g, !.todo = S] \in BuildStates
         /\ \A S, T \in SUBSET Nodes : [b EXCEPT !.todo = S] \in BuildStates
                                       /\ [b EXCEPT !.todo = S, !.excluded = T] \in BuildStates
  BY DEF BuildStates

LEMMA SpendShape ==
  ASSUME Shape, NEW k \in {"builds", "edits", "faults"}, Spend(k)
  PROVE  /\ left' \in [{"builds", "edits", "faults"} -> Nat]
         /\ left'["builds"] = IF k = "builds" THEN left["builds"] - 1 ELSE left["builds"]
         /\ left["builds"] \in Nat
  <1>1. left \in [{"builds", "edits", "faults"} -> Nat] BY DEF Shape
  <1>2. left[k] \in Nat /\ left[k] > 0 BY <1>1 DEF Spend
  <1>3. left[k] - 1 \in Nat BY <1>2
  <1> QED BY <1>1, <1>3 DEF Spend

(* The build that NewBuild starts.                                         *)
LEMMA NewBuildFacts ==
  ASSUME Shape, Bounded, NEW p \in Procs, NewBuild(p)
  PROVE  /\ build' \in [Procs -> BuildStates] /\ pc' \in [Procs -> Steps]
         /\ left' \in [{"builds", "edits", "faults"} -> Nat]
         /\ Used' = Used + 1 /\ Used \in 0..MaxBuilds /\ Used' \in 1..MaxBuilds /\ Bounded'
         /\ pc'[p] = "lock" /\ build'[p].id = Used' /\ build'[p].excluded = {}
         /\ \A q \in Procs : q # p => pc'[q] = pc[q] /\ build'[q] = build[q]
  <1>1. Spend("builds") BY DEF NewBuild
  <1>2. /\ left' \in [{"builds", "edits", "faults"} -> Nat] /\ left'["builds"] = left["builds"] - 1
        /\ left["builds"] \in Nat /\ left'["builds"] \in Nat
    BY <1>1, SpendShape
  <1>3. MaxBuilds \in Nat BY GenerationsAssumption
  <1>4. /\ Used' = Used + 1 /\ Used \in 0..MaxBuilds /\ Used' \in 1..MaxBuilds /\ Bounded'
    BY <1>2, <1>3 DEF Used, Bounded
  <1>5. build' = [build EXCEPT ![p] = [NoBuild EXCEPT !.id = Used']] /\ pc' = [pc EXCEPT ![p] = "lock"]
    BY DEF NewBuild, Used, Goto
  <1>6. Used' \in -1..MaxBuilds BY <1>4
  <1>7. [NoBuild EXCEPT !.id = Used'] \in BuildStates BY <1>6, EmptyTypes, BuildFields
  <1>8. build' \in [Procs -> BuildStates] /\ pc' \in [Procs -> Steps] BY <1>5, <1>7 DEF Shape, Steps
  <1>9. build'[p] = [NoBuild EXCEPT !.id = Used'] /\ pc'[p] = "lock" BY <1>5 DEF Shape
  <1>10. build'[p].id = Used' /\ build'[p].excluded = {} BY <1>9 DEF NoBuild
  <1>11. \A q \in Procs : q # p => pc'[q] = pc[q] /\ build'[q] = build[q] BY <1>5 DEF Shape
  <1> QED BY <1>2, <1>4, <1>8, <1>9, <1>10, <1>11

(* The rows of the v1 generation, and what a promotion makes.              *)
LegacyGen == [state |-> "active", graph |-> 0, count |-> Cardinality(GraphNodes[0]), excluded |-> {}]
LegacyRows == [n \in Nodes |-> IF n \in GraphNodes[0] THEN CHOOSE t \in Texts : TRUE ELSE NoRow]

LEMMA LegacyFacts ==
  LegacyGen \in GenStates /\ LegacyRows \in RowSets /\ HasRow(LegacyRows) = GraphNodes[0]
  <1>1. GraphNodes[0] \subseteq Nodes BY Bounds, GraphNodesType
  <1>2. Cardinality(GraphNodes[0]) \in 0..Cardinality(Nodes) BY <1>1, NodesCount
  <1>3. LegacyGen \in GenStates BY <1>2, Bounds DEF LegacyGen, GenStates
  <1>4. (CHOOSE t \in Texts : TRUE) \in Texts BY GenerationsAssumption
  <1>5. LegacyRows \in RowSets BY <1>4 DEF LegacyRows, RowSets
  <1>6. \A n \in Nodes : LegacyRows[n] # NoRow <=> n \in GraphNodes[0]
    BY <1>4, GenerationsAssumption DEF LegacyRows
  <1>7. HasRow(LegacyRows) = GraphNodes[0] BY <1>1, <1>6 DEF HasRow
  <1> QED BY <1>3, <1>5, <1>7

LEMMA PromotedType ==
  ASSUME Shape, NEW p \in Procs, build[p].graph \in 0..MaxGraph
  PROVE  Promoted(p) \in GenStates
  <1>1. HasRow(rows[build[p].id]) \in SUBSET Nodes BY DEF HasRow
  <1>2. Cardinality(HasRow(rows[build[p].id])) \in 0..Cardinality(Nodes) BY <1>1, NodesCount
  <1>3. build[p].excluded \in SUBSET Nodes BY DEF Shape, BuildStates
  <1> QED BY <1>2, <1>3, Bounds DEF Promoted, GenStates

LEMMA GotoType ==
  ASSUME Shape, NEW p \in Procs, NEW s \in Steps, Goto(p, s)
  PROVE  pc' \in [Procs -> Steps]
  BY DEF Shape, Goto

LEMMA ExitType ==
  ASSUME Shape, NEW p \in Procs, Exit(p)
  PROVE  pc' \in [Procs -> Steps] /\ build' \in [Procs -> BuildStates] /\ loaded' \in [Procs -> LoadStates]
  BY EmptyTypes DEF Shape, Exit, Goto, Steps

LEMMA OpenedType ==
  ASSUME Shape, Bounded, NEW p \in Procs, Opened(p)
  PROVE  /\ pc' \in [Procs -> Steps] /\ build' \in [Procs -> BuildStates]
         /\ left' \in [{"builds", "edits", "faults"} -> Nat]
  <1>1. CASE NewBuild(p) BY <1>1, NewBuildFacts
  <1>2. CASE Goto(p, "reload") /\ UNCHANGED <<build, left>> BY <1>2 DEF Shape, Goto, Steps
  <1> QED BY <1>1, <1>2 DEF Opened

LEMMA ShapeStep == GenerationsInv /\ [Next]_vars => Shape'
  <1> SUFFICES ASSUME GenerationsInv, [Next]_vars PROVE Shape' OBVIOUS
  <1>0. Shape /\ Bounded /\ \A p \in Procs : ProcOK(p) BY DEF GenerationsInv, Store, TypeOK, Shape
  <1>g. graph \in 0..MaxGraph /\ graph \in -1..MaxGraph /\ GraphNodes[graph] \in SUBSET Nodes
    BY <1>0, Bounds, GraphNodesType DEF Shape
  <1> USE <1>0 DEF sidecar
  <1>1. CASE SyncRepo
    <2>1. graph' \in 1..MaxGraph BY <1>1, GenerationsAssumption DEF SyncRepo, Shape
    <2> QED BY <1>1, <2>1 DEF SyncRepo, Shape
  <1>2. ASSUME NEW n \in Nodes, EditDocument(n) PROVE Shape'
    <2>1. left' \in [{"builds", "edits", "faults"} -> Nat] BY <1>2, SpendShape DEF EditDocument
    <2>2. text' \in [Nodes -> Texts \cup {NoSpan, Unreadable}] BY <1>2 DEF EditDocument, Shape
    <2> QED BY <1>2, <2>1, <2>2 DEF EditDocument, Shape
  <1>3. ASSUME NEW p \in Procs, Die(p) PROVE Shape'
    <2>1. left' \in [{"builds", "edits", "faults"} -> Nat] BY <1>3, SpendShape DEF Die
    <2>2. "idle" \in Steps BY DEF Steps
    <2>3. pc' \in [Procs -> Steps] BY <1>3, <2>2, GotoType DEF Die
    <2> QED BY <1>3, <2>1, <2>3, EmptyTypes DEF Die, Shape
  <1>4. ASSUME NEW p \in Procs, StartProcess(p) PROVE Shape'
    <2>1. [NoBuild EXCEPT !.graph = graph] \in BuildStates BY <1>g, EmptyTypes, BuildFields
    <2>2. pc' \in [Procs -> Steps] BY <1>4, GotoType DEF StartProcess, Steps
    <2> QED BY <1>4, <2>1, <2>2 DEF StartProcess, Shape
  <1>5. ASSUME NEW p \in Procs, OpenSQLiteGenerationStore(p) PROVE Shape'
    <2>1. CASE Opened(p) BY <1>5, <2>1, OpenedType DEF OpenSQLiteGenerationStore, Shape
    <2>2. CASE Goto(p, "migrate") /\ UNCHANGED <<build, left>>
      BY <1>5, <2>2, GotoType DEF OpenSQLiteGenerationStore, Shape, Steps
    <2> QED BY <1>5, <2>1, <2>2 DEF OpenSQLiteGenerationStore
  <1>6. ASSUME NEW p \in Procs, MigrateFromLegacyVectors(p) PROVE Shape'
    <2>1. CASE Goto(p, "idle") /\ build' = [build EXCEPT ![p] = NoBuild] /\ UNCHANGED <<sidecar, left>>
      <3>1. pc' \in [Procs -> Steps] BY <2>1, GotoType DEF Steps
      <3> QED BY <1>6, <2>1, <3>1, EmptyTypes DEF MigrateFromLegacyVectors, Shape
    <2>2. CASE gens' = [gens EXCEPT ![0] = LegacyGen] /\ rows' = [rows EXCEPT ![0] = LegacyRows] /\ Opened(p)
      <3>1. gens' \in [Ids -> GenStates] /\ rows' \in [Ids -> RowSets] BY <2>2, LegacyFacts, Bounds DEF Shape
      <3> QED BY <1>6, <2>2, <3>1, OpenedType DEF MigrateFromLegacyVectors, Shape
    <2> QED BY <1>6, <2>1, <2>2 DEF MigrateFromLegacyVectors, LegacyGen, LegacyRows
  <1>7. ASSUME NEW p \in Procs, acquireIngestLock(p) PROVE Shape'
    <2>1. pc' \in [Procs -> Steps] BY <1>7, GotoType DEF acquireIngestLock, Steps
    <2> QED BY <1>7, <2>1 DEF acquireIngestLock, Shape
  <1>8. ASSUME NEW p \in Procs, BuildSemanticGeneration(p) PROVE Shape'
    <2>1. pc' \in [Procs -> Steps] BY <1>8, GotoType DEF BuildSemanticGeneration, Steps
    <2>2. build[p] \in BuildStates BY DEF Shape
    <2>3. [build[p] EXCEPT !.graph = graph, !.todo = GraphNodes[graph]] \in BuildStates
      BY <1>g, <2>2, BuildFields
    <2> QED BY <1>8, <2>1, <2>3 DEF BuildSemanticGeneration, Shape
  <1>9. ASSUME NEW p \in Procs, BeginProbe(p) PROVE Shape'
    <2>1. pc' \in [Procs -> Steps] BY <1>9, GotoType DEF BeginProbe, Steps
    <2>2. build' = build \/ \E i \in Ids : build' = [build EXCEPT ![p] = [build[p] EXCEPT !.stale = i]]
      BY <1>9 DEF BeginProbe, WithState, Shape
    <2>3. build' \in [Procs -> BuildStates]
      <3>1. \A i \in Ids : [build[p] EXCEPT !.stale = i] \in BuildStates BY Bounds, BuildFields DEF Shape
      <3> QED BY <2>2, <3>1 DEF Shape
    <2> QED BY <1>9, <2>1, <2>3 DEF BeginProbe, Shape
  <1>10. ASSUME NEW p \in Procs, BeginDiscard(p) PROVE Shape'
    <2>1. pc' \in [Procs -> Steps] BY <1>10, GotoType DEF BeginDiscard, Steps
    <2>2. gens' \in [Ids -> GenStates] BY <1>10, EmptyTypes DEF BeginDiscard, Shape
    <2> QED BY <1>10, <2>1, <2>2 DEF BeginDiscard, Shape
  <1>11. ASSUME NEW p \in Procs, BeginDiscardRows(p) PROVE Shape'
    <2>1. pc' \in [Procs -> Steps] BY <1>11, GotoType DEF BeginDiscardRows, Steps
    <2>2. rows' \in [Ids -> RowSets] BY <1>11, EmptyTypes DEF BeginDiscardRows, Shape
    <2> QED BY <1>11, <2>1, <2>2 DEF BeginDiscardRows, Shape
  <1>12. ASSUME NEW p \in Procs, BeginInsert(p) PROVE Shape'
    <2>1. pc' \in [Procs -> Steps] BY <1>12, GotoType DEF BeginInsert, Steps
    <2>2. build[p].graph \in -1..MaxGraph BY DEF Shape, BuildStates
    <2>3. [NoGen EXCEPT !.state = "staging", !.graph = build[p].graph] \in GenStates
      BY <2>2, EmptyTypes DEF GenStates
    <2>4. build[p].id \in Ids
      <3>1. build[p].id \in 1..Used /\ Used \in Int /\ Used <= MaxBuilds
        BY <1>12, GenerationsAssumption DEF BeginInsert, ProcOK, Drawn, Building, Before, Used, Shape
      <3> QED BY <3>1, GenerationsAssumption DEF Ids
    <2>5. gens' \in [Ids -> GenStates] /\ live' \in [Procs -> SUBSET Ids]
      BY <1>12, <2>3, <2>4 DEF BeginInsert, Shape
    <2> QED BY <1>12, <2>1, <2>5 DEF BeginInsert, Shape
  <1>13. ASSUME NEW p \in Procs, NEW n \in Nodes, EmbedNode(p, n) PROVE Shape'
    <2>1. build[p] \in BuildStates /\ build[p].todo \in SUBSET Nodes /\ build[p].excluded \in SUBSET Nodes
      BY DEF Shape, BuildStates
    <2>2. CASE text[n] = Unreadable
      <3>1. Goto(p, "abort") /\ UNCHANGED <<rows, build>> BY <1>13, <2>2, GenerationsAssumption DEF EmbedNode
      <3>2. pc' \in [Procs -> Steps] BY <3>1, GotoType DEF Steps
      <3> QED BY <1>13, <3>1, <3>2 DEF EmbedNode, Shape
    <2>3. CASE text[n] # Unreadable /\ text[n] = NoSpan
      <3>1. build' = [build EXCEPT ![p] = [build[p] EXCEPT !.todo = build[p].todo \ {n},
                                                          !.excluded = build[p].excluded \cup {n}]]
        BY <1>13, <2>1, <2>3 DEF EmbedNode, Shape, BuildStates
      <3>2. [build[p] EXCEPT !.todo = build[p].todo \ {n}, !.excluded = build[p].excluded \cup {n}] \in BuildStates
        BY <2>1, BuildFields
      <3>3. build' \in [Procs -> BuildStates] BY <3>1, <3>2 DEF Shape
      <3> QED BY <1>13, <2>3, <3>3 DEF EmbedNode, Shape
    <2>4. CASE text[n] # Unreadable /\ text[n] # NoSpan
      <3>1. build' = [build EXCEPT ![p] = [build[p] EXCEPT !.todo = build[p].todo \ {n}]]
        BY <1>13, <2>1, <2>4 DEF EmbedNode, Shape, BuildStates
      <3>2. build' \in [Procs -> BuildStates] BY <2>1, <3>1, BuildFields DEF Shape
      <3>3. rows' \in [Ids -> RowSets]
        <4>1. text[n] \in Texts BY <2>4 DEF Shape
        <4>2. rows' = [rows EXCEPT ![build[p].id] = [rows[build[p].id] EXCEPT ![n] = text[n]]]
          BY <1>13, <2>4 DEF EmbedNode
        <4>3. ASSUME NEW i \in Ids PROVE [rows[i] EXCEPT ![n] = text[n]] \in RowSets
          BY <4>1 DEF Shape, RowSets
        <4> QED BY <4>2, <4>3 DEF Shape
      <3> QED BY <1>13, <2>4, <3>2, <3>3 DEF EmbedNode, Shape
    <2> QED BY <2>2, <2>3, <2>4
  <1>14. ASSUME NEW p \in Procs, EmbedFails(p) PROVE Shape'
    <2>1. left' \in [{"builds", "edits", "faults"} -> Nat] BY <1>14, SpendShape DEF EmbedFails
    <2>2. pc' \in [Procs -> Steps] BY <1>14, GotoType DEF EmbedFails, Steps
    <2> QED BY <1>14, <2>1, <2>2 DEF EmbedFails, Shape
  <1>15. ASSUME NEW p \in Procs, Commit(p) PROVE Shape'
    <2>1. pc' \in [Procs -> Steps] BY <1>15, GotoType DEF Commit, Steps
    <2>2. CASE Promote(p) /\ live' = [live EXCEPT ![p] = @ \ {build[p].id}] /\ UNCHANGED left
      <3>1. Promoted(p) \in GenStates BY <1>15, <1>g, PromotedType DEF Commit, ProcOK, Embeds
      <3>2. \A i \in Ids : [gens[i] EXCEPT !.state = "old"] \in GenStates BY DEF Shape, GenStates
      <3>3. gens' \in [Ids -> GenStates] BY <2>2, <3>1, <3>2 DEF Promote, Shape
      <3> QED BY <1>15, <2>1, <2>2, <3>3 DEF Commit, Promote, Shape
    <2>3. CASE /\ gens[build[p].id].state # "staging" \/ left["faults"] > 0
               /\ left' = IF gens[build[p].id].state = "staging"
                            THEN [left EXCEPT !["faults"] = @ - 1] ELSE left
               /\ UNCHANGED <<sidecar, live>>
      <3>1. left["faults"] \in Nat BY DEF Shape
      <3>2. left["faults"] > 0 => left["faults"] - 1 \in Nat BY <3>1
      <3>3. left' \in [{"builds", "edits", "faults"} -> Nat] BY <2>3, <3>2 DEF Shape
      <3> QED BY <1>15, <2>1, <2>3, <3>3 DEF Commit, Shape
    <2> QED BY <1>15, <2>2, <2>3 DEF Commit
  <1>16. ASSUME NEW p \in Procs, Abort(p) PROVE Shape'
    <2>1. pc' \in [Procs -> Steps] BY <1>16, GotoType DEF Abort, Steps
    <2>2. CASE Spend("faults") /\ UNCHANGED <<sidecar, live>>
      BY <1>16, <2>1, <2>2, SpendShape DEF Abort, Shape
    <2>3. CASE /\ rows' = [rows EXCEPT ![build[p].id] = NoRows]
               /\ gens' = [gens EXCEPT ![build[p].id] = IF @.state = "staging" THEN NoGen ELSE @]
               /\ live' = [live EXCEPT ![p] = @ \ {build[p].id}]
               /\ UNCHANGED left
      <3>1. gens' \in [Ids -> GenStates] /\ rows' \in [Ids -> RowSets] BY <2>3, EmptyTypes DEF Shape
      <3> QED BY <1>16, <2>1, <2>3, <3>1 DEF Abort, Shape
    <2> QED BY <1>16, <2>2, <2>3 DEF Abort
  <1>17. ASSUME NEW p \in Procs, Release(p) PROVE Shape'
    <2>1. CASE NewBuild(p) /\ UNCHANGED live BY <1>17, <2>1, NewBuildFacts DEF Release, Unlock, Shape
    <2>2. CASE /\ Goto(p, "idle") /\ live' = [live EXCEPT ![p] = {}] /\ build' = [build EXCEPT ![p] = NoBuild]
               /\ UNCHANGED left
      <3>1. pc' \in [Procs -> Steps] BY <2>2, GotoType DEF Steps
      <3> QED BY <1>17, <2>2, <3>1, EmptyTypes DEF Release, Unlock, Shape
    <2> QED BY <1>17, <2>1, <2>2 DEF Release
  <1>18. ASSUME NEW p \in Procs, loadSemanticState(p) PROVE Shape'
    <2>1. CASE Exit(p) BY <1>18, <2>1, ExitType DEF loadSemanticState, Shape
    <2>2. CASE Goto(p, "reload_id") /\ UNCHANGED <<build, loaded>>
      <3>1. pc' \in [Procs -> Steps] BY <2>2, GotoType DEF Steps
      <3> QED BY <1>18, <2>2, <3>1 DEF loadSemanticState, Shape
    <2> QED BY <1>18, <2>1, <2>2 DEF loadSemanticState
  <1>19. ASSUME NEW p \in Procs, reloadActive(p) PROVE Shape'
    <2>1. CASE Exit(p) BY <1>19, <2>1, ExitType DEF reloadActive, Shape
    <2>2. CASE /\ ActiveState(build[p].graph, FALSE) \in {"ready", "stale"}
               /\ loaded' = [loaded EXCEPT ![p].id = CHOOSE i \in WithState("active") : TRUE]
               /\ Goto(p, "reload_rows") /\ UNCHANGED build
      <3>1. WithState("active") # {} BY <2>2 DEF ActiveState
      <3>2. PICK a \in WithState("active") : a = CHOOSE i \in WithState("active") : TRUE BY <3>1, Zenon
      <3>3. a \in -1..MaxBuilds BY Bounds DEF WithState
      <3>4. loaded[p] \in LoadStates BY DEF Shape
      <3>5. [loaded[p] EXCEPT !.id = a] \in LoadStates BY <3>3, <3>4 DEF LoadStates
      <3>6. loaded' \in [Procs -> LoadStates] BY <2>2, <3>2, <3>5 DEF Shape
      <3>7. pc' \in [Procs -> Steps] BY <2>2, GotoType DEF Steps
      <3> QED BY <1>19, <2>2, <3>6, <3>7 DEF reloadActive, Shape
    <2> QED BY <1>19, <2>1, <2>2 DEF reloadActive
  <1>20. ASSUME NEW p \in Procs, reloadRows(p) PROVE Shape'
    <2>1. pc' \in [Procs -> Steps] BY <1>20, GotoType DEF reloadRows, Steps
    <2>2. loaded[p] \in LoadStates /\ loaded[p].id \in Ids BY <1>20 DEF Shape, reloadRows, ProcOK, Loads
    <2>3. rows[loaded[p].id] \in RowSets BY <2>2 DEF Shape
    <2>4. [loaded[p] EXCEPT !.rows = rows[loaded[p].id]] \in LoadStates BY <2>2, <2>3 DEF LoadStates
    <2>5. loaded' \in [Procs -> LoadStates] BY <1>20, <2>4 DEF reloadRows, Shape
    <2> QED BY <1>20, <2>1, <2>5 DEF reloadRows, Shape
  <1>21. ASSUME NEW p \in Procs, StopServing(p) PROVE Shape' BY <1>21, ExitType DEF StopServing, Shape
  <1>22. CASE UNCHANGED vars BY <1>22 DEF vars, Shape
  <1> QED BY <1>1, <1>2, <1>3, <1>4, <1>5, <1>6, <1>7, <1>8, <1>9, <1>10, <1>11, <1>12, <1>13, <1>14, <1>15, <1>16,
             <1>17, <1>18, <1>19, <1>20, <1>21, <1>22
      DEF Next, Open, Build, GenerateAndPersist, Begin, Reload

(***************************************************************************)
(* What a step of one process leaves to the others.                        *)
(***************************************************************************)

Keeps(q) == pc'[q] = pc[q] /\ build'[q] = build[q] /\ loaded'[q] = loaded[q]

(* The part of the store that q relies on is left as it is.                *)
Aside(q) ==
  /\ pc[q] \in Held => lock' = lock /\ graph' = graph
  /\ pc[q] \in Building => gens'[build[q].id] = gens[build[q].id] /\ rows'[build[q].id] = rows[build[q].id]
  /\ pc[q] \in {"discard", "discard_rows"} => gens'[build[q].stale] = gens[build[q].stale]

(* A published generation stays one, with its rows.                        *)
KeepsFinished ==
  \A i \in Ids : gens[i].state \in Finished =>
    /\ gens'[i].state \in Finished
    /\ gens'[i].graph = gens[i].graph /\ gens'[i].excluded = gens[i].excluded /\ rows'[i] = rows[i]

(* Process p goes on with its build, or draws a new id.                    *)
Takes(p) ==
  pc'[p] \in Building => \/ pc[p] \in Building /\ build'[p].id = build[p].id
                         \/ build'[p].id > Used

(* No id is given back.                                                    *)
Draws == Used \in 0..MaxBuilds /\ Used' \in 0..MaxBuilds /\ Used <= Used'

StepBy(p) ==
  /\ \A q \in Procs : q # p => Keeps(q) /\ Aside(q)
  /\ KeepsFinished /\ Takes(p) /\ Draws

LEMMA UsedType == Shape /\ Bounded => Used \in 0..MaxBuilds
  BY GenerationsAssumption DEF Shape, Bounded, Used

LEMMA ProcFrame ==
  ASSUME NEW q \in Procs, ProcOK(q), Keeps(q), Aside(q), KeepsFinished, Draws
  PROVE  ProcOK(q)'
  <1>1. Locked(q)' BY DEF ProcOK, Locked, Keeps, Aside
  <1>2. Drawn(q)'
    <2>1. \A i \in 1..Used : i \in 1..Used' BY DEF Draws
    <2> QED BY <2>1 DEF ProcOK, Drawn, Keeps
  <1>3. Blank(q)' BY DEF ProcOK, Blank, Keeps, Aside, Building
  <1>4. Planned(q)' BY DEF ProcOK, Planned, Keeps, Aside, Before, Building, Held
  <1>5. Discards(q)' BY DEF ProcOK, Discards, Keeps, Aside
  <1>6. Embeds(q)'
    <2>1. pc[q] \in {"embed", "abort"} => pc[q] \in Building /\ pc[q] \in Held BY DEF Building, Held
    <2> QED BY <2>1 DEF ProcOK, Embeds, Keeps, Aside
  <1>7. Loads(q)' BY DEF ProcOK, Loads, Keeps, KeepsFinished
  <1> QED BY <1>1, <1>2, <1>3, <1>4, <1>5, <1>6, <1>7 DEF ProcOK

LEMMA DistinctFrame ==
  ASSUME NEW p \in Procs, Distinct, \A q \in Procs : ProcOK(q), \A q \in Procs : q # p => Keeps(q), Takes(p),
         Used \in Int
  PROVE  Distinct'
  <1>1. ASSUME NEW q \in Procs, q # p, pc'[p] \in Building, pc'[q] \in Building PROVE build'[p].id # build'[q].id
    <2>1. pc[q] \in Building /\ build'[q].id = build[q].id BY <1>1 DEF Keeps
    <2>2. build[q].id \in 1..Used BY <2>1 DEF ProcOK, Drawn
    <2>3. CASE pc[p] \in Building /\ build'[p].id = build[p].id BY <1>1, <2>1, <2>3 DEF Distinct
    <2>4. CASE build'[p].id > Used BY <2>1, <2>2, <2>4
    <2> QED BY <1>1, <2>3, <2>4 DEF Takes
  <1>2. ASSUME NEW q \in Procs, NEW r \in Procs, q # r, q # p, r # p, pc'[q] \in Building, pc'[r] \in Building
        PROVE  build'[q].id # build'[r].id
    BY <1>2 DEF Distinct, Keeps
  <1> QED BY <1>1, <1>2 DEF Distinct

(* The invariant, and every generation that was published.                 *)
Preserved == GenerationsInv' /\ KeepsFinished

(* A step of p preserves the invariant if it keeps its promises.           *)
LEMMA Combine ==
  ASSUME GenerationsInv, NEW p \in Procs, StepBy(p), Shape', Store', ProcOK(p)'
  PROVE  Preserved
  <1>1. \A q \in Procs : ProcOK(q)' BY ProcFrame DEF GenerationsInv, StepBy
  <1>2. Distinct' BY DistinctFrame DEF GenerationsInv, StepBy, Draws
  <1>3. TypeOK' BY ShapeUniqueNext DEF Store
  <1> QED BY <1>1, <1>2, <1>3 DEF GenerationsInv, StepBy, Preserved

(***************************************************************************)
(* Steps that leave the sidecar alone.                                     *)
(***************************************************************************)

Quiet(p) ==
  /\ gens' = gens /\ rows' = rows /\ graph' = graph
  /\ lock' = lock \/ lock \in {p, Nobody}
  /\ \A q \in Procs : q # p => Keeps(q)

LEMMA QuietStep ==
  ASSUME GenerationsInv, NEW p \in Procs, Quiet(p), Takes(p), Draws, Bounded'
  PROVE  StepBy(p) /\ Store'
  <1>1. ASSUME NEW q \in Procs, q # p PROVE Aside(q)
    <2>1. pc[q] \in Held => lock' = lock
      <3>1. Locked(q) /\ Nobody \notin Procs BY GenerationsAssumption DEF GenerationsInv, ProcOK
      <3> QED BY <1>1, <3>1 DEF Quiet, Locked
    <2> QED BY <2>1 DEF Aside, Quiet
  <1>2. KeepsFinished BY DEF KeepsFinished, Quiet
  <1>3. Fresh'
    <2>1. \A i \in Ids : i > Used' => i > Used BY DEF Draws, Ids
    <2> QED BY <2>1 DEF Fresh, Quiet, GenerationsInv, Store
  <1>4. NoLegacyStaging' /\ Unique' BY DEF NoLegacyStaging, Unique, Quiet, GenerationsInv, Store
  <1>5. Whole' BY DEF Whole, WholeGen, HasRow, Quiet, GenerationsInv, Store
  <1> QED BY <1>1, <1>2, <1>3, <1>4, <1>5 DEF StepBy, Quiet, Store

(* At these steps a process relies on nothing.                             *)
Resting == {"idle", "open", "migrate", "reload", "reload_id"}

LEMMA RestingOK ==
  ASSUME NEW p \in Procs, pc'[p] \in Resting
  PROVE  ProcOK(p)' /\ Takes(p)
  <1>1. /\ pc'[p] \notin Building /\ pc'[p] \notin Before /\ pc'[p] \notin Held
        /\ pc'[p] \notin {"discard", "discard_rows", "embed", "abort", "reload_rows", "serving"}
    BY DEF Resting, Building, Before, Held
  <1>2. Locked(p)' /\ Drawn(p)' /\ Blank(p)' /\ Planned(p)' /\ Discards(p)' /\ Embeds(p)' /\ Loads(p)'
    BY <1>1 DEF Locked, Drawn, Blank, Planned, Discards, Embeds, Loads
  <1> QED BY <1>1, <1>2 DEF ProcOK, Takes

LEMMA SameDraws ==
  ASSUME Shape, Bounded, left'["builds"] = left["builds"]
  PROVE  Draws /\ Bounded' /\ Used' = Used
  BY UsedType, GenerationsAssumption DEF Draws, Bounded, Used

(* The process has just drawn an id.                                       *)
LEMMA NewBuildOK ==
  ASSUME GenerationsInv, NEW p \in Procs, NewBuild(p),
         \A i \in Ids : i > Used => gens'[i] = gens[i] /\ rows'[i] = rows[i]
  PROVE  ProcOK(p)' /\ Takes(p) /\ Draws /\ Bounded'
  <1>0. Shape /\ Bounded /\ Fresh BY DEF GenerationsInv, Store, TypeOK, Shape
  <1>1. /\ Used' = Used + 1 /\ Used \in 0..MaxBuilds /\ Used' \in 1..MaxBuilds /\ Bounded'
        /\ pc'[p] = "lock" /\ build'[p].id = Used' /\ build'[p].excluded = {}
    BY <1>0, NewBuildFacts
  <1>2. MaxBuilds \in Nat BY GenerationsAssumption
  <1>3. Draws BY <1>1, <1>2 DEF Draws
  <1>4. Used' \in 1..Used' /\ Used' > Used /\ Used' \in Ids BY <1>1, <1>2 DEF Ids
  <1>5. gens'[Used'] = NoGen /\ rows'[Used'] = NoRows BY <1>0, <1>4 DEF Fresh
  <1>6. Takes(p) BY <1>1, <1>4 DEF Takes
  <1>7. Locked(p)' /\ Drawn(p)' /\ Blank(p)' /\ Planned(p)' /\ Discards(p)' /\ Embeds(p)' /\ Loads(p)'
    BY <1>1, <1>4, <1>5 DEF Locked, Drawn, Blank, Planned, Discards, Embeds, Loads, Held
  <1> QED BY <1>1, <1>3, <1>6, <1>7 DEF ProcOK

LEMMA InvParts ==
  ASSUME GenerationsInv
  PROVE  Shape /\ Bounded /\ Fresh /\ NoLegacyStaging /\ Unique /\ Whole /\ \A q \in Procs : ProcOK(q)
  BY DEF GenerationsInv, Store, TypeOK, Shape

(* A quiet step of p, which keeps its id or draws one.                     *)
LEMMA QuietInv ==
  ASSUME GenerationsInv, Shape', NEW p \in Procs, Quiet(p), Takes(p), Draws, Bounded', ProcOK(p)'
  PROVE  Preserved
  BY QuietStep, Combine

LEMMA RestInv ==
  ASSUME GenerationsInv, Shape', NEW p \in Procs, Quiet(p), left'["builds"] = left["builds"], pc'[p] \in Resting
  PROVE  Preserved
  BY InvParts, RestingOK, SameDraws, QuietInv

(* The build of p goes on under the lock.                                  *)
LEMMA OnOK ==
  ASSUME NEW p \in Procs, ProcOK(p), pc[p] \in Building, pc'[p] \in Held, build'[p].id = build[p].id,
         lock' = p, Used' = Used
  PROVE  Locked(p)' /\ Drawn(p)' /\ Takes(p)
  BY DEF ProcOK, Locked, Drawn, Takes, Held

LEMMA ReleaseOK ==
  ASSUME NEW p \in Procs, ProcOK(p), pc[p] \in Held, pc'[p] = "release", build'[p].id = build[p].id,
         lock' = lock, Used' = Used
  PROVE  ProcOK(p)' /\ Takes(p)
  <1>1. pc'[p] \in Held /\ pc'[p] \notin Before /\ pc[p] \in Building BY DEF Held, Building, Before
  <1>2. lock' = p BY DEF ProcOK, Locked
  <1>3. Locked(p)' /\ Drawn(p)' /\ Takes(p) BY <1>1, <1>2, OnOK
  <1>4. Blank(p)' /\ Planned(p)' /\ Discards(p)' /\ Embeds(p)' /\ Loads(p)'
    BY <1>1 DEF Blank, Planned, Discards, Embeds, Loads
  <1> QED BY <1>3, <1>4 DEF ProcOK

LEMMA ReleaseInv ==
  ASSUME GenerationsInv, Shape', NEW p \in Procs, Quiet(p), left'["builds"] = left["builds"],
         pc[p] \in Held, pc'[p] = "release", build'[p].id = build[p].id, lock' = lock
  PROVE  Preserved
  BY InvParts, ReleaseOK, SameDraws, QuietInv

(* Updates of the functions of processes.                                  *)
LEMMA GotoKeeps ==
  ASSUME Shape, NEW p \in Procs, NEW s, Goto(p, s)
  PROVE  pc'[p] = s /\ \A q \in Procs : q # p => pc'[q] = pc[q]
  BY DEF Shape, Goto

LEMMA ExitKeeps ==
  ASSUME Shape, NEW p \in Procs, Exit(p)
  PROVE  pc'[p] = "idle" /\ \A q \in Procs : q # p => Keeps(q)
  BY DEF Shape, Exit, Goto, Keeps

LEMMA OpenedInv ==
  ASSUME GenerationsInv, Shape', NEW p \in Procs, Quiet(p), Opened(p)
  PROVE  Preserved
  <1>0. Shape BY InvParts
  <1>1. CASE NewBuild(p) BY <1>1, NewBuildOK, QuietInv DEF Quiet
  <1>2. CASE Goto(p, "reload") /\ UNCHANGED <<build, left>>
    <2>1. pc'[p] \in Resting BY <1>0, <1>2, GotoKeeps DEF Resting
    <2> QED BY <1>2, <2>1, RestInv
  <1> QED BY <1>1, <1>2 DEF Opened

(* What NewBuild and a change of nothing leave to the others.              *)
LEMMA OpenedKeeps ==
  ASSUME GenerationsInv, NEW p \in Procs, Opened(p), UNCHANGED loaded
  PROVE  \A q \in Procs : q # p => Keeps(q)
  <1>0. Shape /\ Bounded BY InvParts
  <1>1. CASE NewBuild(p) BY <1>0, <1>1, NewBuildFacts DEF Keeps
  <1>2. CASE Goto(p, "reload") /\ UNCHANGED <<build, left>> BY <1>0, <1>2, GotoKeeps DEF Keeps
  <1> QED BY <1>1, <1>2 DEF Opened

LEMMA RestSteps ==
  ASSUME GenerationsInv, Shape', NEW p \in Procs,
         Die(p) \/ StartProcess(p) \/ OpenSQLiteGenerationStore(p) \/ Release(p) \/ loadSemanticState(p) \/ StopServing(p)
  PROVE  Preserved
  <1>0. Shape BY InvParts
  <1> USE <1>0 DEF sidecar
  <1>1. CASE Die(p)
    <2>1. pc'[p] \in Resting /\ \A q \in Procs : q # p => Keeps(q) BY <1>1, GotoKeeps DEF Die, Keeps, Resting, Shape
    <2>2. left'["builds"] = left["builds"] BY <1>1, SpendShape DEF Die
    <2>3. Quiet(p) BY <1>1, <2>1 DEF Die, Quiet
    <2> QED BY <2>1, <2>2, <2>3, RestInv
  <1>2. CASE StartProcess(p)
    <2>1. pc'[p] \in Resting /\ \A q \in Procs : q # p => Keeps(q)
      BY <1>2, GotoKeeps DEF StartProcess, Keeps, Resting, Shape
    <2>2. left'["builds"] = left["builds"] /\ Quiet(p) BY <1>2, <2>1 DEF StartProcess, Quiet
    <2> QED BY <2>1, <2>2, RestInv
  <1>3. CASE OpenSQLiteGenerationStore(p)
    <2>1. CASE Opened(p)
      <3>1. Quiet(p) BY <1>3, <2>1, OpenedKeeps DEF OpenSQLiteGenerationStore, Quiet
      <3> QED BY <2>1, <3>1, OpenedInv
    <2>2. CASE Goto(p, "migrate") /\ UNCHANGED <<build, left>>
      <3>1. pc'[p] \in Resting /\ \A q \in Procs : q # p => Keeps(q)
        BY <1>3, <2>2, GotoKeeps DEF OpenSQLiteGenerationStore, Keeps, Resting
      <3>2. left'["builds"] = left["builds"] /\ Quiet(p) BY <1>3, <2>2, <3>1 DEF OpenSQLiteGenerationStore, Quiet
      <3> QED BY <3>1, <3>2, RestInv
    <2> QED BY <1>3, <2>1, <2>2 DEF OpenSQLiteGenerationStore
  <1>4. CASE Release(p)
    <2>0. pc[p] = "release" /\ lock = p BY <1>4, InvParts DEF Release, ProcOK, Locked, Held, Building
    <2>1. CASE NewBuild(p) /\ UNCHANGED live
      <3>1. Opened(p) BY <2>1 DEF Opened
      <3>2. Quiet(p) BY <1>4, <2>0, <3>1, OpenedKeeps DEF Release, Quiet
      <3> QED BY <3>1, <3>2, OpenedInv
    <2>2. CASE /\ Goto(p, "idle") /\ live' = [live EXCEPT ![p] = {}] /\ build' = [build EXCEPT ![p] = NoBuild]
               /\ UNCHANGED left
      <3>1. pc'[p] \in Resting /\ \A q \in Procs : q # p => Keeps(q)
        BY <1>4, <2>2, GotoKeeps DEF Release, Keeps, Resting, Shape
      <3>2. left'["builds"] = left["builds"] /\ Quiet(p) BY <1>4, <2>0, <2>2, <3>1 DEF Release, Quiet
      <3> QED BY <3>1, <3>2, RestInv
    <2> QED BY <1>4, <2>1, <2>2 DEF Release
  <1>5. CASE loadSemanticState(p)
    <2>1. pc'[p] \in Resting /\ \A q \in Procs : q # p => Keeps(q)
      <3>1. CASE Exit(p) BY <3>1, ExitKeeps DEF Resting
      <3>2. CASE Goto(p, "reload_id") /\ UNCHANGED <<build, loaded>> BY <3>2, GotoKeeps DEF Resting, Keeps
      <3> QED BY <1>5, <3>1, <3>2 DEF loadSemanticState
    <2>2. left'["builds"] = left["builds"] /\ Quiet(p) BY <1>5, <2>1 DEF loadSemanticState, Quiet
    <2> QED BY <2>1, <2>2, RestInv
  <1>6. CASE StopServing(p)
    <2>1. pc'[p] \in Resting /\ \A q \in Procs : q # p => Keeps(q) BY <1>6, ExitKeeps DEF Resting, StopServing
    <2>2. left'["builds"] = left["builds"] /\ Quiet(p) BY <1>6, <2>1 DEF StopServing, Quiet
    <2> QED BY <2>1, <2>2, RestInv
  <1> QED BY <1>1, <1>2, <1>3, <1>4, <1>5, <1>6

(* A process that reloads.                                                 *)
LEMMA ReloadingOK ==
  ASSUME NEW p \in Procs, pc'[p] \in {"reload_rows", "serving"}, Loads(p)'
  PROVE  ProcOK(p)' /\ Takes(p)
  <1>1. /\ pc'[p] \notin Building /\ pc'[p] \notin Before /\ pc'[p] \notin Held
        /\ pc'[p] \notin {"discard", "discard_rows", "embed", "abort"}
    BY DEF Building, Before, Held
  <1>2. Locked(p)' /\ Drawn(p)' /\ Blank(p)' /\ Planned(p)' /\ Discards(p)' /\ Embeds(p)'
    BY <1>1 DEF Locked, Drawn, Blank, Planned, Discards, Embeds
  <1> QED BY <1>1, <1>2 DEF ProcOK, Takes

LEMMA ReloadSteps ==
  ASSUME GenerationsInv, Shape', NEW p \in Procs, reloadActive(p) \/ reloadRows(p)
  PROVE  Preserved
  <1>0. Shape /\ Bounded /\ ProcOK(p) BY InvParts
  <1> USE <1>0 DEF sidecar
  <1>d. left'["builds"] = left["builds"] BY DEF reloadActive, reloadRows
  <1>e. Draws /\ Bounded' BY <1>d, SameDraws
  <1>1. CASE reloadActive(p)
    <2>1. CASE Exit(p)
      <3>1. pc'[p] \in Resting /\ \A q \in Procs : q # p => Keeps(q) BY <2>1, ExitKeeps DEF Resting
      <3>2. Quiet(p) BY <1>1, <3>1 DEF reloadActive, Quiet
      <3> QED BY <1>d, <3>1, <3>2, RestInv
    <2>2. CASE /\ ActiveState(build[p].graph, FALSE) \in {"ready", "stale"}
               /\ loaded' = [loaded EXCEPT ![p].id = CHOOSE i \in WithState("active") : TRUE]
               /\ Goto(p, "reload_rows") /\ UNCHANGED build
      <3>1. WithState("active") # {} BY <2>2 DEF ActiveState
      <3>2. PICK a \in WithState("active") : a = CHOOSE i \in WithState("active") : TRUE BY <3>1, Zenon
      <3>3. pc'[p] = "reload_rows" /\ \A q \in Procs : q # p => pc'[q] = pc[q] BY <2>2, GotoKeeps
      <3>4. \A q \in Procs : q # p => Keeps(q) BY <2>2, <3>3 DEF Keeps, Shape
      <3>5. Quiet(p) BY <1>1, <3>4 DEF reloadActive, Quiet
      <3>6. loaded'[p].id = a BY <2>2, <3>2 DEF Shape, LoadStates
      <3>7. a \in Ids /\ gens[a].state = "active" BY DEF WithState
      <3>8. Loads(p)' BY <3>3, <3>5, <3>6, <3>7 DEF Loads, Finished, Quiet
      <3>9. ProcOK(p)' /\ Takes(p) BY <3>3, <3>8, ReloadingOK
      <3> QED BY <1>e, <3>5, <3>9, QuietInv
    <2> QED BY <1>1, <2>1, <2>2 DEF reloadActive
  <1>2. CASE reloadRows(p)
    <2>1. pc'[p] = "serving" /\ \A q \in Procs : q # p => pc'[q] = pc[q] BY <1>2, GotoKeeps DEF reloadRows
    <2>2. \A q \in Procs : q # p => Keeps(q) BY <1>2, <2>1 DEF Keeps, Shape, reloadRows
    <2>3. Quiet(p) BY <1>2, <2>2 DEF reloadRows, Quiet
    <2>4. loaded'[p] = [loaded[p] EXCEPT !.rows = rows[loaded[p].id]] BY <1>2 DEF reloadRows, Shape
    <2>5. loaded'[p].id = loaded[p].id /\ loaded'[p].rows = rows[loaded[p].id] BY <2>4 DEF Shape, LoadStates
    <2>6. loaded[p].id \in Ids /\ gens[loaded[p].id].state \in Finished BY <1>2 DEF reloadRows, ProcOK, Loads
    <2>7. Loads(p)' BY <2>3, <2>5, <2>6 DEF Loads, Quiet
    <2>8. ProcOK(p)' /\ Takes(p) BY <2>1, <2>7, ReloadingOK
    <2> QED BY <1>e, <2>3, <2>8, QuietInv
  <1> QED BY <1>1, <1>2

(* The steps of a build before it writes.                                  *)
LEMMA PrepareSteps ==
  ASSUME GenerationsInv, Shape', NEW p \in Procs,
         acquireIngestLock(p) \/ BuildSemanticGeneration(p) \/ BeginProbe(p) \/ EmbedFails(p)
  PROVE  Preserved
  <1>0. Shape /\ Bounded /\ ProcOK(p) /\ NoLegacyStaging BY InvParts
  <1> USE <1>0 DEF sidecar
  <1>d. left'["builds"] = left["builds"]
    BY SpendShape DEF acquireIngestLock, BuildSemanticGeneration, BeginProbe, EmbedFails
  <1>e. Draws /\ Bounded' /\ Used' = Used BY <1>d, SameDraws
  <1>1. CASE acquireIngestLock(p)
    <2>1. /\ pc[p] = "lock" /\ pc'[p] = "snapshot" /\ lock' = p /\ build' = build /\ loaded' = loaded
          /\ \A q \in Procs : q # p => pc'[q] = pc[q]
      BY <1>1, GotoKeeps DEF acquireIngestLock
    <2>2. Quiet(p) BY <1>1, <2>1 DEF acquireIngestLock, Quiet, Keeps
    <2>3. pc[p] \in Building /\ pc'[p] \in Held /\ pc[p] \in Before BY <2>1 DEF Building, Held, Before
    <2>4. Locked(p)' /\ Drawn(p)' /\ Takes(p) BY <1>e, <2>1, <2>3, OnOK
    <2>5. Blank(p)' /\ Planned(p)' /\ Discards(p)' /\ Embeds(p)' /\ Loads(p)'
      BY <2>1, <2>2, <2>3 DEF ProcOK, Blank, Planned, Discards, Embeds, Loads, Quiet
    <2> QED BY <1>e, <2>2, <2>4, <2>5, QuietInv DEF ProcOK
  <1>2. CASE BuildSemanticGeneration(p)
    <2>1. /\ pc[p] = "snapshot" /\ pc'[p] = "probe" /\ lock' = lock /\ loaded' = loaded
          /\ \A q \in Procs : q # p => pc'[q] = pc[q] /\ build'[q] = build[q]
      BY <1>2, GotoKeeps DEF BuildSemanticGeneration, Shape
    <2>2. Quiet(p) BY <1>2, <2>1 DEF BuildSemanticGeneration, Quiet, Keeps
    <2>3. pc[p] \in Building /\ pc[p] \in Held /\ pc'[p] \in Held /\ pc[p] \in Before
      BY <2>1 DEF Building, Held, Before
    <2>4. build'[p] = [build[p] EXCEPT !.graph = graph, !.todo = GraphNodes[graph]]
      BY <1>2 DEF BuildSemanticGeneration, Shape
    <2>5. /\ build'[p].id = build[p].id /\ build'[p].excluded = build[p].excluded
          /\ build'[p].graph = graph /\ build'[p].todo = GraphNodes[graph]
      BY <2>4 DEF Shape, BuildStates
    <2>6. lock' = p BY <2>1, <2>3 DEF ProcOK, Locked
    <2>7. Locked(p)' /\ Drawn(p)' /\ Takes(p) BY <1>e, <2>3, <2>5, <2>6, OnOK
    <2>8. Blank(p)' /\ Planned(p)' /\ Discards(p)' /\ Embeds(p)' /\ Loads(p)'
      BY <2>1, <2>2, <2>3, <2>5 DEF ProcOK, Blank, Planned, Discards, Embeds, Loads, Quiet
    <2> QED BY <1>e, <2>2, <2>7, <2>8, QuietInv DEF ProcOK
  <1>3. CASE BeginProbe(p)
    <2>0. pc[p] = "probe" /\ lock' = lock /\ loaded' = loaded BY <1>3 DEF BeginProbe
    <2>1. pc[p] \in Building /\ pc[p] \in Held /\ pc[p] \in Before /\ pc[p] \in Before \ {"lock", "snapshot"}
      BY <2>0 DEF Building, Held, Before
    <2>2. lock' = p BY <2>0, <2>1 DEF ProcOK, Locked
    <2>3. CASE Goto(p, "insert") /\ UNCHANGED build
      <3>1. pc'[p] = "insert" /\ Quiet(p) BY <1>3, <2>3, GotoKeeps DEF BeginProbe, Quiet, Keeps
      <3>2. pc'[p] \in Held BY <3>1 DEF Building, Held, Before
      <3>3. Locked(p)' /\ Drawn(p)' /\ Takes(p) BY <1>e, <2>1, <2>2, <2>3, <3>2, OnOK
      <3>4. Blank(p)' /\ Planned(p)' /\ Discards(p)' /\ Embeds(p)' /\ Loads(p)'
        BY <2>1, <2>3, <3>1 DEF ProcOK, Blank, Planned, Discards, Embeds, Loads, Quiet
      <3> QED BY <1>e, <3>1, <3>3, <3>4, QuietInv DEF ProcOK
    <2>4. CASE Goto(p, "release") /\ UNCHANGED build
      <3>1. pc'[p] = "release" /\ Quiet(p) BY <1>3, <2>4, GotoKeeps DEF BeginProbe, Quiet, Keeps
      <3> QED BY <1>d, <2>0, <2>1, <2>4, <3>1, ReleaseInv
    <2>5. ASSUME NEW i \in WithState("staging"), Goto(p, "discard"), build' = [build EXCEPT ![p].stale = i]
          PROVE  Preserved
      <3>1. pc'[p] = "discard" /\ \A q \in Procs : q # p => pc'[q] = pc[q] /\ build'[q] = build[q]
        BY <2>5, GotoKeeps DEF Shape
      <3>2. Quiet(p) BY <1>3, <3>1 DEF BeginProbe, Quiet, Keeps
      <3>3. pc'[p] \in Held BY <3>1 DEF Building, Held, Before
      <3>4. build'[p] = [build[p] EXCEPT !.stale = i] BY <2>5 DEF Shape
      <3>5. /\ build'[p].id = build[p].id /\ build'[p].excluded = build[p].excluded
            /\ build'[p].graph = build[p].graph /\ build'[p].todo = build[p].todo /\ build'[p].stale = i
        BY <3>4 DEF Shape, BuildStates
      <3>6. i \in Ids /\ gens[i].state = "staging" BY <2>5 DEF WithState
      <3>7. i \in 1..MaxBuilds BY <3>6, GenerationsAssumption DEF NoLegacyStaging, Ids
      <3>8. Locked(p)' /\ Drawn(p)' /\ Takes(p) BY <1>e, <2>1, <2>2, <3>3, <3>5, OnOK
      <3>9. Blank(p)' /\ Planned(p)' /\ Discards(p)' /\ Embeds(p)' /\ Loads(p)'
        BY <2>1, <3>1, <3>2, <3>5, <3>6, <3>7 DEF ProcOK, Blank, Planned, Discards, Embeds, Loads, Quiet
      <3> QED BY <1>e, <3>2, <3>8, <3>9, QuietInv DEF ProcOK
    <2> QED BY <1>3, <2>3, <2>4, <2>5 DEF BeginProbe
  <1>4. CASE EmbedFails(p)
    <2>1. pc[p] = "embed" /\ pc'[p] = "abort" /\ Quiet(p) /\ lock' = lock /\ build' = build
      BY <1>4, GotoKeeps DEF EmbedFails, Quiet, Keeps
    <2>2. pc[p] \in Building /\ pc[p] \in Held /\ pc'[p] \in Held BY <2>1 DEF Building, Held, Before
    <2>3. lock' = p BY <2>1, <2>2 DEF ProcOK, Locked
    <2>4. Locked(p)' /\ Drawn(p)' /\ Takes(p) BY <1>e, <2>1, <2>2, <2>3, OnOK
    <2>5. Blank(p)' /\ Planned(p)' /\ Discards(p)' /\ Embeds(p)' /\ Loads(p)'
      BY <2>1 DEF ProcOK, Blank, Planned, Discards, Embeds, Loads, Quiet, Before
    <2> QED BY <1>e, <2>1, <2>4, <2>5, QuietInv DEF ProcOK
  <1> QED BY <1>1, <1>2, <1>3, <1>4

(***************************************************************************)
(* Steps that write to the sidecar.                                        *)
(***************************************************************************)

(* The others wait for the lock: each of them relies only on its own id.   *)
LEMMA HolderAside ==
  ASSUME GenerationsInv, NEW p \in Procs, pc[p] \in Held,
         \A i \in Ids : i # build[p].id /\ gens[i] = NoGen /\ rows[i] = NoRows => gens'[i] = NoGen /\ rows'[i] = NoRows
  PROVE  \A q \in Procs : q # p => Aside(q)
  <1> SUFFICES ASSUME NEW q \in Procs, q # p PROVE Aside(q) OBVIOUS
  <1>0. ProcOK(p) /\ ProcOK(q) /\ Distinct /\ Shape /\ Bounded BY InvParts DEF GenerationsInv
  <1>1. lock = p BY <1>0 DEF ProcOK, Locked
  <1>2. pc[q] \notin Held BY <1>0, <1>1 DEF ProcOK, Locked
  <1>3. pc[q] \notin {"discard", "discard_rows"} BY <1>2 DEF Held, Building, Before
  <1>4. ASSUME pc[q] \in Building
        PROVE  gens'[build[q].id] = gens[build[q].id] /\ rows'[build[q].id] = rows[build[q].id]
    <2>1. pc[q] \in Before BY <1>2, <1>4 DEF Held, Building, Before
    <2>2. gens[build[q].id] = NoGen /\ rows[build[q].id] = NoRows BY <1>0, <2>1 DEF ProcOK, Blank
    <2>3. pc[p] \in Building BY DEF Held
    <2>4. build[q].id # build[p].id BY <1>0, <1>4, <2>3 DEF Distinct
    <2>5. build[q].id \in Ids
      <3>1. build[q].id \in 1..Used /\ Used \in 0..MaxBuilds BY <1>0, <1>4, UsedType DEF ProcOK, Drawn
      <3> QED BY <3>1, GenerationsAssumption DEF Ids
    <2> QED BY <2>2, <2>4, <2>5
  <1> QED BY <1>2, <1>3, <1>4 DEF Aside

(* The id of a build that p has under way.                                 *)
LEMMA OwnId ==
  ASSUME GenerationsInv, NEW p \in Procs, pc[p] \in Building
  PROVE  /\ build[p].id \in Ids /\ build[p].id \in 1..Used /\ build[p].id # 0 /\ ~(build[p].id > Used)
         /\ Used \in 0..MaxBuilds
  <1>1. build[p].id \in 1..Used /\ Used \in 0..MaxBuilds BY InvParts, UsedType DEF ProcOK, Drawn
  <1> QED BY <1>1, GenerationsAssumption DEF Ids

LEMMA DiscardSteps ==
  ASSUME GenerationsInv, Shape', NEW p \in Procs, BeginDiscard(p) \/ BeginDiscardRows(p)
  PROVE  Preserved
  <1>0. /\ Shape /\ Bounded /\ ProcOK(p) /\ Fresh /\ NoLegacyStaging /\ Unique /\ Whole BY InvParts
  <1>d. left'["builds"] = left["builds"] /\ lock' = lock /\ graph' = graph /\ build' = build /\ loaded' = loaded
    BY DEF BeginDiscard, BeginDiscardRows
  <1>e. Draws /\ Bounded' /\ Used' = Used BY <1>0, <1>d, SameDraws
  <1>f. pc[p] \in {"discard", "discard_rows"} BY DEF BeginDiscard, BeginDiscardRows
  <1>g. pc[p] \in Building /\ pc[p] \in Held /\ pc[p] \in Before /\ pc[p] \in Before \ {"lock", "snapshot"}
    BY <1>f DEF Building, Held, Before
  <1>h. lock' = p BY <1>0, <1>d, <1>g DEF ProcOK, Locked
  <1>i. /\ build[p].id \in Ids /\ gens[build[p].id] = NoGen /\ rows[build[p].id] = NoRows
        /\ build[p].stale \in 1..MaxBuilds /\ build[p].stale \in Ids /\ build[p].stale # 0
    BY <1>0, <1>f, <1>g, OwnId, Bounds DEF ProcOK, Blank, Discards
  <1>1. CASE BeginDiscard(p)
    <2>1. /\ pc[p] = "discard" /\ pc'[p] = "discard_rows" /\ \A q \in Procs : q # p => Keeps(q)
      BY <1>0, <1>1, <1>d, GotoKeeps DEF BeginDiscard, Keeps
    <2>2. gens[build[p].stale].state = "staging" BY <1>0, <2>1 DEF ProcOK, Discards
    <2>3. rows' = rows /\ gens' = [gens EXCEPT ![build[p].stale] = NoGen] BY <1>1, <2>2 DEF BeginDiscard
    <2>4. \A i \in Ids : gens'[i] = IF i = build[p].stale THEN NoGen ELSE gens[i] BY <1>0, <2>3 DEF Shape
    <2>5. \A q \in Procs : q # p => Aside(q)
      <3>1. \A i \in Ids : i # build[p].id /\ gens[i] = NoGen /\ rows[i] = NoRows => gens'[i] = NoGen /\ rows'[i] = NoRows
        BY <2>3, <2>4
      <3> QED BY <1>g, <3>1, HolderAside
    <2>6. KeepsFinished BY <2>2, <2>3, <2>4 DEF KeepsFinished, Finished
    <2>7. Store'
      <3>1. Fresh' BY <1>0, <1>e, <2>3, <2>4 DEF Fresh
      <3>2. NoGen.state = "none" BY DEF NoGen
      <3>3. NoLegacyStaging' /\ Unique' BY <1>0, <2>4, <3>2, Bounds DEF NoLegacyStaging, Unique
      <3>4. Whole' BY <1>0, <1>d, <2>3, <2>4, <3>2 DEF Whole, WholeGen, Finished
      <3> QED BY <1>e, <3>1, <3>3, <3>4 DEF Store
    <2>8. pc'[p] \in Held BY <2>1 DEF Building, Held, Before
    <2>9. Locked(p)' /\ Drawn(p)' /\ Takes(p) BY <1>0, <1>d, <1>e, <1>g, <1>h, <2>8, OnOK
    <2>10. Blank(p)' /\ Planned(p)' /\ Discards(p)' /\ Embeds(p)' /\ Loads(p)'
      BY <1>0, <1>d, <1>g, <1>i, <2>1, <2>3, <2>4 DEF ProcOK, Blank, Planned, Discards, Embeds, Loads
    <2>11. StepBy(p) BY <1>e, <2>1, <2>5, <2>6, <2>9 DEF StepBy
    <2> QED BY <2>7, <2>9, <2>10, <2>11, Combine DEF ProcOK
  <1>2. CASE BeginDiscardRows(p)
    <2>1. /\ pc[p] = "discard_rows" /\ pc'[p] = "insert" /\ \A q \in Procs : q # p => Keeps(q)
      BY <1>0, <1>2, <1>d, GotoKeeps DEF BeginDiscardRows, Keeps
    <2>2. gens[build[p].stale] = NoGen BY <1>0, <2>1 DEF ProcOK, Discards
    <2>3. gens' = gens /\ rows' = [rows EXCEPT ![build[p].stale] = NoRows] BY <1>2 DEF BeginDiscardRows
    <2>4. \A i \in Ids : rows'[i] = IF i = build[p].stale THEN NoRows ELSE rows[i] BY <1>0, <2>3 DEF Shape
    <2>5. \A q \in Procs : q # p => Aside(q)
      <3>1. \A i \in Ids : i # build[p].id /\ gens[i] = NoGen /\ rows[i] = NoRows => gens'[i] = NoGen /\ rows'[i] = NoRows
        BY <2>3, <2>4
      <3> QED BY <1>g, <3>1, HolderAside
    <2>s. gens[build[p].stale].state \notin Finished BY <2>2 DEF NoGen, Finished
    <2>6. KeepsFinished BY <2>s, <2>3, <2>4 DEF KeepsFinished
    <2>7. Store'
      <3>1. Fresh' BY <1>0, <1>e, <2>3, <2>4 DEF Fresh
      <3>3. NoLegacyStaging' /\ Unique' BY <1>0, <2>3 DEF NoLegacyStaging, Unique
      <3>4. Whole' BY <1>0, <1>d, <2>3, <2>4, <2>s DEF Whole, WholeGen
      <3> QED BY <1>e, <3>1, <3>3, <3>4 DEF Store
    <2>8. pc'[p] \in Held BY <2>1 DEF Building, Held, Before
    <2>9. Locked(p)' /\ Drawn(p)' /\ Takes(p) BY <1>0, <1>d, <1>e, <1>g, <1>h, <2>8, OnOK
    <2>10. Blank(p)' /\ Planned(p)' /\ Discards(p)' /\ Embeds(p)' /\ Loads(p)'
      BY <1>0, <1>d, <1>g, <1>i, <2>1, <2>3, <2>4 DEF ProcOK, Blank, Planned, Discards, Embeds, Loads
    <2>11. StepBy(p) BY <1>e, <2>1, <2>5, <2>6, <2>9 DEF StepBy
    <2> QED BY <2>7, <2>9, <2>10, <2>11, Combine DEF ProcOK
  <1> QED BY <1>1, <1>2

LEMMA InsertStep ==
  ASSUME GenerationsInv, Shape', NEW p \in Procs, BeginInsert(p)
  PROVE  Preserved
  <1>0. /\ Shape /\ Bounded /\ ProcOK(p) /\ Fresh /\ NoLegacyStaging /\ Unique /\ Whole BY InvParts
  <1>d. left'["builds"] = left["builds"] /\ lock' = lock /\ graph' = graph /\ build' = build /\ loaded' = loaded
        /\ rows' = rows /\ pc[p] = "insert"
    BY DEF BeginInsert
  <1>e. Draws /\ Bounded' /\ Used' = Used BY <1>0, <1>d, SameDraws
  <1>g. pc[p] \in Building /\ pc[p] \in Held /\ pc[p] \in Before /\ pc[p] \in Before \ {"lock", "snapshot"}
    BY <1>d DEF Building, Held, Before
  <1>h. lock' = p BY <1>0, <1>d, <1>g DEF ProcOK, Locked
  <1>1. CASE Goto(p, "release") /\ UNCHANGED <<gens, live>>
    <2>1. pc'[p] = "release" /\ Quiet(p) BY <1>0, <1>1, <1>d, GotoKeeps DEF Quiet, Keeps
    <2> QED BY <1>d, <1>g, <2>1, ReleaseInv
  <1>2. CASE /\ WithState("staging") = {}
             /\ gens' = [gens EXCEPT ![build[p].id] = [NoGen EXCEPT !.state = "staging", !.graph = build[p].graph]]
             /\ Goto(p, "embed")
    <2> DEFINE id == build[p].id
               new == [NoGen EXCEPT !.state = "staging", !.graph = build[p].graph]
    <2>1. pc'[p] = "embed" /\ \A q \in Procs : q # p => Keeps(q) BY <1>0, <1>2, <1>d, GotoKeeps DEF Keeps
    <2>2. /\ id \in Ids /\ gens[id] = NoGen /\ rows[id] = NoRows /\ id # 0 /\ ~(id > Used)
      BY <1>0, <1>g, OwnId DEF ProcOK, Blank
    <2>3. \A i \in Ids : gens'[i] = IF i = id THEN new ELSE gens[i] BY <1>0, <1>2 DEF Shape
    <2>4. new.state = "staging" /\ NoGen.state = "none" BY DEF NoGen
    <2>5. /\ build[p].excluded = {} /\ build[p].graph = graph /\ build[p].todo = GraphNodes[graph]
      BY <1>0, <1>g DEF ProcOK, Planned
    <2> HIDE DEF id, new
    <2>6. \A q \in Procs : q # p => Aside(q)
      <3>1. \A i \in Ids : i # build[p].id /\ gens[i] = NoGen /\ rows[i] = NoRows => gens'[i] = NoGen /\ rows'[i] = NoRows
        BY <1>d, <2>3 DEF id
      <3> QED BY <1>g, <3>1, HolderAside
    <2>7. KeepsFinished
      <3>1. gens[id].state \notin Finished BY <2>2, <2>4 DEF Finished
      <3> QED BY <1>d, <2>3, <3>1 DEF KeepsFinished
    <2>8. Store'
      <3>1. Fresh' BY <1>0, <1>d, <1>e, <2>2, <2>3 DEF Fresh
      <3>2. \A i \in Ids : gens[i].state # "staging" BY <1>2 DEF WithState
      <3>3. NoLegacyStaging' /\ Unique' BY <1>0, <2>2, <2>3, <2>4, <3>2, Bounds DEF NoLegacyStaging, Unique
      <3>4. Whole' BY <1>0, <1>d, <2>3, <2>4 DEF Whole, WholeGen, Finished
      <3> QED BY <1>e, <3>1, <3>3, <3>4 DEF Store
    <2>9. pc'[p] \in Held BY <2>1 DEF Building, Held, Before
    <2>10. Locked(p)' /\ Drawn(p)' /\ Takes(p) BY <1>0, <1>d, <1>e, <1>g, <1>h, <2>9, OnOK
    <2>11. Embeds(p)'
      <3>1. HasRow(NoRows) = {} BY DEF HasRow, NoRows
      <3>2. HasRow(rows'[build'[p].id]) = {} BY <1>d, <2>2, <3>1 DEF id
      <3>3. gens'[build'[p].id].state = "staging" BY <1>d, <2>2, <2>3, <2>4 DEF id
      <3> QED BY <1>d, <2>1, <2>5, <3>2, <3>3 DEF Embeds
    <2>12. Blank(p)' /\ Planned(p)' /\ Discards(p)' /\ Loads(p)'
      BY <2>1 DEF Blank, Planned, Discards, Loads, Before
    <2>13. StepBy(p) BY <1>e, <2>1, <2>6, <2>7, <2>10 DEF StepBy
    <2> QED BY <2>8, <2>10, <2>11, <2>12, <2>13, Combine DEF ProcOK
  <1> QED BY <1>1, <1>2 DEF BeginInsert

LEMMA EmbedStep ==
  ASSUME GenerationsInv, Shape', NEW p \in Procs, NEW n \in Nodes, EmbedNode(p, n)
  PROVE  Preserved
  <1>0. /\ Shape /\ Bounded /\ ProcOK(p) /\ Fresh /\ NoLegacyStaging /\ Unique /\ Whole BY InvParts
  <1>d. left'["builds"] = left["builds"] /\ lock' = lock /\ graph' = graph /\ gens' = gens /\ loaded' = loaded
        /\ pc[p] = "embed" /\ n \in build[p].todo
    BY DEF EmbedNode
  <1>e. Draws /\ Bounded' /\ Used' = Used BY <1>0, <1>d, SameDraws
  <1>g. pc[p] \in Building /\ pc[p] \in Held BY <1>d DEF Building, Held, Before
  <1>h. lock' = p BY <1>0, <1>d, <1>g DEF ProcOK, Locked
  <1>i. /\ gens[build[p].id].state = "staging" /\ build[p].graph = graph /\ build[p].todo \subseteq GraphNodes[graph]
        /\ build[p].todo \cap build[p].excluded = {}
        /\ HasRow(rows[build[p].id]) = GraphNodes[graph] \ (build[p].todo \cup build[p].excluded)
    BY <1>0, <1>d DEF ProcOK, Embeds
  <1>1. CASE text[n] = Unreadable
    <2>1. Goto(p, "abort") /\ UNCHANGED <<rows, build>> BY <1>1, GenerationsAssumption DEF EmbedNode
    <2>2. pc'[p] = "abort" /\ Quiet(p) BY <1>0, <1>d, <2>1, GotoKeeps DEF Quiet, Keeps
    <2>3. pc'[p] \in Held BY <2>2 DEF Building, Held, Before
    <2>4. Locked(p)' /\ Drawn(p)' /\ Takes(p) BY <1>0, <1>e, <1>g, <1>h, <2>1, <2>3, OnOK
    <2>5. Blank(p)' /\ Planned(p)' /\ Discards(p)' /\ Embeds(p)' /\ Loads(p)'
      BY <1>d, <1>i, <2>1, <2>2 DEF Blank, Planned, Discards, Embeds, Loads, Before
    <2> QED BY <1>e, <2>2, <2>4, <2>5, QuietInv DEF ProcOK
  <1>2. CASE text[n] # Unreadable /\ text[n] = NoSpan
    <2>1. /\ build' = [build EXCEPT ![p].todo = @ \ {n}, ![p].excluded = @ \cup {n}]
          /\ UNCHANGED <<rows, pc>>
      BY <1>2 DEF EmbedNode
    <2>2. build'[p] = [build[p] EXCEPT !.todo = build[p].todo \ {n}, !.excluded = build[p].excluded \cup {n}]
          /\ \A q \in Procs : q # p => build'[q] = build[q]
      BY <1>0, <2>1 DEF Shape, BuildStates
    <2>3. /\ build'[p].id = build[p].id /\ build'[p].graph = build[p].graph
          /\ build'[p].todo = build[p].todo \ {n} /\ build'[p].excluded = build[p].excluded \cup {n}
      BY <1>0, <2>2 DEF Shape, BuildStates
    <2>4. pc'[p] = "embed" /\ Quiet(p) BY <1>d, <2>1, <2>2 DEF Quiet, Keeps
    <2>5. Locked(p)' /\ Drawn(p)' /\ Takes(p) BY <1>0, <1>d, <1>e, <1>g, <1>h, <2>3, <2>4, OnOK
    <2>6. build'[p].todo \cup build'[p].excluded = build[p].todo \cup build[p].excluded BY <1>d, <2>3
    <2>7. Embeds(p)' BY <1>d, <1>i, <2>1, <2>3, <2>4, <2>6 DEF Embeds
    <2>8. Blank(p)' /\ Planned(p)' /\ Discards(p)' /\ Loads(p)'
      BY <2>4 DEF Blank, Planned, Discards, Loads, Before
    <2> QED BY <1>e, <2>4, <2>5, <2>7, <2>8, QuietInv DEF ProcOK
  <1>3. CASE text[n] # Unreadable /\ text[n] # NoSpan
    <2> DEFINE id == build[p].id
    <2>1. /\ build' = [build EXCEPT ![p].todo = @ \ {n}]
          /\ rows' = [rows EXCEPT ![id] = [rows[id] EXCEPT ![n] = text[n]]] /\ pc' = pc
      BY <1>3 DEF EmbedNode
    <2>2. build'[p] = [build[p] EXCEPT !.todo = build[p].todo \ {n}]
          /\ \A q \in Procs : q # p => build'[q] = build[q]
      BY <1>0, <2>1 DEF Shape, BuildStates
    <2>3. /\ build'[p].id = id /\ build'[p].graph = build[p].graph
          /\ build'[p].todo = build[p].todo \ {n} /\ build'[p].excluded = build[p].excluded
      BY <1>0, <2>2 DEF Shape, BuildStates
    <2>4. id \in Ids /\ ~(id > Used) BY <1>g, OwnId
    <2>5. \A i \in Ids : i # id => rows'[i] = rows[i] BY <1>0, <2>1 DEF Shape
    <2>6. rows'[id] = [rows[id] EXCEPT ![n] = text[n]] BY <1>0, <2>1, <2>4 DEF Shape
    <2>7. HasRow(rows'[id]) = HasRow(rows[id]) \cup {n}
      <3>1. text[n] # NoRow BY <1>0, <1>3, GenerationsAssumption DEF Shape
      <3>2. rows[id] \in RowSets BY <1>0, <2>4 DEF Shape
      <3> QED BY <2>6, <3>1, <3>2 DEF HasRow, RowSets
    <2>s. gens[id].state = "staging" BY <1>i
    <2> HIDE DEF id
    <2>8. \A q \in Procs : q # p => Keeps(q) BY <1>d, <2>1, <2>2 DEF Keeps
    <2>9. \A q \in Procs : q # p => Aside(q)
      <3>1. \A i \in Ids : i # build[p].id /\ gens[i] = NoGen /\ rows[i] = NoRows => gens'[i] = NoGen /\ rows'[i] = NoRows
        BY <1>d, <2>5 DEF id
      <3> QED BY <1>g, <3>1, HolderAside
    <2>10. KeepsFinished BY <1>d, <2>5, <2>s DEF KeepsFinished, Finished
    <2>11. Store'
      <3>1. Fresh' BY <1>0, <1>d, <1>e, <2>4, <2>5 DEF Fresh
      <3>2. NoLegacyStaging' /\ Unique' BY <1>0, <1>d DEF NoLegacyStaging, Unique
      <3>3. Whole' BY <1>0, <1>d, <2>5, <2>s DEF Whole, WholeGen, Finished
      <3> QED BY <1>e, <3>1, <3>2, <3>3 DEF Store
    <2>12. pc'[p] = "embed" BY <1>d, <2>1
    <2>13. Locked(p)' /\ Drawn(p)' /\ Takes(p) BY <1>0, <1>d, <1>e, <1>g, <1>h, <2>3, <2>12, OnOK DEF id
    <2>14. Embeds(p)'
      <3>1. HasRow(rows'[id]) = GraphNodes[graph] \ (build'[p].todo \cup build'[p].excluded)
        BY <1>d, <1>i, <2>3, <2>7 DEF id
      <3> QED BY <1>d, <1>i, <2>3, <2>12, <2>s, <3>1 DEF Embeds
    <2>15. Blank(p)' /\ Planned(p)' /\ Discards(p)' /\ Loads(p)'
      BY <2>12 DEF Blank, Planned, Discards, Loads, Before
    <2>16. StepBy(p) BY <1>e, <2>8, <2>9, <2>10, <2>13 DEF StepBy
    <2> QED BY <2>11, <2>13, <2>14, <2>15, <2>16, Combine DEF ProcOK
  <1> QED BY <1>1, <1>2, <1>3

LEMMA CommitStep ==
  ASSUME GenerationsInv, Shape', NEW p \in Procs, Commit(p)
  PROVE  Preserved
  <1>0. /\ Shape /\ Bounded /\ ProcOK(p) /\ Fresh /\ NoLegacyStaging /\ Unique /\ Whole BY InvParts
  <1>d. lock' = lock /\ graph' = graph /\ build' = build /\ loaded' = loaded
        /\ pc[p] = "embed" /\ build[p].todo = {}
    BY DEF Commit
  <1>c. pc'[p] = "release" /\ \A q \in Procs : q # p => Keeps(q) BY <1>0, <1>d, GotoKeeps DEF Commit, Keeps
  <1>b. left'["builds"] = left["builds"] BY <1>0 DEF Commit, Shape
  <1>e. Draws /\ Bounded' /\ Used' = Used BY <1>0, <1>b, SameDraws
  <1>g. pc[p] \in Building /\ pc[p] \in Held BY <1>d DEF Building, Held, Before
  <1>1. CASE UNCHANGED <<sidecar, live>>
    <2>1. Quiet(p) BY <1>1, <1>c, <1>d DEF Quiet, sidecar
    <2> QED BY <1>b, <1>c, <1>d, <1>g, <2>1, ReleaseInv
  <1>2. CASE gens[build[p].id].state = "staging" /\ Promote(p)
    <2> DEFINE id == build[p].id
    <2>1. rows' = rows /\ \A i \in Ids : gens'[i] = IF i = id THEN Promoted(p)
             ELSE IF gens[i].state = "active" THEN [gens[i] EXCEPT !.state = "old"] ELSE gens[i]
      BY <1>2 DEF Promote
    <2>2. /\ Promoted(p).state = "active" /\ Promoted(p).graph = graph /\ Promoted(p).excluded = build[p].excluded
      BY <1>0, <1>d DEF Promoted, ProcOK, Embeds
    <2>3. HasRow(rows[id]) = GraphNodes[graph] \ build[p].excluded BY <1>0, <1>d DEF ProcOK, Embeds
    <2>4. id \in Ids /\ ~(id > Used) /\ gens[id].state = "staging" BY <1>2, <1>g, OwnId
    <2> HIDE DEF id
    <2>5. ASSUME NEW i \in Ids, i # id
          PROVE  /\ gens'[i].state = IF gens[i].state = "active" THEN "old" ELSE gens[i].state
                 /\ gens'[i].graph = gens[i].graph /\ gens'[i].excluded = gens[i].excluded
                 /\ gens[i].state # "active" => gens'[i] = gens[i]
      BY <1>0, <2>1, <2>5 DEF Shape, GenStates
    <2>6. gens'[id] = Promoted(p) BY <2>1, <2>4
    <2>7. \A q \in Procs : q # p => Aside(q)
      <3>1. \A i \in Ids : i # build[p].id /\ gens[i] = NoGen /\ rows[i] = NoRows => gens'[i] = NoGen /\ rows'[i] = NoRows
        BY <2>1, <2>5 DEF id, NoGen
      <3> QED BY <1>g, <3>1, HolderAside
    <2>8. KeepsFinished BY <2>1, <2>4, <2>5 DEF KeepsFinished, Finished
    <2>9. Store'
      <3>1. Fresh' BY <1>0, <1>e, <2>1, <2>4, <2>5 DEF Fresh, NoGen
      <3>2. \A i \in Ids : gens'[i].state = "active" => i = id BY <2>5
      <3>3. \A i \in Ids : gens'[i].state = "staging" => gens[i].state = "staging" BY <2>2, <2>5, <2>6
      <3>4. NoLegacyStaging' /\ Unique' BY <1>0, <3>2, <3>3, Bounds DEF NoLegacyStaging, Unique
      <3>5. ASSUME NEW i \in Ids, gens'[i].state \in Finished PROVE WholeGen(i)'
        <4>1. CASE i = id
          <5>1. graph \in 0..graph BY <1>0 DEF Shape
          <5> QED BY <1>d, <2>1, <2>2, <2>3, <2>6, <4>1, <5>1 DEF WholeGen
        <4>2. CASE i # id
          <5>1. gens[i].state \in Finished BY <2>5, <3>5, <4>2 DEF Finished
          <5>2. WholeGen(i) BY <1>0, <5>1 DEF Whole
          <5> QED BY <1>d, <2>1, <2>5, <4>2, <5>2 DEF WholeGen
        <4> QED BY <4>1, <4>2
      <3> QED BY <1>e, <3>1, <3>4, <3>5 DEF Store, Whole
    <2>10. ProcOK(p)' /\ Takes(p) BY <1>0, <1>c, <1>d, <1>e, <1>g, ReleaseOK
    <2>11. StepBy(p) BY <1>c, <1>e, <2>7, <2>8, <2>10 DEF StepBy
    <2> QED BY <2>9, <2>10, <2>11, Combine
  <1> QED BY <1>1, <1>2 DEF Commit

LEMMA AbortStep ==
  ASSUME GenerationsInv, Shape', NEW p \in Procs, Abort(p)
  PROVE  Preserved
  <1>0. /\ Shape /\ Bounded /\ ProcOK(p) /\ Fresh /\ NoLegacyStaging /\ Unique /\ Whole BY InvParts
  <1>d. lock' = lock /\ graph' = graph /\ build' = build /\ loaded' = loaded /\ pc[p] = "abort" BY DEF Abort
  <1>c. pc'[p] = "release" /\ \A q \in Procs : q # p => Keeps(q) BY <1>0, <1>d, GotoKeeps DEF Abort, Keeps
  <1>b. left'["builds"] = left["builds"] BY <1>0, SpendShape DEF Abort
  <1>e. Draws /\ Bounded' /\ Used' = Used BY <1>0, <1>b, SameDraws
  <1>g. pc[p] \in Building /\ pc[p] \in Held BY <1>d DEF Building, Held, Before
  <1>1. CASE UNCHANGED <<sidecar, live>>
    <2>1. Quiet(p) BY <1>1, <1>c, <1>d DEF Quiet, sidecar
    <2> QED BY <1>b, <1>c, <1>d, <1>g, <2>1, ReleaseInv
  <1>2. CASE /\ rows' = [rows EXCEPT ![build[p].id] = NoRows]
             /\ gens' = [gens EXCEPT ![build[p].id] = IF @.state = "staging" THEN NoGen ELSE @]
    <2> DEFINE id == build[p].id
    <2>1. gens[id].state = "staging" /\ id \in Ids /\ ~(id > Used) BY <1>0, <1>d, <1>g, OwnId DEF ProcOK, Embeds
    <2>2. \A i \in Ids : /\ gens'[i] = IF i = id THEN NoGen ELSE gens[i]
                         /\ rows'[i] = IF i = id THEN NoRows ELSE rows[i]
      BY <1>0, <1>2, <2>1 DEF Shape
    <2>3. NoGen.state = "none" BY DEF NoGen
    <2> HIDE DEF id
    <2>4. \A q \in Procs : q # p => Aside(q)
      <3>1. \A i \in Ids : i # build[p].id /\ gens[i] = NoGen /\ rows[i] = NoRows => gens'[i] = NoGen /\ rows'[i] = NoRows
        BY <2>2 DEF id
      <3> QED BY <1>g, <3>1, HolderAside
    <2>5. KeepsFinished BY <2>1, <2>2 DEF KeepsFinished, Finished
    <2>6. Store'
      <3>1. Fresh' BY <1>0, <1>e, <2>2 DEF Fresh
      <3>2. NoLegacyStaging' /\ Unique' BY <1>0, <2>2, <2>3, Bounds DEF NoLegacyStaging, Unique
      <3>3. Whole' BY <1>0, <1>d, <2>2, <2>3 DEF Whole, WholeGen, Finished
      <3> QED BY <1>e, <3>1, <3>2, <3>3 DEF Store
    <2>7. ProcOK(p)' /\ Takes(p) BY <1>0, <1>c, <1>d, <1>e, <1>g, ReleaseOK
    <2>8. StepBy(p) BY <1>c, <1>e, <2>4, <2>5, <2>7 DEF StepBy
    <2> QED BY <2>6, <2>7, <2>8, Combine
  <1> QED BY <1>1, <1>2 DEF Abort

(* The migration of a v1 table, which takes no lock.                       *)
LEMMA MigrateStep ==
  ASSUME GenerationsInv, Shape', NEW p \in Procs, MigrateFromLegacyVectors(p)
  PROVE  Preserved
  <1>0. /\ Shape /\ Bounded /\ ProcOK(p) /\ Fresh /\ NoLegacyStaging /\ Unique /\ Whole BY InvParts
  <1>d. lock' = lock /\ graph' = graph /\ loaded' = loaded BY DEF MigrateFromLegacyVectors
  <1>1. CASE Goto(p, "idle") /\ build' = [build EXCEPT ![p] = NoBuild] /\ UNCHANGED <<sidecar, left>>
    <2>1. pc'[p] \in Resting /\ \A q \in Procs : q # p => Keeps(q)
      BY <1>0, <1>1, <1>d, GotoKeeps DEF Keeps, Resting, Shape
    <2>2. left'["builds"] = left["builds"] /\ Quiet(p) BY <1>1, <1>d, <2>1 DEF Quiet, sidecar
    <2> QED BY <2>1, <2>2, RestInv
  <1>2. CASE /\ gens[0] = NoGen /\ WithState("active") = {}
             /\ gens' = [gens EXCEPT ![0] = LegacyGen] /\ rows' = [rows EXCEPT ![0] = LegacyRows] /\ Opened(p)
    <2>1. \A i \in Ids : /\ gens'[i] = IF i = 0 THEN LegacyGen ELSE gens[i]
                         /\ rows'[i] = IF i = 0 THEN LegacyRows ELSE rows[i]
      BY <1>0, <1>2 DEF Shape
    <2>2. /\ LegacyGen.state = "active" /\ LegacyGen.graph = 0 /\ LegacyGen.excluded = {}
          /\ NoGen.state = "none"
      BY DEF LegacyGen, NoGen
    <2>3. \A i \in Ids : gens[i].state # "active" BY <1>2 DEF WithState
    <2>4. \A q \in Procs : q # p => Keeps(q) BY <1>2, <1>d, OpenedKeeps
    <2>5. ASSUME NEW q \in Procs, q # p PROVE Aside(q)
      <3>1. pc[q] \in Building => build[q].id \in Ids /\ build[q].id # 0 BY OwnId
      <3>2. pc[q] \in {"discard", "discard_rows"} => build[q].stale \in Ids /\ build[q].stale # 0
        <4>1. pc[q] \in {"discard", "discard_rows"} => build[q].stale \in 1..MaxBuilds
          BY InvParts DEF ProcOK, Discards
        <4> QED BY <4>1, Bounds
      <3> QED BY <1>d, <2>1, <3>1, <3>2 DEF Aside
    <2>6. KeepsFinished BY <1>2, <2>1, <2>2 DEF KeepsFinished, Finished
    <2>7. Used \in 0..MaxBuilds BY <1>0, UsedType
    <2>8. ProcOK(p)' /\ Takes(p) /\ Draws /\ Bounded'
      <3>1. CASE NewBuild(p)
        <4>1. \A i \in Ids : i > Used => gens'[i] = gens[i] /\ rows'[i] = rows[i] BY <2>1, <2>7
        <4> QED BY <3>1, <4>1, NewBuildOK
      <3>2. CASE Goto(p, "reload") /\ UNCHANGED <<build, left>>
        <4>1. pc'[p] \in Resting BY <1>0, <3>2, GotoKeeps DEF Resting
        <4>2. Draws /\ Bounded' BY <1>0, <3>2, SameDraws
        <4> QED BY <4>1, <4>2, RestingOK
      <3> QED BY <1>2, <3>1, <3>2 DEF Opened
    <2>9. Store'
      <3>1. \A i \in Ids : i > Used' => i > Used /\ i # 0 BY <2>8 DEF Draws, Ids
      <3>2. Fresh' BY <1>0, <2>1, <3>1 DEF Fresh
      <3>3. NoLegacyStaging' /\ Unique' BY <1>0, <2>1, <2>2, <2>3, Bounds DEF NoLegacyStaging, Unique
      <3>4. ASSUME NEW i \in Ids, gens'[i].state \in Finished PROVE WholeGen(i)'
        <4>1. CASE i = 0
          <5>1. 0 \in 0..graph BY <1>0 DEF Shape
          <5>2. HasRow(rows'[i]) = GraphNodes[0] BY <2>1, <4>1, LegacyFacts
          <5> QED BY <1>d, <2>1, <2>2, <4>1, <5>1, <5>2 DEF WholeGen
        <4>2. CASE i # 0 BY <1>0, <1>d, <2>1, <3>4, <4>2 DEF Whole, WholeGen
        <4> QED BY <4>1, <4>2
      <3> QED BY <2>8, <3>2, <3>3, <3>4 DEF Store, Whole
    <2>10. StepBy(p) BY <2>4, <2>5, <2>6, <2>8 DEF StepBy
    <2> QED BY <2>8, <2>9, <2>10, Combine
  <1> QED BY <1>1, <1>2 DEF MigrateFromLegacyVectors, LegacyGen, LegacyRows

(* The environment: a sync waits for the lock, so no build sees it.        *)
LEMMA EnvironmentStep ==
  ASSUME GenerationsInv, Shape', SyncRepo \/ (\E n \in Nodes : EditDocument(n)) \/ UNCHANGED vars
  PROVE  Preserved
  <1>0. /\ Shape /\ Bounded /\ Fresh /\ NoLegacyStaging /\ Unique /\ Whole /\ Distinct
        /\ \A q \in Procs : ProcOK(q)
    BY InvParts DEF GenerationsInv
  <1>1. /\ gens' = gens /\ rows' = rows /\ lock' = lock /\ pc' = pc /\ build' = build /\ loaded' = loaded
        /\ graph' = graph \/ (graph' = graph + 1 /\ lock = Nobody)
    BY DEF SyncRepo, EditDocument, vars, sidecar
  <1>2. left'["builds"] = left["builds"] BY <1>0, SpendShape DEF SyncRepo, EditDocument, vars
  <1>3. Draws /\ Bounded' /\ Used' = Used BY <1>0, <1>2, SameDraws
  <1>4. ASSUME NEW q \in Procs PROVE ProcOK(q)'
    <2>1. pc[q] \in Held => lock # Nobody BY <1>0, GenerationsAssumption DEF ProcOK, Locked
    <2>2. Keeps(q) /\ Aside(q) /\ KeepsFinished BY <1>1, <2>1 DEF Keeps, Aside, KeepsFinished
    <2> QED BY <1>0, <1>3, <2>2, ProcFrame
  <1>5. Distinct' BY <1>0, <1>1 DEF Distinct
  <1>6. Fresh' /\ NoLegacyStaging' /\ Unique' BY <1>0, <1>1, <1>3 DEF Fresh, NoLegacyStaging, Unique
  <1>7. Whole'
    <2>1. \A g \in 0..graph : g \in 0..graph' BY <1>0, <1>1 DEF Shape
    <2> QED BY <1>0, <1>1, <2>1 DEF Whole, WholeGen
  <1>8. Store' BY <1>3, <1>6, <1>7 DEF Store
  <1>9. TypeOK' BY <1>6, ShapeUniqueNext
  <1>10. KeepsFinished BY <1>1 DEF KeepsFinished
  <1> QED BY <1>4, <1>5, <1>8, <1>9, <1>10 DEF GenerationsInv, Preserved

LEMMA StepPreserves == GenerationsInv /\ [Next]_vars => Preserved
  <1> SUFFICES ASSUME GenerationsInv, [Next]_vars PROVE Preserved OBVIOUS
  <1>1. Shape' BY ShapeStep
  <1> QED BY <1>1, EnvironmentStep, RestSteps, ReloadSteps, PrepareSteps, DiscardSteps, InsertStep, EmbedStep,
             CommitStep, AbortStep, MigrateStep
      DEF Next, Open, Build, GenerateAndPersist, Begin, Reload

LEMMA GenerationsStep == GenerationsInv /\ [Next]_vars => GenerationsInv'
  BY StepPreserves DEF Preserved

LEMMA GenerationsInit == Init => GenerationsInv
  <1> SUFFICES ASSUME Init PROVE GenerationsInv OBVIOUS
  <1>1. Shape
    <2>1. graph \in 1..MaxGraph BY GenerationsAssumption DEF Init
    <2>2. text \in [Nodes -> Texts \cup {NoSpan, Unreadable}] BY DEF Init
    <2>3. left \in [{"builds", "edits", "faults"} -> Nat]
      <3>1. left = [builds |-> MaxBuilds, edits |-> MaxEdits, faults |-> MaxFaults] BY DEF Init
      <3>2. left = [k \in {"builds", "edits", "faults"} |-> left[k]] BY <3>1
      <3>3. \A k \in {"builds", "edits", "faults"} : left[k] \in Nat BY <3>1, GenerationsAssumption
      <3> QED BY <3>2, <3>3
    <2> QED BY <2>1, <2>2, <2>3, EmptyTypes DEF Init, Shape, Steps
  <1>2. \A i \in Ids : gens[i] = NoGen /\ rows[i] = NoRows /\ gens[i].state = "none" BY DEF Init, NoGen
  <1>3. Bounded
    <2>1. left["builds"] = MaxBuilds BY DEF Init
    <2> QED BY <2>1, GenerationsAssumption DEF Bounded
  <1>4. Store BY <1>2, <1>3, Bounds DEF Store, Fresh, NoLegacyStaging, Unique, Whole, Finished
  <1>5. \A p \in Procs : pc[p] = "idle" BY DEF Init
  <1>6. ASSUME NEW p \in Procs PROVE ProcOK(p)
    <2>1. /\ pc[p] \notin Building /\ pc[p] \notin Before /\ pc[p] \notin Held
          /\ pc[p] \notin {"discard", "discard_rows", "embed", "abort", "reload_rows", "serving"}
      BY <1>5 DEF Building, Before, Held
    <2> QED BY <2>1 DEF ProcOK, Locked, Drawn, Blank, Planned, Discards, Embeds, Loads
  <1>7. Distinct BY <1>5 DEF Distinct, Building, Before
  <1>8. TypeOK BY <1>1, <1>4, ShapeUnique DEF Store
  <1> QED BY <1>4, <1>6, <1>7, <1>8 DEF GenerationsInv

(***************************************************************************)
(* The refinement.                                                         *)
(***************************************************************************)

LEMMA ThePublished ==
  ASSUME Unique, NEW a \in Ids, gens[a].state = "active"
  PROVE  Published = [graph |-> gens[a].graph, rows |-> rows[a], excluded |-> gens[a].excluded]
  <1>1. a \in WithState("active") BY DEF WithState
  <1>2. PICK c \in WithState("active") : c = CHOOSE i \in WithState("active") : TRUE BY <1>1, Zenon
  <1>3. c = a BY DEF Unique, WithState
  <1> QED BY <1>1, <1>2, <1>3 DEF Published

LEMMA ThePublishedNext ==
  ASSUME Unique', NEW a \in Ids, gens'[a].state = "active"
  PROVE  Published' = [graph |-> gens'[a].graph, rows |-> rows'[a], excluded |-> gens'[a].excluded]
  <1>1. a \in WithState("active")' BY DEF WithState
  <1>2. PICK c \in WithState("active")' : c = CHOOSE i \in WithState("active")' : TRUE BY <1>1, Zenon
  <1>3. c = a BY DEF Unique, WithState
  <1> QED BY <1>1, <1>2, <1>3 DEF Published

NoneActive == \A i \in Ids : gens[i].state # "active"

LEMMA NonePublished ==
  ASSUME NoneActive
  PROVE  Published = [graph |-> -1, rows |-> NoRows, excluded |-> {}]
  <1>1. WithState("active") = {} BY DEF WithState, NoneActive
  <1> QED BY <1>1 DEF Published

LEMMA NonePublishedNext ==
  ASSUME NoneActive'
  PROVE  Published' = [graph |-> -1, rows |-> NoRows, excluded |-> {}]
  <1>1. WithState("active")' = {} BY DEF WithState, NoneActive
  <1> QED BY <1>1 DEF Published

(* The active generation is the same, or there was none, or a build of the *)
(* present graph has taken its place.                                      *)
SameActive == \A i \in Ids : gens'[i].state = "active" <=> gens[i].state = "active"

LEMMA Replaced ==
  ASSUME GenerationsInv, [Next]_vars
  PROVE  \/ SameActive
         \/ NoneActive /\ gens'[0].state = "active"
         \/ \E i \in Ids : gens'[i].state = "active" /\ gens'[i].graph = graph
  <1>0. Shape /\ \A p \in Procs : ProcOK(p) BY InvParts
  <1> USE DEF sidecar
  <1>1. CASE UNCHANGED gens BY <1>1 DEF SameActive
  <1>2. ASSUME NEW p \in Procs, MigrateFromLegacyVectors(p), ~UNCHANGED gens
        PROVE  NoneActive /\ gens'[0].state = "active"
    <2>1. WithState("active") = {} /\ gens' = [gens EXCEPT ![0] = LegacyGen]
      BY <1>2 DEF MigrateFromLegacyVectors, LegacyGen
    <2>2. gens'[0] = LegacyGen BY <1>0, <2>1, Bounds DEF Shape
    <2> QED BY <2>1, <2>2 DEF NoneActive, WithState, LegacyGen
  <1>3. ASSUME NEW p \in Procs, BeginDiscard(p) PROVE SameActive
    <2>1. \A i \in Ids : gens'[i] = gens[i] \/ (gens[i].state = "staging" /\ gens'[i] = NoGen)
      BY <1>0, <1>3 DEF BeginDiscard, Shape
    <2> QED BY <2>1 DEF SameActive, NoGen
  <1>4. ASSUME NEW p \in Procs, BeginInsert(p), ~UNCHANGED gens PROVE SameActive
    <2>1. pc[p] \in Before BY <1>4 DEF BeginInsert, Before
    <2>2. gens[build[p].id] = NoGen BY <1>0, <2>1 DEF ProcOK, Blank
    <2>3. \A i \in Ids : \/ gens'[i] = gens[i]
                         \/ gens[i] = NoGen /\ gens'[i] = [NoGen EXCEPT !.state = "staging", !.graph = build[p].graph]
      BY <1>0, <1>4, <2>2 DEF BeginInsert, Shape
    <2>4. NoGen.state = "none" /\ [NoGen EXCEPT !.state = "staging", !.graph = build[p].graph].state = "staging"
      BY DEF NoGen
    <2> QED BY <2>3, <2>4 DEF SameActive
  <1>5. ASSUME NEW p \in Procs, Abort(p) PROVE SameActive
    <2>1. \A i \in Ids : gens'[i] = gens[i] \/ (gens[i].state = "staging" /\ gens'[i] = NoGen)
      BY <1>0, <1>5 DEF Abort, Shape
    <2> QED BY <2>1 DEF SameActive, NoGen
  <1>6. ASSUME NEW p \in Procs, Commit(p), ~UNCHANGED gens
        PROVE  \E i \in Ids : gens'[i].state = "active" /\ gens'[i].graph = graph
    <2>1. Promote(p) /\ pc[p] = "embed" BY <1>6 DEF Commit
    <2>2. pc[p] \in Building /\ build[p].graph = graph BY <1>0, <2>1 DEF Building, ProcOK, Embeds
    <2>3. build[p].id \in Ids BY <2>2, OwnId
    <2>4. gens'[build[p].id] = Promoted(p) BY <2>1, <2>3 DEF Promote
    <2> QED BY <2>2, <2>3, <2>4 DEF Promoted
  <1>7. \/ UNCHANGED gens
        \/ \E p \in Procs : \/ MigrateFromLegacyVectors(p) \/ BeginDiscard(p) \/ BeginInsert(p) \/ Abort(p)
                            \/ Commit(p)
    BY DEF Next, vars, Open, Build, GenerateAndPersist, Begin, Reload, SyncRepo, EditDocument, Die, StartProcess,
           OpenSQLiteGenerationStore, acquireIngestLock, BuildSemanticGeneration, BeginProbe, BeginDiscardRows,
           EmbedNode, EmbedFails, Release, loadSemanticState, reloadActive, reloadRows, StopServing
  <1> QED BY <1>1, <1>2, <1>3, <1>4, <1>5, <1>6, <1>7

LEMMA CatalogStep == GenerationsInv /\ [Next]_vars => [Catalog!Publish]_Published
  <1> SUFFICES ASSUME GenerationsInv, [Next]_vars, Published' # Published PROVE Catalog!Publish OBVIOUS
  <1>0. Shape /\ Unique /\ Whole BY InvParts
  <1>1. GenerationsInv' /\ KeepsFinished BY StepPreserves DEF Preserved
  <1>2. Unique' /\ Whole' /\ rows' \in [Ids -> RowSets] /\ graph' \in 1..MaxGraph
    BY <1>1 DEF GenerationsInv, Store, TypeOK
  <1>3. ~SameActive
    <2> SUFFICES ASSUME SameActive PROVE Published' = Published OBVIOUS
    <2>1. CASE NoneActive
      <3>1. NoneActive' BY <2>1 DEF NoneActive, SameActive
      <3> QED BY <2>1, <3>1, NonePublished, NonePublishedNext
    <2>2. CASE ~NoneActive
      <3>1. PICK a \in Ids : gens[a].state = "active" BY <2>2 DEF NoneActive
      <3>2. gens'[a].state = "active" BY <3>1 DEF SameActive
      <3>3. gens'[a].graph = gens[a].graph /\ gens'[a].excluded = gens[a].excluded /\ rows'[a] = rows[a]
        BY <1>1, <3>1 DEF KeepsFinished, Finished
      <3> QED BY <1>0, <1>2, <3>1, <3>2, <3>3, ThePublished, ThePublishedNext
    <2> QED BY <2>1, <2>2
  <1>4. PICK b \in Ids : gens'[b].state = "active" /\ (NoneActive \/ gens'[b].graph = graph)
    BY <1>3, Replaced, Bounds
  <1>5. Published' = [graph |-> gens'[b].graph, rows |-> rows'[b], excluded |-> gens'[b].excluded]
    BY <1>2, <1>4, ThePublishedNext
  <1>6. WholeGen(b)' BY <1>2, <1>4 DEF Whole, Finished
  <1>7. /\ gens'[b].graph \in 0..MaxGraph
        /\ {n \in Nodes : rows'[b][n] # NoRow} = GraphNodes[gens'[b].graph] \ gens'[b].excluded
    <2>1. gens'[b].graph \in 0..graph' BY <1>6 DEF WholeGen
    <2>2. gens'[b].graph \in 0..MaxGraph BY <1>2, <2>1, GenerationsAssumption
    <2> QED BY <1>6, <2>2 DEF WholeGen, HasRow
  <1>8. Catalog!Complete(Published') BY <1>2, <1>5, <1>7 DEF Catalog!Complete, RowSets
  <1>9. Published'.graph >= Published.graph
    <2>1. Published'.graph = gens'[b].graph /\ gens'[b].graph \in 0..MaxGraph BY <1>5, <1>7
    <2>2. CASE NoneActive
      <3>1. Published.graph = -1 BY <2>2, NonePublished
      <3> QED BY <2>1, <3>1, GenerationsAssumption
    <2>3. CASE ~NoneActive
      <3>1. PICK a \in Ids : gens[a].state = "active" BY <2>3 DEF NoneActive
      <3>2. Published.graph = gens[a].graph BY <1>0, <3>1, ThePublished
      <3>3. gens[a].graph \in 0..graph BY <1>0, <3>1 DEF Whole, WholeGen, Finished
      <3>4. gens'[b].graph = graph /\ graph \in Nat BY <1>0, <1>4, <2>3 DEF Shape
      <3> QED BY <2>1, <3>2, <3>3, <3>4
    <2> QED BY <2>2, <2>3
  <1> QED BY <1>8, <1>9 DEF Catalog!Publish

LEMMA CatalogInit == Init => Catalog!Init
  <1> SUFFICES ASSUME Init PROVE Catalog!Init OBVIOUS
  <1>1. NoneActive BY DEF Init, NoneActive, NoGen
  <1> QED BY <1>1, NonePublished DEF Catalog!Init, Catalog!Nothing, NoRows

(***************************************************************************)
(* Theorems.                                                               *)
(***************************************************************************)

(* Every variable keeps its type; at most one generation is staging and at *)
(* most one active, whichever processes build, migrate or die.             *)
THEOREM GenerationsTypeCorrect == Spec => []TypeOK
  <1>1. GenerationsInv => TypeOK BY DEF GenerationsInv
  <1> QED BY <1>1, GenerationsInit, GenerationsStep, PTL DEF Spec

(* An index that a process serves has a vector for each declaration of the *)
(* generation's graph but the excluded ones, although it was reloaded      *)
(* without the lock.                                                       *)
THEOREM GenerationsServesWhole == Spec => []ServesWhole
  <1>1. GenerationsInv => ServesWhole
    <2> SUFFICES ASSUME GenerationsInv, NEW p \in Procs, pc[p] = "serving"
                 PROVE  HasRow(loaded[p].rows)
                          = GraphNodes[gens[loaded[p].id].graph] \ gens[loaded[p].id].excluded
      BY DEF ServesWhole
    <2>1. ProcOK(p) /\ Whole BY InvParts
    <2>2. /\ loaded[p].id \in Ids /\ gens[loaded[p].id].state \in Finished
          /\ loaded[p].rows = rows[loaded[p].id]
      BY <2>1 DEF ProcOK, Loads
    <2> QED BY <2>1, <2>2 DEF Whole, WholeGen
  <1> QED BY <1>1, GenerationsInit, GenerationsStep, PTL DEF Spec

(* The generation store implements VectorCatalog: the published set of     *)
(* vectors is replaced in one step by a complete one of no older graph,    *)
(* and does not change otherwise.                                          *)
THEOREM GenerationsPublishes == Spec => Publishes
  BY GenerationsInit, GenerationsStep, CatalogInit, CatalogStep, PTL DEF Spec, Publishes, Catalog!Spec
=============================================================================
