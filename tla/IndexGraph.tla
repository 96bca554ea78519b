----------------------------- MODULE IndexGraph -----------------------------
(***************************************************************************)
(* The graph that one source tree denotes.                                 *)
(*                                                                         *)
(* A file's content is an opaque token; Facts says what the parser makes   *)
(* of it.  A node is a file, a symbol, an interned package or an interned  *)
(* external symbol; an edge joins a file to what it references or imports. *)
(* A reference is attributed to the file that holds it rather than to the  *)
(* enclosing symbol, "defines" edges (implied by the nodes) are left out,  *)
(* the module map of the tree is fixed, and a directory's package clause   *)
(* is its own name.                                                        *)
(***************************************************************************)
EXTENDS Naturals, FiniteSets

CONSTANTS
  Paths,      \* repo-relative paths of the indexable files
  Rank,       \* [Paths -> Nat]: the position of a path in the sorted walk
  Dirs,       \* directories
  DirOf,      \* [Paths -> Dirs]: posixDir
  Contents,   \* file contents; the content hash is taken to be injective
  Absent,     \* no file, or no cache row
  Names,      \* bare symbol names
  Packages,   \* interned package names (Java, Kotlin)
  None,       \* the empty component of a node identity
  Facts,      \* [Contents -> ParseFacts]
  Semantic    \* does the language have a registered semantic resolver?

(* What parsing a content yields.  "error" is a syntax error, "bound" a    *)
(* breached resource bound (timeout, depth) or a file without a parser.    *)
ParseFacts ==
  [ outcome : {"ok", "error", "bound"},
    defs    : SUBSET Names,               \* symbols the file declares
    bare    : SUBSET Names,               \* deferred same-directory references
    sels    : SUBSET (Dirs \X Names),     \* deferred references through an import
    imports : SUBSET Dirs,
    package : Packages \cup {None} ]

ASSUME GraphAssumption ==
  /\ IsFiniteSet(Paths)
  /\ Absent \notin Contents
  /\ None \notin Paths \cup Names \cup Packages \cup Dirs
  /\ DirOf \in [Paths -> Dirs]
  /\ Rank \in [Paths -> Nat]
  /\ \A p, q \in Paths : Rank[p] = Rank[q] => p = q
  /\ Facts \in [Contents -> ParseFacts]
  /\ \A c \in Contents : \A x \in Facts[c].sels : x[1] \in Facts[c].imports
  /\ Semantic \in BOOLEAN

(***************************************************************************)
(* Nodes.  The identity of a file or symbol node embeds its path; package  *)
(* and external nodes have an empty path, so every file that mentions one  *)
(* mints the same node.                                                    *)
(***************************************************************************)
Node(kind, path, scope, name) ==
  [kind |-> kind, path |-> path, scope |-> scope, name |-> name]

FileNode(p)        == Node("file", p, None, None)
SymbolNode(p, n)   == Node("symbol", p, None, n)
PackageNode(k)     == Node("package", None, k, None)
ExternalNode(d, n) == Node("external", None, d, n)

Nodes ==
  [ kind  : {"file", "symbol", "package", "external"},
    path  : Paths \cup {None},
    scope : Dirs \cup Packages \cup {None},
    name  : Names \cup {None} ]

(* conf is the subset of the edges whose tier is "confirmed".              *)
Graphs == [nodes : SUBSET Nodes, edges : SUBSET (Nodes \X Nodes), conf : SUBSET (Nodes \X Nodes)]

EmptyGraph == [nodes |-> {}, edges |-> {}, conf |-> {}]

Trees == [Paths -> Contents \cup {Absent}]

Parses(c) == c # Absent /\ Facts[c].outcome = "ok"

(* The nodes the parser emits for content c at path p.                     *)
NodesOf(p, c) ==
  IF Parses(c)
    THEN {FileNode(p)} \cup {SymbolNode(p, n) : n \in Facts[c].defs}
           \cup {PackageNode(k) : k \in {Facts[c].package} \ {None}}
    ELSE {}

(* FileRefs is built only for a file with pending references or imports.   *)
HasLinks(c) == Parses(c) /\ (Facts[c].bare # {} \/ Facts[c].sels # {} \/ Facts[c].imports # {})

(***************************************************************************)
(* The linker: resolution of one file's deferred references against the    *)
(* symbol index of a committed node set.                                   *)
(***************************************************************************)
Declarers(nodes, d, n) == {q \in Paths : DirOf[q] = d /\ SymbolNode(q, n) \in nodes}

(* A name resolves in a directory only if exactly one file declares it.    *)
sameDir(nodes, d, n) ==
  {SymbolNode(q, n) : q \in {r \in Declarers(nodes, d, n) :
                               \A s \in Declarers(nodes, d, n) : s = r}}

hasDir(nodes, d) == \E n \in nodes : n.kind \in {"file", "symbol"} /\ DirOf[n.path] = d

(* A reference through an import that resolves to nothing mints an         *)
(* external node; a bare reference that does is dropped.                   *)
Externals(nodes, c) ==
  {ExternalNode(x[1], x[2]) : x \in {y \in Facts[c].sels : sameDir(nodes, y[1], y[2]) = {}}}

Targets(nodes, p, c) ==
  (UNION {sameDir(nodes, DirOf[p], n) : n \in Facts[c].bare})
    \cup (UNION {sameDir(nodes, x[1], x[2]) : x \in Facts[c].sels})
    \cup Externals(nodes, c)
    \cup {FileNode(q) : q \in {r \in Paths \ {p} : /\ DirOf[r] \in Facts[c].imports
                                                   /\ FileNode(r) \in nodes}}

LinkEdges(nodes, p, c) == {<<FileNode(p), t>> : t \in Targets(nodes, p, c)}

(***************************************************************************)
(* The semantic resolver: a whole-tree type-check, package by package,     *)
(* whose references are filtered to committed endpoints.  A directory with *)
(* a syntax error below a package clause, or on an import cycle, is        *)
(* degraded: it yields nothing, and its importers see an empty stub.       *)
(***************************************************************************)
ImportsOf(tree, d) ==
  UNION {Facts[tree[p]].imports : p \in {q \in Paths : DirOf[q] = d /\ tree[q] # Absent}}

OnCycle(tree, d) ==
  \A W \in SUBSET Dirs :
    ImportsOf(tree, d) \subseteq W /\ (\A e \in W : ImportsOf(tree, e) \subseteq W) => d \in W

Degraded(tree, d) ==
  \/ \E p \in Paths : DirOf[p] = d /\ tree[p] # Absent /\ Facts[tree[p]].outcome = "error"
  \/ OnCycle(tree, d)

TreeNodes(tree) == UNION {NodesOf(p, tree[p]) : p \in Paths}

(* The type checker keeps the first declaration of a name, in path order.  *)
Declaration(tree, d, n) ==
  LET files == Declarers(TreeNodes(tree), d, n)
  IN  {SymbolNode(q, n) : q \in {r \in files : \A s \in files : Rank[r] <= Rank[s]}}

Uses(tree, p) ==
  (UNION {Declaration(tree, DirOf[p], n) : n \in Facts[tree[p]].bare})
    \cup (UNION {Declaration(tree, x[1], x[2])
                 : x \in {y \in Facts[tree[p]].sels : ~Degraded(tree, y[1])}})

Confirmed(nodes, tree) ==
  (UNION { {<<FileNode(p), t>> : t \in Uses(tree, p)}
           : p \in {q \in Paths : Parses(tree[q]) /\ ~Degraded(tree, DirOf[q])} })
    \cap (nodes \X nodes)

(***************************************************************************)
(* The reference: the graph a first full pass over an empty store builds   *)
(* from one snapshot of the tree, before and after the semantic resolver.  *)
(***************************************************************************)
LinkedGraph(tree) ==
  LET base  == TreeNodes(tree)
      files == {p \in Paths : Parses(tree[p])}
  IN  [ nodes |-> base \cup (UNION {Externals(base, tree[p]) : p \in files}),
        edges |-> UNION {LinkEdges(base, p, tree[p]) : p \in files},
        conf  |-> {} ]

FullGraph(tree) ==
  LET conf == IF Semantic THEN Confirmed(TreeNodes(tree), tree) ELSE {}
  IN  [LinkedGraph(tree) EXCEPT !.edges = @ \cup conf, !.conf = conf]

(* Mutant of Without: the edges of a deleted node stay.                    *)
WithoutCascade(g, gone) == [g EXCEPT !.nodes = @ \ gone]

(* DeleteNode cascades to the incident edges.                              *)
Without(g, gone) ==
  [ nodes |-> g.nodes \ gone,
    edges |-> {e \in g.edges : e[1] \notin gone /\ e[2] \notin gone},
    conf  |-> {e \in g.conf  : e[1] \notin gone /\ e[2] \notin gone} ]
=============================================================================
