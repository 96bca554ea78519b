--------------------------- MODULE VectorCatalog ----------------------------
(***************************************************************************)
(* What the generation store promises its readers: one published set of    *)
(* vectors, replaced as a whole, never by one of an older graph, never by  *)
(* nothing, and complete for the graph it names.                           *)
(***************************************************************************)
EXTENDS Integers

CONSTANTS
  Nodes,       \* declarations that may have a vector
  Texts,       \* the documents that are embedded
  NoRow,       \* no vector
  MaxGraph,    \* graph identities are 0..MaxGraph in the order they arise
  GraphNodes   \* [0..MaxGraph -> SUBSET Nodes]: the declarations of a graph

VARIABLE published   \* graph identity, vectors, and declarations left out

Nothing == [graph |-> -1, rows |-> [n \in Nodes |-> NoRow], excluded |-> {}]

(* A vector for each declaration of the graph but those reported excluded. *)
Complete(p) ==
  /\ p.graph \in 0..MaxGraph
  /\ p.rows \in [Nodes -> Texts \cup {NoRow}]
  /\ {n \in Nodes : p.rows[n] # NoRow} = GraphNodes[p.graph] \ p.excluded

Init == published = Nothing

Publish ==
  /\ Complete(published')
  /\ published'.graph >= published.graph

Spec == Init /\ [][Publish]_published
=============================================================================
