------------------------------ MODULE MCIngest ------------------------------
(* Small repositories for Ingest.                                          *)
EXTENDS Ingest

Fact(outcome, defs, bare, sels, imports, package) ==
  [outcome |-> outcome, defs |-> defs, bare |-> bare, sels |-> sels,
   imports |-> imports, package |-> package]

(* Two directories: a1 and a2 in A, b1 in B.                               *)
MCPaths == {"a1", "a2", "b1"}
MCRank  == [p \in MCPaths |-> CASE p = "a1" -> 1 [] p = "a2" -> 2 [] p = "b1" -> 3]
MCDirs  == {"A", "B"}
MCDirOf == [p \in MCPaths |-> IF p = "b1" THEN "B" ELSE "A"]

(* f and g declare a symbol and refer to a local name; fg also refers to   *)
(* g; use refers to f in its own directory, imp to A's f and usb to B's h  *)
(* through an import; none declares nothing; lone links to nothing; pkg    *)
(* mints a package; bad does not parse; deep breaches a parse bound.  F,   *)
(* Use and Imp differ from f, use and imp in a comment.                    *)
Declares == Fact("ok", {"f"}, {"h"}, {},             {},    None)
Refers   == Fact("ok", {},    {"f"}, {},             {},    None)
Imports  == Fact("ok", {"h"}, {},    {<<"A", "f">>}, {"A"}, None)
MCFacts ==
  [ f    |-> Declares, F |-> Declares, use |-> Refers, Use |-> Refers, imp |-> Imports, Imp |-> Imports,
    g    |-> Fact("ok",    {"g"}, {"h"}, {},             {},    None),
    fg   |-> Fact("ok",    {"f"}, {"g"}, {},             {},    None),
    usb  |-> Fact("ok",    {},    {},    {<<"B", "h">>}, {"B"}, None),
    none |-> Fact("ok",    {},    {"h"}, {},             {},    None),
    lone |-> Fact("ok",    {"g"}, {},    {},             {},    None),
    pkg  |-> Fact("ok",    {"g"}, {},    {},             {},    "P"),
    bad  |-> Fact("error", {},    {},    {},             {},    None),
    deep |-> Fact("bound", {},    {},    {},             {},    None) ]
MCContents == DOMAIN MCFacts

Start(x, y, z, budget) ==
  [tree |-> [p \in MCPaths |-> CASE p = "a1" -> x [] p = "a2" -> y [] p = "b1" -> z], budget |-> budget]

NoBudget == [k \in Kinds |-> 0]

(* Full passes against everything the environment can do.                  *)
FullEdits  == {<<"a1", "f", "g">>, <<"a1", "f", "pkg">>, <<"a1", "f", "bad">>, <<"a2", "use", Absent>>, <<"a2", Absent, "use">>}
FullStarts == {Start("f", "use", "imp", [k \in Kinds |-> IF k = "watch" THEN 0 ELSE 1])}

(* Two faults against changes of content that keep the file and never      *)
(* revert a declaration that an interrupted pass has already stored.       *)
RecoverEdits == {<<"a1", "f", "none">>, <<"a1", "none", "f">>, <<"a1", "f", "g">>, <<"a1", "f", "fg">>,
                 <<"a2", "use", "f">>, <<"b1", "imp", "g">>}
RecoverStart == Start("f", "use", "imp", [NoBudget EXCEPT !["edit"] = 2, !["fault"] = 2])

(* Without faults: additions, deletions, packages that two files share,    *)
(* import cycles and files that do not parse.                              *)
TreeEdits  == {<<"a1", "F", "g">>, <<"a1", "F", "bad">>, <<"a1", "bad", "F">>, <<"a1", "F", Absent>>,
               <<"a1", Absent, "F">>, <<"a2", "Use", "lone">>, <<"a2", "Use", "pkg">>, <<"a2", "pkg", "Use">>,
               <<"a2", "Use", "usb">>, <<"a2", "usb", "Use">>, <<"b1", "Imp", Absent>>, <<"b1", "Imp", "pkg">>}
TreeStarts == {Start("F", "Use", z, [NoBudget EXCEPT !["edit"] = 4]) : z \in {"Imp", "deep"}}

IncEdits  == RecoverEdits \cup TreeEdits
IncStarts == TreeStarts \cup {RecoverStart}

(* Three edits that race the passes of syncs and a watcher.                *)
RaceEdits  == {<<"a1", "f", "none">>, <<"a1", "none", "g">>, <<"a1", "f", "g">>, <<"a1", "f", "fg">>,
               <<"a1", "fg", "g">>, <<"a1", "fg", "none">>, <<"a2", "use", "f">>, <<"b1", "imp", "g">>}
RaceStarts == {Start("f", "use", "imp", [NoBudget EXCEPT !["edit"] = 3, !["watch"] = 2, !["fault"] = 1])}

(* A crash against the revert of a declaration.                            *)
RevertEdits  == {<<"a1", "f", "g">>, <<"a1", "g", "f">>}
RevertStarts == {Start("f", "use", "imp", [NoBudget EXCEPT !["edit"] = 2, !["fault"] = 1])}
=============================================================================
