--------------------------- MODULE MCRegistration ---------------------------
(* Two checkouts with the same base name and two clients.                  *)
EXTENDS Registration

MCRank == [x \in {"a", "b", "r", "s"} |-> IF x \in {"a", "r"} THEN 1 ELSE 2]
MCDefaults == [r \in {"r", "s"} |-> IF r = "r" THEN <<"n">> ELSE <<"n", "ns">>]

MCBin  == [p \in {"p", "q"} |-> IF p = "p" THEN 1 ELSE 2]
MCWritten == {Manual, [checkout |-> "r", bin |-> 1]}

Ask(kind, stores, clients) ==
  [kind |-> kind, stores |-> stores, clients |-> clients, name |-> None, adopt |-> FALSE, auto |-> FALSE]

MCRequests ==
  { [Ask("register", {"r"}, {"a", "b"}) EXCEPT !.auto = TRUE], Ask("register", {"r", "s"}, {"a"}),
    [Ask("register", {"r"}, {"a"}) EXCEPT !.name = "n", !.adopt = TRUE],
    Ask("unregister", {"r"}, {"a", "b"}), Ask("disable", {}, {"b"}) }
=============================================================================
