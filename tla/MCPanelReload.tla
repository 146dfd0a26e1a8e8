--------------------------- MODULE MCPanelReload ---------------------------
(* Two projects, so that a reload can be for another one than the selected. *)
EXTENDS PanelReload, FiniteSets, TLC

CONSTANTS a, b

MCProjects == {a, b}
MCSymmetry == Permutations(MCProjects)

\* What is promised is promised until a first load goes on beside another load
\* (raced); the states after that are left to first_load.
NotRaced == ~raced

\* At most three reloads and first loads between them.
ThreeLoads ==
  Cardinality({c \in Calls : call[c].work.stage # "none"})
    + Cardinality({k \in Creates : create[k].stage # "none"}) <= 3

\* Only HEAD changes reload, first loads and reloads succeed.
FirstLoad ==
  /\ Next
  /\ \A c \in Calls : ~CallFails(c) /\ (call'[c].work.stage = "loading" => call'[c].by = "head")
  /\ \A k \in Creates : ~CreateFails(k)

FirstLoadSpec == Init /\ [][FirstLoad]_vars
=============================================================================
