------------------------------- MODULE Links -------------------------------
(***************************************************************************)
(* A graph at rest, as the tools and the ranking read it: the import paths *)
(* that have a row, each with the import paths of its Directs.  A path may *)
(* be imported and have no row.                                            *)
(***************************************************************************)
EXTENDS Integers, FiniteSets

CONSTANTS
    Paths,       \* import paths
    LinkGraphs   \* the graphs explored

ASSUME LinksAssumption == \A g \in LinkGraphs :
    DOMAIN g \subseteq Paths /\ g \in [DOMAIN g -> SUBSET Paths]

\* The rows ps name import.
Imported(g, ps) == UNION {g[p] : p \in ps \cap DOMAIN g}

\* missingdeps: want without have.
Missing(g) == Imported(g, DOMAIN g) \ DOMAIN g
=============================================================================
