------------------------------- MODULE MCPoll -------------------------------
(***************************************************************************)
(* Poll on small sets.  A reference that is not a full name selects any    *)
(* branch.  Callers, repositories, digests and names are interchangeable:  *)
(* no definition of Poll tells two of them apart, and the sets of the cfg  *)
(* that mention them mention all of them.                                  *)
(***************************************************************************)
EXTENDS Poll, TLC

MCMatching == [p \in Patterns |-> IF p \in Names THEN {p} ELSE Names]

MCSymmetry == Permutations(Callers) \cup Permutations(Urls)
                  \cup Permutations(Digests) \cup Permutations(Names)
=============================================================================
