------------------------------ MODULE Closure ------------------------------
(***************************************************************************)
(* tools/transdeps: the transitive dependencies of the arguments, with a   *)
(* work list that changes while it is ranged over.  What is not part of    *)
(* the round in progress may be visited in it or in the next one.          *)
(***************************************************************************)
EXTENDS Links

CONSTANTS
    StdLib,      \* the paths whose rows are of the standard library
    Arguments    \* the sets of arguments explored

ASSUME ClosureAssumption == Arguments \subseteq SUBSET Paths

VARIABLE closure

ClosureState ==
    [graph : LinkGraphs, args : Arguments, noStdLib : BOOLEAN,
     todo : SUBSET Paths, seen : SUBSET Paths, dead : SUBSET Paths,
     round : SUBSET Paths,        \* what the range in progress has yet to visit
     step : {"work", "done"},
     lost : BOOLEAN]              \* history: a Match has failed

ClosureStart(g, args, noStdLib) ==
    [graph |-> g, args |-> args, noStdLib |-> noStdLib, todo |-> args, seen |-> {},
     dead |-> {}, round |-> args, step |-> "work", lost |-> FALSE]

ClosureStarts == {ClosureStart(g, args, noStdLib) :
    g \in LinkGraphs, args \in Arguments, noStdLib \in BOOLEAN}

ClosureInit == closure \in ClosureStarts

\* The rows a Match of p delivers that were not seen before.
Fresh(p) == p \in DOMAIN closure.graph \ closure.seen

\* A path is taken from the work list, and its row, if there is one, listed.
Visits(p) ==
    /\ closure.step = "work" /\ p \in closure.todo
    /\ LET rest == closure.todo \ {p} IN closure' =
       IF Fresh(p)
       THEN [closure EXCEPT !.round = @ \ {p}, !.seen = @ \cup {p},
                !.dead = IF closure.noStdLib /\ p \in StdLib THEN @ \cup {p} ELSE @,
                !.todo = rest \cup closure.graph[p]]
       ELSE [closure EXCEPT !.round = @ \ {p}, !.todo = rest]

\* The error of a Match is dropped.
VisitFails(p) ==
    /\ closure.step = "work" /\ p \in closure.todo \ closure.seen
    /\ closure' = [closure EXCEPT !.round = @ \ {p}, !.todo = @ \ {p}, !.lost = TRUE]

\* Mutant of RoundEnds: what was added meanwhile is not visited.
RoundEndsAll ==
    /\ closure.step = "work" /\ closure.round = {}
    /\ closure' = [closure EXCEPT !.todo = {}, !.step = "done",
           !.seen = @ \ closure.dead]

\* The range ends; another begins, unless everything has been seen.
RoundEnds ==
    /\ closure.step = "work" /\ closure.round = {}
    /\ LET rest == closure.todo \ closure.seen IN closure' =
       IF rest # {} THEN [closure EXCEPT !.todo = rest, !.round = rest]
       ELSE [closure EXCEPT !.todo = {}, !.step = "done", !.seen = @ \ closure.dead]

ClosureNext == \/ \E p \in Paths : Visits(p) \/ VisitFails(p)
               \/ RoundEnds

ClosureSpec == ClosureInit /\ [][ClosureNext]_closure
-----------------------------------------------------------------------------
\* What is reachable, defined without a work list: in every set of paths that
\* has the arguments and what its rows import.
Closed(g, args, ps) == args \subseteq ps /\ Imported(g, ps) \subseteq ps
Reachable(g, args, p) == \A ps \in SUBSET Paths : Closed(g, args, ps) => p \in ps

\* When no Match failed, the list printed is that of the reachable rows, those
\* of the standard library left out on request, whatever order the work list
\* is visited in (transdeps.go:49-76).
ClosureExact ==
    closure.step = "done" /\ ~closure.lost =>
        closure.seen = {p \in DOMAIN closure.graph :
            /\ Reachable(closure.graph, closure.args, p)
            /\ ~(closure.noStdLib /\ p \in StdLib)}
=============================================================================
