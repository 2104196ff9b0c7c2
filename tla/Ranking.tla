------------------------------ MODULE Ranking ------------------------------
(***************************************************************************)
(* The arithmetic of Server.Rank (service/ranking.go): every path starts   *)
(* with an equal share of the weight, a round pushes the weight of each    *)
(* row along its imports and damps it, and the result is scaled.  Weights  *)
(* are whole numbers of small units; the code's are floating-point.        *)
(***************************************************************************)
EXTENDS Links, FiniteSetsExt, Functions

CONSTANTS
    Unit,        \* the weight 1.0, divisible by every divisor that occurs
    Damping,     \* the damping factor, as <<numerator, denominator>>
    Iterations,  \* RankReq.Iterations
    Scales       \* the values of RankReq.Scale explored

ASSUME RankingAssumption ==
    /\ {Unit, Iterations, Damping[2]} \subseteq Nat \ {0}
    /\ Damping[1] \in 0 .. Damping[2]
    /\ Scales \subseteq Nat
    /\ \A g \in LinkGraphs : IsFiniteSet(DOMAIN g) /\ \A p \in DOMAIN g : IsFiniteSet(g[p])

VARIABLE ranking

\* linkMap.initialize: every path mentioned has a node.
NodesOf(g) == DOMAIN g \cup Imported(g, DOMAIN g)

\* A path without a row has no links, and neither has a row without imports.
LinksOf(g, p) == IF p \in DOMAIN g THEN g[p] ELSE {}

RankingStart(g, scale) ==
    [graph |-> g, scale |-> scale, step |-> "push", round |-> 1,
     cur |-> [p \in NodesOf(g) |-> Unit \div Cardinality(NodesOf(g))],
     next |-> [p \in NodesOf(g) |-> 0]]

RankingStarts == {RankingStart(g, scale) : g \in {g \in LinkGraphs : DOMAIN g # {}}, scale \in Scales}

RankingInit == ranking \in RankingStarts

\* What a row with imports gives to each of them.
Linked == {p \in DOMAIN ranking.cur : LinksOf(ranking.graph, p) # {}}
Shares == [p \in Linked |-> ranking.cur[p] \div Cardinality(LinksOf(ranking.graph, p))]

Importers(q) == {p \in Linked : q \in LinksOf(ranking.graph, p)}

Pushed(q) == ranking.next[q] + SumFunctionOnSet(Shares, Importers(q))

Pushes ==
    /\ ranking.step = "push"
    /\ ranking' = [ranking EXCEPT !.step = "advance",
           !.next = [q \in DOMAIN @ |-> Pushed(q)]]

Damped(q) == (Unit * (Damping[2] - Damping[1]) + Damping[1] * ranking.next[q]) \div Damping[2]

\* Mutant of Cleared: the sums of a round stay in place.
ClearedNever(next) == next

Cleared(next) == [q \in DOMAIN next |-> 0]

Advances ==
    /\ ranking.step = "advance"
    /\ ranking' = [ranking EXCEPT
           !.step = IF ranking.round = Iterations THEN "scale" ELSE "push",
           !.round = IF ranking.round = Iterations THEN @ ELSE @ + 1,
           !.cur = [q \in DOMAIN @ |-> Damped(q)],
           !.next = Cleared(@)]

\* Mutant of Apex: the largest ranking itself is the apex.
ApexItself == Max({ranking.cur[q] : q \in DOMAIN ranking.cur})

\* max + 1: so that a scaled ranking stays below the power of ten.
Apex == Max({ranking.cur[q] : q \in DOMAIN ranking.cur}) + Unit

Pow10[n \in Nat] == IF n = 0 THEN 1 ELSE 10 * Pow10[n - 1]

Scales10(p) == (Pow10[ranking.scale] * ranking.cur[p]) \div Apex

ScalesRanks ==
    /\ ranking.step = "scale"
    /\ ranking' = [ranking EXCEPT !.step = "done",
           !.next = [p \in DOMAIN @ |-> Scales10(p)]]

RankingNext == Pushes \/ Advances \/ ScalesRanks

RankingSpec == RankingInit /\ [][RankingNext]_ranking
-----------------------------------------------------------------------------
\* A push neither creates nor loses weight: what arrives, and what division
\* into whole units left over, is what the rows with imports had, the weight of
\* the other nodes staying out (ranking.go:191-207).
WeightConserved ==
    ranking.step = "advance" =>
        LET left == [p \in Linked |->
                ranking.cur[p] % Cardinality(LinksOf(ranking.graph, p))]
        IN  SumFunction(ranking.next) + SumFunction(left) = SumFunctionOnSet(ranking.cur, Linked)

\* A scaled ranking has at most the requested number of digits, and scaling
\* never turns two rankings round (ranking.go:94-109).
RanksInScale ==
    ranking.step = "done" => \A p \in DOMAIN ranking.next :
        /\ ranking.next[p] \in 0 .. Pow10[ranking.scale] - 1
        /\ \A q \in DOMAIN ranking.next :
               ranking.cur[p] <= ranking.cur[q] => ranking.next[p] <= ranking.next[q]
=============================================================================
