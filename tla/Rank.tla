-------------------------------- MODULE Rank --------------------------------
(***************************************************************************)
(* Server.Rank (service/ranking.go) and Graph.ScanUpdate (graph/graph.go): *)
(* inside the guard it shares with Scan, load every row, compute the       *)
(* rankings, and go over the rows again; a row whose ranking differs is    *)
(* stored back whole, as it was loaded, with the new ranking.  What the    *)
(* rankings are is the business of module Ranking: here a loaded row may   *)
(* or may not differ.                                                      *)
(***************************************************************************)
EXTENDS Update, ScanGuard

VARIABLE
    rank         \* the Rank calls in progress, by client

RankState == [step : {"load", "write", "end"},
              update : BOOLEAN,        \* RankReq.Update
              todo : SUBSET Packages,  \* listed rows not yet visited
              held : {<< >>} \cup Packages \X Row]  \* the row about to be stored

Ranking(r, step) == r \in DOMAIN rank /\ rank[r].step = step

\* p is the next row of the listing r goes over.
Upcoming(r, p) == p \in rank[r].todo /\ \A q \in rank[r].todo : p <= q

-----------------------------------------------------------------------------
RankBegins(r, update) ==
    /\ ~(ReadOnly /\ update)
    /\ Admitted(r)
    /\ rank' = Put(rank, r, [step |-> "load", update |-> update,
                             todo |-> Listing(graph), held |-> << >>])
    /\ UNCHANGED updateVars

RankRefused(r, update) ==
    /\ ~(ReadOnly /\ update)
    /\ Refused(r)
    /\ UNCHANGED <<updateVars, rank>>

\* A row enters the link graph.
RankLoads(r, p) ==
    /\ Ranking(r, "load") /\ Upcoming(r, p) /\ p \in DOMAIN graph
    /\ rank' = [rank EXCEPT ![r].todo = @ \ {p}]
    /\ UNCHANGED <<updateVars, guardVars>>

\* The rankings are computed; the rows are listed again.
RankComputes(r) ==
    /\ Ranking(r, "load") /\ rank[r].todo = {}
    /\ rank' = [rank EXCEPT ![r].step = "write", ![r].todo = Listing(graph)]
    /\ UNCHANGED <<updateVars, guardVars>>

\* ScanUpdate loads a row; if its ranking differs, and the request says so,
\* it is changed in memory.
RankReads(r, p, differs) ==
    /\ Ranking(r, "write") /\ rank[r].held = << >>
    /\ Upcoming(r, p) /\ p \in DOMAIN graph
    /\ rank' = [rank EXCEPT ![r].todo = @ \ {p},
           ![r].held = IF differs /\ rank[r].update THEN <<p, graph[p]>> ELSE << >>]
    /\ UNCHANGED <<updateVars, guardVars>>

\* ScanUpdate stores the row it has loaded.
RankStores(r) ==
    /\ Ranking(r, "write") /\ rank[r].held # << >>
    /\ graph' = Put(graph, rank[r].held[1], rank[r].held[2])
    /\ rank' = [rank EXCEPT ![r].held = << >>]
    /\ UNCHANGED <<pollVars, call, guardVars>>

\* The call ends with an error.
RankAborts(r) ==
    /\ rank' = [rank EXCEPT ![r].step = "end", ![r].todo = {}, ![r].held = << >>]
    /\ UNCHANGED <<updateVars, guardVars>>

\* A listed row is gone by the time it is loaded ...
RankMisses(r, p) ==
    /\ r \in DOMAIN rank /\ rank[r].held = << >>
    /\ Upcoming(r, p) /\ p \notin DOMAIN graph
    /\ RankAborts(r)

\* ... or the store fails.
RankFails(r) ==
    /\ "store" \in Faults
    /\ r \in DOMAIN rank /\ rank[r].step # "end"
    /\ RankAborts(r)

RankReturns(r) ==
    /\ r \in DOMAIN rank
    /\ rank[r].step # "load" /\ rank[r].todo = {} /\ rank[r].held = << >>
    /\ Done(r)
    /\ rank' = Drop(rank, r)
    /\ UNCHANGED updateVars

\* What a call does when the store does not fail.
RankStep(r) ==
    \/ \E p \in Packages :
           \/ RankLoads(r, p) \/ RankMisses(r, p)
           \/ \E differs \in BOOLEAN : RankReads(r, p, differs)
    \/ RankComputes(r)
    \/ RankStores(r)
    \/ RankReturns(r)
-----------------------------------------------------------------------------
\* The calls in progress have their type and are inside the guard.
RankTypeOK == IsMap(rank, Clients, RankState) /\ DOMAIN rank \subseteq busy
=============================================================================
