------------------------------ MODULE MCUpdate ------------------------------
(***************************************************************************)
(* Update on small instances: one branch or two, two commits d1 and d2,    *)
(* and two repositories u1 and u2 whose second commit drops one package    *)
(* and adds another.                                                       *)
(***************************************************************************)
EXTENDS Update, TLC

CONSTANTS c1, c2, u1, u2, d1, d2

\* A reference that is not a full name selects any branch.
MCMatching == [p \in Patterns |-> IF p \in Names THEN {p} ELSE Names]

\* The packages of the two repositories do not meet ...
ApartContents ==
    <<u1, d1>> :> {1, 3} @@ <<u1, d2>> :> {3} @@ <<u2, d1>> :> {2} @@ <<u2, d2>> :> {4}

\* ... or package 1 moves from u1 to u2.
MovingContents ==
    <<u1, d1>> :> {1} @@ <<u1, d2>> :> {} @@ <<u2, d1>> :> {2} @@ <<u2, d2>> :> {1}

\* The requests for a repository, with those that only check or without.
ReqFor(url, checks) ==
    [url : {url}, label : {NoLabel}, ref : {AnyRef}, checkOnly : {FALSE, checks},
     reset : BOOLEAN, force : BOOLEAN]

\* Each caller has a repository of its own, as the workers of a scan do.
Own(c) == IF c = c1 THEN u1 ELSE u2
OwnUpdates == [c \in Callers |-> ReqFor(Own(c), FALSE)]
OwnRequests == [c \in Callers |-> ReqFor(Own(c), TRUE)]

\* A caller names either repository, and sometimes a branch of u1.
Branch(name) == [url |-> u1, label |-> NoLabel, ref |-> name,
                 checkOnly |-> FALSE, reset |-> FALSE, force |-> FALSE]
AnyRequests == [c \in Callers |->
    ReqFor(u1, TRUE) \cup ReqFor(u2, TRUE) \cup {Branch(name) : name \in Names}]
=============================================================================
