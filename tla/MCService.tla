----------------------------- MODULE MCService -----------------------------
(***************************************************************************)
(* The service on a small instance: two repositories at two commits, one   *)
(* with a package and one without.                                         *)
(***************************************************************************)
EXTENDS Service, TLC

CONSTANTS w1, w2, u1, u2, d1, d2

MCMatching == [p \in Patterns |-> Names]

MCContents ==
    <<u1, d1>> :> {1} @@ <<u1, d2>> :> {1} @@ <<u2, d1>> :> {} @@ <<u2, d2>> :> {}

MCFirstHead == [u \in Urls |-> [url |-> u, name |-> CHOOSE n \in Names : TRUE, digest |-> d1]]

\* One of the workers also serves direct calls, which reset u1.
MCRequests == [w \in Callers |-> IF w = w1 THEN {} ELSE
    [url : {u1}, label : {NoLabel}, ref : {AnyRef}, checkOnly : {FALSE},
     reset : {TRUE}, force : {FALSE}]]
=============================================================================
